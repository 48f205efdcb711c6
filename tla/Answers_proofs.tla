---------------------------- MODULE Answers_proofs ----------------------------
(****************************************************************************)
(* Proofs about Modules: each answer reaches the module that asked for it,   *)
(* and each request of a peer gets its reply, EachAnsweredOnce.              *)
(*                                                                          *)
(* A module knows an answer by its id. So the ids that are waited for are    *)
(* told apart (IdsApart), the one a request is about to be stored with is    *)
(* none of them (NewIds), what is sent, on its way or in the queue has the   *)
(* id of its kind (ProperIds) and is there once (OneWay). Then the module    *)
(* that asked is still ahead while the object is handed on (StillAhead), and *)
(* what has been done and the steps that are left make what is due (Doing).  *)
(****************************************************************************)
EXTENDS Modules_proofs

(* Kinds of requests whose answers a module waits for; the id of a request for *)
(* the roster is that of the session, the others have one each.              *)
Awaited == Kind \ {"bind", "roster_set", "set_vcard"}
PlainKinds == Awaited \ {"roster"}

(* The kinds whose answers are taken.                                        *)
Heeded == Awaited \ Kinds("presence")

Taking == Kinds("search") \cup Kinds("private") \cup Kinds("version") \cup Kinds("ping")
          \cup Kinds("disco") \cup Kinds("session") \cup {"info", "vcard"}

(* What the application and its callbacks ask for is not what the modules ask *)
(* for by themselves.                                                       *)
Public == (AppKinds \cup CallbackKinds) \cap {"bind", "session", "disco"} = {}

(* The ids that callers of PrivateDataModule choose are all different.         *)
Separate ==
    /\ \A k \in Kinds("private") : \A id \in Given[k] : id > PushId
    /\ \A k, l \in Kinds("private") : k # l => Given[k] \cap Given[l] = {}

(* What a peer asks: requests with ids of their own or without an id, messages *)
(* and presence.                                                            *)
Foreign(obj) ==
    /\ obj.re = "none" /\ obj.query # "bind"
    /\ obj.tag = "iq" => /\ obj.type \in {"get", "set"} /\ (obj.id > PushId \/ obj.id = 0)
                         /\ \A k \in Kinds("private") : obj.id \notin Given[k]

Polite == \A mod \in Module : \A obj \in PeerRequests[mod] :
              Foreign(obj) /\ (obj.tag # "iq" => obj.tag = mod)

Asking == {"check", "store", "send"}

Asks(t, k) ==
    /\ k \in {"session", "disco"} => t = "rx"
    /\ k # "bind" => \E mod \in Range(modules) : k \in Kinds(mod)

(* The steps that a thread may have left, as far as requests are concerned.  *)
Askers ==
    /\ \A t \in Thread : \A step \in Range(todo[t]) :
          /\ step.op \in Asking => Asks(t, step.what)
          /\ step.op = "forget" => step.what \in Taking
    /\ \A t \in Thread : todo[t] # <<>> =>
          \A step \in Range(Tail(todo[t])) : step.op \notin {"store", "send"}

(* The threads rest between two sessions.                                    *)
Between ==
    /\ state = "closed" => ~running /\ todo["rx"] = <<>>
    /\ todo["run"] # <<>> => ~running /\ todo["rx"] = <<>>
    /\ ~running => wire = {}
    /\ session = 0 => state = "closed" /\ ~running

(* The ids that may be in use for requests of a kind.                         *)
InUse(k) ==
    IF k = "roster" THEN {RosterId(n) : n \in 1..session}
    ELSE IF k \in Kinds("private") THEN (1..asks) \cup Given[k] ELSE 1..asks

IdsApart ==
    /\ asks <= MaxAsk /\ session <= MaxSession
    /\ \A k \in Kind : k \notin Awaited => ids[k] \subseteq {0}
    /\ \A k \in Awaited : ids[k] \subseteq InUse(k) \cup {0}
    /\ \A k, l \in Kind : k # l => ids[k] \cap ids[l] \subseteq {0}

(* A request with this id has been stored, sent or answered.                  *)
Claimed(n) ==
    \/ \E t \in Thread : \E step \in Range(todo[t]) : step.op = "send" /\ step.n = n
    \/ \E req \in wire : req.id = n
    \/ \E i \in DOMAIN rx_queue : rx_queue[i].re # "none" /\ rx_queue[i].id = n

(* The id that a request is about to be stored with is new.                   *)
NewIds ==
    /\ \A t \in Thread : \A step \in Range(todo[t]) : step.op = "store" /\ step.what # "bind" =>
          /\ step.n \in 1..asks /\ \A k \in Kind : step.n \notin ids[k]
          /\ step.what = "roster" => session # 0
          /\ ~Claimed(step.n)
    /\ \A t, u \in Thread : \A a \in Range(todo[t]), b \in Range(todo[u]) :
          a.op = "store" /\ b.op = "store" /\ t # u /\ a.what # "bind" /\ b.what # "bind" => a.n # b.n

(* A request that is sent, or its answer, has an id that no other kind waits  *)
(* for. Its own kind waits for it, or had room for one id and has another.   *)
Proper(k, id) ==
    /\ k \in {"bind", "roster_set"} => id = FixedId
    /\ k \notin {"bind", "roster_set"} => id \in InUse(k)
    /\ k \in Awaited /\ k \notin Single => id \in ids[k]
    /\ k = "roster" => \E m, last \in 1..session :
          m <= last /\ id = RosterId(m) /\ ids["roster"] = {RosterId(last)}
    /\ \A l \in Kind : l # k => id \notin ids[l]

(* No module has handled the i-th object, or the one that has is about to     *)
(* forget its id.                                                            *)
Pending(i) == i \in DOMAIN rx_queue /\ (i > 1 \/ todo["rx"] = <<>> \/ Now("rx", "process") \/ Now("rx", "forget"))

IsAsker(k) == \E mod \in Range(modules) : k \in Kinds(mod)

ProperIds ==
    /\ \A t \in Thread : \A step \in Range(todo[t]) : step.op = "send" => Proper(step.what, step.n)
    /\ \A req \in wire : Proper(req.kind, req.id) /\ (req.id \in ids[req.kind] => IsAsker(req.kind))
    /\ \A i \in DOMAIN rx_queue : Pending(i) /\ rx_queue[i].re # "none" =>
          /\ Proper(rx_queue[i].re, rx_queue[i].id)
          /\ \/ i = 1 /\ Now("rx", "forget")
             \/ rx_queue[i].id \notin ids[rx_queue[i].re]
             \/ IsAsker(rx_queue[i].re)

(* Each request is in one place.                                             *)
Same(k, id, l, n) == k \in PlainKinds /\ k = l /\ id = n

OneWay ==
    /\ \A t, u \in Thread : \A a \in Range(todo[t]), b \in Range(todo[u]) :
          a.op = "send" /\ b.op = "send" /\ t # u => ~Same(a.what, a.n, b.what, b.n)
    /\ \A t \in Thread : \A a \in Range(todo[t]) : a.op = "send" =>
          /\ \A req \in wire : ~Same(req.kind, req.id, a.what, a.n)
          /\ \A i \in DOMAIN rx_queue : Pending(i) => ~Same(rx_queue[i].re, rx_queue[i].id, a.what, a.n)
    /\ \A req, other \in wire : Same(req.kind, req.id, other.kind, other.id) => req = other
    /\ \A req \in wire : \A i \in DOMAIN rx_queue :
          Pending(i) => ~Same(rx_queue[i].re, rx_queue[i].id, req.kind, req.id)
    /\ \A i, j \in DOMAIN rx_queue : Pending(i) /\ Pending(j)
          /\ Same(rx_queue[i].re, rx_queue[i].id, rx_queue[j].re, rx_queue[j].id) => i = j

(* The objects that may be received.                                         *)
Distinct(items) == \A i, j \in DOMAIN items : items[i].jid = items[j].jid => i = j

Sound(obj) ==
    /\ obj.tag \in {"stream", "features", "timeout"} => obj.type = "none"
    /\ obj.tag # "iq" => obj.re = "none" /\ obj.query # "bind"
    /\ obj.tag = "iq" /\ obj.type \in {"get", "set"} => obj.re = "none" /\ obj.query # "bind"
    /\ obj.tag = "iq" => obj.type # "none"
    /\ obj.tag = "iq" /\ obj.re = "none" =>
          /\ obj.id >= FixedId \/ (obj.id = 0 /\ obj.type \in {"get", "set"})
          /\ \A k \in Kinds("private") : obj.id \notin Given[k]
    /\ obj.re # "none" =>
          /\ obj.re \in Heeded \cup {"set_vcard"} /\ obj.id \in InUse(obj.re)
          /\ obj.query = (IF obj.type = "result" /\ obj.re = "roster" THEN "roster" ELSE "none")
    /\ obj.re = "roster" => Distinct(obj.items)
    /\ obj.tag \in {"message", "presence"} => obj.tag \in Range(modules)

Objects == \A i \in DOMAIN rx_queue : Sound(rx_queue[i])

RosterDistinct == Distinct(roster) /\ (Registered("roster") \/ roster = <<>>)

(* The module that is to have the object is still to be called.              *)
ForMe(mod) ==
    \/ Object0.re # "none" /\ Object0.re \in Kinds(mod) /\ Object0.id \in ids[Object0.re]
    \/ Object0.tag \in {"message", "presence"} /\ Object0.tag = mod

StillAhead == Now("rx", "process") =>
     /\ did = <<>>
     /\ \A mod \in Module : ForMe(mod) => \E i \in DOMAIN modules : i >= This("rx").n /\ modules[i] = mod

(* What a step does for the object, and what the steps after it do.          *)
Does(step) ==
    IF step.op = "callback" THEN <<step.what>> ELSE IF step.op = "reply" THEN <<"reply">> ELSE <<>>

MayPrecede(a, b) ==
    \/ b = Ask("bind") /\ a.op = "reply"
    \/ b.op = "callback" /\ a.op = "forget"
    \/ b.op = "reply" /\ a.op \in Asking \cup {"callback", "keep", "correct", "reset", "write"}
    \/ b.op = "told" /\ a.op \in Asking \cup {"arm", "cancel", "timeout"}

Owes(s, owed) ==
    \/ s = <<Popping>> /\ owed = <<>>
    \/ \E a : s = <<a, Popping>> /\ owed = Does(a)
    \/ \E a, b : s = <<a, b, Popping>> /\ MayPrecede(a, b) /\ owed = Does(a) \o Does(b)

(* What may have been done for an object in the end.                          *)
Outcome(done) ==
    \/ done = Due(Object0)
    \/ done = <<>> /\ Lost(Object0) /\ Proper(Object0.re, Object0.id)
    \/ Swallowed(Object0) /\ done \in {<<"session">>, <<"disco">>}

Doing ==
    /\ todo["rx"] = <<>> => did = <<>>
    /\ todo["rx"] # <<>> /\ ~Now("rx", "process") =>
         \E owed : Owes(todo["rx"], owed) /\ Outcome(did \o owed)
    /\ Now("rx", "forget") =>
          /\ This("rx").n = Object0.id
          /\ \/ This("rx").what = Object0.re
             \/ This("rx").what = "disco" /\ Swallowed(Object0)

-----------------------------------------------------------------------------
(* The steps of a thread after a step of some thread: those it had, and those *)
(* of N, of which only the first is to store or to send.                     *)
Became(t, N) ==
    /\ \A step \in Range(todo'[t]) : step \in Range(todo[t]) \/ step \in N
    /\ todo'[t] # <<>> => \A step \in Range(Tail(todo'[t])) :
          \/ todo[t] # <<>> /\ step \in Range(Tail(todo[t]))
          \/ step \in N /\ step.op \notin {"store", "send"}

LEMMA RangeOfTail ==
    ASSUME NEW S, NEW s \in Seq(S), s # <<>> PROVE Range(Tail(s)) \subseteq Range(s)
  BY HeadAndTail

LEMMA BecameSame == ASSUME NEW t, todo'[t] = todo[t] PROVE Became(t, {})
  BY DEF Became

LEMMA BecameNothing ==
    ASSUME Shape, NEW t \in Thread, todo[t] # <<>>, Then(t, <<>>) PROVE Became(t, {})
<1>1. PICK rest : rest = Tail(todo[t])
  OBVIOUS
<1>2. rest \in Seq(StepOK) /\ todo \in [Thread -> Seq(StepOK)]
  BY <1>1, HeadAndTail DEF Shape
<1>3. todo'[t] = rest
  <2>1. <<>> \o rest = rest
    BY <1>2, FirstOf
  <2>2. todo'[t] = <<>> \o rest
    BY <1>1, <1>2 DEF Then
  <2> QED BY <2>1, <2>2
<1>4. Range(rest) \subseteq Range(todo[t])
  BY <1>1, <1>2, RangeOfTail
<1>5. rest # <<>> => Range(Tail(rest)) \subseteq Range(rest)
  BY <1>2, RangeOfTail
<1> QED BY <1>1, <1>3, <1>4, <1>5 DEF Became

LEMMA BecameOne ==
    ASSUME Shape, NEW t \in Thread, todo[t] # <<>>, NEW a, Then(t, <<a>>) PROVE Became(t, {a})
<1>1. PICK rest : rest = Tail(todo[t])
  OBVIOUS
<1>2. rest \in Seq(StepOK) /\ todo \in [Thread -> Seq(StepOK)]
  BY <1>1, HeadAndTail DEF Shape
<1>3. PICK new : new = <<a>> \o rest
  OBVIOUS
<1>4. todo'[t] = new /\ Tail(new) = rest
  <2>1. Tail(new) = rest
    BY <1>2, <1>3, FirstOf
  <2>2. todo'[t] = <<a>> \o rest
    BY <1>1, <1>2 DEF Then
  <2> QED BY <1>3, <2>1, <2>2
<1>5. Range(new) = {a} \cup Range(rest)
  <2>1. PICK S : S = StepOK \cup {a}
    OBVIOUS
  <2>2. <<a>> \in Seq(S) /\ rest \in Seq(S)
    BY <1>2, <2>1, SeqMonotonic
  <2>3. Range(new) = Range(<<a>>) \cup Range(rest)
    BY <1>3, <2>2, RangeConcatenation, ZenonT(30)
  <2> QED BY <2>3, OneElement
<1>6. Range(rest) \subseteq Range(todo[t])
  BY <1>1, <1>2, RangeOfTail
<1> QED BY <1>1, <1>4, <1>5, <1>6 DEF Became

LEMMA BecameTwo ==
    ASSUME Shape, NEW t \in Thread, todo[t] # <<>>, NEW a, NEW b, Then(t, <<a>> \o <<b>>),
           b.op \notin {"store", "send"}
    PROVE  Became(t, {a, b})
<1>1. PICK rest : rest = Tail(todo[t])
  OBVIOUS
<1>2. rest \in Seq(StepOK) /\ todo \in [Thread -> Seq(StepOK)]
  BY <1>1, HeadAndTail DEF Shape
<1>3. PICK S : S = StepOK \cup {a, b}
  OBVIOUS
<1>4. <<a>> \in Seq(S) /\ <<b>> \in Seq(S) /\ rest \in Seq(S)
  BY <1>2, <1>3, SeqMonotonic
<1>5. PICK last : last = <<b>> \o rest
  OBVIOUS
<1>6. last \in Seq(S) /\ Range(last) = {b} \cup Range(rest)
  <2>1. Range(last) = Range(<<b>>) \cup Range(rest)
    BY <1>4, <1>5, RangeConcatenation, ZenonT(30)
  <2> QED BY <1>4, <1>5, <2>1, OneElement, ConcatProperties
<1>7. PICK new : new = <<a>> \o last
  OBVIOUS
<1>8. Tail(new) = last /\ Range(new) = {a} \cup Range(last)
  <2>1. Tail(new) = last
    BY <1>6, <1>7, FirstOf
  <2>2. <<a>> \in Seq(S) /\ last \in Seq(S)
    BY <1>4, <1>6
  <2>3. Range(new) = Range(<<a>>) \cup Range(last)
    BY <1>7, <2>2, RangeConcatenation, ZenonT(30)
  <2> QED BY <2>1, <2>3, OneElement
<1>9. todo'[t] = new
  <2>1. todo'[t] = (<<a>> \o <<b>>) \o rest
    BY <1>1, <1>2 DEF Then
  <2>2. (<<a>> \o <<b>>) \o rest = <<a>> \o (<<b>> \o rest)
    BY <1>4, ConcatAssociative
  <2> QED BY <1>5, <1>7, <2>1, <2>2
<1>10. Range(rest) \subseteq Range(todo[t])
  BY <1>1, <1>2, RangeOfTail
<1> QED BY <1>1, <1>6, <1>8, <1>9, <1>10 DEF Became

LEMMA BecameStarts ==
    ASSUME Shape, NEW t \in Thread, NEW a, Starts(t, <<a>>) PROVE Became(t, {a})
<1>1. todo'[t] = <<a>>
  BY DEF Starts, Shape
<1>2. Range(<<a>>) = {a} /\ Tail(<<a>>) = <<>> /\ Range(<<>>) = {}
  BY OneElement
<1> QED BY <1>1, <1>2 DEF Became

-----------------------------------------------------------------------------
(* Whom an object is taken for by its id.                                     *)
TakenFor(mod, k) == k \in Kinds(mod) \cap Heeded /\ Waits(k)

(* What a module does with the first object.                                 *)
Hands(mod) ==
    \/ /\ Passes /\ modules' = modules
       /\ \A k \in Kind : TakenFor(mod, k) =>
             \/ mod \in {"version", "ping"} /\ Object0.type = "get"
             \/ mod = "roster" /\ Object0.type \notin {"result", "error"}
             \/ mod = "roster" /\ Object0.type = "result" /\ Object0.query # "roster"
       /\ mod \in {"message", "presence"} => Object0.tag # mod
    \/ \E k \in Taking :
          /\ TakenFor(mod, k) /\ Handles(<<Forgetting(k), Callback(k)>>)
          /\ \/ modules' = modules /\ mod # "session"
             \/ /\ mod = "session" /\ Object0.type = "result"
                /\ modules' = RemoveAt(modules, This("rx").n)
    \/ \E k \in Kind : TakenFor(mod, k) /\ Handles(<<Callback(k)>>) /\ modules' = modules
                       /\ (mod = "roster" => Object0.type \in {"result", "error"})
    \/ Iq /\ Object0.type \in {"get", "set"} /\ Handles(<<Reply>>) /\ modules' = modules
    \/ /\ mod = "core" /\ (Object0.tag = "stream" \/ Object0.query = "bind")
       /\ \E new \in {"negotiating", "bound"} : Handles(<<Step("state", new, 0)>>)
       /\ modules' = modules
    \/ mod = "keepalive" /\ Object0.tag = "timeout" /\ Handles(<<Arm>>) /\ modules' = modules
    \/ mod = "presence" /\ Object0.tag = "presence" /\ Handles(<<Callback("presence")>>) /\ modules' = modules
    \/ /\ mod = "message" /\ Object0.tag = "message" /\ modules' = modules
       /\ \E k \in {"receipt", "message"} :
             /\ k = "receipt" <=> Object0.query = "received"
             /\ IF Object0.query = "request" /\ (AlwaysReceipt \/ is_jid_authorized(Object0.from))
                THEN Handles(<<Callback(k)>> \o <<Reply>>)
                ELSE Handles(<<Callback(k)>>)

LEMMA HeededKinds ==
    /\ Heeded = Taking \cup {"register", "unregister", "password", "roster"}
    /\ Taking = {"session", "disco", "query_info", "info", "fields", "vcard", "private_set",
                 "private_get", "version", "ping"}
    /\ Taking \subseteq Kind
    /\ Kind = Heeded \cup {"bind", "roster_set", "set_vcard", "announce", "probe", "subscription"}
<1>1. Taking = {"session", "disco", "query_info", "info", "fields", "vcard", "private_set",
                "private_get", "version", "ping"}
  BY KindsOf DEF Taking
<1>2. Kind = {"session", "disco", "query_info", "info", "fields", "vcard", "private_set",
              "private_get", "version", "ping", "register", "unregister", "password", "roster",
              "bind", "roster_set", "set_vcard", "announce", "probe", "subscription"}
  <2>1. \A k : k \in Kind <=> \E mod \in Module : k \in Kinds(mod)
    BY DEF Kind
  <2>2. ASSUME NEW mod \in Module, NEW k \in Kinds(mod)
        PROVE  k \in {"session", "disco", "query_info", "info", "fields", "vcard", "private_set",
              "private_get", "version", "ping", "register", "unregister", "password", "roster",
              "bind", "roster_set", "set_vcard", "announce", "probe", "subscription"}
    BY KindsOf DEF Module
  <2> QED BY <2>1, <2>2, KindNames
<1>3. Heeded = Kind \ {"bind", "roster_set", "set_vcard", "announce", "probe", "subscription"}
  BY KindsOf DEF Heeded, Awaited
<1>4. Heeded = Taking \cup {"register", "unregister", "password", "roster"}
  BY <1>1, <1>2, <1>3
<1> QED BY <1>1, <1>2, <1>3, <1>4

LEMMA ModuleHands ==
    ASSUME NEW mod \in Module, ModuleStep(mod), ids["set_vcard"] \subseteq {0}
    PROVE  Now("rx", "process") /\ Hands(mod)
<1>1. \A k : k \in Taking <=> k \in {"session", "disco", "query_info", "info", "fields", "vcard",
                "private_set", "private_get", "version", "ping"}
  BY HeededKinds
<1>2. \A k \in Kind : k \in Heeded <=> k \notin {"bind", "roster_set", "set_vcard", "announce", "probe",
                                                 "subscription"}
  BY HeededKinds, KindsOf
<1>3. \A k : Takes(k) <=> Handles(<<Forgetting(k), Callback(k)>>)
  BY DEF Takes
<1>4. CASE mod = "core" /\ Core
  <2>1. Kinds("core") = {"bind"}
    BY KindsOf
  <2> QED BY <1>2, <1>4, <2>1 DEF Core, Calls, Hands, TakenFor, modVars
<1>5. CASE mod = "keepalive" /\ KeepAlive
  <2>1. Kinds("keepalive") = {}
    BY KindsOf
  <2> QED BY <1>5, <2>1 DEF KeepAlive, Calls, Hands, TakenFor, modVars
<1>6. CASE mod = "register" /\ Register
  <2>1. Kinds("register") = {"info", "register", "unregister", "password"}
    BY KindsOf
  <2>2. modules' = modules
    BY <1>6 DEF Register, Others, modVars
  <2>3. CASE Waits("info")
    BY <1>1, <1>2, <1>3, <1>6, <2>1, <2>2, <2>3, KindNames DEF Register, Calls, Hands, TakenFor
  <2>4. CASE ~Waits("info") /\ \E k \in Kinds("register") : Waits(k)
    <3>1. PICK k : k = CHOOSE k2 \in Kinds("register") : Waits(k2)
      OBVIOUS
    <3>2. k \in Kinds("register") /\ Waits(k)
      BY <2>4, <3>1
    <3>3. Handles(<<Callback(k)>>) /\ Now("rx", "process")
      BY <1>6, <2>4, <3>1 DEF Register, Calls
    <3>4. k \in Kind /\ TakenFor(mod, k)
      BY <1>2, <1>6, <2>1, <3>2, KindNames DEF TakenFor
    <3> QED BY <1>6, <2>2, <3>3, <3>4 DEF Hands
  <2>5. CASE ~ \E k \in Kinds("register") : Waits(k)
    BY <1>6, <2>1, <2>2, <2>5 DEF Register, Calls, Hands, TakenFor
  <2> QED BY <2>3, <2>4, <2>5
<1>7. CASE mod = "search" /\ Search
  <2>1. Kinds("search") = {"fields"}
    BY KindsOf
  <2> QED BY <1>1, <1>2, <1>3, <1>7, <2>1, KindNames DEF Search, Calls, Hands, TakenFor, Others, modVars
<1>8. CASE mod = "vcard" /\ Vcard
  <2>1. Kinds("vcard") = {"vcard", "set_vcard"}
    BY KindsOf
  <2>2. ~Waits("set_vcard")
    BY DEF Waits
  <2>3. Now("rx", "process") /\ modules' = modules
        /\ IF Waits("vcard") THEN Handles(<<Forgetting("vcard"), Callback("vcard")>>) ELSE Passes
    BY <1>3, <1>8, <2>2 DEF Vcard, Calls, Others, modVars
  <2>4. "vcard" \in Taking /\ "vcard" \in Kind /\ "vcard" \in Heeded
    BY <1>1, <1>2, KindNames
  <2>5. \A k \in Kind : TakenFor(mod, k) => k = "vcard" /\ Waits("vcard")
    BY <1>8, <2>1, <2>2 DEF TakenFor
  <2>6. CASE Waits("vcard")
    <3>1. TakenFor(mod, "vcard")
      BY <1>8, <2>1, <2>4, <2>6 DEF TakenFor
    <3>2. Handles(<<Forgetting("vcard"), Callback("vcard")>>) /\ mod # "session"
      BY <1>8, <2>3, <2>6
    <3>3. \E k \in Taking :
            /\ TakenFor(mod, k) /\ Handles(<<Forgetting(k), Callback(k)>>)
            /\ modules' = modules /\ mod # "session"
      BY <2>3, <2>4, <3>1, <3>2, Zenon
    <3> QED BY <2>3, <3>3, Zenon DEF Hands
  <2>7. CASE ~Waits("vcard")
    BY <1>8, <2>3, <2>5, <2>7 DEF Hands
  <2> QED BY <2>6, <2>7
<1>9. CASE mod = "private" /\ Private
  <2>1. Kinds("private") = {"private_set", "private_get"}
    BY KindsOf
  <2> QED BY <1>1, <1>2, <1>3, <1>9, <2>1, KindNames DEF Private, Calls, Hands, TakenFor, Others, modVars
<1>10. CASE mod = "version" /\ Version
  <2>1. Kinds("version") = {"version"}
    BY KindsOf
  <2> QED BY <1>1, <1>2, <1>3, <1>10, <2>1, KindNames DEF Version, Calls, Hands, TakenFor, Others, modVars
<1>11. CASE mod = "ping" /\ Ping
  <2>1. Kinds("ping") = {"ping"}
    BY KindsOf
  <2> QED BY <1>1, <1>2, <1>3, <1>11, <2>1, KindNames DEF Ping, Calls, Hands, TakenFor, Others, modVars
<1>12. CASE mod = "disco" /\ Disco
  <2>1. Kinds("disco") = {"disco", "query_info"}
    BY KindsOf
  <2> QED BY <1>1, <1>2, <1>3, <1>12, <2>1, KindNames DEF Disco, Calls, Hands, TakenFor, Others, modVars
<1>13. CASE mod = "session" /\ SessionResult
  <2>1. Kinds("session") = {"session"}
    BY KindsOf
  <2> QED BY <1>1, <1>2, <1>3, <1>13, <2>1, KindNames DEF SessionResult, Calls, Hands, TakenFor
<1>14. CASE mod = "message" /\ Message
  <2>1. Kinds("message") = {} /\ modules' = modules /\ Now("rx", "process")
    BY <1>14, KindsOf DEF Message, Calls, Others, modVars
  <2>2. CASE Object0.tag # "message"
    BY <1>14, <2>1, <2>2 DEF Message, Hands, TakenFor
  <2>3. CASE Object0.tag = "message"
    <3>1. PICK k : k = IF Object0.query = "received" THEN "receipt" ELSE "message"
      OBVIOUS
    <3>2. PICK asked : asked = (Object0.query = "request" /\ (AlwaysReceipt \/ is_jid_authorized(Object0.from)))
      OBVIOUS
    <3>3. Handles(<<Callback(k)>> \o (IF asked THEN <<Reply>> ELSE <<>>))
      BY <1>14, <2>3, <3>1, <3>2, Zenon DEF Message
    <3>4. <<Callback(k)>> \o <<>> = <<Callback(k)>>
      OBVIOUS
    <3>5. IF asked THEN Handles(<<Callback(k)>> \o <<Reply>>) ELSE Handles(<<Callback(k)>>)
      BY <3>3, <3>4
    <3>6. k \in {"receipt", "message"} /\ (k = "receipt" <=> Object0.query = "received")
      BY <3>1
    <3> QED BY <1>14, <2>1, <2>3, <3>2, <3>5, <3>6 DEF Hands
  <2> QED BY <2>2, <2>3
<1>15. CASE mod = "presence" /\ Presence
  <2>1. Kinds("presence") = {"announce", "probe", "subscription"} /\ modules' = modules /\ Now("rx", "process")
    BY <1>15, KindsOf DEF Presence, Calls, Others, modVars
  <2>2. \A k \in Kind : ~TakenFor(mod, k)
    BY <1>2, <1>15, <2>1 DEF TakenFor
  <2> QED BY <1>15, <2>1, <2>2 DEF Presence, Hands
<1>16. CASE mod = "roster" /\ Roster
  <2>1. Kinds("roster") = {"roster", "roster_set"} /\ modules' = modules /\ Now("rx", "process")
    BY <1>16, KindsOf DEF Roster, Calls
  <2>2. CASE RosterPush /\ Handles(<<Reply>>)
    BY <2>1, <2>2 DEF Hands, RosterPush
  <2>3. CASE Waits("roster") /\ Object0.type \in {"result", "error"} /\ Handles(<<Callback("roster")>>)
    <3>1. "roster" \in Kind /\ TakenFor(mod, "roster")
      BY <1>2, <1>16, <2>1, <2>3, KindNames DEF TakenFor
    <3> QED BY <2>1, <2>3, <3>1 DEF Hands
  <2>4. CASE /\ Passes
             /\ \/ ~Waits("roster") \/ Object0.type \notin {"result", "error"}
                \/ Object0.type = "result" /\ Object0.query # "roster"
    <3>1. \A k \in Kind : TakenFor(mod, k) => k = "roster" /\ Waits("roster")
      BY <1>2, <1>16, <2>1 DEF TakenFor
    <3> QED BY <1>16, <2>1, <2>4, <3>1 DEF Hands
  <2> QED BY <1>16, <2>2, <2>3, <2>4 DEF Roster
<1> QED BY <1>4, <1>5, <1>6, <1>7, <1>8, <1>9, <1>10, <1>11, <1>12, <1>13, <1>14, <1>15, <1>16
        DEF ModuleStep

-----------------------------------------------------------------------------
(* The steps that follow the step of a thread                               *)

(* What a step of a thread becomes when it is not the last one.               *)
Onward == {<<"check", "store">>, <<"store", "send">>, <<"arm", "timeout">>,
          <<"interval", "cancel">>, <<"interval", "ifbound">>, <<"ifbound", "timeout">>,
          <<"keep", "write">>, <<"correct", "write">>, <<"state", "told">>}

(* A request has been checked, and its id has been stored.                   *)
NewStore(t, a) ==
    /\ Check(t) /\ a.what = This(t).what
    /\ a.what # "bind" => Allows(a.what) /\ asks < MaxAsk /\ asks' = asks + 1 /\ a.n = asks + 1

NewSend(t, a) ==
    /\ Store(t) /\ a.what = This(t).what
    /\ a.n \in IdsFor(a.what, This(t).n) /\ ids' = Stored(a.what, a.n)
    /\ a.what \in Kinds("private") => a.n \notin ids[a.what]

LEMMA CheckSteps ==
    ASSUME Shape, NEW t \in Thread, Check(t)
    PROVE  Then(t, <<>>) \/ \E a : Then(t, <<a>>) /\ a.op = "store" /\ NewStore(t, a)
<1>1. This(t) \in StepOK /\ This(t).op = "check"
  BY FirstStep DEF Check, StepFor
<1>2. This(t) \in Request
  BY <1>1, StepKinds
<1>3. CASE This(t).what = "bind"
  <2>1. PICK a : a = [This(t) EXCEPT !.op = "store"]
    OBVIOUS
  <2>2. a.op = "store" /\ a.what = This(t).what
    BY <1>2, <2>1 DEF Request
  <2>3. Then(t, <<a>>)
    BY <1>3, <2>1 DEF Check
  <2> QED BY <1>3, <2>2, <2>3 DEF NewStore
<1>4. CASE This(t).what # "bind" /\ asks < MaxAsk /\ Allows(This(t).what)
  <2>1. PICK a : a = [This(t) EXCEPT !.op = "store", !.n = asks + 1]
    OBVIOUS
  <2>2. a.op = "store" /\ a.what = This(t).what /\ a.n = asks + 1
    BY <1>2, <2>1 DEF Request
  <2>3. Then(t, <<a>>) /\ asks' = asks + 1
    BY <1>4, <2>1 DEF Check
  <2> QED BY <1>4, <2>2, <2>3 DEF NewStore
<1>5. CASE This(t).what # "bind" /\ ~(asks < MaxAsk /\ Allows(This(t).what))
  BY <1>5 DEF Check
<1> QED BY <1>3, <1>4, <1>5

LEMMA StoreSteps ==
    ASSUME Shape, NEW t \in Thread, Store(t)
    PROVE  \/ Then(t, <<>>) /\ ids' = ids
           \/ \E a : Then(t, <<a>>) /\ a.op = "send" /\ NewSend(t, a)
<1>1. This(t) \in StepOK /\ This(t).op = "store"
  BY FirstStep DEF Store, StepFor
<1>2. This(t) \in Request
  BY <1>1, StepKinds
<1>3. PICK k : k = This(t).what
  OBVIOUS
<1>4. PICK id \in IdsFor(k, This(t).n) :
          IF k \in Kinds("private") /\ id \in ids[k]
          THEN Then(t, <<>>) /\ UNCHANGED ids
          ELSE /\ ids' = Stored(k, id)
               /\ Then(t, <<[This(t) EXCEPT !.op = "send", !.n = id]>>)
  BY <1>3 DEF Store
<1>5. CASE ~(k \in Kinds("private") /\ id \in ids[k])
  <2>1. PICK a : a = [This(t) EXCEPT !.op = "send", !.n = id]
    OBVIOUS
  <2>2. a.op = "send" /\ a.what = k /\ a.n = id
    BY <1>2, <1>3, <2>1 DEF Request
  <2>3. Then(t, <<a>>) /\ ids' = Stored(k, id)
    BY <1>4, <1>5, <2>1
  <2> QED BY <1>3, <1>4, <1>5, <2>2, <2>3 DEF NewSend
<1> QED BY <1>4, <1>5

LEMMA ToldSteps ==
    ASSUME TypeOK, Shape, NEW t \in Thread, TellListener(t)
    PROVE  \/ Then(t, <<>>)
           \/ \E a, b :
                 /\ Then(t, <<a>> \o <<b>>) /\ b.op = "told"
                 /\ \/ a = Arm \/ a.op = "cancel"
                    \/ t = "rx" /\ \E k \in {"session", "disco"} : a = Ask(k) /\ k \in Range(modules)
<1>1. This(t) \in StepFor(t) /\ This(t).op = "told"
  BY FirstStep DEF TellListener
<1>2. This(t) \in [op : {"told"}, what : State, n : Nat, arg : State]
  BY <1>1, StepKinds DEF StepFor
<1>3. \/ Then(t, <<>>)
      \/ \E i \in DOMAIN modules :
            /\ OnStateChange(modules[i], This(t).what, This(t).arg) # <<>>
            /\ Then(t, OnStateChange(modules[i], This(t).what, This(t).arg)
                       \o <<[This(t) EXCEPT !.n = i + 1]>>)
  BY DEF TellListener
<1>4. ASSUME NEW i \in DOMAIN modules,
             OnStateChange(modules[i], This(t).what, This(t).arg) # <<>>,
             Then(t, OnStateChange(modules[i], This(t).what, This(t).arg)
                     \o <<[This(t) EXCEPT !.n = i + 1]>>)
      PROVE  \E a, b :
                 /\ Then(t, <<a>> \o <<b>>) /\ b.op = "told"
                 /\ \/ a = Arm \/ a.op = "cancel"
                    \/ t = "rx" /\ \E k \in {"session", "disco"} : a = Ask(k) /\ k \in Range(modules)
  <2>1. PICK mod \in Module : mod = modules[i]
    BY ElementOfSeq, LenProperties DEF TypeOK
  <2>2. PICK a :
            /\ OnStateChange(mod, This(t).what, This(t).arg) = <<a>>
            /\ \/ This(t).what = "bound" /\ mod = "keepalive" /\ a = Arm
               \/ This(t).what = "bound" /\ mod \in {"session", "disco"} /\ a = Ask(mod)
               \/ This(t).what # "bound" /\ a = Step("cancel", "none", 0)
    BY <1>1, <1>4, <2>1, ListenerSteps
  <2>3. PICK b : b = [This(t) EXCEPT !.n = i + 1]
    OBVIOUS
  <2>4. b.op = "told"
    BY <1>2, <2>3
  <2>5. Then(t, <<a>> \o <<b>>)
    BY <1>4, <2>1, <2>2, <2>3
  <2>6. This(t).what = "bound" => t = "rx"
    BY <1>1 DEF StepFor, Thread
  <2>7. mod \in Range(modules)
    BY <2>1 DEF Range
  <2>8. Step("cancel", "none", 0).op = "cancel"
    BY DEF Step
  <2> QED BY <2>2, <2>4, <2>5, <2>6, <2>7, <2>8
<1> QED BY <1>3, <1>4

(* The next step of a thread, after one that is not about the receive queue.  *)
LEMMA ThreadSteps ==
    ASSUME TypeOK, Shape, NEW t \in Thread, ThreadStep(t)
    PROVE  /\ todo[t] # <<>> /\ This(t).op \notin {"callback", "reply", "forget", "process", "pop"}
           /\ \/ Then(t, <<>>)
              \/ \E a : /\ Then(t, <<a>>) /\ <<This(t).op, a.op>> \in Onward
                        /\ a.op = "store" => NewStore(t, a)
                        /\ a.op = "send" => NewSend(t, a)
              \/ /\ This(t).op = "told"
                 /\ \E a, b :
                       /\ Then(t, <<a>> \o <<b>>) /\ b.op = "told"
                       /\ \/ a = Arm \/ a.op = "cancel"
                          \/ t = "rx" /\ \E k \in {"session", "disco"} :
                                              a = Ask(k) /\ k \in Range(modules)
<1>1. \A op, what, n : Step(op, what, n).op = op
  BY DEF Step
<1>2. \A op : Now(t, op) => todo[t] # <<>> /\ This(t).op = op
  BY DEF Now, This
<1>3. \A op : Now(t, op) /\ op \notin {"process", "pop"} => This(t) \in StepOK
  <2>1. ASSUME NEW op, Now(t, op), op \notin {"process", "pop"} PROVE This(t) \in StepOK
    BY <2>1, FirstStep DEF StepFor
  <2> QED BY <2>1
<1>4. CASE Check(t)
  <2>1. todo[t] # <<>> /\ This(t).op = "check"
    BY <1>2, <1>4 DEF Check
  <2>2. CASE Then(t, <<>>)
    BY <2>1, <2>2
  <2>3. CASE \E a : Then(t, <<a>>) /\ a.op = "store" /\ NewStore(t, a)
    <3>1. PICK a : Then(t, <<a>>) /\ a.op = "store" /\ NewStore(t, a)
      BY <2>3
    <3>2. <<This(t).op, a.op>> \in Onward
      BY <2>1, <3>1 DEF Onward
    <3> QED BY <2>1, <3>1, <3>2
  <2> QED BY <1>4, <2>2, <2>3, CheckSteps
<1>5. CASE Store(t)
  <2>1. todo[t] # <<>> /\ This(t).op = "store"
    BY <1>2, <1>5 DEF Store
  <2>2. CASE Then(t, <<>>)
    BY <2>1, <2>2
  <2>3. CASE \E a : Then(t, <<a>>) /\ a.op = "send" /\ NewSend(t, a)
    <3>1. PICK a : Then(t, <<a>>) /\ a.op = "send" /\ NewSend(t, a)
      BY <2>3
    <3>2. <<This(t).op, a.op>> \in Onward
      BY <2>1, <3>1 DEF Onward
    <3> QED BY <2>1, <3>1, <3>2
  <2> QED BY <1>5, <2>2, <2>3, StoreSteps
<1>6. CASE Send(t) \/ SetTimeout(t) \/ ResetCorrection(t) \/ WriteMessage(t)
  <2>1. \E op \in {"send", "timeout", "cancel", "reset", "write"} : Now(t, op)
    BY <1>6 DEF Send, SetTimeout, ResetCorrection, WriteMessage
  <2>2. Then(t, <<>>)
    BY <1>6 DEF Send, SetTimeout, ResetCorrection, WriteMessage
  <2> QED BY <1>2, <2>1, <2>2
<1>7. ASSUME NEW op, NEW new, op \notin {"callback", "reply", "forget", "process", "pop"},
             Now(t, op), new \notin {"store", "send"}, <<op, new>> \in Onward,
             Then(t, <<>>) \/ \E a : Then(t, <<a>>) /\ a.op = new
      PROVE  /\ todo[t] # <<>> /\ This(t).op \notin {"callback", "reply", "forget", "process", "pop"}
             /\ \/ Then(t, <<>>)
                \/ \E a : /\ Then(t, <<a>>) /\ <<This(t).op, a.op>> \in Onward
                          /\ a.op = "store" => NewStore(t, a)
                          /\ a.op = "send" => NewSend(t, a)
  <2>1. todo[t] # <<>> /\ This(t).op = op
    BY <1>2, <1>7
  <2>2. CASE Then(t, <<>>)
    BY <1>7, <2>1, <2>2
  <2>3. CASE \E a : Then(t, <<a>>) /\ a.op = new
    <3>1. PICK a : Then(t, <<a>>) /\ a.op = new
      BY <2>3
    <3>2. <<This(t).op, a.op>> \in Onward
      BY <1>7, <2>1, <3>1
    <3> QED BY <1>7, <2>1, <3>1, <3>2
  <2> QED BY <1>7, <2>2, <2>3
<1>8. CASE ReadInterval(t)
  <2>1. Now(t, "arm") /\ (Then(t, <<>>) \/ Then(t, <<Step("timeout", "none", 0)>>))
    BY <1>8 DEF ReadInterval
  <2>2. <<"arm", "timeout">> \in Onward
    BY DEF Onward
  <2> QED BY <1>1, <1>7, <2>1, <2>2
<1>9. CASE SetInterval(t)
  <2>1. Now(t, "interval") /\ Then(t, <<Step(IF interval' = 0 THEN "cancel" ELSE "ifbound", "none", 0)>>)
    BY <1>9 DEF SetInterval
  <2>2. PICK new : new = IF interval' = 0 THEN "cancel" ELSE "ifbound"
    OBVIOUS
  <2>3. <<"interval", new>> \in Onward /\ new \notin {"store", "send"}
    BY <2>2 DEF Onward
  <2>4. Then(t, <<Step(new, "none", 0)>>)
    BY <2>1, <2>2
  <2>5. \E a : Then(t, <<a>>) /\ a.op = new
    BY <1>1, <2>4
  <2>6. Now(t, "interval")
    BY <2>1
  <2>7. "interval" \notin {"callback", "reply", "forget", "process", "pop"}
    OBVIOUS
  <2> QED BY <1>7, <2>3, <2>5, <2>6, <2>7
<1>10. CASE IfBound(t)
  <2>1. Now(t, "ifbound") /\ (Then(t, <<>>) \/ Then(t, <<Step("timeout", "none", 0)>>))
    BY <1>10 DEF IfBound
  <2>2. <<"ifbound", "timeout">> \in Onward
    BY DEF Onward
  <2> QED BY <1>1, <1>7, <2>1, <2>2
<1>11. CASE Keep(t)
  <2>1. Now(t, "keep") /\ Then(t, <<[This(t) EXCEPT !.op = "write"]>>)
    BY <1>11 DEF Keep
  <2>2. This(t) \in Text
    BY <1>2, <1>3, <2>1, StepKinds
  <2>3. PICK a : a = [This(t) EXCEPT !.op = "write"]
    OBVIOUS
  <2>4. a.op = "write" /\ Then(t, <<a>>)
    BY <2>1, <2>2, <2>3 DEF Text
  <2>5. <<"keep", "write">> \in Onward
    BY DEF Onward
  <2> QED BY <1>7, <2>1, <2>4, <2>5
<1>12. CASE Correct(t)
  <2>1. Now(t, "correct")
    BY <1>12 DEF Correct
  <2>2. This(t) \in Text
    BY <1>2, <1>3, <2>1, StepKinds
  <2>3. Then(t, <<>>) \/ \E old : Then(t, <<[This(t) EXCEPT !.op = "write", !.arg = old]>>)
    BY <1>12 DEF Correct
  <2>4. Then(t, <<>>) \/ \E a : Then(t, <<a>>) /\ a.op = "write"
    <3>1. ASSUME NEW old, Then(t, <<[This(t) EXCEPT !.op = "write", !.arg = old]>>)
          PROVE  \E a : Then(t, <<a>>) /\ a.op = "write"
      <4>1. PICK a : a = [This(t) EXCEPT !.op = "write", !.arg = old]
        OBVIOUS
      <4>2. a.op = "write"
        BY <2>2, <4>1 DEF Text
      <4> QED BY <3>1, <4>1, <4>2
    <3> QED BY <2>3, <3>1
  <2>5. <<"correct", "write">> \in Onward
    BY DEF Onward
  <2> QED BY <1>7, <2>1, <2>4, <2>5
<1>13. CASE ChangeState(t)
  <2>1. Now(t, "state")
    BY <1>13 DEF ChangeState
  <2>2. Then(t, <<>>) \/ \E new, old : Then(t, <<[Step("told", new, 1) EXCEPT !.arg = old]>>)
    BY <1>13 DEF ChangeState
  <2>3. ASSUME NEW new, NEW old PROVE [Step("told", new, 1) EXCEPT !.arg = old].op = "told"
    BY DEF Step
  <2>4. Then(t, <<>>) \/ \E a : Then(t, <<a>>) /\ a.op = "told"
    BY <2>2, <2>3
  <2>5. <<"state", "told">> \in Onward
    BY DEF Onward
  <2> QED BY <1>7, <2>1, <2>4, <2>5
<1>14. CASE TellListener(t)
  <2>1. todo[t] # <<>> /\ This(t).op = "told"
    BY <1>2, <1>14 DEF TellListener
  <2> QED BY <1>14, <2>1, ToldSteps
<1> QED BY <1>4, <1>5, <1>6, <1>8, <1>9, <1>10, <1>11, <1>12, <1>13, <1>14 DEF ThreadStep

-----------------------------------------------------------------------------
(* What the steps of the call of a module are, when it has handled an object. *)
LEMMA TupleOfOne ==
    ASSUME NEW a
    PROVE  /\ Tail(<<a>>) = <<>> /\ Append(<<>>, a) = <<a>> /\ <<a>> # <<>>
           /\ <<a>> \o <<>> = <<a>> /\ <<>> \o <<a>> = <<a>>
<1>1. <<a>> \in Seq({a}) /\ <<>> \in Seq({a})
  OBVIOUS
<1>2. <<a>> \o <<>> = <<a>> /\ <<>> \o <<a>> = <<a>>
  BY <1>1, ConcatEmptySeq
<1>3. Append(<<>>, a) = <<a>>
  OBVIOUS
<1>4. Len(<<a>>) = 1 /\ Len(<<>>) = 0
  OBVIOUS
<1>5. Tail(<<a>>) = <<>>
  OBVIOUS
<1> QED BY <1>2, <1>3, <1>4, <1>5

LEMMA TupleOfTwo ==
    ASSUME NEW a, NEW b
    PROVE  /\ Range(<<a, b>>) = {a, b} /\ Tail(<<a, b>>) = <<b>>
           /\ Append(<<a>>, b) = <<a, b>> /\ <<a>> \o <<b>> = <<a, b>> /\ <<a, b>> # <<>>
<1>1. Range(<<a, b>>) = {a, b}
  <2>1. \A x : x \in Range(<<a, b>>) <=> \E i \in DOMAIN <<a, b>> : x = <<a, b>>[i]
    BY DEF Range
  <2>2. DOMAIN <<a, b>> = {1, 2} /\ <<a, b>>[1] = a /\ <<a, b>>[2] = b
    OBVIOUS
  <2> QED BY <2>1, <2>2
<1>2. Tail(<<a, b>>) = <<b>>
  OBVIOUS
<1>3. Append(<<a>>, b) = <<a, b>>
  <2>1. <<a>> \in Seq({a, b}) /\ <<a, b>> \in Seq({a, b}) /\ b \in {a, b}
    OBVIOUS
  <2>2. PICK s : s = Append(<<a>>, b)
    OBVIOUS
  <2>3. Len(<<a>>) = 1 /\ Len(<<a, b>>) = 2 /\ <<a>>[1] = a /\ <<a, b>>[1] = a /\ <<a, b>>[2] = b
    OBVIOUS
  <2>4. s \in Seq({a, b}) /\ Len(s) = 2 /\ s[1] = a /\ s[2] = b
    BY <2>1, <2>2, <2>3, AppendProperties
  <2>5. \A i \in 1..Len(s) : s[i] = <<a, b>>[i]
    BY <2>3, <2>4
  <2> QED BY <2>1, <2>2, <2>3, <2>4, <2>5, SeqEqual
<1>4. <<a>> \o <<b>> = Append(<<a>>, b)
  <2>1. <<a>> \in Seq({a, b}) /\ b \in {a, b}
    OBVIOUS
  <2> QED BY <2>1, AppendIsConcat
<1>5. Len(<<a, b>>) = 2 /\ Len(<<>>) = 0
  OBVIOUS
<1> QED BY <1>1, <1>2, <1>3, <1>4, <1>5

LEMMA TupleOfThree ==
    ASSUME NEW a, NEW b, NEW c PROVE Range(<<a, b, c>>) = {a, b, c}
<1>1. \A x : x \in Range(<<a, b, c>>) <=> \E i \in DOMAIN <<a, b, c>> : x = <<a, b, c>>[i]
  BY DEF Range
<1>2. DOMAIN <<a, b, c>> = {1, 2, 3} /\ <<a, b, c>>[1] = a /\ <<a, b, c>>[2] = b /\ <<a, b, c>>[3] = c
  OBVIOUS
<1> QED BY <1>1, <1>2

LEMMA TailOfThree ==
    ASSUME NEW a, NEW b, NEW c PROVE Tail(<<a, b, c>>) = <<b, c>> /\ <<a, b, c>> # <<>>
<1>1. Tail(<<a, b, c>>) = <<b, c>>
  OBVIOUS
<1>2. Len(<<a, b, c>>) = 3 /\ Len(<<>>) = 0
  OBVIOUS
<1> QED BY <1>1, <1>2

LEMMA ThirdAppended ==
    ASSUME NEW a, NEW b, NEW c PROVE Append(<<a, b>>, c) = <<a, b, c>>
<1>1. <<a, b>> \in Seq({a, b, c}) /\ <<a, b, c>> \in Seq({a, b, c}) /\ c \in {a, b, c}
  OBVIOUS
<1>2. PICK s : s = Append(<<a, b>>, c)
  OBVIOUS
<1>3. /\ Len(<<a, b>>) = 2 /\ <<a, b>>[1] = a /\ <<a, b>>[2] = b
      /\ Len(<<a, b, c>>) = 3 /\ <<a, b, c>>[1] = a /\ <<a, b, c>>[2] = b /\ <<a, b, c>>[3] = c
  OBVIOUS
<1>4. s \in Seq({a, b, c}) /\ Len(s) = 3 /\ s[1] = a /\ s[2] = b /\ s[3] = c
  BY <1>1, <1>2, <1>3, AppendProperties
<1>5. \A i \in 1..Len(s) : s[i] = <<a, b, c>>[i]
  BY <1>3, <1>4
<1> QED BY <1>1, <1>2, <1>3, <1>4, <1>5, SeqEqual

LEMMA HandledTodo ==
    ASSUME Shape, Now("rx", "process"), NEW S, NEW steps \in Seq(S), Handles(steps)
    PROVE  todo'["rx"] = Append(steps, Popping)
<1>1. Tail(todo["rx"]) = <<>> /\ todo \in [Thread -> Seq(StepOK)] /\ "rx" \in Thread
  BY CalledAlone DEF Shape, Thread
<1>2. todo'["rx"] = Append(steps, Popping) \o <<>>
  BY <1>1 DEF Handles, Then
<1>3. PICK S2 : S2 = S \cup {Popping}
  OBVIOUS
<1>4. steps \in Seq(S2) /\ Popping \in S2
  BY <1>3, SeqMonotonic
<1>5. Append(steps, Popping) \in Seq(S2)
  BY <1>4, AppendProperties
<1> QED BY <1>2, <1>5, ConcatEmptySeq

LEMMA HandlesNothing ==
    ASSUME Shape, Now("rx", "process"), Handles(<<>>) PROVE todo'["rx"] = <<Popping>>
<1>1. <<>> \in Seq({})
  OBVIOUS
<1> QED BY <1>1, HandledTodo, TupleOfOne

LEMMA HandlesOne ==
    ASSUME Shape, Now("rx", "process"), NEW a, Handles(<<a>>) PROVE todo'["rx"] = <<a, Popping>>
<1>1. <<a>> \in Seq({a})
  OBVIOUS
<1> QED BY <1>1, HandledTodo, TupleOfTwo

LEMMA HandlesTwo ==
    ASSUME Shape, Now("rx", "process"), NEW a, NEW b, Handles(<<a, b>>)
    PROVE  todo'["rx"] = <<a, b, Popping>>
<1>1. <<a, b>> \in Seq({a, b})
  OBVIOUS
<1>2. todo'["rx"] = Append(<<a, b>>, Popping)
  BY <1>1, HandledTodo
<1> QED BY <1>2, ThirdAppended

LEMMA PassesTodo ==
    ASSUME Shape, Now("rx", "process"), Passes
    PROVE  todo'["rx"] = <<Process(This("rx").n + 1)>>
<1>1. Tail(todo["rx"]) = <<>> /\ todo \in [Thread -> Seq(StepOK)] /\ "rx" \in Thread
  BY CalledAlone DEF Shape, Thread
<1>2. todo'["rx"] = <<Process(This("rx").n + 1)>> \o <<>>
  BY <1>1 DEF Passes, Then, Process
<1> QED BY <1>2, TupleOfOne

LEMMA BecameTuple ==
    ASSUME NEW t, NEW a, NEW b, NEW c, b.op \notin {"store", "send"}, c.op \notin {"store", "send"},
           todo'[t] = <<>> \/ todo'[t] = <<a>> \/ todo'[t] = <<a, b>> \/ todo'[t] = <<a, b, c>>
    PROVE  Became(t, {a, b, c})
<1>1. /\ Range(<<>>) = {} /\ Range(<<a>>) = {a} /\ Range(<<a, b>>) = {a, b} /\ Range(<<a, b, c>>) = {a, b, c}
      /\ Range(<<b>>) = {b} /\ Range(<<b, c>>) = {b, c}
      /\ Tail(<<a>>) = <<>> /\ Tail(<<a, b>>) = <<b>> /\ Tail(<<a, b, c>>) = <<b, c>>
  <2>1. Range(<<>>) = {} /\ Range(<<a>>) = {a} /\ Range(<<b>>) = {b}
    BY OneElement
  <2>2. Range(<<a, b>>) = {a, b} /\ Tail(<<a, b>>) = <<b>>
    BY TupleOfTwo
  <2>3. Range(<<b, c>>) = {b, c}
    BY TupleOfTwo
  <2>4. Range(<<a, b, c>>) = {a, b, c} /\ Tail(<<a, b, c>>) = <<b, c>>
    BY TupleOfThree, TailOfThree
  <2>5. Tail(<<a>>) = <<>>
    BY TupleOfOne
  <2> QED BY <2>1, <2>2, <2>3, <2>4, <2>5
<1>2. CASE todo'[t] = <<>>
  BY <1>1, <1>2 DEF Became
<1>3. CASE todo'[t] = <<a>>
  BY <1>1, <1>3 DEF Became
<1>4. CASE todo'[t] = <<a, b>>
  BY <1>1, <1>4 DEF Became
<1>5. CASE todo'[t] = <<a, b, c>>
  BY <1>1, <1>5 DEF Became
<1> QED BY <1>2, <1>3, <1>4, <1>5

-----------------------------------------------------------------------------
(* A step about requests that a thread has not had before.                   *)
Fresh(t, a) ==
    \/ a.op \notin Asking \cup {"forget"}
    \/ /\ a.op = "check"
       /\ \/ a.what = "bind"
          \/ t = "rx" /\ a.what \in {"session", "disco"} /\ a.what \in Range(modules)
          \/ a.what \in AppKinds \cup CallbackKinds /\ IsAsker(a.what)
    \/ a.op = "store" /\ NewStore(t, a)
    \/ a.op = "send" /\ NewSend(t, a)
    \/ a.op = "forget" /\ t = "rx" /\ Now("rx", "process") /\ a.what \in Taking

FreshSteps(t) == \E N : Became(t, N) /\ \A a \in N : Fresh(t, a)

LEMMA StepFields ==
    /\ Popping.op = "pop" /\ Reply.op = "reply" /\ Arm.op = "arm"
    /\ \A k : Ask(k).op = "check" /\ Ask(k).what = k
    /\ \A k : Callback(k).op = "callback" /\ Callback(k).what = k
    /\ \A k : Forgetting(k).op = "forget" /\ Forgetting(k).what = k /\ Forgetting(k).n = Object0.id
    /\ \A what, n : Step("state", what, n).op = "state"
    /\ \A n : Process(n).op = "process" /\ Process(n).n = n
  BY DEF Popping, Reply, Arm, Ask, Callback, Forgetting, Process, Step

LEMMA FreshInThread ==
    ASSUME TypeOK, Shape, NEW t \in Thread, ThreadStep(t)
    PROVE  FreshSteps(t)
<1>1. todo[t] # <<>>
  BY ThreadSteps
<1>2. CASE Then(t, <<>>)
  BY <1>1, <1>2, BecameNothing DEF FreshSteps
<1>3. ASSUME NEW a, Then(t, <<a>>), <<This(t).op, a.op>> \in Onward,
             a.op = "store" => NewStore(t, a), a.op = "send" => NewSend(t, a)
      PROVE  FreshSteps(t)
  <2>1. Became(t, {a})
    BY <1>1, <1>3, BecameOne
  <2>2. a.op \notin {"check", "forget"}
    BY <1>3 DEF Onward
  <2>3. Fresh(t, a)
    BY <1>3, <2>2 DEF Fresh, Asking
  <2> QED BY <2>1, <2>3 DEF FreshSteps
<1>4. ASSUME NEW a, NEW b, Then(t, <<a>> \o <<b>>), b.op = "told",
             \/ a = Arm \/ a.op = "cancel"
             \/ t = "rx" /\ \E k \in {"session", "disco"} : a = Ask(k) /\ k \in Range(modules)
      PROVE  FreshSteps(t)
  <2>1. Became(t, {a, b})
    BY <1>1, <1>4, BecameTwo
  <2>2. Fresh(t, a)
    BY <1>4, StepFields DEF Fresh, Asking
  <2>3. Fresh(t, b)
    BY <1>4 DEF Fresh, Asking
  <2> QED BY <2>1, <2>2, <2>3 DEF FreshSteps
<1>5. CASE \E a : /\ Then(t, <<a>>) /\ <<This(t).op, a.op>> \in Onward
                  /\ a.op = "store" => NewStore(t, a)
                  /\ a.op = "send" => NewSend(t, a)
  BY <1>3, <1>5
<1>6. CASE \E a, b :
             /\ Then(t, <<a>> \o <<b>>) /\ b.op = "told"
             /\ \/ a = Arm \/ a.op = "cancel"
                \/ t = "rx" /\ \E k \in {"session", "disco"} : a = Ask(k) /\ k \in Range(modules)
  BY <1>4, <1>6
<1> QED BY <1>2, <1>5, <1>6, ThreadSteps

LEMMA FreshInModule ==
    ASSUME Shape, NEW mod \in Module, ModuleStep(mod), ids["set_vcard"] \subseteq {0}
    PROVE  FreshSteps("rx")
<1>1. Now("rx", "process") /\ Hands(mod)
  BY ModuleHands
<1>2. ASSUME NEW a, NEW b, Fresh("rx", a), Fresh("rx", b), b.op \notin {"store", "send"},
             \/ todo'["rx"] = <<>> \/ todo'["rx"] = <<a>> \/ todo'["rx"] = <<a, b>>
             \/ todo'["rx"] = <<a, b, Popping>>
      PROVE  FreshSteps("rx")
  <2>1. Became("rx", {a, b, Popping})
    BY <1>2, BecameTuple, StepFields
  <2>2. Fresh("rx", Popping)
    BY StepFields DEF Fresh, Asking
  <2> QED BY <1>2, <2>1, <2>2 DEF FreshSteps
<1>3. \A a : a.op \in {"process", "pop", "reply", "callback", "state", "arm"} => Fresh("rx", a)
  BY DEF Fresh, Asking
<1>4. ASSUME NEW a, Handles(<<a>>), Fresh("rx", a) PROVE FreshSteps("rx")
  <2>1. todo'["rx"] = <<a, Popping>>
    BY <1>1, <1>4, HandlesOne
  <2> QED BY <1>2, <1>3, <1>4, <2>1, StepFields
<1>5. ASSUME NEW a, NEW b, Handles(<<a, b>>), Fresh("rx", a), Fresh("rx", b),
             b.op \notin {"store", "send"}
      PROVE  FreshSteps("rx")
  <2>1. todo'["rx"] = <<a, b, Popping>>
    BY <1>1, <1>5, HandlesTwo
  <2> QED BY <1>2, <1>5, <2>1
<1>6. CASE Passes
  <2>1. todo'["rx"] = <<Process(This("rx").n + 1)>>
    BY <1>1, <1>6, PassesTodo
  <2> QED BY <1>2, <1>3, <2>1, StepFields
<1>7. ASSUME NEW k \in Taking, Handles(<<Forgetting(k), Callback(k)>>) PROVE FreshSteps("rx")
  <2>1. Fresh("rx", Forgetting(k)) /\ Fresh("rx", Callback(k))
    BY <1>1, <1>3, <1>7, StepFields DEF Fresh
  <2> QED BY <1>5, <1>7, <2>1, StepFields
<1>8. ASSUME NEW k, Handles(<<Callback(k)>>) PROVE FreshSteps("rx")
  BY <1>3, <1>4, <1>8, StepFields
<1>9. CASE Handles(<<Reply>>)
  BY <1>3, <1>4, <1>9, StepFields
<1>10. CASE Handles(<<Arm>>)
  BY <1>3, <1>4, <1>10, StepFields
<1>11. ASSUME NEW new, Handles(<<Step("state", new, 0)>>) PROVE FreshSteps("rx")
  BY <1>3, <1>4, <1>11, StepFields
<1>12. ASSUME NEW k, Handles(<<Callback(k)>> \o <<Reply>>) PROVE FreshSteps("rx")
  <2>1. <<Callback(k)>> \o <<Reply>> = <<Callback(k), Reply>>
    BY TupleOfTwo
  <2>2. Handles(<<Callback(k), Reply>>)
    BY <1>12, <2>1
  <2> QED BY <1>3, <1>5, <2>2, StepFields
<1> QED BY <1>1, <1>6, <1>7, <1>8, <1>9, <1>10, <1>11, <1>12 DEF Hands

-----------------------------------------------------------------------------
LEMMA FreshUnhandled ==
    ASSUME Shape, Unhandled
    PROVE  /\ Now("rx", "process") /\ FreshSteps("rx")
           /\ \E owed : /\ Owes(todo'["rx"], owed) /\ This("rx").n > Len(modules)
                        /\ owed = IF Iq /\ Object0.type \in {"get", "set"} THEN <<"reply">> ELSE <<>>
           /\ ~Now("rx", "forget")' /\ ~Now("rx", "process")' /\ todo'["rx"] # <<>>
<1>1. Now("rx", "process") /\ This("rx").n > Len(modules)
  BY DEF Unhandled
<1>2. PICK asked, bind : /\ asked = (Iq /\ Object0.type \in {"get", "set"})
                         /\ bind = (state = "negotiating")
  OBVIOUS
<1>3. Handles((IF asked THEN <<Reply>> ELSE <<>>) \o (IF bind THEN <<Ask("bind")>> ELSE <<>>))
  BY <1>2 DEF Unhandled
<1>4. Fresh("rx", Popping) /\ Fresh("rx", Reply) /\ Fresh("rx", Ask("bind"))
  BY StepFields DEF Fresh, Asking
<1>5. Does(Reply) = <<"reply">> /\ Does(Ask("bind")) = <<>>
  BY StepFields DEF Does
<1>6. ASSUME NEW N, Became("rx", N), \A a \in N : Fresh("rx", a), todo'["rx"] # <<>>,
              Head(todo'["rx"]).op \notin {"forget", "process"},
              Owes(todo'["rx"], IF asked THEN <<"reply">> ELSE <<>>)
       PROVE  /\ FreshSteps("rx") /\ ~Now("rx", "forget")' /\ ~Now("rx", "process")'
              /\ \E owed : Owes(todo'["rx"], owed) /\ owed = IF asked THEN <<"reply">> ELSE <<>>
  BY <1>6 DEF FreshSteps, Now
<1>7. ASSUME asked, bind
      PROVE  /\ todo'["rx"] # <<>> /\ FreshSteps("rx") /\ ~Now("rx", "forget")' /\ ~Now("rx", "process")'
             /\ \E owed : Owes(todo'["rx"], owed) /\ owed = IF asked THEN <<"reply">> ELSE <<>>
  <2>1. <<Reply>> \o <<Ask("bind")>> = <<Reply, Ask("bind")>>
    BY TupleOfTwo
  <2>2. Handles(<<Reply, Ask("bind")>>)
    BY <1>3, <1>7, <2>1
  <2>3. todo'["rx"] = <<Reply, Ask("bind"), Popping>>
    BY <1>1, <2>2, HandlesTwo
  <2>4. Became("rx", {Reply, Ask("bind"), Popping})
    BY <2>3, BecameTuple, StepFields
  <2>5. MayPrecede(Reply, Ask("bind"))
    BY StepFields DEF MayPrecede
  <2>6. Does(Reply) \o Does(Ask("bind")) = <<"reply">>
    BY <1>5, TupleOfOne
  <2>7. Owes(todo'["rx"], <<"reply">>)
    BY <2>3, <2>5, <2>6 DEF Owes
  <2>8. todo'["rx"] # <<>> /\ Head(todo'["rx"]).op = "reply"
    BY <2>3, TailOfThree, StepFields
  <2> QED BY <1>4, <1>6, <1>7, <2>4, <2>7, <2>8
<1>8. ASSUME asked, ~bind
      PROVE  /\ todo'["rx"] # <<>> /\ FreshSteps("rx") /\ ~Now("rx", "forget")' /\ ~Now("rx", "process")'
             /\ \E owed : Owes(todo'["rx"], owed) /\ owed = IF asked THEN <<"reply">> ELSE <<>>
  <2>1. Handles(<<Reply>>)
    BY <1>3, <1>8, TupleOfOne
  <2>2. todo'["rx"] = <<Reply, Popping>>
    BY <1>1, <2>1, HandlesOne
  <2>3. Became("rx", {Reply, Popping, Popping})
    BY <2>2, BecameTuple, StepFields
  <2>4. Owes(todo'["rx"], <<"reply">>)
    BY <1>5, <2>2 DEF Owes
  <2>5. todo'["rx"] # <<>> /\ Head(todo'["rx"]).op = "reply"
    BY <2>2, TupleOfTwo, StepFields
  <2> QED BY <1>4, <1>6, <1>8, <2>3, <2>4, <2>5
<1>9. ASSUME ~asked, bind
      PROVE  /\ todo'["rx"] # <<>> /\ FreshSteps("rx") /\ ~Now("rx", "forget")' /\ ~Now("rx", "process")'
             /\ \E owed : Owes(todo'["rx"], owed) /\ owed = IF asked THEN <<"reply">> ELSE <<>>
  <2>1. Handles(<<Ask("bind")>>)
    BY <1>3, <1>9, TupleOfOne
  <2>2. todo'["rx"] = <<Ask("bind"), Popping>>
    BY <1>1, <2>1, HandlesOne
  <2>3. Became("rx", {Ask("bind"), Popping, Popping})
    BY <2>2, BecameTuple, StepFields
  <2>4. Owes(todo'["rx"], <<>>)
    BY <1>5, <2>2 DEF Owes
  <2>5. todo'["rx"] # <<>> /\ Head(todo'["rx"]).op = "check"
    BY <2>2, TupleOfTwo, StepFields
  <2> QED BY <1>4, <1>6, <1>9, <2>3, <2>4, <2>5
<1>10. ASSUME ~asked, ~bind
      PROVE  /\ todo'["rx"] # <<>> /\ FreshSteps("rx") /\ ~Now("rx", "forget")' /\ ~Now("rx", "process")'
             /\ \E owed : Owes(todo'["rx"], owed) /\ owed = IF asked THEN <<"reply">> ELSE <<>>
  <2>1. <<>> \o <<>> = <<>>
    BY EmptySeq, ConcatEmptySeq
  <2>2. Handles(<<>>)
    BY <1>3, <1>10, <2>1
  <2>3. todo'["rx"] = <<Popping>>
    BY <1>1, <2>2, HandlesNothing
  <2>4. Became("rx", {Popping, Popping, Popping})
    BY <2>3, BecameTuple, StepFields
  <2>5. Owes(todo'["rx"], <<>>)
    BY <2>3 DEF Owes
  <2>6. todo'["rx"] # <<>> /\ Head(todo'["rx"]).op = "pop"
    BY <2>3, TupleOfOne, StepFields
  <2> QED BY <1>4, <1>6, <1>10, <2>4, <2>5, <2>6
<1>11. todo'["rx"] # <<>> /\ FreshSteps("rx") /\ ~Now("rx", "forget")' /\ ~Now("rx", "process")'
       /\ \E owed : Owes(todo'["rx"], owed) /\ owed = IF asked THEN <<"reply">> ELSE <<>>
  BY <1>7, <1>8, <1>9, <1>10
<1> QED BY <1>1, <1>2, <1>11

LEMMA FreshRest ==
    ASSUME TypeOK, Shape, Rx \/ Pop \/ Respond \/ RespondText \/ Forget
    PROVE  FreshSteps("rx")
<1>1. \A a : a.op \in {"process", "pop", "keep", "correct", "reset"} => Fresh("rx", a)
  BY DEF Fresh, Asking
<1>2. "rx" \in Thread
  BY DEF Thread
<1>3. CASE Rx
  <2>1. Starts("rx", <<Process(1)>>)
    BY <1>3 DEF Rx, Process
  <2>2. Became("rx", {Process(1)})
    BY <1>2, <2>1, BecameStarts
  <2> QED BY <1>1, <2>2, StepFields DEF FreshSteps
<1>4. CASE Pop
  <2>1. todo'["rx"] = <<>> \/ todo'["rx"] = <<Process(1)>>
    BY <1>4, PopShape DEF Shape, Thread
  <2>2. Became("rx", {Process(1), Popping, Popping})
    BY <2>1, BecameTuple, StepFields
  <2> QED BY <1>1, <2>2, StepFields DEF FreshSteps
<1>5. CASE (Respond \/ Forget) /\ Then("rx", <<>>)
  <2>1. todo["rx"] # <<>>
    BY <1>5 DEF Respond, Forget, Now
  <2> QED BY <1>2, <1>5, <2>1, BecameNothing DEF FreshSteps
<1>6. ASSUME NEW k \in CallbackKinds, Respond, Then("rx", <<Ask(k)>>), IsAsker(k)
      PROVE  FreshSteps("rx")
  <2>1. todo["rx"] # <<>>
    BY <1>6 DEF Respond, Now
  <2>2. Became("rx", {Ask(k)})
    BY <1>2, <1>6, <2>1, BecameOne
  <2>3. Fresh("rx", Ask(k))
    BY <1>6, StepFields DEF Fresh
  <2> QED BY <2>2, <2>3 DEF FreshSteps
<1>7. CASE Respond
  <2>1. \/ Then("rx", <<>>)
        \/ \E k \in CallbackKinds : /\ Then("rx", <<Ask(k)>>)
                                    /\ \E mod \in Range(modules) : k \in Kinds(mod)
    BY <1>7 DEF Respond
  <2> QED BY <1>5, <1>6, <1>7, <2>1 DEF IsAsker
<1>8. CASE RespondText
  <2>1. PICK step \in Texts : Then("rx", <<step>>)
    BY <1>8 DEF RespondText
  <2>2. step.op \in {"keep", "correct", "reset"}
    BY <2>1 DEF Texts
  <2>3. todo["rx"] # <<>>
    BY <1>8 DEF RespondText, Now
  <2>4. Became("rx", {step})
    BY <1>2, <2>1, <2>3, BecameOne
  <2> QED BY <1>1, <2>2, <2>4 DEF FreshSteps
<1>9. Forget => Then("rx", <<>>)
  BY DEF Forget
<1> QED BY <1>3, <1>4, <1>5, <1>7, <1>8, <1>9

LEMMA FreshOutside ==
    ASSUME TypeOK, Shape, Outside, NEW t \in Thread
    PROVE  FreshSteps(t)
<1>1. \A a : a.op \in {"keep", "correct", "reset", "state", "interval"} => Fresh(t, a)
  BY DEF Fresh, Asking
<1>2. ASSUME todo'[t] = todo[t] PROVE FreshSteps(t)
  BY <1>2, BecameSame DEF FreshSteps
<1>3. ASSUME NEW u \in {"app", "run"}, NEW a, Starts(u, <<a>>), Fresh(u, a) PROVE FreshSteps(t)
  <2>1. CASE t = u
    <3>1. u \in Thread
      BY DEF Thread
    <3>2. Became(u, {a})
      BY <1>3, <3>1, BecameStarts
    <3>3. FreshSteps(u)
      BY <1>3, <3>2 DEF FreshSteps
    <3> QED BY <2>1, <3>3
  <2>2. CASE t # u
    <3>1. todo'[t] = todo[t]
      BY <1>3, <2>2 DEF Starts, Shape
    <3> QED BY <1>2, <3>1
  <2> QED BY <2>1, <2>2
<1>4. \A u, a : a.op \in {"keep", "correct", "reset", "state", "interval"} => Fresh(u, a)
  BY DEF Fresh, Asking
<1>5. ASSUME NEW k \in AppKinds, Call(k) PROVE FreshSteps(t)
  <2>1. PICK item : Starts("app", <<[Ask(k) EXCEPT !.arg = item]>>)
    BY <1>5 DEF Call
  <2>2. IsAsker(k)
    BY <1>5 DEF Call, IsAsker
  <2>3. PICK a : a = [Ask(k) EXCEPT !.arg = item]
    OBVIOUS
  <2>4. a.op = "check" /\ a.what = k
    BY <2>3 DEF Ask, Step
  <2>5. Fresh("app", a)
    BY <1>5, <2>2, <2>4 DEF Fresh
  <2>6. Starts("app", <<a>>)
    BY <2>1, <2>3
  <2> QED BY <1>3, <2>5, <2>6
<1>6. CASE CallText
  <2>1. PICK step \in Texts : Starts("app", <<step>>)
    BY <1>6 DEF CallText
  <2>2. step.op \in {"keep", "correct", "reset"}
    BY <2>1 DEF Texts
  <2> QED BY <1>3, <1>4, <2>1, <2>2
<1>7. CASE OtherCall
  <2>1. (\E n \in {0, 1} : Starts("app", <<Step("interval", "none", n)>>))
        \/ Starts("app", <<Step("state", "closing", 0)>>)
    BY <1>7 DEF OtherCall
  <2>2. Step("state", "closing", 0).op = "state" /\ \A n : Step("interval", "none", n).op = "interval"
    BY DEF Step
  <2> QED BY <1>3, <1>4, <2>1, <2>2
<1>8. CASE Run
  <2>1. todo["run"] = <<>> /\ todo' = [todo EXCEPT !["run"] = <<>>]
    BY <1>8 DEF Run, Starts
  <2>2. todo'[t] = todo[t]
    BY <2>1 DEF Shape
  <2> QED BY <1>2, <2>2
<1>9. CASE End
  <2>1. Starts("run", <<Step("state", "closed", 0)>>)
    BY <1>9 DEF End
  <2>2. Step("state", "closed", 0).op = "state"
    BY DEF Step
  <2> QED BY <1>3, <1>4, <2>1, <2>2
<1>10. CASE StopStream \/ Expire \/ Answer \/ Change \/ PeerAsks \/ UNCHANGED vars
  <2>1. todo' = todo
    BY <1>10 DEF StopStream, Expire, Answer, Change, PeerAsks, vars
  <2> QED BY <1>2, <2>1
<1> QED BY <1>5, <1>6, <1>7, <1>8, <1>9, <1>10 DEF Outside

LEMMA NewSteps ==
    ASSUME TypeOK, Shape, [Next]_vars, ids["set_vcard"] \subseteq {0}, NEW t \in Thread
    PROVE  FreshSteps(t)
<1>1. ASSUME todo'[t] = todo[t] PROVE FreshSteps(t)
  BY <1>1, BecameSame DEF FreshSteps
<1>2. ASSUME NEW u \in Thread, ThreadStep(u) PROVE FreshSteps(t)
  <2>1. \A v \in Thread \ {u} : todo'[v] = todo[v]
    BY <1>2, ThreadMoves DEF ThreadStep
  <2> QED BY <1>1, <1>2, <2>1, FreshInThread
<1>3. ASSUME FreshSteps("rx"), todo'["app"] = todo["app"], todo'["run"] = todo["run"] PROVE FreshSteps(t)
  BY <1>1, <1>3 DEF Thread
<1>4. ASSUME NEW mod \in Module, ModuleStep(mod) PROVE FreshSteps(t)
  <2>1. todo'["app"] = todo["app"] /\ todo'["run"] = todo["run"]
    BY <1>4, RxMoves DEF ModuleStep
  <2> QED BY <1>3, <1>4, <2>1, FreshInModule
<1>5. CASE Rx \/ Pop \/ Respond \/ RespondText \/ Forget \/ Unhandled
  <2>1. todo'["app"] = todo["app"] /\ todo'["run"] = todo["run"]
    BY <1>5, RxMoves
  <2> QED BY <1>3, <1>5, <2>1, FreshRest, FreshUnhandled
<1> QED BY <1>2, <1>4, <1>5, FreshOutside, StepClasses

-----------------------------------------------------------------------------
(* Who asks                                                                 *)

(* Steps of one thread at a time.                                            *)
LEMMA OneThreadMoves ==
    ASSUME TypeOK, Shape, [Next]_vars
    PROVE  \E t \in Thread : \A u \in Thread \ {t} : todo'[u] = todo[u]
<1>1. ASSUME NEW t \in Thread, ThreadStep(t) PROVE \A u \in Thread \ {t} : todo'[u] = todo[u]
  BY <1>1, ThreadMoves DEF ThreadStep
<1>2. ASSUME NEW mod \in Module, ModuleStep(mod)
      PROVE  todo'["app"] = todo["app"] /\ todo'["run"] = todo["run"]
  BY <1>2, RxMoves DEF ModuleStep
<1>3. CASE Rx \/ Pop \/ Respond \/ RespondText \/ Forget \/ Unhandled \/ \E mod \in Module : ModuleStep(mod)
  <2>1. todo'["app"] = todo["app"] /\ todo'["run"] = todo["run"]
    BY <1>2, <1>3, RxMoves
  <2>2. \A u \in Thread \ {"rx"} : todo'[u] = todo[u]
    BY <2>1 DEF Thread
  <2> QED BY <2>2 DEF Thread
<1>4. CASE Outside
  <2>1. todo' = todo \/ \E t \in {"app", "run"} : \E steps : todo' = [todo EXCEPT ![t] = steps]
    BY <1>4 DEF Outside, CallText, OtherCall, Run, StopStream, End, Expire, Answer, Change, PeerAsks,
           Call, vars, Starts
  <2> QED BY <2>1 DEF Shape, Thread
<1> QED BY <1>1, <1>3, <1>4, StepClasses

LEMMA SessionGone ==
    ASSUME TypeOK, Shape, [Next]_vars, modules' # modules
    PROVE  /\ Now("rx", "process") /\ Waits("session") /\ This("rx").n \in 1..Len(modules)
           /\ modules[This("rx").n] = "session" /\ modules' = RemoveAt(modules, This("rx").n)
           /\ todo'["rx"] = <<Forgetting("session"), Callback("session"), Popping>>
           /\ Object0.type = "result" /\ todo'["app"] = todo["app"] /\ todo'["run"] = todo["run"]
           /\ UNCHANGED <<sessVars, ids, roster, rx_queue, did, asks, wire>>
<1>1. SessionResult
  BY Changes DEF Effects
<1>2. Now("rx", "process") /\ This("rx").n <= Len(modules) /\ modules[This("rx").n] = "session"
  BY <1>1 DEF SessionResult, Calls
<1>3. /\ Waits("session") /\ Takes("session") /\ modules' = RemoveAt(modules, This("rx").n)
      /\ Object0.type = "result"
      /\ UNCHANGED <<sessVars, ids, roster, rx_queue, did, asks, wire>>
  BY <1>1 DEF SessionResult, peerVars, counters
<1>4. This("rx").n \in 1..Len(modules)
  BY <1>2, CalledAlone, LenProperties DEF TypeOK
<1>5. todo'["rx"] = <<Forgetting("session"), Callback("session"), Popping>>
  BY <1>2, <1>3, HandlesTwo DEF Takes
<1>6. todo'["app"] = todo["app"] /\ todo'["run"] = todo["run"]
  BY <1>1, RxMoves
<1> QED BY <1>2, <1>3, <1>4, <1>5, <1>6

LEMMA RegisteredStays ==
    ASSUME TypeOK, Shape, [Next]_vars, NEW mod \in Range(modules), mod # "session" \/ modules' = modules
    PROVE  mod \in Range(modules')
<1>1. CASE modules' = modules
  BY <1>1
<1>2. CASE modules' # modules
  <2>1. /\ This("rx").n \in 1..Len(modules) /\ modules[This("rx").n] = "session"
        /\ modules' = RemoveAt(modules, This("rx").n)
    BY <1>2, SessionGone
  <2>2. Range(modules') = {modules[i] : i \in 1..Len(modules) \ {This("rx").n}}
    BY <2>1, RemovedRange DEF TypeOK
  <2>3. DOMAIN modules = 1..Len(modules)
    BY LenProperties DEF TypeOK
  <2>4. PICK i \in DOMAIN modules : mod = modules[i]
    BY DEF Range
  <2> QED BY <1>2, <2>1, <2>2, <2>3, <2>4
<1> QED BY <1>1, <1>2

LEMMA AskerStays ==
    ASSUME TypeOK, Shape, [Next]_vars, NEW k, IsAsker(k), k # "session" \/ modules' = modules
    PROVE  IsAsker(k)'
<1>1. PICK mod \in Range(modules) : k \in Kinds(mod)
  BY DEF IsAsker
<1>2. mod # "session" \/ modules' = modules
  BY <1>1, KindsOf
<1>3. mod \in Range(modules')
  BY <1>2, RegisteredStays
<1> QED BY <1>1, <1>3 DEF IsAsker

(* Where the check and the id of a request come from.                        *)
LEMMA AskersOrigin ==
    ASSUME TypeOK, Shape, [Next]_vars, ids["set_vcard"] \subseteq {0}, NEW t \in Thread,
           NEW x \in Range(todo'[t])
    PROVE  /\ x.op \in {"check", "store"} =>
                \/ \E y \in Range(todo[t]) : y.op \in {"check", "store"} /\ y.what = x.what
                \/ todo'[t] # todo[t] /\ Fresh(t, x) /\ x.op = "check"
           /\ x.op = "send" => \E y \in Range(todo[t]) : y.op \in {"send", "store"} /\ y.what = x.what
           /\ x.op = "forget" => x \in Range(todo[t]) \/ (x.what \in Taking)
<1>1. PICK N : Became(t, N) /\ \A a \in N : Fresh(t, a)
  BY NewSteps DEF FreshSteps
<1>2. x \in Range(todo[t]) \/ x \in N
  BY <1>1 DEF Became
<1>3. CASE x \in Range(todo[t])
  BY <1>3
<1>4. CASE x \notin Range(todo[t]) /\ Fresh(t, x)
  <2>1. todo'[t] # todo[t]
    BY <1>4
  <2>2. ASSUME x.op = "store"
        PROVE  \E y \in Range(todo[t]) : y.op \in {"check", "store"} /\ y.what = x.what
    <3>1. Check(t) /\ x.what = This(t).what
      BY <1>4, <2>2 DEF Fresh, Asking, NewStore
    <3>2. This(t).op = "check" /\ This(t) \in Range(todo[t])
      BY <3>1, ThisInRange DEF Check, Now, This
    <3> QED BY <3>1, <3>2
  <2>3. ASSUME x.op = "send"
        PROVE  \E y \in Range(todo[t]) : y.op \in {"send", "store"} /\ y.what = x.what
    <3>1. Store(t) /\ x.what = This(t).what
      BY <1>4, <2>3 DEF Fresh, Asking, NewSend
    <3>2. This(t).op = "store" /\ This(t) \in Range(todo[t])
      BY <3>1, ThisInRange DEF Store, Now, This
    <3> QED BY <3>1, <3>2
  <2>4. x.op = "forget" => x.what \in Taking
    BY <1>4 DEF Fresh, Asking
  <2> QED BY <1>4, <2>1, <2>2, <2>3, <2>4
<1> QED BY <1>1, <1>2, <1>3, <1>4

LEMMA AskersStep ==
    ASSUME Public, TypeOK, Shape, Askers, ids["set_vcard"] \subseteq {0}, [Next]_vars
    PROVE  Askers'
<1>1. ASSUME NEW t \in Thread, NEW x \in Range(todo'[t]), x.op \in Asking
      PROVE  Asks(t, x.what)'
  <2>1. /\ x.what \in {"session", "disco"} => t = "rx"
        /\ x.what # "bind" => IsAsker(x.what)
    <3>1. ASSUME NEW y \in Range(todo[t]), y.op \in Asking
          PROVE  /\ y.what \in {"session", "disco"} => t = "rx"
                 /\ y.what # "bind" => IsAsker(y.what)
      BY <3>1 DEF Askers, Asks, IsAsker
    <3>2. ASSUME Fresh(t, x), x.op = "check"
          PROVE  /\ x.what \in {"session", "disco"} => t = "rx"
                 /\ x.what # "bind" => IsAsker(x.what)
      <4>1. \/ x.what = "bind"
            \/ t = "rx" /\ x.what \in {"session", "disco"} /\ x.what \in Range(modules)
            \/ x.what \in AppKinds \cup CallbackKinds /\ IsAsker(x.what)
        BY <3>2 DEF Fresh, Asking
      <4>2. "session" \in Kinds("session") /\ "disco" \in Kinds("disco")
        BY KindsOf
      <4>3. x.what \in AppKinds \cup CallbackKinds => x.what \notin {"bind", "session", "disco"}
        BY DEF Public
      <4>4. ASSUME x.what \in {"session", "disco"}, x.what \in Range(modules) PROVE IsAsker(x.what)
        BY <4>2, <4>4 DEF IsAsker
      <4> QED BY <4>1, <4>3, <4>4
    <3> QED BY <1>1, <3>1, <3>2, AskersOrigin DEF Asking
  <2>2. ASSUME x.what # "bind" PROVE IsAsker(x.what)'
    <3>1. CASE modules' = modules \/ x.what # "session"
      BY <2>1, <2>2, <3>1, AskerStays
    <3>2. CASE modules' # modules /\ x.what = "session"
      <4>1. t = "rx"
        BY <2>1, <3>2
      <4>2. todo'["rx"] = <<Forgetting("session"), Callback("session"), Popping>>
        BY <3>2, SessionGone
      <4>3. x \in {Forgetting("session"), Callback("session"), Popping}
        BY <4>1, <4>2, TupleOfThree
      <4> QED BY <1>1, <4>3, StepFields DEF Asking
    <3> QED BY <3>1, <3>2
  <2> QED BY <2>1, <2>2 DEF Asks, IsAsker
<1>2. ASSUME NEW t \in Thread, NEW x \in Range(todo'[t]), x.op = "forget"
      PROVE  x.what \in Taking
  BY <1>2, AskersOrigin DEF Askers
<1>3. ASSUME NEW t \in Thread, todo'[t] # <<>>, NEW x \in Range(Tail(todo'[t]))
      PROVE  x.op \notin {"store", "send"}
  <2>1. PICK N : Became(t, N)
    BY NewSteps DEF FreshSteps
  <2> QED BY <1>3, <2>1 DEF Became, Askers
<1> QED BY <1>1, <1>2, <1>3 DEF Askers

-----------------------------------------------------------------------------
(* Sessions begin and end with all threads at rest                           *)

LEMMA RxStaysIdle ==
    ASSUME TypeOK, Shape, [Next]_vars, todo["rx"] = <<>>, ~running
    PROVE  todo'["rx"] = <<>>
<1>1. ASSUME NEW t \in Thread, ThreadStep(t) PROVE todo'["rx"] = <<>>
  <2>1. todo[t] # <<>> /\ \A u \in Thread \ {t} : todo'[u] = todo[u]
    BY <1>1, ThreadSteps, ThreadMoves DEF ThreadStep
  <2> QED BY <2>1 DEF Thread
<1>2. \A op : ~Now("rx", op)
  BY DEF Now
<1>3. ASSUME NEW mod \in Module, ModuleStep(mod) PROVE FALSE
  BY <1>2, <1>3, HandlerMoves DEF ModuleStep, Calls
<1>4. ~Rx
  BY DEF Rx
<1>5. ~(Pop \/ Respond \/ RespondText \/ Forget \/ Unhandled)
  BY <1>2 DEF Pop, Respond, RespondText, Forget, Unhandled
<1> QED BY <1>1, <1>3, <1>4, <1>5, OutsideMoves, StepClasses

LEMMA RunBegins ==
    ASSUME TypeOK, Shape, [Next]_vars, todo["run"] = <<>>, todo'["run"] # <<>>
    PROVE  End
<1>1. ASSUME NEW t \in Thread, ThreadStep(t) PROVE todo'["run"] = <<>>
  <2>1. todo[t] # <<>> /\ \A u \in Thread \ {t} : todo'[u] = todo[u]
    BY <1>1, ThreadSteps, ThreadMoves DEF ThreadStep
  <2> QED BY <2>1 DEF Thread
<1>2. ASSUME NEW mod \in Module, ModuleStep(mod) PROVE todo'["run"] = todo["run"]
  BY <1>2, RxMoves DEF ModuleStep
<1>3. CASE Rx \/ Pop \/ Respond \/ RespondText \/ Forget \/ Unhandled
  BY <1>3, RxMoves
<1>4. CASE Outside /\ ~End
  <2>1. todo' = todo \/ (\E steps : todo' = [todo EXCEPT !["app"] = steps]) \/ todo' = [todo EXCEPT !["run"] = <<>>]
    BY <1>4 DEF Outside, CallText, OtherCall, Run, StopStream, Expire, Answer, Change, PeerAsks,
           Call, vars, Starts
  <2> QED BY <2>1 DEF Shape, Thread
<1> QED BY <1>1, <1>2, <1>3, <1>4, StepClasses

LEMMA BetweenStep ==
    ASSUME TypeOK, Shape, Between, [Next]_vars
    PROVE  Between'
<1>1. Effects
  BY Changes
<1>2. ASSUME Run PROVE Between'
  <2>1. /\ state' = "connecting" /\ running' = TRUE /\ session' = session + 1 /\ wire' = wire
        /\ todo["run"] = <<>> /\ todo' = [todo EXCEPT !["run"] = <<>>]
    BY <1>2 DEF Run, Starts
  <2>2. todo \in [Thread -> Seq(StepOK)] /\ session \in Nat
    BY DEF TypeOK
  <2>3. todo'["run"] = <<>>
    BY <2>1, <2>2 DEF Thread
  <2>4. session' # 0
    BY <2>1, <2>2
  <2> QED BY <2>1, <2>3, <2>4 DEF Between
<1>3. ASSUME StopStream PROVE Between'
  <2>1. running' = FALSE /\ wire' = {} /\ state' = state /\ todo' = todo /\ session' = session /\ running
    BY <1>3 DEF StopStream
  <2> QED BY <2>1 DEF Between
<1>4. ASSUME NEW t \in Thread, ChangeState(t) PROVE Between'
  <2>1. /\ UNCHANGED <<running, session, wire>> /\ Now(t, "state")
        /\ state' = state \/ (Accepted(state, This(t).what) /\ state' = This(t).what)
    BY <1>4 DEF ChangeState, peerVars
  <2>2. todo[t] # <<>> /\ This(t) \in StepFor(t) /\ This(t).op = "state"
    BY <2>1, FirstStep DEF Now
  <2>3. \A u \in Thread \ {t} : todo'[u] = todo[u]
    BY <1>4, ThreadMoves
  <2>4. CASE t = "rx"
    <3>1. state # "closed" /\ todo["run"] = <<>>
      BY <2>2, <2>4 DEF Between
    <3>2. state' # "closed"
      BY <2>1, <2>2, <2>4, <3>1 DEF StepFor
    <3>3. todo'["run"] = todo["run"]
      BY <2>3, <2>4 DEF Thread
    <3> QED BY <2>1, <3>1, <3>2, <3>3 DEF Between
  <2>5. CASE t = "app"
    <3>1. This(t).what = "closing"
      BY <2>2, <2>5 DEF StepFor
    <3>2. state' = state \/ (state # "closed" /\ state' # "closed")
      BY <2>1, <3>1 DEF Accepted
    <3>3. todo'["run"] = todo["run"] /\ todo'["rx"] = todo["rx"]
      BY <2>3, <2>5 DEF Thread
    <3> QED BY <2>1, <3>2, <3>3 DEF Between
  <2>6. CASE t = "run"
    <3>1. state' = state \/ state' = "closed"
      BY <2>1, <2>2, <2>6 DEF StepFor
    <3>2. ~running /\ todo["rx"] = <<>> /\ todo'["rx"] = <<>>
      BY <2>2, <2>3, <2>6 DEF Between, Thread
    <3> QED BY <2>1, <3>1, <3>2 DEF Between
  <2> QED BY <2>4, <2>5, <2>6 DEF Thread
<1>5. ASSUME UNCHANGED <<state, running, session>> PROVE Between'
  <2>1. state' = "closed" => ~running' /\ todo'["rx"] = <<>>
    BY <1>5, RxStaysIdle DEF Between
  <2>2. todo'["run"] # <<>> => ~running' /\ todo'["rx"] = <<>>
    <3>1. CASE todo["run"] # <<>>
      BY <1>5, <3>1, RxStaysIdle DEF Between
    <3>2. ASSUME todo["run"] = <<>>, todo'["run"] # <<>> PROVE ~running' /\ todo'["rx"] = <<>>
      <4>1. End
        BY <3>2, RunBegins
      <4>2. ~running /\ todo["rx"] = <<>>
        BY <4>1 DEF End
      <4> QED BY <1>5, <4>2, RxStaysIdle
    <3> QED BY <3>1, <3>2
  <2>3. ~running' => wire' = {}
    <3>1. CASE wire' = wire
      BY <1>5, <3>1 DEF Between
    <3>2. CASE Answer
      BY <1>5, <3>2 DEF Answer, Between
    <3>3. ASSUME NEW t \in Thread, Send(t) PROVE ~running' => wire' = {}
      BY <1>5, <3>3 DEF Send, Between
    <3> QED BY <1>1, <1>3, <1>5, <3>1, <3>2, <3>3 DEF Effects, Between
  <2> QED BY <1>5, <2>1, <2>2, <2>3 DEF Between
<1> QED BY <1>1, <1>2, <1>3, <1>4, <1>5 DEF Effects

-----------------------------------------------------------------------------
(* Ids                                                                      *)

LEMMA AwaitedKinds ==
    /\ "bind" \notin Awaited /\ "roster_set" \notin Awaited /\ "set_vcard" \notin Awaited
    /\ "roster" \in Awaited /\ Awaited \subseteq Kind /\ Taking \subseteq PlainKinds
    /\ Kinds("private") \subseteq PlainKinds /\ "roster" \notin PlainKinds /\ PlainKinds \subseteq Awaited
<1>1. \A k : k \in Awaited <=> k \in Kind /\ k \notin {"bind", "roster_set", "set_vcard"}
  BY DEF Awaited
<1>2. Kinds("private") = {"private_set", "private_get"}
  BY KindsOf
<1>3. "roster" \in Kind /\ "private_set" \in Kind /\ "private_get" \in Kind
  BY KindNames
<1>4. \A k \in Taking : k \in Kind /\ k \notin {"roster", "bind", "roster_set", "set_vcard"}
  BY HeededKinds
<1> QED BY <1>1, <1>2, <1>3, <1>4 DEF PlainKinds

LEMMA AllowsRoster == ASSUME Allows("roster") PROVE state = "bound"
  BY KindsOf DEF Allows, FreelyAsked, PresenceAllows, RegisterAllows, SearchAllows, VcardAllows,
                 PingAllows, RosterAllows, SessionAllows, DiscoAllows

(* The ids that are in use, by the kind of the request.                       *)
LEMMA InUseRanges ==
    ASSUME TypeOK, Separate, session <= MaxSession, NEW k \in Kind, NEW id \in InUse(k)
    PROVE  /\ id \in Nat /\ id # 0
           /\ \/ k = "roster" /\ id > MaxAsk /\ id < FixedId
              \/ k # "roster" /\ id > 0 /\ id <= asks
              \/ k \in Kinds("private") /\ id \in Given[k] /\ id > PushId
<1>1. /\ asks \in Nat /\ MaxAsk \in Nat /\ MaxSession \in Nat /\ session \in Nat
      /\ FixedId = MaxAsk + MaxSession + 1 /\ PushId = MaxAsk + MaxSession + 2
  BY ModulesAssumption DEF TypeOK, FixedId, PushId
<1>2. CASE k = "roster"
  <2>1. PICK n \in 1..session : id = MaxAsk + n
    BY <1>2 DEF InUse, RosterId
  <2> QED BY <1>1, <1>2, <2>1
<1>3. CASE k # "roster"
  <2>1. id \in 1..asks \/ (k \in Kinds("private") /\ id \in Given[k])
    BY <1>3 DEF InUse
  <2>2. CASE id \in 1..asks
    BY <1>1, <1>3, <2>2
  <2>3. CASE k \in Kinds("private") /\ id \in Given[k]
    <3>1. id > PushId
      BY <2>3 DEF Separate
    <3>2. id \in Nat
      BY <2>3, ModulesAssumption
    <3> QED BY <1>1, <2>3, <3>1, <3>2
  <2> QED BY <2>1, <2>2, <2>3
<1> QED BY <1>2, <1>3

(* The ids that are waited for, by the kind of the request.                   *)
LEMMA IdRanges ==
    ASSUME TypeOK, Separate, IdsApart, NEW k \in Kind, NEW id \in ids[k], id # 0
    PROVE  /\ k \in Awaited /\ id \in Nat
           /\ \/ k = "roster" /\ id > MaxAsk /\ id < FixedId
              \/ k # "roster" /\ id > 0 /\ id <= asks
              \/ k \in Kinds("private") /\ id \in Given[k] /\ id > PushId
<1>1. k \in Awaited /\ id \in InUse(k) /\ session <= MaxSession
  BY DEF IdsApart
<1> QED BY <1>1, InUseRanges

LEMMA StoredIs ==
    ASSUME TypeOK, NEW k \in Kind, NEW id, NEW l \in Kind
    PROVE  /\ Stored(k, id)[l] \subseteq ids[l] \cup (IF l = k /\ k \in Awaited THEN {id} ELSE {})
           /\ k \in Awaited => id \in Stored(k, id)[k]
           /\ l # k \/ k \notin Single => ids[l] \subseteq Stored(k, id)[l]
<1>1. ids \in [Kind -> SUBSET Nat]
  BY DEF TypeOK
<1>2. k \in Awaited <=> k \notin {"bind", "roster_set", "set_vcard"}
  BY DEF Awaited
<1>3. CASE k \notin Awaited
  BY <1>2, <1>3 DEF Stored
<1>4. CASE k \in Awaited
  <2>1. Stored(k, id) = [ids EXCEPT ![k] = IF k \in Single THEN {id} ELSE ids[k] \cup {id}]
    BY <1>2, <1>4 DEF Stored
  <2> QED BY <1>1, <1>4, <2>1
<1> QED BY <1>3, <1>4

LEMMA IdsChange ==
    ASSUME TypeOK, Shape, [Next]_vars
    PROVE  \/ /\ Forget \/ ids' = ids
              /\ \A k \in Kind : ids'[k] \subseteq ids[k] \cup {0}
           \/ \E t \in Thread : \E a : /\ NewSend(t, a) /\ a.op = "send" /\ Then(t, <<a>>)
                                       /\ asks' = asks /\ session' = session
<1>1. CASE ids' = ids
  BY <1>1
<1>2. CASE Forget
  <2>1. PICK k, n : ids' = [ids EXCEPT ![k] = IF k \in Single THEN {0} ELSE ids[k] \ {n}]
    BY <1>2 DEF Forget
  <2>2. ids \in [Kind -> SUBSET Nat]
    BY DEF TypeOK
  <2>3. \A l \in Kind : ids'[l] \subseteq ids[l] \cup {0}
    BY <2>1, <2>2
  <2> QED BY <1>2, <2>3
<1>3. ASSUME NEW t \in Thread, Store(t), ids' # ids
      PROVE  \E a : /\ NewSend(t, a) /\ a.op = "send" /\ Then(t, <<a>>)
                    /\ asks' = asks /\ session' = session
  BY <1>3, StoreSteps DEF Store, counters, sessVars
<1> QED BY <1>1, <1>2, <1>3, Changes DEF Effects

LEMMA IdsForIs ==
    ASSUME NEW k, NEW n
    PROVE  /\ k = "roster" => IdsFor(k, n) = {RosterId(session)}
           /\ k \in {"bind", "roster_set"} => IdsFor(k, n) = {FixedId}
           /\ k \notin {"bind", "roster_set", "roster"} =>
                 IdsFor(k, n) = {n} \cup (IF k \in Kinds("private") THEN Given[k] ELSE {})
<1>1. k \in Kinds("private") => k \notin {"bind", "roster_set", "roster"}
  BY KindsOf
<1>2. CASE k = "roster"
  BY <1>1, <1>2 DEF IdsFor
<1>3. CASE k = "bind"
  BY <1>1, <1>3 DEF IdsFor
<1>4. CASE k = "roster_set"
  BY <1>1, <1>4 DEF IdsFor
<1>5. CASE k \notin {"bind", "roster_set", "roster"} /\ k \in Kinds("private")
  BY <1>5 DEF IdsFor
<1>6. CASE k \notin {"bind", "roster_set", "roster"} /\ k \notin Kinds("private")
  BY <1>6 DEF IdsFor
<1> QED BY <1>2, <1>3, <1>4, <1>5, <1>6

(* A request that is about to be sent has an id of its own.                   *)
LEMMA IdOfNewSend ==
    ASSUME TypeOK, Shape, Separate, Askers, IdsApart, NewIds, NEW t \in Thread, NEW a, NewSend(t, a)
    PROVE  /\ This(t) \in Range(todo[t]) /\ This(t).op = "store" /\ This(t).what = a.what
           /\ a.what \in Kind /\ Asks(t, a.what)
           /\ a.what \in {"bind", "roster_set"} => a.n = FixedId
           /\ a.what = "roster" => a.n = RosterId(session) /\ session # 0
           /\ a.what \notin {"bind", "roster_set"} =>
                 /\ a.n \in InUse(a.what) /\ a.n # 0 /\ a.n \in Nat
                 /\ \A l \in Kind \ {a.what} : a.n \notin ids[l]
           /\ a.what \notin {"bind", "roster_set", "roster"} =>
                 /\ a.n \notin ids[a.what] /\ a.n \notin (1..asks) \ {This(t).n}
                 /\ a.n = This(t).n \/ (a.what \in Kinds("private") /\ a.n \in Given[a.what])
           /\ a.what = "roster" => a.n > asks
<1>1. PICK k, id, n : k = a.what /\ id = a.n /\ n = This(t).n
  OBVIOUS
<1>2. Now(t, "store") /\ k = This(t).what /\ id \in IdsFor(k, n)
      /\ (k \in Kinds("private") => id \notin ids[k])
  BY <1>1 DEF NewSend, Store
<1>3. This(t) \in Range(todo[t]) /\ This(t).op = "store" /\ This(t) \in StepOK
  BY <1>2, ThisInRange, FirstStep DEF Now, This, StepFor
<1>4. k \in Kind /\ n \in Nat
  BY <1>1, <1>2, <1>3, StepKinds DEF Request
<1>5. Asks(t, k)
  BY <1>2, <1>3 DEF Askers, Asking
<1>7. k # "bind" => /\ n \in 1..asks /\ \A l \in Kind : n \notin ids[l]
                    /\ k = "roster" => session # 0
  BY <1>1, <1>2, <1>3 DEF NewIds
<1>8. /\ MaxAsk \in Nat /\ MaxSession \in Nat /\ asks \in Nat /\ asks <= MaxAsk
      /\ session \in Nat /\ session <= MaxSession
  BY ModulesAssumption DEF TypeOK, IdsApart
<1>9. CASE k = "roster"
  <2>1. id = RosterId(session) /\ session # 0
    BY <1>2, <1>7, <1>9, IdsForIs
  <2>2. session \in 1..session
    BY <1>8, <2>1
  <2>3. id \in InUse(k)
    BY <1>9, <2>1, <2>2 DEF InUse
  <2>4. id = MaxAsk + session
    BY <2>1 DEF RosterId
  <2>5. id > MaxAsk /\ id < FixedId /\ id # 0 /\ id \in Nat /\ id < PushId /\ id > asks
    BY <1>8, <2>1, <2>4 DEF FixedId, PushId
  <2>6. ASSUME NEW l \in Kind \ {k}, id \in ids[l] PROVE FALSE
    <3>1. (id > 0 /\ id <= asks) \/ id > PushId
      BY <1>9, <2>5, <2>6, IdRanges
    <3>2. PushId \in Nat
      BY FixedIds
    <3> QED BY <1>8, <2>5, <3>1, <3>2
  <2> QED BY <1>1, <1>2, <1>3, <1>4, <1>5, <1>9, <2>1, <2>3, <2>5, <2>6
<1>10. CASE k \in {"bind", "roster_set"}
  <2>1. id = FixedId
    BY <1>2, <1>10, IdsForIs
  <2> QED BY <1>1, <1>2, <1>3, <1>4, <1>5, <1>10, <2>1
<1>11. CASE k \notin {"bind", "roster_set", "roster"} /\ id = n
  <2>1. id \in 1..asks /\ \A l \in Kind : id \notin ids[l]
    BY <1>7, <1>11
  <2>2. id \in Nat /\ id # 0
    BY <1>8, <2>1
  <2>3. id \in InUse(k)
    BY <1>11, <2>1 DEF InUse
  <2> QED BY <1>1, <1>2, <1>3, <1>4, <1>5, <1>11, <2>1, <2>2, <2>3
<1>12. CASE k \notin {"bind", "roster_set", "roster"} /\ id # n
  <2>1. k \in Kinds("private") /\ id \in Given[k]
    BY <1>2, <1>12, IdsForIs
  <2>2. id > PushId /\ id \in InUse(k) /\ id \in Nat
    BY <1>12, <2>1, ModulesAssumption DEF Separate, InUse
  <2>3. id \notin ids[k]
    BY <1>2, <2>1
  <2>4. PushId \in Nat /\ PushId > FixedId /\ FixedId \in Nat /\ FixedId > MaxAsk
    BY FixedIds
  <2>5. id # 0 /\ id > asks
    BY <1>8, <2>2, <2>4
  <2>6. ASSUME NEW l \in Kind \ {k}, id \in ids[l] PROVE FALSE
    <3>1. \/ id < FixedId \/ id <= asks
          \/ l \in Kinds("private") /\ id \in Given[l]
      BY <2>5, <2>6, IdRanges
    <3>2. id \notin Given[l] \/ l \notin Kinds("private")
      BY <2>1, <2>6 DEF Separate
    <3> QED BY <1>8, <2>2, <2>4, <2>5, <3>1, <3>2
  <2>7. id \notin 1..asks
    BY <1>8, <2>2, <2>5
  <2> QED BY <1>1, <1>2, <1>3, <1>4, <1>5, <1>12, <2>1, <2>2, <2>3, <2>5, <2>6, <2>7
<1> QED BY <1>9, <1>10, <1>11, <1>12

LEMMA CountersGrow ==
    ASSUME TypeOK, Shape, IdsApart, [Next]_vars
    PROVE  /\ asks' \in Nat /\ asks' >= asks /\ asks' <= MaxAsk
           /\ session' \in Nat /\ session' >= session /\ session' <= MaxSession
<1>1. asks \in Nat /\ session \in Nat /\ MaxAsk \in Nat /\ MaxSession \in Nat
      /\ asks <= MaxAsk /\ session <= MaxSession
  BY ModulesAssumption DEF TypeOK, IdsApart
<1>2. asks' = asks \/ (asks < MaxAsk /\ asks' = asks + 1)
  <2>1. ASSUME NEW t \in Thread, Check(t) PROVE asks' = asks \/ (asks < MaxAsk /\ asks' = asks + 1)
    BY <2>1 DEF Check
  <2> QED BY <2>1, Changes DEF Effects
<1>3. session' = session \/ (session < MaxSession /\ session' = session + 1)
  BY Changes DEF Effects, Run
<1> QED BY <1>1, <1>2, <1>3

LEMMA InUseGrows ==
    ASSUME TypeOK, Shape, IdsApart, [Next]_vars, NEW k PROVE InUse(k) \subseteq InUse(k)'
<1>1. /\ asks' \in Nat /\ asks' >= asks /\ asks \in Nat
      /\ session' \in Nat /\ session' >= session /\ session \in Nat
  BY CountersGrow DEF TypeOK
<1>2. 1..asks \subseteq 1..asks' /\ 1..session \subseteq 1..session'
  BY <1>1
<1> QED BY <1>2 DEF InUse, RosterId

LEMMA IdsApartStep ==
    ASSUME TypeOK, Shape, Separate, Askers, IdsApart, NewIds, [Next]_vars
    PROVE  IdsApart'
<1>1. /\ asks' \in Nat /\ asks' >= asks /\ asks' <= MaxAsk /\ asks \in Nat
      /\ session' \in Nat /\ session' >= session /\ session' <= MaxSession /\ session \in Nat
  BY CountersGrow DEF TypeOK
<1>2. \A k \in Kind : InUse(k) \subseteq InUse(k)'
  BY InUseGrows
<1>3. ids \in [Kind -> SUBSET Nat]
  BY DEF TypeOK
<1>4. CASE \A k \in Kind : ids'[k] \subseteq ids[k] \cup {0}
  <2>1. \A k \in Kind : k \notin Awaited => ids'[k] \subseteq {0}
    BY <1>4 DEF IdsApart
  <2>2. \A k \in Awaited : ids'[k] \subseteq InUse(k)' \cup {0}
    BY <1>2, <1>4 DEF IdsApart, Awaited
  <2>3. \A k, l \in Kind : k # l => ids'[k] \cap ids'[l] \subseteq {0}
    BY <1>4 DEF IdsApart
  <2> QED BY <1>1, <2>1, <2>2, <2>3 DEF IdsApart
<1>5. ASSUME NEW t \in Thread, NEW a, NewSend(t, a) PROVE IdsApart'
  <2>1. PICK w, n : w = a.what /\ n = a.n
    OBVIOUS
  <2>2. /\ w \in Kind
        /\ w \in Awaited => /\ n \in InUse(w) /\ n # 0
                            /\ \A l \in Kind \ {w} : n \notin ids[l]
    BY <1>5, <2>1, IdOfNewSend, AwaitedKinds
  <2>3. ids' = Stored(w, n)
    BY <1>5, <2>1 DEF NewSend
  <2>4. \A l \in Kind : ids'[l] \subseteq ids[l] \cup (IF l = w /\ w \in Awaited THEN {n} ELSE {})
    BY <2>2, <2>3, StoredIs
  <2>5. \A k \in Kind : k \notin Awaited => ids'[k] \subseteq {0}
    BY <2>4 DEF IdsApart
  <2>6. ASSUME NEW k \in Awaited PROVE ids'[k] \subseteq InUse(k)' \cup {0}
    <3>1. k \in Kind
      BY DEF Awaited
    <3>2. ids[k] \subseteq InUse(k) \cup {0} /\ InUse(k) \subseteq InUse(k)'
      BY <1>2, <3>1 DEF IdsApart
    <3> QED BY <2>2, <2>4, <3>1, <3>2
  <2>7. ASSUME NEW k \in Kind, NEW l \in Kind, k # l PROVE ids'[k] \cap ids'[l] \subseteq {0}
    <3>1. ids[k] \cap ids[l] \subseteq {0}
      BY <2>7 DEF IdsApart
    <3> QED BY <2>2, <2>4, <2>7, <3>1
  <2> QED BY <1>1, <2>5, <2>6, <2>7 DEF IdsApart
<1> QED BY <1>4, <1>5, IdsChange

-----------------------------------------------------------------------------
(* The ids that requests are about to be stored with                        *)

(* A step to store a request is an old one, or the request has been checked.  *)
LEMMA StoreOrigin ==
    ASSUME TypeOK, Shape, Separate, Between, IdsApart, [Next]_vars, NEW t \in Thread,
           NEW x \in Range(todo'[t]), x.op = "store", x.what # "bind", x \notin Range(todo[t])
    PROVE  /\ asks' = asks + 1 /\ x.n = asks + 1 /\ ids' = ids /\ \A k \in Kind : x.n \notin ids[k]
           /\ x.what = "roster" => session' # 0
<1>1. ids["set_vcard"] \subseteq {0}
  BY AwaitedKinds, KindNames DEF IdsApart
<1>2. NewStore(t, x)
  <2>1. PICK N : Became(t, N) /\ \A a \in N : Fresh(t, a)
    BY <1>1, NewSteps DEF FreshSteps
  <2>2. Fresh(t, x)
    BY <2>1 DEF Became
  <2> QED BY <2>2 DEF Fresh, Asking
<1>3. /\ Allows(x.what) /\ asks < MaxAsk /\ asks' = asks + 1 /\ x.n = asks + 1
      /\ ids' = ids /\ session' = session
  BY <1>2 DEF NewStore, Check, modVars, sessVars
<1>4. asks \in Nat /\ FixedId \in Nat /\ PushId \in Nat /\ MaxAsk \in Nat /\ PushId > MaxAsk /\ FixedId > MaxAsk
  BY FixedIds DEF TypeOK
<1>5. ASSUME NEW k \in Kind, x.n \in ids[k] PROVE FALSE
  <2>1. x.n # 0
    BY <1>3, <1>4
  <2>2. x.n > MaxAsk \/ x.n <= asks \/ x.n > PushId
    BY <1>5, <2>1, IdRanges
  <2> QED BY <1>3, <1>4, <2>2
<1>6. x.what = "roster" => session # 0
  BY <1>3, AllowsRoster DEF Between
<1> QED BY <1>3, <1>5, <1>6

(* The id that a request is stored with is not the one another has got.       *)
LEMMA StoresAnother ==
    ASSUME TypeOK, Shape, Separate, Askers, IdsApart, NewIds, NEW t \in Thread,
           NEW x \in Range(todo[t]), x \in Range(todo'[t]), x.op = "store", x.what # "bind",
           NEW u \in Thread, NEW a, NewSend(u, a), a.op = "send", Then(u, <<a>>)
    PROVE  a.n # x.n
<1>1. x.n \in 1..asks
  BY DEF NewIds
<1>2. /\ asks \in Nat /\ asks <= MaxAsk /\ MaxAsk \in Nat /\ FixedId \in Nat /\ FixedId > MaxAsk
  BY FixedIds DEF TypeOK, IdsApart
<1>3. /\ This(u) \in Range(todo[u]) /\ This(u).op = "store" /\ This(u).what = a.what
      /\ a.what \in {"bind", "roster_set"} => a.n = FixedId
      /\ a.what = "roster" => a.n > asks
      /\ a.what \notin {"bind", "roster_set", "roster"} => a.n \notin (1..asks) \ {This(u).n}
  BY IdOfNewSend
<1>4. u # t
  <2>1. SUFFICES ASSUME u = t PROVE FALSE
    OBVIOUS
  <2>2. todo[t] # <<>>
    BY <2>1 DEF NewSend, Store, Now
  <2>3. Range(todo'[t]) = {a} \cup Range(Tail(todo[t]))
    <3>1. PICK s : s = <<a>>
      OBVIOUS
    <3>2. s \in Seq({a}) /\ Range(s) = {a}
      BY <3>1, NoSteps
    <3>3. Then(t, s)
      BY <2>1, <3>1
    <3> QED BY <2>2, <3>2, <3>3, ThenRange
  <2>4. x \in Range(Tail(todo[t]))
    BY <2>3
  <2> QED BY <2>2, <2>4 DEF Askers
<1>5. a.what # "bind" => x.n # This(u).n
  BY <1>3, <1>4 DEF NewIds
<1>6. CASE a.what \in {"bind", "roster_set"}
  BY <1>1, <1>2, <1>3, <1>6
<1>7. CASE a.what = "roster"
  BY <1>1, <1>2, <1>3, <1>7
<1>8. CASE a.what \notin {"bind", "roster_set", "roster"}
  BY <1>1, <1>3, <1>5, <1>8
<1> QED BY <1>6, <1>7, <1>8

LEMMA StoreIdsStep ==
    ASSUME TypeOK, TypeOK', Shape, Separate, Askers, Between, IdsApart, NewIds, [Next]_vars
    PROVE  /\ \A t \in Thread : \A step \in Range(todo'[t]) : step.op = "store" /\ step.what # "bind" =>
                 /\ step.n \in 1..asks' /\ \A k \in Kind : step.n \notin ids'[k]
                 /\ step.what = "roster" => session' # 0
           /\ \A t, u \in Thread : \A a \in Range(todo'[t]), b \in Range(todo'[u]) :
                 a.op = "store" /\ b.op = "store" /\ t # u /\ a.what # "bind" /\ b.what # "bind"
                     => a.n # b.n
<1>1. /\ asks' \in Nat /\ asks' >= asks /\ asks \in Nat
      /\ session' \in Nat /\ session' >= session /\ session \in Nat
  BY CountersGrow DEF TypeOK
<1>4. ASSUME NEW t \in Thread, NEW x \in Range(todo[t]), x \in Range(todo'[t]),
             x.op = "store", x.what # "bind"
      PROVE  /\ x.n \in 1..asks' /\ \A k \in Kind : x.n \notin ids'[k]
             /\ x.what = "roster" => session' # 0
  <2>1. /\ x.n \in 1..asks /\ \A k \in Kind : x.n \notin ids[k]
        /\ x.what = "roster" => session # 0
    BY <1>4 DEF NewIds
  <2>2. x.n \in 1..asks' /\ x.n # 0 /\ (x.what = "roster" => session' # 0)
    BY <1>1, <2>1
  <2>3. CASE \A k \in Kind : ids'[k] \subseteq ids[k] \cup {0}
    <3>1. \A k \in Kind : x.n \notin ids'[k]
      BY <2>1, <2>2, <2>3
    <3> QED BY <2>2, <3>1
  <2>4. ASSUME NEW u \in Thread, NEW a, NewSend(u, a), a.op = "send", Then(u, <<a>>)
        PROVE  \A k \in Kind : x.n \notin ids'[k]
    <3>1. a.what \in Kind
      BY <2>4, IdOfNewSend
    <3>2. \A l \in Kind : ids'[l] \subseteq ids[l] \cup (IF l = a.what /\ a.what \in Awaited THEN {a.n} ELSE {})
      <4>1. PICK w, n : w = a.what /\ n = a.n
        OBVIOUS
      <4>2. ids' = Stored(w, n) /\ w \in Kind
        BY <2>4, <3>1, <4>1 DEF NewSend
      <4> QED BY <4>1, <4>2, StoredIs
    <3>3. x.n # a.n
      BY <1>4, <2>4, StoresAnother
    <3> QED BY <2>1, <3>2, <3>3
  <2> QED BY <2>2, <2>3, <2>4, IdsChange
<1>5. ASSUME NEW t \in Thread, NEW x \in Range(todo'[t]), x.op = "store", x.what # "bind",
             x \notin Range(todo[t])
      PROVE  /\ x.n \in 1..asks' /\ \A k \in Kind : x.n \notin ids'[k]
             /\ x.what = "roster" => session' # 0
  <2>1. /\ asks' = asks + 1 /\ x.n = asks + 1 /\ ids' = ids /\ \A k \in Kind : x.n \notin ids[k]
        /\ x.what = "roster" => session' # 0
    BY <1>5, StoreOrigin
  <2> QED BY <1>1, <2>1
<1>6. ASSUME NEW t \in Thread, NEW u \in Thread, t # u,
             NEW a \in Range(todo'[t]), NEW b \in Range(todo'[u]),
             a.op = "store", b.op = "store", a.what # "bind", b.what # "bind"
      PROVE  a.n # b.n
  <2>1. ASSUME NEW v \in Thread, NEW y \in Range(todo[v]), y.op = "store", y.what # "bind"
        PROVE  y.n \in 1..asks
    BY <2>1 DEF NewIds
  <2>2. CASE a \notin Range(todo[t])
    <3>1. a.n = asks + 1
      BY <1>6, <2>2, StoreOrigin
    <3>2. b \in Range(todo[u])
      BY <1>6, <2>2, OneThreadMoves
    <3> QED BY <1>1, <1>6, <2>1, <3>1, <3>2
  <2>3. CASE b \notin Range(todo[u])
    <3>1. b.n = asks + 1
      BY <1>6, <2>3, StoreOrigin
    <3>2. a \in Range(todo[t])
      BY <1>6, <2>3, OneThreadMoves
    <3> QED BY <1>1, <1>6, <2>1, <3>1, <3>2
  <2>4. CASE a \in Range(todo[t]) /\ b \in Range(todo[u])
    BY <1>6, <2>4 DEF NewIds
  <2> QED BY <2>2, <2>3, <2>4
<1>7. ASSUME NEW t \in Thread, NEW x \in Range(todo'[t]), x.op = "store", x.what # "bind"
      PROVE  /\ x.n \in 1..asks' /\ \A k \in Kind : x.n \notin ids'[k]
             /\ x.what = "roster" => session' # 0
  BY <1>4, <1>5, <1>7
<1> QED BY <1>6, <1>7

-----------------------------------------------------------------------------
(* What arrives                                                             *)

(* An object that answers no request of a module.                            *)
Other(obj) ==
    /\ obj.re = "none"
    /\ \/ obj.tag \in {"stream", "features", "timeout"} /\ obj.type = "none" /\ obj.query = "none"
       \/ /\ obj.tag = "iq" /\ obj.type \in {"set", "result", "error"}
          /\ obj.id \in {FixedId, PushId} /\ (obj.type = "set" => obj.query # "bind")
       \/ \E mod \in Range(modules) : \E asked \in PeerRequests[mod] : obj = [asked EXCEPT !.of = session]

AnswersOne(obj, req) ==
    /\ Answer /\ req \in wire /\ wire' = wire \ {req}
    /\ obj.tag = "iq" /\ obj.type \in {"result", "error"} /\ obj.re = req.kind /\ obj.id = req.id
    /\ obj.query = (IF obj.type = "result" /\ obj.re = "roster" THEN "roster" ELSE "none")
    /\ req.kind \notin {"bind", "roster_set"} \cup Kinds("presence")
    /\ req.kind = "roster" => Distinct(obj.items)

Arrived ==
    \/ rx_queue' = rx_queue
    \/ \E obj \in Object : /\ obj.of = session' /\ rx_queue' = Append(rx_queue, obj)
                           /\ Other(obj) \/ \E req : AnswersOne(obj, req)
    \/ \E obj, obj2 \in Object : /\ obj.of = session' /\ obj2.of = session' /\ Other(obj) /\ Other(obj2)
                                 /\ rx_queue' = Append(Append(rx_queue, obj), obj2)

LEMMA AnIqIs ==
    ASSUME TypeOK, NEW type \in {"get", "set", "result", "error"}, NEW id \in Nat,
           NEW query \in {"none", "bind", "roster"}, NEW items \in Seq(Item),
           NEW re \in Kind \cup {"none"}, NEW obj, obj = AnIq(type, id, query, items, re)
    PROVE  /\ obj \in Object /\ obj.of = session /\ obj.tag = "iq" /\ obj.type = type /\ obj.id = id
           /\ obj.query = query /\ obj.items = items /\ obj.re = re
<1>1. obj \in Object
  BY IqsAreHeard DEF Heard
<1> QED BY <1>1 DEF AnIq

LEMMA PushIs ==
    ASSUME TypeOK, NEW item \in Item, item.sub = "remove" => item.jid \in DOMAIN server, Changed(item)
    PROVE  \/ Push(item.jid, item.sub) = <<>>
           \/ \E obj \in Object : /\ obj.of = session /\ Other(obj)
                                  /\ Push(item.jid, item.sub) = <<obj>>
<1>1. PICK items, obj : /\ items = <<[jid |-> item.jid, sub |-> item.sub]>>
                        /\ obj = AnIq("set", PushId, "roster", items, "none")
  OBVIOUS
<1>2. items \in Seq(Item)
  <2>1. [jid |-> item.jid, sub |-> item.sub] \in Item
    BY DEF Item
  <2> QED BY <1>1, <2>1
<1>3. PushId \in Nat
  BY FixedIds
<1>4. /\ obj \in Object /\ obj.of = session /\ obj.tag = "iq" /\ obj.type = "set" /\ obj.id = PushId
      /\ obj.query = "roster" /\ obj.re = "none"
  <2>1. PICK type, id, query, re : type = "set" /\ id = PushId /\ query = "roster" /\ re = "none"
    OBVIOUS
  <2>2. /\ type \in {"get", "set", "result", "error"} /\ id \in Nat
        /\ query \in {"none", "bind", "roster"} /\ re \in Kind \cup {"none"}
    BY <1>3, <2>1
  <2>3. obj = AnIq(type, id, query, items, re)
    BY <1>1, <2>1
  <2>4. /\ obj \in Object /\ obj.of = session /\ obj.tag = "iq" /\ obj.type = type /\ obj.id = id
        /\ obj.query = query /\ obj.items = items /\ obj.re = re
    BY <1>2, <2>2, <2>3, AnIqIs
  <2> QED BY <2>1, <2>4
<1>5. Other(obj)
  BY <1>4 DEF Other
<1>6. Push(item.jid, item.sub) = IF interested THEN <<obj>> ELSE <<>>
  BY <1>1 DEF Push
<1> QED BY <1>4, <1>5, <1>6

LEMMA TwoSaid ==
    ASSUME TypeOK, NEW obj \in Object, NEW done \in Object
    PROVE  rx_queue \o (<<obj>> \o <<done>>) = Append(Append(rx_queue, obj), done)
<1>1. rx_queue \in Seq(Object)
  BY DEF TypeOK
<1>2. <<obj>> \in Seq(Object) /\ <<done>> \in Seq(Object)
  OBVIOUS
<1>3. rx_queue \o (<<obj>> \o <<done>>) = (rx_queue \o <<obj>>) \o <<done>>
  BY <1>1, <1>2, ConcatAssociative
<1>4. rx_queue \o <<obj>> = Append(rx_queue, obj)
  BY <1>1, AppendIsConcat
<1>5. Append(rx_queue, obj) \o <<done>> = Append(Append(rx_queue, obj), done)
  BY <1>1, AppendProperties, AppendIsConcat
<1> QED BY <1>3, <1>4, <1>5

LEMMA AnswerArrives ==
    ASSUME TypeOK, Answer, \A req \in wire : Proper(req.kind, req.id)
    PROVE  Arrived
<1>1. PICK req \in wire :
       /\ wire' = wire \ {req}
       /\ CASE req.kind = "bind" ->
                 /\ Says(<<AnIq("result", req.id, "bind", <<>>, "none")>>)
                 /\ UNCHANGED <<server, interested>>
            [] req.kind = "roster" ->
                 /\ interested' = TRUE
                 /\ \/ Says(<<AnIq("result", req.id, "roster", SetToSeq(Contacts(server)), "roster")>>)
                    \/ Says(<<AnIq("error", req.id, "none", <<>>, "roster")>>)
                 /\ UNCHANGED server
            [] req.kind = "roster_set" ->
                 /\ IF req.item.sub = "remove" /\ req.item.jid \notin DOMAIN server
                    THEN UNCHANGED server /\ Says(<<AnIq("error", req.id, "none", <<>>, "none")>>)
                    ELSE /\ Changed(req.item)
                         /\ Says(Push(req.item.jid, req.item.sub)
                                 \o <<AnIq("result", req.id, "none", <<>>, "none")>>)
                 /\ UNCHANGED interested
            [] req.kind \in Kinds("presence") -> UNCHANGED <<rx_queue, server, interested>>
            [] OTHER ->
                 /\ \E type \in {"result", "error"} :
                        Says(<<AnIq(type, req.id, "none", <<>>, req.kind)>>)
                 /\ UNCHANGED <<server, interested>>
  BY DEF Answer
<1>2. req.id \in Nat /\ req.kind \in Kind /\ req.item \in Item
  BY DEF TypeOK
<1>3. /\ "roster" \in Kind /\ "roster" \notin Kinds("presence") /\ "roster_set" \notin Kinds("presence")
      /\ "bind" \notin Kinds("presence") /\ "bind" \in Kind /\ "roster_set" \in Kind
  BY KindNames, KindsOf
<1>4. <<>> \in Seq(Item) /\ session' = session /\ Distinct(<<>>)
  <2>1. session' = session
    BY DEF Answer, sessVars
  <2> QED BY <2>1, EmptySeq DEF Distinct
<1>5. req.kind \in {"bind", "roster_set"} => req.id = FixedId
  BY DEF Proper
<1>6. ASSUME NEW obj \in Object, Says(<<obj>>), obj.of = session, Other(obj) \/ AnswersOne(obj, req)
      PROVE  Arrived
  BY <1>4, <1>6, SaidOne DEF Arrived
<1>7. ASSUME NEW type \in {"result", "error"}, NEW query \in {"none", "bind"},
             req.kind \in {"bind", "roster_set"}, NEW obj, obj = AnIq(type, req.id, query, <<>>, "none")
      PROVE  obj \in Object /\ obj.of = session /\ Other(obj)
  <2>1. /\ obj \in Object /\ obj.of = session /\ obj.tag = "iq" /\ obj.type = type /\ obj.id = req.id
        /\ obj.re = "none"
    <3>1. PICK items, re : items = <<>> /\ re = "none"
      OBVIOUS
    <3>2. /\ type \in {"get", "set", "result", "error"} /\ query \in {"none", "bind", "roster"}
          /\ items \in Seq(Item) /\ re \in Kind \cup {"none"} /\ obj = AnIq(type, req.id, query, items, re)
      BY <1>4, <1>7, <3>1
    <3>3. /\ obj \in Object /\ obj.of = session /\ obj.tag = "iq" /\ obj.type = type /\ obj.id = req.id
          /\ obj.re = re
      BY <1>2, <3>2, AnIqIs
    <3> QED BY <3>1, <3>3
  <2> QED BY <1>5, <1>7, <2>1 DEF Other
<1>8. ASSUME NEW type \in {"result", "error"}, NEW items \in Seq(Item), Distinct(items),
             NEW query \in {"none", "roster"},
             query = (IF type = "result" /\ req.kind = "roster" THEN "roster" ELSE "none"),
             req.kind \notin {"bind", "roster_set"} \cup Kinds("presence"),
             Says(<<AnIq(type, req.id, query, items, req.kind)>>)
      PROVE  Arrived
  <2>1. PICK obj : obj = AnIq(type, req.id, query, items, req.kind)
    OBVIOUS
  <2>2. /\ obj \in Object /\ obj.of = session /\ obj.tag = "iq" /\ obj.type = type /\ obj.id = req.id
        /\ obj.query = query /\ obj.items = items /\ obj.re = req.kind
    BY <1>2, <2>1, AnIqIs
  <2>3. AnswersOne(obj, req)
    BY <1>1, <1>8, <2>2 DEF AnswersOne
  <2> QED BY <1>6, <1>8, <2>1, <2>2, <2>3
<1>9. CASE req.kind = "bind"
  <2>1. Says(<<AnIq("result", req.id, "bind", <<>>, "none")>>)
    BY <1>1, <1>3, <1>9
  <2> QED BY <1>6, <1>7, <1>9, <2>1
<1>10. CASE req.kind = "roster"
  <2>1. \/ Says(<<AnIq("result", req.id, "roster", SetToSeq(Contacts(server)), "roster")>>)
        \/ Says(<<AnIq("error", req.id, "none", <<>>, "roster")>>)
    BY <1>1, <1>3, <1>10
  <2>2. PICK items : items = SetToSeq(Contacts(server))
    OBVIOUS
  <2>3. items \in Seq(Item) /\ Distinct(items)
    BY <2>2, RosterSent DEF Represents, Distinct
  <2>4. CASE Says(<<AnIq("result", req.id, "roster", items, "roster")>>)
    BY <1>3, <1>8, <1>10, <2>3, <2>4
  <2>5. CASE Says(<<AnIq("error", req.id, "none", <<>>, "roster")>>)
    BY <1>3, <1>4, <1>8, <1>10, <2>5
  <2> QED BY <2>1, <2>2, <2>4, <2>5
<1>11. CASE req.kind = "roster_set"
  <2>1. IF req.item.sub = "remove" /\ req.item.jid \notin DOMAIN server
        THEN UNCHANGED server /\ Says(<<AnIq("error", req.id, "none", <<>>, "none")>>)
        ELSE /\ Changed(req.item)
             /\ Says(Push(req.item.jid, req.item.sub)
                      \o <<AnIq("result", req.id, "none", <<>>, "none")>>)
    BY <1>1, <1>3, <1>11
  <2>2. CASE req.item.sub = "remove" /\ req.item.jid \notin DOMAIN server
    BY <1>6, <1>7, <1>11, <2>1, <2>2
  <2>3. CASE req.item.sub = "remove" => req.item.jid \in DOMAIN server
    <3>1. PICK done : done = AnIq("result", req.id, "none", <<>>, "none")
      OBVIOUS
    <3>2. done \in Object /\ done.of = session /\ Other(done)
      BY <1>7, <1>11, <3>1
    <3>3. Changed(req.item) /\ Says(Push(req.item.jid, req.item.sub) \o <<done>>)
      BY <2>1, <2>3, <3>1
    <3>4. CASE Push(req.item.jid, req.item.sub) = <<>>
      <4>1. Says(<<done>>)
        BY <3>3, <3>4, TupleOfOne
      <4> QED BY <1>6, <3>2, <4>1
    <3>5. ASSUME NEW obj \in Object, obj.of = session, Other(obj), Push(req.item.jid, req.item.sub) = <<obj>>
          PROVE  Arrived
      <4>1. rx_queue' = rx_queue \o (<<obj>> \o <<done>>)
        BY <3>3, <3>5 DEF Says
      <4>2. rx_queue' = Append(Append(rx_queue, obj), done)
        BY <3>2, <4>1, TwoSaid
      <4> QED BY <1>4, <3>2, <3>5, <4>2 DEF Arrived
    <3> QED BY <1>2, <2>3, <3>3, <3>4, <3>5, PushIs
  <2> QED BY <2>2, <2>3
<1>12. CASE req.kind \in Kinds("presence")
  <2>1. UNCHANGED <<rx_queue, server, interested>>
    BY <1>1, <1>3, <1>12
  <2> QED BY <2>1 DEF Arrived
<1>13. CASE req.kind \notin {"bind", "roster", "roster_set"} \cup Kinds("presence")
  <2>1. PICK type \in {"result", "error"} : Says(<<AnIq(type, req.id, "none", <<>>, req.kind)>>)
    BY <1>1, <1>13
  <2> QED BY <1>4, <1>8, <1>13, <2>1
<1> QED BY <1>9, <1>10, <1>11, <1>12, <1>13

LEMMA Arrivals ==
    ASSUME TypeOK, Polite, \A req \in wire : Proper(req.kind, req.id),
           Run \/ StopStream \/ Expire \/ Answer \/ Change \/ PeerAsks
    PROVE  Arrived
<1>1. rx_queue \in Seq(Object) /\ session \in Nat
  BY DEF TypeOK
<1>2. ASSUME Run PROVE Arrived
  <2>1. PICK objs : objs = [i \in 1..2 |-> [tag |-> <<"stream", "features">>[i], type |-> "none", id |-> 0,
               query |-> "none", from |-> "none", items |-> <<>>, re |-> "none", of |-> session + 1]]
    OBVIOUS
  <2>2. session' = session + 1 /\ rx_queue' = rx_queue \o objs
    BY <1>2, <2>1 DEF Run
  <2>3. PICK a, b : a = objs[1] /\ b = objs[2]
    OBVIOUS
  <2>4. <<>> \in Seq(Item) /\ session + 1 \in Nat
    BY <1>1, EmptySeq
  <2>5. /\ a \in Object /\ a.of = session + 1 /\ a.tag = "stream" /\ a.type = "none" /\ a.re = "none"
        /\ a.query = "none" /\ b.query = "none"
        /\ b \in Object /\ b.of = session + 1 /\ b.tag = "features" /\ b.type = "none" /\ b.re = "none"
    BY <2>1, <2>3, <2>4 DEF Object
  <2>6. objs = <<a>> \o <<b>>
    BY <2>1, <2>3
  <2>7. Other(a) /\ Other(b)
    BY <2>5 DEF Other
  <2>8. rx_queue' = Append(Append(rx_queue, a), b)
    BY <2>2, <2>5, <2>6, TwoSaid
  <2> QED BY <2>2, <2>5, <2>7, <2>8 DEF Arrived
<1>3. ASSUME Expire PROVE Arrived
  <2>1. CASE ~running
    BY <1>3, <2>1 DEF Expire, Arrived
  <2>2. CASE running
    <3>1. rx_queue' = Append(rx_queue, Timeout) /\ session' = session
      BY <1>3, <2>2 DEF Expire, Timeout, sessVars
    <3>2. Timeout \in Object /\ Timeout.of = session /\ Timeout.re = "none" /\ Timeout.tag = "timeout"
          /\ Timeout.type = "none" /\ Timeout.query = "none"
      BY <1>1, EmptySeq DEF Timeout, Object
    <3>3. Other(Timeout)
      BY <3>2 DEF Other
    <3> QED BY <3>1, <3>2, <3>3 DEF Arrived
  <2> QED BY <2>1, <2>2
<1>4. ASSUME Change PROVE Arrived
  <2>1. PICK item \in Item :
         /\ item.sub = "remove" => item.jid \in DOMAIN server
         /\ Changed(item)
         /\ Says(Push(item.jid, item.sub))
    BY <1>4 DEF Change
  <2>2. session' = session
    BY <1>4 DEF Change, sessVars
  <2>3. CASE Push(item.jid, item.sub) = <<>>
    <3>1. rx_queue' = rx_queue
      BY <1>1, <2>1, <2>3, ConcatEmptySeq DEF Says
    <3> QED BY <3>1 DEF Arrived
  <2>4. ASSUME NEW obj \in Object, obj.of = session, Other(obj), Push(item.jid, item.sub) = <<obj>>
        PROVE  Arrived
    <3>1. rx_queue' = Append(rx_queue, obj)
      BY <2>1, <2>4, SaidOne
    <3> QED BY <2>2, <2>4, <3>1 DEF Arrived
  <2> QED BY <2>1, <2>3, <2>4, PushIs
<1>5. ASSUME PeerAsks PROVE Arrived
  <2>1. PICK mod \in Range(modules) : \E obj \in PeerRequests[mod] : Says(<<[obj EXCEPT !.of = session]>>)
    BY <1>5 DEF PeerAsks
  <2>2. PICK obj \in PeerRequests[mod] : Says(<<[obj EXCEPT !.of = session]>>)
    BY <2>1
  <2>3. mod \in Module
    BY <2>1, RangeOfSeq DEF TypeOK
  <2>4. obj \in Object /\ obj.re = "none"
    BY <2>2, <2>3, ModulesAssumption DEF Polite, Foreign
  <2>5. PICK asked : asked = [obj EXCEPT !.of = session]
    OBVIOUS
  <2>6. asked \in Object /\ asked.of = session /\ asked.re = "none"
    BY <1>1, <2>4, <2>5 DEF Object
  <2>7. Other(asked)
    BY <2>1, <2>2, <2>5, <2>6 DEF Other
  <2>8. rx_queue' = Append(rx_queue, asked) /\ session' = session
    BY <1>5, <2>2, <2>5, <2>6, SaidOne DEF PeerAsks, sessVars
  <2> QED BY <2>6, <2>7, <2>8 DEF Arrived
<1>6. ASSUME StopStream PROVE Arrived
  BY <1>6 DEF StopStream, Arrived
<1> QED BY <1>2, <1>3, <1>4, <1>5, <1>6, AnswerArrives

-----------------------------------------------------------------------------
(* The objects that wait to be handled                                      *)

LEMMA ForgottenFirst ==
    ASSUME Doing, todo["rx"] # <<>>, ~Now("rx", "process"), NEW x \in Range(Tail(todo["rx"]))
    PROVE  x.op # "forget"
<1>1. PICK owed : Owes(todo["rx"], owed)
  BY DEF Doing
<1>2. CASE todo["rx"] = <<Popping>>
  <2>1. Tail(todo["rx"]) = <<>>
    BY <1>2, TupleOfOne
  <2> QED BY <2>1, NoSteps
<1>3. ASSUME NEW a, todo["rx"] = <<a, Popping>> PROVE x.op # "forget"
  <2>1. Tail(todo["rx"]) = <<Popping>>
    BY <1>3, TupleOfTwo
  <2>2. x = Popping
    BY <2>1, NoSteps
  <2> QED BY <2>2, StepFields
<1>4. ASSUME NEW a, NEW b, todo["rx"] = <<a, b, Popping>>, MayPrecede(a, b) PROVE x.op # "forget"
  <2>1. Tail(todo["rx"]) = <<b, Popping>>
    BY <1>4, TailOfThree
  <2>2. x = b \/ x = Popping
    <3>1. PICK c : c = Popping
      OBVIOUS
    <3>2. x \in {b, c}
      BY <2>1, <3>1, TupleOfTwo
    <3> QED BY <3>1, <3>2
  <2>3. b.op # "forget"
    BY <1>4, StepFields DEF MayPrecede
  <2> QED BY <2>2, <2>3, StepFields
<1> QED BY <1>1, <1>2, <1>3, <1>4 DEF Owes

(* Once an object has been handled, its id forgotten, it stays so.             *)
LEMMA HandledStays ==
    ASSUME TypeOK, Shape, Doing, ids["set_vcard"] \subseteq {0}, [Next]_vars, ~Pop,
           todo["rx"] # <<>>, ~Now("rx", "process"), Now("rx", "forget") => Forget
    PROVE  todo'["rx"] # <<>> /\ ~Now("rx", "process")' /\ ~Now("rx", "forget")'
<1>1. Handling
  <2>1. ASSUME NEW n, todo["rx"] = <<Process(n)>> PROVE FALSE
    <3>1. Head(todo["rx"]) = Process(n)
      BY <2>1
    <3> QED BY <3>1, StepFields DEF Now
  <2> QED BY <2>1 DEF Shape
<1>2. Handling' \/ todo'["rx"] = todo["rx"]
  <2>1. ASSUME NEW t \in Thread, ThreadStep(t) PROVE Handling' \/ todo'["rx"] = todo["rx"]
    BY <2>1, ThreadMoves DEF ThreadStep, Thread
  <2>2. ASSUME NEW mod \in Module, ModuleStep(mod) PROVE FALSE
    BY <2>2, HandlerMoves DEF ModuleStep, Calls
  <2>3. CASE Respond \/ RespondText \/ Forget
    BY <2>3, RespondShape
  <2>4. CASE Unhandled
    BY <2>4, UnhandledShape
  <2>5. ~Rx
    BY DEF Rx, Starts
  <2> QED BY <2>1, <2>2, <2>3, <2>4, <2>5, StepClasses, OutsideMoves
<1>3. Handling'
  <2>1. CASE todo'["rx"] = todo["rx"]
    BY <1>1, <2>1 DEF Handling
  <2> QED BY <1>2, <2>1
<1>4. ~Now("rx", "process")'
  BY <1>3, HandlingIsNotProcess, PTL
<1>5. todo'["rx"] # <<>>
  <2>1. PICK s \in Seq(StepFor("rx")) : todo'["rx"] = Append(s, Popping)
    BY <1>3 DEF Handling
  <2> QED BY <2>1, HeadTailAppend, EndsAreSteps
<1>6. todo["rx"] \in Seq(StepOK) /\ todo'["rx"] \in Seq(StepOK)
  BY TypeStep DEF TypeOK, Thread
<1>7. Head(todo'["rx"]) \in Range(todo'["rx"]) /\ Range(todo["rx"]) = {Head(todo["rx"])} \cup Range(Tail(todo["rx"]))
  BY <1>5, <1>6, HeadAndTail
<1>8. SUFFICES ASSUME Now("rx", "forget")' PROVE FALSE
  BY <1>4, <1>5
<1>9. PICK x : x = Head(todo'["rx"])
  OBVIOUS
<1>10. x.op = "forget" /\ x \in Range(todo'["rx"])
  BY <1>7, <1>8, <1>9 DEF Now
<1>11. CASE Forget
  <2>1. todo'["rx"] = Tail(todo["rx"])
    <3>1. todo'["rx"] = <<>> \o Tail(todo["rx"])
      BY <1>11 DEF Forget, Then, Shape, Thread
    <3>2. Tail(todo["rx"]) \in Seq(StepOK)
      BY <1>6, HeadAndTail
    <3> QED BY <3>1, <3>2, ConcatEmptySeq
  <2>2. x \in Range(Tail(todo["rx"]))
    BY <1>10, <2>1
  <2> QED BY <1>10, <2>2, ForgottenFirst
<1>12. CASE ~Forget
  <2>1. ~Now("rx", "forget")
    BY <1>12
  <2>2. PICK N : Became("rx", N) /\ \A a \in N : Fresh("rx", a)
    BY NewSteps DEF FreshSteps, Thread
  <2>3. x \in Range(todo["rx"]) \/ Fresh("rx", x)
    BY <1>10, <2>2 DEF Became
  <2>4. ~Fresh("rx", x)
    BY <1>10 DEF Fresh, Asking
  <2>5. x = Head(todo["rx"]) \/ x \in Range(Tail(todo["rx"]))
    BY <1>7, <2>3, <2>4
  <2>6. x # Head(todo["rx"])
    BY <1>10, <2>1 DEF Now
  <2> QED BY <1>10, <2>5, <2>6, ForgottenFirst
<1> QED BY <1>11, <1>12

LEMMA ForgetWaits ==
    ASSUME TypeOK, Shape, [Next]_vars, Now("rx", "forget"), ~Forget
    PROVE  todo'["rx"] = todo["rx"] /\ rx_queue # <<>>
<1>1. This("rx").op = "forget" /\ todo["rx"] # <<>>
  BY DEF Now, This
<1>2. ASSUME NEW t \in Thread, ThreadStep(t) PROVE todo'["rx"] = todo["rx"]
  <2>1. t # "rx"
    BY <1>1, <1>2, ThreadSteps
  <2> QED BY <1>2, <2>1, ThreadMoves DEF ThreadStep, Thread
<1>3. ASSUME NEW mod \in Module, ModuleStep(mod) PROVE FALSE
  BY <1>1, <1>3, HandlerMoves DEF ModuleStep, Calls, Now, This
<1>4. ~(Rx \/ Pop \/ Respond \/ RespondText \/ Unhandled)
  BY <1>1 DEF Rx, Starts, Pop, Respond, RespondText, Unhandled, Now, This
<1>5. rx_queue # <<>>
  BY <1>1 DEF Shape
<1> QED BY <1>2, <1>3, <1>4, <1>5, OutsideMoves, StepClasses

(* An object that is still to be handled was there before, or has arrived.    *)
LEMMA QueueMoves ==
    ASSUME TypeOK, Shape, Doing, ids["set_vcard"] \subseteq {0}, Polite,
           \A req \in wire : Proper(req.kind, req.id), [Next]_vars,
           NEW i \in DOMAIN rx_queue', Pending(i)'
    PROVE  \/ /\ ~Pop /\ Pending(i) /\ rx_queue'[i] = rx_queue[i]
              /\ ~(Forget /\ i = 1)
           \/ Pop /\ i + 1 # 1 /\ Pending(i + 1) /\ rx_queue'[i] = rx_queue[i + 1]
           \/ /\ ~Pop /\ i \notin DOMAIN rx_queue /\ rx_queue'[i].of = session'
              /\ \/ Other(rx_queue'[i])
                 \/ \E req : /\ AnswersOne(rx_queue'[i], req)
                             /\ \A k \in DOMAIN rx_queue' : k \in DOMAIN rx_queue \/ k = i
<1>1. rx_queue \in Seq(Object) /\ DOMAIN rx_queue = 1..Len(rx_queue) /\ Len(rx_queue) \in Nat
  BY LenProperties DEF TypeOK
<1>2. rx_queue' \in Seq(Object) /\ DOMAIN rx_queue' = 1..Len(rx_queue') /\ Len(rx_queue') \in Nat
  BY LenProperties, TypeStep DEF TypeOK
<1>3. i \in Nat /\ i # 0
  BY <1>2
<1>4. CASE Pop
  <2>1. rx_queue # <<>> /\ rx_queue' = Tail(rx_queue)
    BY <1>4, PopTakes
  <2>2. i + 1 \in DOMAIN rx_queue /\ rx_queue'[i] = rx_queue[i + 1]
    BY <1>1, <2>1, Shorter
  <2>3. i + 1 > 1
    BY <1>3
  <2> QED BY <1>4, <2>2, <2>3 DEF Pending
<1>5. ASSUME ~Pop, i \in DOMAIN rx_queue PROVE Pending(i) /\ ~(Forget /\ i = 1)
  <2>1. CASE i # 1
    BY <1>3, <1>5, <2>1 DEF Pending
  <2>2. CASE i = 1
    <3>1. todo'["rx"] = <<>> \/ Now("rx", "process")' \/ Now("rx", "forget")'
      BY <2>2 DEF Pending
    <3>2. Forget => Now("rx", "forget") /\ todo["rx"] # <<>> /\ ~Now("rx", "process")
      BY DEF Forget, Now
    <3>3. ~Forget
      BY <1>5, <3>1, <3>2, HandledStays
    <3>4. todo["rx"] = <<>> \/ Now("rx", "process") \/ Now("rx", "forget")
      BY <1>5, <3>1, HandledStays
    <3> QED BY <1>5, <2>2, <3>3, <3>4 DEF Pending
  <2> QED BY <2>1, <2>2
<1>6. CASE ~Pop /\ rx_queue' = rx_queue
  BY <1>5, <1>6
<1>7. CASE ~Pop /\ rx_queue' # rx_queue
  <2>1. Run \/ StopStream \/ Expire \/ Answer \/ Change \/ PeerAsks
    BY <1>7, Changes DEF Effects
  <2>2. \A k \in DOMAIN rx_queue : rx_queue'[k] = rx_queue[k]
    BY <2>1, Grows
  <2>3. CASE i \in DOMAIN rx_queue
    BY <1>5, <1>7, <2>2, <2>3
  <2>4. CASE i \notin DOMAIN rx_queue
    <3>1. ASSUME NEW obj \in Object, rx_queue' = Append(rx_queue, obj), obj.of = session',
                 Other(obj) \/ \E req : AnswersOne(obj, req)
          PROVE  /\ rx_queue'[i].of = session'
                 /\ \/ Other(rx_queue'[i])
                    \/ \E req : /\ AnswersOne(rx_queue'[i], req)
                                /\ \A k \in DOMAIN rx_queue' : k \in DOMAIN rx_queue \/ k = i
      <4>1. \A k \in DOMAIN rx_queue' : k \in DOMAIN rx_queue \/ k = Len(rx_queue) + 1
        BY <1>1, <3>1, Longer
      <4>2. i = Len(rx_queue) + 1
        BY <2>4, <4>1
      <4>3. rx_queue'[i] = obj
        BY <1>1, <3>1, <4>2, Longer
      <4> QED BY <3>1, <4>1, <4>2, <4>3
    <3>2. ASSUME NEW obj \in Object, NEW obj2 \in Object, rx_queue' = Append(Append(rx_queue, obj), obj2),
                 obj.of = session', obj2.of = session', Other(obj), Other(obj2)
          PROVE  rx_queue'[i].of = session' /\ Other(rx_queue'[i])
      <4>1. PICK q : q = Append(rx_queue, obj)
        OBVIOUS
      <4>2. /\ q \in Seq(Object) /\ \A k \in DOMAIN q : k \in DOMAIN rx_queue \/ k = Len(rx_queue) + 1
            /\ q[Len(rx_queue) + 1] = obj
        BY <1>1, <4>1, Longer
      <4>3. rx_queue' = Append(q, obj2)
        BY <3>2, <4>1
      <4>4. /\ \A k \in DOMAIN rx_queue' : k \in DOMAIN q \/ k = Len(q) + 1
            /\ rx_queue'[Len(q) + 1] = obj2 /\ \A k \in DOMAIN q : rx_queue'[k] = q[k]
        BY <4>2, <4>3, Longer
      <4>5. rx_queue'[i] = obj \/ rx_queue'[i] = obj2
        BY <2>4, <4>2, <4>4
      <4> QED BY <3>2, <4>5
    <3>3. Arrived
      BY <2>1, Arrivals
    <3> QED BY <1>7, <2>4, <3>1, <3>2, <3>3 DEF Arrived
  <2> QED BY <2>3, <2>4
<1> QED BY <1>4, <1>6, <1>7

-----------------------------------------------------------------------------
(* What the modules take an object for                                      *)

(* Only the module that made a request takes its answer for one, and a        *)
(* request without an id is taken for one by those that wait for none.       *)
LEMMA WaitsOnly ==
    ASSUME TypeOK, Shape, Separate, IdsApart, ProperIds, Objects, Now("rx", "process"),
           NEW k \in Heeded, Waits(k)
    PROVE  /\ Object0.tag = "iq"
           /\ \/ Object0.re = k /\ Object0.type \in {"result", "error"} /\ Object0.id # 0
              \/ Swallowed(Object0) /\ k \in {"session", "disco", "roster"} /\ Object0.re = "none"
<1>1. rx_queue # <<>>
  BY CalledAlone
<1>2. /\ Object0 = rx_queue[1] /\ 1 \in DOMAIN rx_queue /\ Object0 \in Object
  BY <1>1, Shorter, FirstObject DEF Object0, TypeOK
<1>3. PICK id, re : id = Object0.id /\ re = Object0.re
  OBVIOUS
<1>4. id \in Nat
  BY <1>2, <1>3 DEF Object
<1>5. Object0.tag = "iq" /\ id \in ids[k] /\ (k \in {"session", "disco", "roster"} \/ id # 0)
  BY <1>3 DEF Waits, Iq
<1>6. Sound(Object0) /\ Pending(1)
  BY <1>2 DEF Objects, Pending
<1>7. k \in Kind /\ k \in Awaited
  BY DEF Heeded, Awaited
<1>8. /\ MaxAsk \in Nat /\ MaxSession \in Nat /\ asks \in Nat /\ asks <= MaxAsk
      /\ FixedId \in Nat /\ PushId \in Nat
      /\ FixedId = MaxAsk + MaxSession + 1 /\ PushId > FixedId
  BY ModulesAssumption, FixedIds DEF TypeOK, IdsApart, FixedId
<1>9. CASE re = "none"
  <2>1. /\ id >= FixedId \/ (id = 0 /\ Object0.type \in {"get", "set"})
        /\ \A l \in Kinds("private") : id \notin Given[l]
    BY <1>3, <1>5, <1>6, <1>9 DEF Sound
  <2>2. CASE id = 0
    <3>1. Swallowed(Object0)
      BY <1>3, <1>8, <2>1, <2>2 DEF Swallowed
    <3> QED BY <1>3, <1>5, <1>9, <2>2, <3>1
  <2>3. CASE id # 0
    <3>1. \/ k = "roster" /\ id > MaxAsk /\ id < FixedId
          \/ k # "roster" /\ id > 0 /\ id <= asks
          \/ k \in Kinds("private") /\ id \in Given[k] /\ id > PushId
      BY <1>5, <1>7, <2>3, IdRanges
    <3> QED BY <1>4, <1>8, <2>1, <2>3, <3>1
  <2> QED BY <2>2, <2>3
<1>10. CASE re # "none"
  <2>1. Proper(re, id) /\ re \in Heeded \cup {"set_vcard"} /\ id \in InUse(re)
    BY <1>2, <1>3, <1>6, <1>10 DEF ProperIds, Sound
  <2>2. re = k
    BY <1>5, <1>7, <2>1 DEF Proper
  <2>3. id # 0
    BY <1>7, <2>1, <2>2, InUseRanges DEF IdsApart
  <2> QED BY <1>2, <1>3, <1>5, <1>6, <1>10, <2>2, <2>3 DEF Sound, Object
<1> QED BY <1>9, <1>10

(* And it does take it, if it still waits for this id.                        *)
LEMMA AskerWaits ==
    ASSUME TypeOK, Shape, Separate, IdsApart, Objects, Now("rx", "process"), Object0.re # "none",
           Object0.id \in ids[Object0.re]
    PROVE  Waits(Object0.re) /\ Object0.re \in Heeded
<1>1. rx_queue # <<>>
  BY CalledAlone
<1>2. /\ Object0 = rx_queue[1] /\ 1 \in DOMAIN rx_queue
  BY <1>1, Shorter DEF Object0, TypeOK
<1>3. Sound(Object0)
  BY <1>2 DEF Objects
<1>4. PICK k, id : k = Object0.re /\ id = Object0.id
  OBVIOUS
<1>5. /\ k \in Heeded \cup {"set_vcard"} /\ id \in InUse(k) /\ id \in ids[k] /\ Object0.tag = "iq"
  BY <1>3, <1>4 DEF Sound
<1>6. k \in Kind /\ "set_vcard" \in Kind
  BY <1>5, KindNames DEF Heeded, Awaited
<1>7. id # 0
  BY <1>5, <1>6, InUseRanges DEF IdsApart
<1>8. k # "set_vcard"
  BY <1>5, <1>6, <1>7, AwaitedKinds DEF IdsApart
<1> QED BY <1>4, <1>5, <1>7, <1>8 DEF Waits, Iq

LEMMA NoneIsNoKind == "none" \notin Kind
  BY HeededKinds

LEMMA SoundStays ==
    ASSUME TypeOK, Shape, IdsApart, [Next]_vars, NEW obj \in Object, Sound(obj)
    PROVE  Sound(obj)'
<1>1. obj.re # "none" => obj.id \in InUse(obj.re)'
  BY InUseGrows DEF Sound
<1>2. obj.tag \in {"message", "presence"} => obj.tag \in Range(modules')
  BY RegisteredStays DEF Sound
<1> QED BY <1>1, <1>2 DEF Sound, Distinct

LEMMA OtherIsSound ==
    ASSUME TypeOK, Separate, Polite, NEW obj \in Object, Other(obj), modules' = modules
    PROVE  Sound(obj)'
<1>1. FixedId \in Nat /\ PushId \in Nat /\ PushId > FixedId
  BY FixedIds
<1>2. \A k \in Kinds("private") : \A id \in Given[k] : id \in Nat /\ id > PushId
  BY ModulesAssumption DEF Separate
<1>3. CASE obj.tag \in {"stream", "features", "timeout"} /\ obj.type = "none" /\ obj.query = "none"
  BY <1>3 DEF Sound, Other
<1>4. CASE /\ obj.tag = "iq" /\ obj.type \in {"set", "result", "error"}
           /\ obj.id \in {FixedId, PushId} /\ (obj.type = "set" => obj.query # "bind")
  <2>1. obj.id >= FixedId /\ \A k \in Kinds("private") : obj.id \notin Given[k]
    BY <1>1, <1>2, <1>4
  <2> QED BY <1>4, <2>1 DEF Sound, Other
<1>5. ASSUME NEW mod \in Range(modules), NEW asked \in PeerRequests[mod], obj = [asked EXCEPT !.of = session]
      PROVE  Sound(obj)'
  <2>1. mod \in Module
    BY <1>5, RangeOfSeq DEF TypeOK
  <2>2. /\ asked \in Object /\ asked.tag \in {"iq", "message", "presence"}
        /\ Foreign(asked) /\ (asked.tag # "iq" => asked.tag = mod)
    BY <1>5, <2>1, ModulesAssumption DEF Polite
  <2>3. /\ obj.tag = asked.tag /\ obj.type = asked.type /\ obj.id = asked.id /\ obj.query = asked.query
        /\ obj.re = asked.re
    BY <1>5, <2>2 DEF Object
  <2>4. obj.id \in Nat
    BY DEF Object
  <2>5. obj.id > PushId => obj.id >= FixedId
    BY <1>1, <2>4
  <2>6. /\ obj.tag \in {"iq", "message", "presence"} /\ obj.re = "none" /\ obj.query # "bind"
        /\ obj.tag = "iq" => /\ obj.type \in {"get", "set"} /\ (obj.id > PushId \/ obj.id = 0)
                             /\ \A k \in Kinds("private") : obj.id \notin Given[k]
        /\ obj.tag # "iq" => obj.tag = mod
    BY <2>2, <2>3 DEF Foreign
  <2> QED BY <1>5, <2>5, <2>6 DEF Sound
<1> QED BY <1>3, <1>4, <1>5 DEF Other

LEMMA AnswerIsSound ==
    ASSUME TypeOK, Shape, IdsApart, ProperIds, [Next]_vars, NEW obj \in Object, NEW req, AnswersOne(obj, req)
    PROVE  Sound(obj)'
<1>1. req.kind \in Kind /\ Proper(req.kind, req.id)
  BY DEF AnswersOne, ProperIds, TypeOK
<1>2. /\ obj.tag = "iq" /\ obj.type \in {"result", "error"} /\ obj.re = req.kind /\ obj.id = req.id
      /\ obj.query = (IF obj.type = "result" /\ obj.re = "roster" THEN "roster" ELSE "none")
      /\ req.kind \notin {"bind", "roster_set"} \cup Kinds("presence")
      /\ req.kind = "roster" => Distinct(obj.items)
  BY DEF AnswersOne
<1>3. obj.re \in Heeded \cup {"set_vcard"} /\ obj.re # "none"
  BY <1>1, <1>2, NoneIsNoKind DEF Heeded, Awaited
<1>4. obj.id \in InUse(obj.re)'
  BY <1>1, <1>2, InUseGrows DEF Proper
<1> QED BY <1>2, <1>3, <1>4 DEF Sound, Distinct

(* What is in the queue was there before, or has arrived.                    *)
LEMMA QueueFrom ==
    ASSUME TypeOK, Shape, Polite, ProperIds, [Next]_vars, NEW i \in DOMAIN rx_queue'
    PROVE  \/ \E j \in DOMAIN rx_queue : rx_queue'[i] = rx_queue[j]
           \/ /\ rx_queue'[i] \in Object /\ Outside
              /\ Other(rx_queue'[i]) \/ \E req : AnswersOne(rx_queue'[i], req)
<1>1. rx_queue \in Seq(Object) /\ DOMAIN rx_queue = 1..Len(rx_queue)
  BY LenProperties DEF TypeOK
<1>2. CASE rx_queue' = rx_queue
  BY <1>2
<1>3. CASE Pop
  <2>1. rx_queue # <<>> /\ rx_queue' = Tail(rx_queue)
    BY <1>3, PopTakes
  <2>2. i + 1 \in DOMAIN rx_queue /\ rx_queue'[i] = rx_queue[i + 1]
    BY <1>1, <2>1, Shorter
  <2> QED BY <2>2
<1>4. CASE Run \/ Expire \/ Answer \/ Change \/ PeerAsks
  <2>1. Arrived
    BY <1>4, Arrivals DEF ProperIds
  <2>2. Outside
    BY <1>4 DEF Outside
  <2>3. ASSUME NEW obj \in Object, rx_queue' = Append(rx_queue, obj),
               Other(obj) \/ \E req : AnswersOne(obj, req)
        PROVE  \/ i \in DOMAIN rx_queue /\ rx_queue'[i] = rx_queue[i]
               \/ rx_queue'[i] = obj
    BY <1>1, <2>3, Longer
  <2>4. ASSUME NEW obj \in Object, NEW obj2 \in Object,
               rx_queue' = Append(Append(rx_queue, obj), obj2)
        PROVE  \/ i \in DOMAIN rx_queue /\ rx_queue'[i] = rx_queue[i]
               \/ rx_queue'[i] \in {obj, obj2}
    <3>1. PICK q : q = Append(rx_queue, obj)
      OBVIOUS
    <3>2. /\ q \in Seq(Object) /\ DOMAIN q = 1..Len(q)
          /\ \A k \in DOMAIN q : \/ k \in DOMAIN rx_queue /\ q[k] = rx_queue[k]
                                 \/ q[k] = obj
      BY <1>1, <2>4, <3>1, Longer
    <3>3. \/ i \in DOMAIN q /\ rx_queue'[i] = q[i]
          \/ rx_queue'[i] = obj2
      BY <2>4, <3>1, <3>2, Longer
    <3> QED BY <3>2, <3>3
  <2> QED BY <1>2, <2>1, <2>2, <2>3, <2>4 DEF Arrived
<1> QED BY <1>2, <1>3, <1>4, Changes DEF Effects

LEMMA ObjectsStep ==
    ASSUME TypeOK, Shape, Separate, Polite, IdsApart, ProperIds, Objects, [Next]_vars
    PROVE  Objects'
<1>1. \A i \in DOMAIN rx_queue : rx_queue[i] \in Object /\ Sound(rx_queue[i])
  BY LenProperties, ElementOfSeq DEF TypeOK, Objects
<1>2. ASSUME NEW i \in DOMAIN rx_queue' PROVE Sound(rx_queue[i])'
  <2>1. PICK obj : obj = rx_queue'[i]
    OBVIOUS
  <2>2. CASE \E j \in DOMAIN rx_queue : obj = rx_queue[j]
    <3>1. Sound(obj)'
      BY <1>1, <2>2, SoundStays
    <3> QED BY <2>1, <3>1 DEF Sound, InUse, RosterId, Distinct, FixedId
  <2>3. CASE obj \in Object /\ Outside /\ (Other(obj) \/ \E req : AnswersOne(obj, req))
    <3>1. modules' = modules
      BY <2>3, OutsideMoves
    <3>2. Sound(obj)'
      BY <2>3, <3>1, OtherIsSound, AnswerIsSound
    <3> QED BY <2>1, <3>2 DEF Sound, InUse, RosterId, Distinct, FixedId
  <2> QED BY <2>1, <2>2, <2>3, QueueFrom
<1> QED BY <1>2 DEF Objects

-----------------------------------------------------------------------------
(* The ids of the requests on their way                                     *)

(* A request is stored with an id that no other has, unless it is for the     *)
(* roster and there has been one in this session.                            *)
LEMMA NotStored ==
    ASSUME TypeOK, Shape, Separate, Askers, IdsApart, NewIds, NEW k \in Kind, NEW n, Proper(k, n), Claimed(n),
           NEW u \in Thread, NEW a, NewSend(u, a), a.what \notin {"bind", "roster_set"}, a.n = n
    PROVE  k = "roster" /\ a.what = "roster" /\ ids["roster"] = {n}
<1>1. PICK w, id, new : w = a.what /\ id = a.n /\ new = This(u).n
  OBVIOUS
<1>2. /\ This(u) \in Range(todo[u]) /\ This(u).op = "store" /\ This(u).what = w
      /\ w \in Kind /\ w \notin {"bind", "roster_set"} /\ id \in InUse(w)
      /\ w = "roster" => id = RosterId(session)
      /\ w # "roster" => /\ id \notin ids[w]
                         /\ id = new \/ (w \in Kinds("private") /\ id \in Given[w])
  BY <1>1, IdOfNewSend
<1>3. ~Claimed(new)
  BY <1>1, <1>2 DEF NewIds
<1>4. /\ asks \in Nat /\ asks <= MaxAsk /\ MaxAsk \in Nat /\ MaxSession \in Nat
      /\ session \in Nat /\ session <= MaxSession
      /\ FixedId = MaxAsk + MaxSession + 1 /\ PushId = MaxAsk + MaxSession + 2
  BY ModulesAssumption DEF TypeOK, IdsApart, FixedId, PushId
<1>5. /\ id \in Nat /\ id # 0
      /\ \/ w = "roster" /\ id > MaxAsk /\ id < FixedId
         \/ w # "roster" /\ id > 0 /\ id <= asks
         \/ w \in Kinds("private") /\ id \in Given[w] /\ id > PushId
  BY <1>2, <1>4, InUseRanges
<1>6. \/ k \in {"bind", "roster_set"} /\ id = FixedId
      \/ /\ k \notin {"bind", "roster_set"}
         /\ \/ k = "roster" /\ id > MaxAsk /\ id < FixedId
            \/ k # "roster" /\ id > 0 /\ id <= asks
            \/ k \in Kinds("private") /\ id \in Given[k] /\ id > PushId
  <2>1. CASE k \in {"bind", "roster_set"}
    BY <1>1, <2>1 DEF Proper
  <2>2. CASE k \notin {"bind", "roster_set"}
    <3>1. id \in InUse(k)
      BY <1>1, <2>2 DEF Proper
    <3> QED BY <1>4, <2>2, <3>1, InUseRanges
  <2> QED BY <2>1, <2>2
<1>7. Kinds("private") = {"private_set", "private_get"}
  BY KindsOf
<1>8. CASE w = "roster"
  <2>1. id = RosterId(session)
    BY <1>2, <1>8
  <2>2. id > MaxAsk /\ id < FixedId
    BY <1>4, <1>5, <1>7, <1>8
  <2>3. k = "roster"
    BY <1>4, <1>5, <1>6, <2>2
  <2>4. PICK m \in 1..session, last \in 1..session :
           m <= last /\ id = RosterId(m) /\ ids["roster"] = {RosterId(last)}
    BY <1>1, <2>3 DEF Proper
  <2>5. m = session /\ last = session
    BY <1>4, <2>1, <2>4 DEF RosterId
  <2> QED BY <1>1, <1>8, <2>1, <2>3, <2>4, <2>5
<1>9. CASE w # "roster"
  <2>1. id # new
    BY <1>1, <1>3
  <2>2. w \in Kinds("private") /\ id \in Given[w] /\ id > PushId
    BY <1>2, <1>9, <2>1 DEF Separate
  <2>3. k \in Kinds("private") /\ id \in Given[k]
    BY <1>4, <1>5, <1>6, <2>2
  <2>4. k = w
    BY <2>2, <2>3 DEF Separate
  <2>5. k \in Awaited /\ k \notin Single
    BY <1>7, <2>3, AwaitedKinds DEF Single
  <2>6. id \in ids[k]
    BY <1>1, <2>5 DEF Proper
  <2> QED BY <1>2, <1>9, <2>4, <2>6
<1> QED BY <1>8, <1>9

(* What a request has its id for stays so, and its id does not come back.     *)
LEMMA ProperStays ==
    ASSUME TypeOK, Shape, Separate, Askers, IdsApart, NewIds, [Next]_vars,
           NEW k \in Kind, NEW n, Proper(k, n), Claimed(n),
           Forget /\ k \notin Single => ~(This("rx").what = k /\ This("rx").n = n)
    PROVE  Proper(k, n)' /\ (n \in ids'[k] => n \in ids[k])
<1>1. ids \in [Kind -> SUBSET Nat] /\ "roster" \in Kind
  BY KindNames DEF TypeOK
<1>2. /\ session \in Nat /\ session' \in Nat /\ session <= session'
  BY CountersGrow DEF TypeOK
<1>3. n # 0
  <2>1. FixedId # 0
    BY FixedIds
  <2>2. n \in InUse(k) => n # 0
    BY InUseRanges DEF IdsApart
  <2> QED BY <2>1, <2>2 DEF Proper
<1>4. k \notin {"bind", "roster_set"} => n \in InUse(k)'
  BY InUseGrows DEF Proper
<1>5. CASE ids' = ids
  <2>1. ASSUME k = "roster"
        PROVE  \E m, last \in 1..session' :
                  m <= last /\ n = RosterId(m) /\ ids'["roster"] = {RosterId(last)}
    <3>1. PICK m \in 1..session, last \in 1..session :
             m <= last /\ n = RosterId(m) /\ ids["roster"] = {RosterId(last)}
      BY <2>1 DEF Proper
    <3>2. m \in 1..session' /\ last \in 1..session'
      BY <1>2, <3>1
    <3> QED BY <1>5, <3>1, <3>2
  <2> QED BY <1>4, <1>5, <2>1 DEF Proper, RosterId, FixedId
<1>6. CASE Forget
  <2>1. PICK l, id : l = This("rx").what /\ id = This("rx").n
    OBVIOUS
  <2>2. ids' = [ids EXCEPT ![l] = IF l \in Single THEN {0} ELSE ids[l] \ {id}]
    BY <1>6, <2>1 DEF Forget
  <2>3. l \in Taking
    BY <1>6, <2>1, ThisInRange DEF Forget, Now, This, Askers, Thread
  <2>4. l # "roster"
    BY <2>3, HeededKinds
  <2>5. \A l2 \in Kind : ids'[l2] \subseteq ids[l2] \cup {0}
    BY <1>1, <2>2
  <2>6. k \notin Single /\ n \in ids[k] => n \in ids'[k]
    BY <1>1, <1>6, <2>1, <2>2
  <2>7. ids'["roster"] = ids["roster"] /\ session' = session
    BY <1>1, <1>6, <2>2, <2>4 DEF Forget, sessVars
  <2> QED BY <1>3, <1>4, <2>5, <2>6, <2>7 DEF Proper, RosterId, FixedId
<1>7. ASSUME NEW u \in Thread, NEW a, NewSend(u, a), session' = session
      PROVE  Proper(k, n)' /\ (n \in ids'[k] => n \in ids[k])
  <2>1. PICK w, id : w = a.what /\ id = a.n
    OBVIOUS
  <2>2. ids' = Stored(w, id) /\ w \in Kind
    BY <1>7, <2>1, IdOfNewSend DEF NewSend
  <2>3. \A l \in Kind : ids'[l] \subseteq ids[l] \cup (IF l = w /\ w \in Awaited THEN {id} ELSE {})
    BY <2>2, StoredIs
  <2>4. w \in Awaited /\ id = n => k = "roster" /\ w = "roster" /\ ids["roster"] = {n}
    BY <1>7, <2>1, NotStored, AwaitedKinds
  <2>5. n \in ids'[k] => n \in ids[k]
    BY <2>3, <2>4
  <2>6. \A l \in Kind : l # k => n \notin ids'[l]
    BY <2>3, <2>4 DEF Proper
  <2>7. k \in Awaited /\ k \notin Single => n \in ids'[k]
    BY <2>2, StoredIs DEF Proper
  <2>8. ASSUME k = "roster"
        PROVE  \E m, last \in 1..session :
                  m <= last /\ n = RosterId(m) /\ ids'["roster"] = {RosterId(last)}
    <3>1. PICK m \in 1..session, last \in 1..session :
             m <= last /\ n = RosterId(m) /\ ids["roster"] = {RosterId(last)}
      BY <2>8 DEF Proper
    <3>2. CASE w = "roster"
      <4>1. id = RosterId(session) /\ session \in 1..session /\ m <= session
        <5>1. id = RosterId(session) /\ session # 0
          BY <1>7, <2>1, <3>2, IdOfNewSend
        <5> QED BY <1>2, <3>1, <5>1
      <4>2. ids'["roster"] = {id}
        BY <1>1, <2>2, <3>2 DEF Stored, Single
      <4> QED BY <3>1, <4>1, <4>2
    <3>3. CASE w # "roster"
      <4>1. ids'["roster"] = ids["roster"]
        BY <1>1, <2>2, <3>3 DEF Stored
      <4> QED BY <3>1, <4>1
    <3> QED BY <3>2, <3>3
  <2> QED BY <1>4, <1>7, <2>5, <2>6, <2>7, <2>8 DEF Proper, RosterId, FixedId
<1> QED BY <1>5, <1>6, <1>7, IdsChange

(* The id that is forgotten is that of the first object.                      *)
LEMMA Forgets ==
    ASSUME TypeOK, Shape, Askers, ProperIds, Objects, Doing, Now("rx", "forget")
    PROVE  /\ Pending(1) /\ 1 \in DOMAIN rx_queue /\ rx_queue[1] = Object0
           /\ This("rx").n = Object0.id
           /\ \/ /\ This("rx").what = Object0.re
                 /\ Object0.re \in PlainKinds /\ Proper(Object0.re, Object0.id)
              \/ /\ This("rx").what = "disco" /\ Object0.id = 0 /\ Object0.re = "none"
                 /\ Swallowed(Object0)
<1>1. todo["rx"] # <<>> /\ rx_queue # <<>> /\ This("rx").op = "forget"
  BY DEF Now, This, Shape
<1>2. rx_queue \in Seq(Object)
  BY DEF TypeOK
<1>3. 1 \in DOMAIN rx_queue /\ rx_queue[1] = Object0 /\ Object0 \in Object
  BY <1>1, <1>2, Shorter, FirstObject DEF Object0
<1>4. /\ This("rx").n = Object0.id
      /\ This("rx").what = Object0.re \/ (This("rx").what = "disco" /\ Swallowed(Object0))
  BY <1>1 DEF Doing, Now, This
<1>5. This("rx").what \in Taking
  BY <1>1, ThisInRange DEF Askers, Thread
<1>6. Pending(1)
  BY <1>3 DEF Pending
<1>7. CASE This("rx").what = Object0.re
  <2>1. Object0.re \in PlainKinds /\ Object0.re # "none"
    BY <1>5, <1>7, AwaitedKinds, NoneIsNoKind
  <2> QED BY <1>3, <1>4, <1>6, <1>7, <2>1 DEF ProperIds
<1>8. CASE This("rx").what = "disco" /\ Swallowed(Object0)
  <2>1. Object0.re = "none"
    BY <1>3, <1>8 DEF Objects, Sound, Swallowed, Object
  <2> QED BY <1>3, <1>4, <1>6, <1>8, <2>1 DEF Swallowed
<1> QED BY <1>4, <1>7, <1>8

LEMMA NotForgotten ==
    ASSUME TypeOK, Shape, Separate, Askers, IdsApart, ProperIds, Objects, Doing, Forget, NEW k, NEW n, Proper(k, n),
           ~Same(Object0.re, Object0.id, k, n)
    PROVE  ~(This("rx").what = k /\ This("rx").n = n)
<1>1. Now("rx", "forget")
  BY DEF Forget
<1>2. SUFFICES ASSUME This("rx").what = k, This("rx").n = n PROVE FALSE
  OBVIOUS
<1>3. CASE This("rx").what = Object0.re /\ Object0.re \in PlainKinds /\ This("rx").n = Object0.id
  BY <1>2, <1>3 DEF Same
<1>4. CASE This("rx").what = "disco" /\ n = 0
  <2>1. "disco" \in Kind /\ k = "disco"
    BY <1>2, <1>4, KindNames
  <2>2. n \in InUse("disco")
    BY <2>1 DEF Proper
  <2> QED BY <1>4, <2>1, <2>2, InUseRanges DEF IdsApart
<1> QED BY <1>1, <1>2, <1>3, <1>4, Forgets

LEMMA SessionAnswered ==
    ASSUME TypeOK, Shape, Separate, IdsApart, ProperIds, Objects, [Next]_vars, modules' # modules,
           NEW n \in ids["session"]
    PROVE  /\ Pending(1) /\ rx_queue[1] = Object0 /\ Same(Object0.re, Object0.id, "session", n)
           /\ Now("rx", "forget")' /\ rx_queue' = rx_queue /\ ~Pop
<1>1. /\ Now("rx", "process") /\ Waits("session") /\ rx_queue' = rx_queue
      /\ todo'["rx"] = <<Forgetting("session"), Callback("session"), Popping>>
  BY SessionGone
<1>2. "session" \in Heeded /\ "session" \in Kind /\ "session" \in PlainKinds /\ "session" \in Awaited
      /\ "session" \in Single
  BY HeededKinds, AwaitedKinds DEF Single
<1>3. Object0.re = "session"
  <2>1. Object0.type = "result"
    BY SessionGone
  <2> QED BY <1>1, <1>2, <2>1, WaitsOnly DEF Swallowed
<1>4. rx_queue # <<>>
  BY <1>1, CalledAlone
<1>5. 1 \in DOMAIN rx_queue /\ rx_queue[1] = Object0
  BY <1>4, Shorter DEF Object0, TypeOK
<1>6. Pending(1)
  BY <1>1, <1>5 DEF Pending
<1>7. n \in ids["session"] /\ Object0.id \in ids["session"]
  BY <1>1 DEF Waits
<1>8. n = Object0.id
  <2>1. \E id : ids["session"] = {id}
    BY <1>2 DEF TypeOK
  <2> QED BY <1>7, <2>1
<1>9. Now("rx", "forget")'
  <2>1. PICK a, b, c : a = Forgetting("session") /\ b = Callback("session") /\ c = Popping
    OBVIOUS
  <2>2. todo'["rx"] = <<a, b, c>> /\ a.op = "forget"
    BY <1>1, <2>1, StepFields
  <2>3. Head(todo'["rx"]) = a /\ todo'["rx"] # <<>>
    BY <2>2
  <2> QED BY <2>2, <2>3 DEF Now
<1>10. ~Pop
  BY <1>1 DEF Pop, Now
<1> QED BY <1>1, <1>2, <1>3, <1>5, <1>6, <1>8, <1>9, <1>10 DEF Same

-----------------------------------------------------------------------------
LEMMA ProperSends ==
    ASSUME TypeOK, Shape, Separate, Askers, IdsApart, NewIds, ProperIds, OneWay, Objects, Doing,
           [Next]_vars, NEW t \in Thread, NEW x \in Range(todo'[t]), x.op = "send"
    PROVE  Proper(x.what, x.n)'
<1>1. ids["set_vcard"] \subseteq {0}
  BY AwaitedKinds, KindNames DEF IdsApart
<1>2. CASE x \in Range(todo[t])
  <2>1. Proper(x.what, x.n) /\ Claimed(x.n)
    BY <1>2 DEF ProperIds, Claimed
  <2>2. x.what \in Kind
    <3>1. x \in StepOK
      BY <1>2, RangeOfSeq DEF TypeOK
    <3> QED BY <3>1, StepKinds DEF Request
  <2>3. Forget => ~Same(Object0.re, Object0.id, x.what, x.n)
    <3>1. Forget => Pending(1) /\ rx_queue[1] = Object0 /\ 1 \in DOMAIN rx_queue
      BY Forgets DEF Forget
    <3> QED BY <1>2, <3>1 DEF OneWay
  <2>4. Forget => ~(This("rx").what = x.what /\ This("rx").n = x.n)
    BY <2>1, <2>3, NotForgotten
  <2>5. PICK k, n : k = x.what /\ n = x.n
    OBVIOUS
  <2>6. Proper(k, n)'
    BY <2>1, <2>2, <2>4, <2>5, ProperStays
  <2> QED BY <2>5, <2>6
<1>3. CASE x \notin Range(todo[t])
  <2>1. NewSend(t, x)
    <3>1. PICK N : Became(t, N) /\ \A a \in N : Fresh(t, a)
      BY <1>1, NewSteps DEF FreshSteps
    <3>2. Fresh(t, x)
      BY <1>3, <3>1 DEF Became
    <3> QED BY <3>2 DEF Fresh, Asking
  <2>2. PICK k, n : k = x.what /\ n = x.n
    OBVIOUS
  <2>3. /\ k \in Kind
        /\ k \in {"bind", "roster_set"} => n = FixedId
        /\ k = "roster" => n = RosterId(session) /\ session # 0
        /\ k \notin {"bind", "roster_set"} => n \in InUse(k) /\ \A l \in Kind \ {k} : n \notin ids[l]
    BY <2>1, <2>2, IdOfNewSend
  <2>4. ids' = Stored(k, n) /\ session' = session
    BY <2>1, <2>2 DEF NewSend, Store, sessVars
  <2>5. k \in Awaited => n \in ids'[k]
    BY <2>3, <2>4, StoredIs
  <2>6. ASSUME k = "roster"
        PROVE  \E m, last \in 1..session :
                  m <= last /\ n = RosterId(m) /\ ids'["roster"] = {RosterId(last)}
    <3>1. session \in 1..session /\ session <= session
      BY <2>3, <2>6 DEF TypeOK
    <3>2. ids' = [ids EXCEPT !["roster"] = {n}]
      BY <2>4, <2>6 DEF Stored, Single
    <3>3. ids'["roster"] = {n}
      BY <3>2, KindNames DEF TypeOK
    <3> QED BY <2>3, <2>6, <3>1, <3>3
  <2>7. ASSUME NEW l \in Kind, l # k PROVE n \notin ids'[l]
    <3>1. ids'[l] \subseteq ids[l]
      BY <2>3, <2>4, <2>7, StoredIs
    <3>2. CASE k \notin {"bind", "roster_set"}
      BY <2>3, <2>7, <3>1, <3>2
    <3>3. CASE k \in {"bind", "roster_set"}
      <4>1. SUFFICES ASSUME FixedId \in ids[l] PROVE FALSE
        BY <2>3, <3>1, <3>3
      <4>2. /\ FixedId \in Nat /\ PushId \in Nat /\ MaxAsk \in Nat /\ PushId > FixedId /\ FixedId > MaxAsk
            /\ FixedId # 0 /\ asks \in Nat /\ asks <= MaxAsk
        BY FixedIds, ModulesAssumption DEF TypeOK, IdsApart
      <4> QED BY <4>1, <4>2, IdRanges
    <3> QED BY <3>2, <3>3
  <2>8. k \notin {"bind", "roster_set"} => n \in InUse(k)'
    BY <2>3, InUseGrows
  <2>9. Proper(k, n)'
    BY <2>3, <2>4, <2>5, <2>6, <2>7, <2>8 DEF Proper, RosterId, FixedId
  <2> QED BY <2>2, <2>9
<1> QED BY <1>2, <1>3

LEMMA ProperWire ==
    ASSUME TypeOK, Shape, Separate, Askers, IdsApart, NewIds, ProperIds, OneWay, Objects,
           Doing, [Next]_vars, NEW req \in wire'
    PROVE  Proper(req.kind, req.id)' /\ (req.id \in ids'[req.kind] => IsAsker(req.kind)')
<1>1. PICK k, n : k = req.kind /\ n = req.id
  OBVIOUS
<1>2. CASE req \in wire
  <2>1. k \in Kind /\ Proper(k, n) /\ (n \in ids[k] => IsAsker(k)) /\ Claimed(n)
    BY <1>1, <1>2 DEF ProperIds, TypeOK, Claimed
  <2>2. Pending(1) => ~Same(rx_queue[1].re, rx_queue[1].id, k, n)
    BY <1>1, <1>2 DEF OneWay, Pending
  <2>3. Forget => ~(This("rx").what = k /\ This("rx").n = n)
    <3>1. Forget => Pending(1) /\ rx_queue[1] = Object0
      BY Forgets DEF Forget
    <3> QED BY <2>1, <2>2, <3>1, NotForgotten
  <2>4. Proper(k, n)' /\ (n \in ids'[k] => n \in ids[k])
    BY <2>1, <2>3, ProperStays
  <2>5. ASSUME n \in ids'[k] PROVE IsAsker(k)'
    <3>1. n \in ids[k] /\ IsAsker(k)
      BY <2>1, <2>4, <2>5
    <3>2. k = "session" => modules' = modules
      BY <2>2, <3>1, SessionAnswered
    <3> QED BY <3>1, <3>2, AskerStays
  <2> QED BY <1>1, <2>4, <2>5
<1>3. CASE req \notin wire
  <2>1. PICK t \in Thread : Send(t)
    <3>1. wire' # wire /\ ~StopStream /\ ~Answer
      BY <1>3 DEF StopStream, Answer
    <3> QED BY <3>1, Changes DEF Effects
  <2>2. PICK x : x = This(t)
    OBVIOUS
  <2>3. req = [kind |-> x.what, id |-> x.n, item |-> x.arg]
    BY <1>3, <2>1, <2>2 DEF Send
  <2>4. x \in Range(todo[t]) /\ x.op = "send"
    BY <2>1, <2>2, ThisInRange DEF Send, Now, This
  <2>5. k = x.what /\ n = x.n
    BY <1>1, <2>3
  <2>6. Proper(k, n) /\ Asks(t, k)
    BY <2>4, <2>5 DEF ProperIds, Askers, Asking
  <2>7. UNCHANGED <<modules, ids, session, asks>>
    BY <2>1 DEF Send, modVars, sessVars, counters
  <2>8. n \in ids[k] => k # "bind"
    <3>1. "bind" \in Kind /\ "bind" \notin Awaited /\ FixedId # 0
      BY AwaitedKinds, KindNames, FixedIds
    <3> QED BY <2>6, <3>1 DEF Proper, IdsApart
  <2> QED BY <1>1, <2>6, <2>7, <2>8 DEF Proper, InUse, RosterId, FixedId, Asks, IsAsker
<1> QED BY <1>2, <1>3

LEMMA ProperQueue ==
    ASSUME TypeOK, Shape, Separate, Polite, Askers, IdsApart, NewIds, ProperIds, OneWay,
           Objects, Doing, [Next]_vars, NEW i \in DOMAIN rx_queue', Pending(i)',
           NEW obj, obj = rx_queue'[i], obj.re # "none"
    PROVE  /\ Proper(obj.re, obj.id)'
           /\ (i = 1 /\ Now("rx", "forget")') \/ obj.id \notin ids'[obj.re] \/ IsAsker(obj.re)'
<1>1. ids["set_vcard"] \subseteq {0} /\ \A req \in wire : Proper(req.kind, req.id)
  BY AwaitedKinds, KindNames DEF IdsApart, ProperIds
<1>2. PICK k, n : k = obj.re /\ n = obj.id
  OBVIOUS
<1>3. ASSUME NEW j, Pending(j), obj = rx_queue[j], ~(Forget /\ j = 1), j # 1 \/ (i = 1 /\ ~Pop)
      PROVE  /\ Proper(k, n)'
             /\ (i = 1 /\ Now("rx", "forget")') \/ n \notin ids'[k] \/ IsAsker(k)'
  <2>1. j \in DOMAIN rx_queue
    BY <1>3 DEF Pending
  <2>2. obj \in Object
    BY <1>3, <2>1, ElementOfSeq, LenProperties DEF TypeOK
  <2>3. /\ Proper(k, n)
        /\ (j = 1 /\ Now("rx", "forget")) \/ n \notin ids[k] \/ IsAsker(k)
    BY <1>2, <1>3, <2>1 DEF ProperIds
  <2>4. k \in Kind /\ Claimed(n)
    BY <1>2, <1>3, <2>1, <2>2 DEF Object, Claimed
  <2>5. Proper(k, n)' /\ (n \in ids'[k] => n \in ids[k])
    <3>1. Forget => ~Same(Object0.re, Object0.id, k, n)
      <4>1. Forget => Pending(1) /\ rx_queue[1] = Object0 /\ 1 \in DOMAIN rx_queue
        BY Forgets DEF Forget
      <4> QED BY <1>2, <1>3, <2>1, <4>1 DEF OneWay
    <3>2. Forget => ~(This("rx").what = k /\ This("rx").n = n)
      BY <2>3, <3>1, NotForgotten
    <3> QED BY <2>3, <2>4, <3>2, ProperStays
  <2>6. (i = 1 /\ Now("rx", "forget")') \/ n \notin ids'[k] \/ IsAsker(k)'
    <3>1. CASE j = 1 /\ Now("rx", "forget")
      <4>1. i = 1 /\ ~Forget
        BY <1>3, <3>1
      <4>2. todo'["rx"] = todo["rx"]
        BY <3>1, <4>1, ForgetWaits
      <4> QED BY <3>1, <4>1, <4>2 DEF Now
    <3>2. CASE IsAsker(k) /\ (k # "session" \/ modules' = modules)
      BY <3>2, AskerStays
    <3>3. CASE n \in ids[k] /\ k = "session" /\ modules' # modules
      <4>1. /\ Pending(1) /\ rx_queue[1] = Object0 /\ Same(Object0.re, Object0.id, k, n)
            /\ Now("rx", "forget")' /\ ~Pop
        BY <3>3, SessionAnswered
      <4>2. j = 1
        <5>1. 1 \in DOMAIN rx_queue
          BY <4>1 DEF Pending
        <5> QED BY <1>2, <1>3, <2>1, <4>1, <5>1 DEF OneWay
      <4> QED BY <1>3, <4>1, <4>2
    <3> QED BY <2>3, <2>5, <3>1, <3>2, <3>3
  <2> QED BY <2>5, <2>6
<1>4. ASSUME NEW req, AnswersOne(obj, req)
      PROVE  Proper(k, n)' /\ (n \notin ids'[k] \/ IsAsker(k)')
  <2>1. req \in wire /\ k = req.kind /\ n = req.id /\ Answer
    BY <1>2, <1>4 DEF AnswersOne
  <2>2. UNCHANGED <<modules, ids, session, asks>>
    BY <2>1 DEF Answer, modVars, sessVars, counters
  <2>3. Proper(k, n) /\ (n \notin ids[k] \/ IsAsker(k))
    BY <2>1 DEF ProperIds
  <2> QED BY <2>2, <2>3 DEF Proper, InUse, RosterId, FixedId, IsAsker
<1>5. \/ /\ ~Pop /\ Pending(i) /\ obj = rx_queue[i] /\ ~(Forget /\ i = 1)
      \/ Pop /\ i + 1 # 1 /\ Pending(i + 1) /\ obj = rx_queue[i + 1]
      \/ \E req : AnswersOne(obj, req)
  <2>1. ~Other(obj)
    BY <1>2 DEF Other
  <2> QED BY <1>1, <1>2, <2>1, QueueMoves
<1>6. CASE ~Pop /\ Pending(i) /\ obj = rx_queue[i] /\ ~(Forget /\ i = 1)
  BY <1>2, <1>3, <1>6
<1>7. CASE Pop /\ i + 1 # 1 /\ Pending(i + 1) /\ obj = rx_queue[i + 1]
  BY <1>2, <1>3, <1>7
<1>8. CASE \E req : AnswersOne(obj, req)
  BY <1>2, <1>4, <1>8
<1> QED BY <1>5, <1>6, <1>7, <1>8

LEMMA ProperIdsStep ==
    ASSUME TypeOK, Shape, Separate, Polite, Askers, IdsApart, NewIds, ProperIds, OneWay,
           Objects, Doing, [Next]_vars
    PROVE  ProperIds'
<1>1. \A t \in Thread : \A step \in Range(todo'[t]) : step.op = "send" => Proper(step.what, step.n)'
  BY ProperSends
<1>2. \A req \in wire' : Proper(req.kind, req.id)' /\ (req.id \in ids'[req.kind] => IsAsker(req.kind)')
  BY ProperWire
<1>3. \A i \in DOMAIN rx_queue' : \A obj :
          Pending(i)' /\ obj = rx_queue'[i] /\ obj.re # "none" =>
             /\ Proper(obj.re, obj.id)'
             /\ (i = 1 /\ Now("rx", "forget")') \/ obj.id \notin ids'[obj.re] \/ IsAsker(obj.re)'
  BY ProperQueue
<1>4. ASSUME NEW i \in DOMAIN rx_queue', Pending(i)', (rx_queue[i].re # "none")'
      PROVE  (/\ Proper(rx_queue[i].re, rx_queue[i].id)
              /\ \/ i = 1 /\ Now("rx", "forget")
                 \/ rx_queue[i].id \notin ids[rx_queue[i].re]
                 \/ IsAsker(rx_queue[i].re))'
  BY <1>3, <1>4 DEF Proper, InUse, IsAsker
<1> QED BY <1>1, <1>2, <1>4 DEF ProperIds

-----------------------------------------------------------------------------
(* Each request and its answer are in one place                             *)

LEMMA SendOrigin ==
    ASSUME TypeOK, Shape, IdsApart, Separate, Askers, NewIds, [Next]_vars, NEW t \in Thread,
           NEW x \in Range(todo'[t]), x.op = "send", x \notin Range(todo[t])
    PROVE  /\ NewSend(t, x) /\ Then(t, <<x>>) /\ wire' = wire /\ rx_queue' = rx_queue
           /\ \A n : x.what \in PlainKinds /\ Claimed(n) /\ Proper(x.what, n) => x.n # n
<1>1. ids["set_vcard"] \subseteq {0}
  BY AwaitedKinds, KindNames DEF IdsApart
<1>2. NewSend(t, x)
  <2>1. PICK N : Became(t, N) /\ \A a \in N : Fresh(t, a)
    BY <1>1, NewSteps DEF FreshSteps
  <2>2. Fresh(t, x)
    BY <2>1 DEF Became
  <2> QED BY <2>2 DEF Fresh, Asking
<1>3. Store(t)
  BY <1>2 DEF NewSend
<1>4. wire' = wire /\ rx_queue' = rx_queue
  BY <1>3 DEF Store, peerVars
<1>6. Then(t, <<x>>)
  <2>1. todo[t] # <<>>
    BY <1>3 DEF Store, Now
  <2>2. ~Then(t, <<>>)
    <3>1. SUFFICES ASSUME Then(t, <<>>) PROVE FALSE
      OBVIOUS
    <3>2. Became(t, {})
      BY <2>1, <3>1, BecameNothing
    <3> QED BY <3>2 DEF Became
  <2>3. PICK b : Then(t, <<b>>)
    BY <1>3, <2>2, StoreSteps
  <2>4. Became(t, {b})
    BY <2>1, <2>3, BecameOne
  <2>5. x = b
    BY <2>4 DEF Became
  <2> QED BY <2>3, <2>5
<1>5. ASSUME NEW n, x.what \in PlainKinds, Claimed(n), Proper(x.what, n) PROVE x.n # n
  <2>1. /\ x.what \in Kind /\ x.what # "roster" /\ x.what \notin {"bind", "roster_set"}
    BY <1>5, AwaitedKinds
  <2> QED BY <1>2, <1>5, <2>1, NotStored
<1> QED BY <1>2, <1>4, <1>5, <1>6

LEMMA WireOrigin ==
    ASSUME TypeOK, Shape, Askers, [Next]_vars, NEW req \in wire', req \notin wire
    PROVE  \E t \in Thread : \E x :
               /\ Send(t) /\ x \in Range(todo[t]) /\ x.op = "send"
               /\ req.kind = x.what /\ req.id = x.n
               /\ req = [kind |-> x.what, id |-> x.n, item |-> x.arg]
               /\ wire' = wire \cup {req} /\ rx_queue' = rx_queue
               /\ \A y \in Range(todo'[t]) : y.op # "send"
<1>1. PICK t \in Thread : Send(t)
  <2>1. wire' # wire /\ ~StopStream /\ ~Answer
    BY DEF StopStream, Answer
  <2> QED BY <2>1, Changes DEF Effects
<1>2. PICK x : x = This(t)
  OBVIOUS
<1>3. req = [kind |-> x.what, id |-> x.n, item |-> x.arg] /\ wire' = wire \cup {req}
  BY <1>1, <1>2 DEF Send
<1>4. x \in Range(todo[t]) /\ x.op = "send" /\ todo[t] # <<>>
  BY <1>1, <1>2, ThisInRange DEF Send, Now, This
<1>5. rx_queue' = rx_queue /\ Then(t, <<>>)
  BY <1>1 DEF Send
<1>6. Range(todo'[t]) = Range(Tail(todo[t]))
  <2>1. PICK s : s = <<>>
    OBVIOUS
  <2>2. s \in Seq({}) /\ Range(s) = {} /\ Then(t, s)
    BY <1>5, <2>1, NoSteps, EmptySeq
  <2>3. Range(todo'[t]) = Range(s) \cup Range(Tail(todo[t]))
    BY <1>4, <2>2, ThenRange
  <2> QED BY <2>2, <2>3
<1>7. \A y \in Range(todo'[t]) : y.op # "send"
  BY <1>4, <1>6 DEF Askers
<1> QED BY <1>1, <1>3, <1>4, <1>5, <1>7

LEMMA PendingOrigin ==
    ASSUME TypeOK, Shape, Doing, Polite, IdsApart, ProperIds, [Next]_vars,
           NEW i \in DOMAIN rx_queue', Pending(i)', NEW obj, obj = rx_queue'[i], obj.re # "none"
    PROVE  \/ \E j : Pending(j) /\ rx_queue[j] = obj /\ (j = i \/ Pop) /\ (Pop => j = i + 1)
           \/ /\ i \notin DOMAIN rx_queue /\ todo' = todo /\ UNCHANGED ids /\ Answer
              /\ \A k \in DOMAIN rx_queue' : k \in DOMAIN rx_queue \/ k = i
              /\ \E req \in wire : wire' = wire \ {req} /\ obj.re = req.kind /\ obj.id = req.id
<1>1. ids["set_vcard"] \subseteq {0} /\ \A req \in wire : Proper(req.kind, req.id)
  BY AwaitedKinds, KindNames DEF IdsApart, ProperIds
<1>2. ~Other(obj)
  BY DEF Other
<1>3. \/ /\ ~Pop /\ Pending(i) /\ obj = rx_queue[i]
      \/ Pop /\ Pending(i + 1) /\ obj = rx_queue[i + 1]
      \/ /\ i \notin DOMAIN rx_queue
         /\ \E req : /\ AnswersOne(obj, req)
                     /\ \A k \in DOMAIN rx_queue' : k \in DOMAIN rx_queue \/ k = i
  BY <1>1, <1>2, QueueMoves
<1>4. ASSUME NEW req, AnswersOne(obj, req)
      PROVE  /\ todo' = todo /\ UNCHANGED ids /\ req \in wire /\ Answer
             /\ wire' = wire \ {req} /\ obj.re = req.kind /\ obj.id = req.id
  BY <1>4 DEF AnswersOne, Answer, modVars
<1> QED BY <1>3, <1>4

(* What has an id had it before, or has got it by being stored.               *)
LEMMA ClaimedBefore ==
    ASSUME TypeOK, Shape, Separate, Polite, Askers, IdsApart, NewIds, ProperIds, [Next]_vars,
           NEW n, Claimed(n)'
    PROVE  \/ Claimed(n)
           \/ \E u \in Thread : \E a : NewSend(u, a) /\ a.op = "send" /\ Then(u, <<a>>) /\ a.n = n
<1>1. ASSUME NEW u \in Thread, NEW x \in Range(todo'[u]), x.op = "send", x.n = n
      PROVE  \/ Claimed(n)
             \/ \E v \in Thread : \E a : NewSend(v, a) /\ a.op = "send" /\ Then(v, <<a>>) /\ a.n = n
  <2>1. CASE x \in Range(todo[u])
    BY <1>1, <2>1 DEF Claimed
  <2>2. CASE x \notin Range(todo[u])
    BY <1>1, <2>2, SendOrigin
  <2> QED BY <2>1, <2>2
<1>2. ASSUME NEW req \in wire', req.id = n PROVE Claimed(n)
  <2>1. CASE req \in wire
    BY <1>2, <2>1 DEF Claimed
  <2>2. CASE req \notin wire
    <3>1. \E t \in Thread : \E x : x \in Range(todo[t]) /\ x.op = "send" /\ req.id = x.n
      BY <2>2, WireOrigin
    <3> QED BY <1>2, <3>1 DEF Claimed
  <2> QED BY <2>1, <2>2
<1>3. ASSUME NEW i \in DOMAIN rx_queue', NEW obj, obj = rx_queue'[i], obj.re # "none", obj.id = n
      PROVE  Claimed(n)
  <2>1. ~Other(obj)
    BY <1>3 DEF Other
  <2>2. (\E j \in DOMAIN rx_queue : obj = rx_queue[j]) \/ \E req : AnswersOne(obj, req)
    BY <1>3, <2>1, QueueFrom
  <2>3. ASSUME NEW req, AnswersOne(obj, req) PROVE req \in wire /\ req.id = n
    BY <1>3, <2>3 DEF AnswersOne
  <2> QED BY <1>3, <2>2, <2>3 DEF Claimed
<1> QED BY <1>1, <1>2, <1>3 DEF Claimed

(* Whatever has an id has one that was given out, or the fixed one.           *)
LEMMA ClaimedRange ==
    ASSUME TypeOK, Separate, IdsApart, ProperIds, Objects, NEW n, Claimed(n)
    PROVE  n # asks + 1 \/ asks >= MaxAsk
<1>1. /\ asks \in Nat /\ asks <= MaxAsk /\ MaxAsk \in Nat /\ session <= MaxSession
      /\ FixedId \in Nat /\ PushId \in Nat /\ PushId > FixedId /\ FixedId > MaxAsk
  BY ModulesAssumption, FixedIds DEF TypeOK, IdsApart
<1>2. ASSUME NEW k \in Kind, n \in InUse(k) \/ n = FixedId PROVE n # asks + 1 \/ asks >= MaxAsk
  <2>1. CASE n = FixedId
    BY <1>1, <2>1
  <2>2. CASE n \in InUse(k)
    <3>1. /\ n \in Nat
          /\ n > MaxAsk \/ n <= asks \/ n > PushId
      BY <1>1, <2>2, InUseRanges
    <3> QED BY <1>1, <3>1
  <2> QED BY <1>2, <2>1, <2>2
<1>3. \A k : Proper(k, n) => n \in InUse(k) \/ n = FixedId
  BY DEF Proper
<1>4. ASSUME NEW t \in Thread, NEW x \in Range(todo[t]), x.op = "send", x.n = n
      PROVE  \E k \in Kind : n \in InUse(k) \/ n = FixedId
  <2>1. x \in StepOK
    BY <1>4, RangeOfSeq DEF TypeOK
  <2>2. x.what \in Kind
    BY <1>4, <2>1, StepKinds DEF Request
  <2>3. Proper(x.what, n)
    BY <1>4 DEF ProperIds
  <2> QED BY <1>3, <2>2, <2>3
<1>5. ASSUME NEW req \in wire, req.id = n
      PROVE  \E k \in Kind : n \in InUse(k) \/ n = FixedId
  BY <1>3, <1>5 DEF ProperIds, TypeOK
<1>6. ASSUME NEW i \in DOMAIN rx_queue, rx_queue[i].re # "none", rx_queue[i].id = n
      PROVE  \E k \in Kind : n \in InUse(k) \/ n = FixedId
  <2>1. rx_queue[i] \in Object /\ Sound(rx_queue[i])
    BY <1>6, LenProperties, ElementOfSeq DEF TypeOK, Objects
  <2> QED BY <1>6, <2>1 DEF Sound, Object
<1> QED BY <1>2, <1>4, <1>5, <1>6 DEF Claimed

LEMMA NewIdsStep ==
    ASSUME TypeOK, TypeOK', Shape, Separate, Polite, Askers, Between, IdsApart, NewIds, ProperIds, Objects,
           [Next]_vars
    PROVE  NewIds'
<1>1. ASSUME NEW t \in Thread, NEW x \in Range(todo'[t]), x.op = "store", x.what # "bind", Claimed(x.n)'
      PROVE  FALSE
  <2>1. asks \in Nat /\ MaxAsk \in Nat /\ asks <= MaxAsk
    BY ModulesAssumption DEF TypeOK, IdsApart
  <2>2. ASSUME x \notin Range(todo[t]) PROVE FALSE
    <3>1. asks' = asks + 1 /\ x.n = asks + 1 /\ asks' <= MaxAsk
      BY <1>1, <2>2, StoreOrigin, CountersGrow
    <3>2. ASSUME NEW u \in Thread, NEW a, NewSend(u, a) PROVE FALSE
      <4>1. asks' = asks
        BY <3>2 DEF NewSend, Store, counters
      <4> QED BY <2>1, <3>1, <4>1
    <3>3. Claimed(x.n)
      BY <1>1, <3>2, ClaimedBefore
    <3> QED BY <2>1, <3>1, <3>3, ClaimedRange
  <2>3. ASSUME x \in Range(todo[t]) PROVE FALSE
    <3>1. x.n \in 1..asks /\ ~Claimed(x.n)
      BY <1>1, <2>3 DEF NewIds
    <3>2. PICK u \in Thread : \E a : NewSend(u, a) /\ a.op = "send" /\ Then(u, <<a>>) /\ a.n = x.n
      BY <1>1, <3>1, ClaimedBefore
    <3>3. PICK a : NewSend(u, a) /\ a.op = "send" /\ Then(u, <<a>>) /\ a.n = x.n
      BY <3>2
    <3> QED BY <1>1, <2>1, <2>3, <3>1, <3>3, StoresAnother
  <2> QED BY <2>2, <2>3
<1>2. /\ \A t \in Thread : \A step \in Range(todo'[t]) : step.op = "store" /\ step.what # "bind" =>
           /\ step.n \in 1..asks' /\ \A k \in Kind : step.n \notin ids'[k]
           /\ step.what = "roster" => session' # 0
      /\ \A t, u \in Thread : \A a \in Range(todo'[t]), b \in Range(todo'[u]) :
           a.op = "store" /\ b.op = "store" /\ t # u /\ a.what # "bind" /\ b.what # "bind"
               => a.n # b.n
  BY StoreIdsStep
<1>3. \A t \in Thread : \A step \in Range(todo'[t]) :
         step.op = "store" /\ step.what # "bind" => ~Claimed(step.n)'
  BY <1>1
<1> QED BY <1>2, <1>3 DEF NewIds, Claimed

LEMMA OneWaySends ==
    ASSUME TypeOK, Shape, Separate, Askers, IdsApart, NewIds, ProperIds, OneWay, [Next]_vars,
           NEW t \in Thread, NEW u \in Thread, t # u, NEW a \in Range(todo'[t]), NEW b \in Range(todo'[u]),
           a.op = "send", b.op = "send"
    PROVE  ~Same(a.what, a.n, b.what, b.n)
<1>1. SUFFICES ASSUME Same(a.what, a.n, b.what, b.n) PROVE FALSE
  OBVIOUS
<1>2. a.what \in PlainKinds /\ b.what = a.what /\ b.n = a.n
  BY <1>1 DEF Same
<1>3. todo'[t] = todo[t] \/ todo'[u] = todo[u]
  BY OneThreadMoves
<1>4. CASE a \notin Range(todo[t])
  <2>1. b \in Range(todo[u])
    BY <1>3, <1>4
  <2>2. Proper(b.what, b.n) /\ Claimed(b.n)
    BY <1>4, <2>1 DEF ProperIds, Claimed
  <2> QED BY <1>2, <1>4, <2>2, SendOrigin
<1>5. CASE b \notin Range(todo[u])
  <2>1. a \in Range(todo[t])
    BY <1>3, <1>5
  <2>2. Proper(a.what, a.n) /\ Claimed(a.n)
    BY <1>5, <2>1 DEF ProperIds, Claimed
  <2> QED BY <1>2, <1>5, <2>2, SendOrigin
<1>6. CASE a \in Range(todo[t]) /\ b \in Range(todo[u])
  BY <1>1, <1>6 DEF OneWay
<1> QED BY <1>4, <1>5, <1>6

LEMMA OneWaySent ==
    ASSUME TypeOK, Shape, Separate, Polite, Askers, IdsApart, NewIds, ProperIds, OneWay, Objects, Doing, [Next]_vars,
           NEW t \in Thread, NEW a \in Range(todo'[t]), a.op = "send"
    PROVE  /\ \A req \in wire' : ~Same(req.kind, req.id, a.what, a.n)
           /\ \A i \in DOMAIN rx_queue' : \A obj : Pending(i)' /\ obj = rx_queue'[i] => ~Same(obj.re, obj.id, a.what, a.n)
<1>1. ASSUME NEW req \in wire', Same(req.kind, req.id, a.what, a.n) PROVE FALSE
  <2>1. req.kind \in PlainKinds /\ a.what = req.kind /\ a.n = req.id
    BY <1>1 DEF Same
  <2>2. CASE a \notin Range(todo[t])
    <3>1. req \in wire
      BY <1>1, <2>2, SendOrigin
    <3>2. Proper(req.kind, req.id) /\ Claimed(req.id)
      BY <3>1 DEF ProperIds, Claimed
    <3> QED BY <2>1, <2>2, <3>2, SendOrigin
  <2>3. CASE a \in Range(todo[t]) /\ req \in wire
    BY <1>1, <2>3 DEF OneWay
  <2>4. CASE a \in Range(todo[t]) /\ req \notin wire
    <3>1. PICK u \in Thread : \E x :
               /\ x \in Range(todo[u]) /\ x.op = "send"
               /\ req.kind = x.what /\ req.id = x.n
               /\ \A y \in Range(todo'[u]) : y.op # "send"
      BY <2>4, WireOrigin
    <3>2. u # t
      BY <3>1
    <3>3. PICK x : x \in Range(todo[u]) /\ x.op = "send" /\ req.kind = x.what /\ req.id = x.n
      BY <3>1
    <3>4. ~Same(x.what, x.n, a.what, a.n)
      BY <2>4, <3>2, <3>3 DEF OneWay
    <3> QED BY <1>1, <3>3, <3>4
  <2> QED BY <2>2, <2>3, <2>4
<1>2. ASSUME NEW i \in DOMAIN rx_queue', Pending(i)', NEW obj, obj = rx_queue'[i], Same(obj.re, obj.id, a.what, a.n)
      PROVE  FALSE
  <2>1. obj.re \in PlainKinds /\ a.what = obj.re /\ a.n = obj.id
    BY <1>2 DEF Same
  <2>2. obj.re # "none" /\ obj.re # "roster"
    BY <2>1, NoneIsNoKind, AwaitedKinds
  <2>3. ASSUME NEW j, Pending(j), rx_queue[j] = obj PROVE FALSE
    <3>1. j \in DOMAIN rx_queue
      BY <2>3 DEF Pending
    <3>2. Proper(obj.re, obj.id) /\ Claimed(obj.id)
      BY <2>2, <2>3, <3>1 DEF ProperIds, Claimed
    <3>3. a \in Range(todo[t])
      BY <2>1, <3>2, SendOrigin
    <3> QED BY <1>2, <2>3, <3>1, <3>3 DEF OneWay
  <2>4. ASSUME NEW req \in wire, obj.re = req.kind, obj.id = req.id, todo' = todo PROVE FALSE
    BY <1>2, <2>4 DEF OneWay
  <2> QED BY <1>2, <2>2, <2>3, <2>4, PendingOrigin
<1> QED BY <1>1, <1>2

LEMMA OneWayWire ==
    ASSUME TypeOK, Shape, Askers, OneWay, [Next]_vars,
           NEW req \in wire', NEW other \in wire', Same(req.kind, req.id, other.kind, other.id)
    PROVE  req = other
<1>1. CASE req \in wire /\ other \in wire
  BY <1>1 DEF OneWay
<1>2. ASSUME NEW r \in wire', NEW o \in wire, r \notin wire PROVE ~Same(r.kind, r.id, o.kind, o.id)
  <2>1. PICK t \in Thread : \E x : x \in Range(todo[t]) /\ x.op = "send" /\ r.kind = x.what /\ r.id = x.n
    BY <1>2, WireOrigin
  <2>2. PICK x : x \in Range(todo[t]) /\ x.op = "send" /\ r.kind = x.what /\ r.id = x.n
    BY <2>1
  <2>3. ~Same(o.kind, o.id, x.what, x.n)
    BY <2>2 DEF OneWay
  <2> QED BY <2>2, <2>3 DEF Same
<1>3. CASE req \notin wire /\ other \notin wire
  <2>1. wire' = wire \cup {req}
    BY <1>3, WireOrigin
  <2> QED BY <1>3, <2>1
<1>4. CASE req \notin wire /\ other \in wire
  BY <1>2, <1>4
<1>5. CASE req \in wire /\ other \notin wire
  BY <1>2, <1>5 DEF Same
<1> QED BY <1>1, <1>3, <1>4, <1>5

LEMMA OneWayAnswer ==
    ASSUME TypeOK, Shape, Polite, Askers, IdsApart, ProperIds, OneWay, Doing, [Next]_vars,
           NEW req \in wire', NEW i \in DOMAIN rx_queue', Pending(i)', NEW obj, obj = rx_queue'[i]
    PROVE  ~Same(obj.re, obj.id, req.kind, req.id)
<1>1. SUFFICES ASSUME Same(obj.re, obj.id, req.kind, req.id) PROVE FALSE
  OBVIOUS
<1>2. obj.re # "none"
  BY <1>1, NoneIsNoKind, AwaitedKinds DEF Same
<1>3. ASSUME NEW j, Pending(j), rx_queue[j] = obj PROVE FALSE
  <2>1. j \in DOMAIN rx_queue
    BY <1>3 DEF Pending
  <2>2. req \notin wire
    BY <1>1, <1>3, <2>1 DEF OneWay
  <2>3. PICK t \in Thread : \E x : x \in Range(todo[t]) /\ x.op = "send" /\ req.kind = x.what /\ req.id = x.n
    BY <2>2, WireOrigin
  <2>4. PICK x : x \in Range(todo[t]) /\ x.op = "send" /\ req.kind = x.what /\ req.id = x.n
    BY <2>3
  <2> QED BY <1>1, <1>3, <2>1, <2>4 DEF OneWay
<1>4. ASSUME NEW asked \in wire, wire' = wire \ {asked}, obj.re = asked.kind, obj.id = asked.id PROVE FALSE
  <2>1. req \in wire /\ req # asked
    BY <1>4
  <2> QED BY <1>1, <1>4, <2>1 DEF OneWay
<1> QED BY <1>2, <1>3, <1>4, PendingOrigin

LEMMA OneWayQueue ==
    ASSUME TypeOK, Shape, Polite, Askers, IdsApart, ProperIds, OneWay, Doing, [Next]_vars,
           NEW i \in DOMAIN rx_queue', Pending(i)', NEW obj, obj = rx_queue'[i],
           NEW j \in DOMAIN rx_queue', Pending(j)', NEW obj2, obj2 = rx_queue'[j],
           Same(obj.re, obj.id, obj2.re, obj2.id)
    PROVE  i = j
<1>1. obj.re # "none" /\ obj2.re # "none"
  BY NoneIsNoKind, AwaitedKinds DEF Same
<1>2. i \in Nat /\ j \in Nat
  <2>1. rx_queue' \in Seq(Object)
    BY TypeStep DEF TypeOK
  <2>2. DOMAIN rx_queue' = 1..Len(rx_queue') /\ Len(rx_queue') \in Nat
    BY <2>1, LenProperties
  <2> QED BY <2>2
<1>3. ASSUME NEW a, NEW b, Pending(a), Pending(b), rx_queue[a] = obj, rx_queue[b] = obj2,
             a = i \/ Pop, Pop => a = i + 1, b = j \/ Pop, Pop => b = j + 1
      PROVE  i = j
  <2>1. a \in DOMAIN rx_queue /\ b \in DOMAIN rx_queue
    BY <1>3 DEF Pending
  <2>2. a = b
    BY <1>3, <2>1 DEF OneWay
  <2> QED BY <1>2, <1>3, <2>2
<1>4. ASSUME NEW a, Pending(a), rx_queue[a] = obj, NEW asked \in wire, obj2.re = asked.kind, obj2.id = asked.id
      PROVE  FALSE
  <2>1. a \in DOMAIN rx_queue
    BY <1>4 DEF Pending
  <2> QED BY <1>4, <2>1 DEF OneWay
<1>5. ASSUME NEW a, Pending(a), rx_queue[a] = obj2, NEW asked \in wire, obj.re = asked.kind, obj.id = asked.id
      PROVE  FALSE
  <2>1. a \in DOMAIN rx_queue
    BY <1>5 DEF Pending
  <2>2. Same(obj2.re, obj2.id, asked.kind, asked.id)
    BY <1>5 DEF Same
  <2> QED BY <1>5, <2>1, <2>2 DEF OneWay
<1>6. \/ \E a : Pending(a) /\ rx_queue[a] = obj /\ (a = i \/ Pop) /\ (Pop => a = i + 1)
      \/ /\ i \notin DOMAIN rx_queue /\ \A k \in DOMAIN rx_queue' : k \in DOMAIN rx_queue \/ k = i
         /\ \E asked \in wire : obj.re = asked.kind /\ obj.id = asked.id
  BY <1>1, PendingOrigin
<1>7. \/ \E b : Pending(b) /\ rx_queue[b] = obj2 /\ (b = j \/ Pop) /\ (Pop => b = j + 1)
      \/ /\ j \notin DOMAIN rx_queue /\ \A k \in DOMAIN rx_queue' : k \in DOMAIN rx_queue \/ k = j
         /\ \E asked \in wire : obj2.re = asked.kind /\ obj2.id = asked.id
  BY <1>1, PendingOrigin
<1>8. CASE \E a : Pending(a) /\ rx_queue[a] = obj /\ (a = i \/ Pop) /\ (Pop => a = i + 1)
  BY <1>3, <1>4, <1>7, <1>8
<1>9. CASE /\ i \notin DOMAIN rx_queue /\ \A k \in DOMAIN rx_queue' : k \in DOMAIN rx_queue \/ k = i
           /\ \E asked \in wire : obj.re = asked.kind /\ obj.id = asked.id
  BY <1>5, <1>7, <1>9
<1> QED BY <1>6, <1>8, <1>9

LEMMA OneWayStep ==
    ASSUME TypeOK, Shape, Separate, Polite, Askers, IdsApart, NewIds, ProperIds, OneWay, Objects, Doing,
           [Next]_vars
    PROVE  OneWay'
<1>1. \A t, u \in Thread : \A a \in Range(todo'[t]), b \in Range(todo'[u]) :
          a.op = "send" /\ b.op = "send" /\ t # u => ~Same(a.what, a.n, b.what, b.n)
  BY OneWaySends
<1>2. \A t \in Thread : \A a \in Range(todo'[t]) : a.op = "send" =>
          /\ \A req \in wire' : ~Same(req.kind, req.id, a.what, a.n)
          /\ \A i \in DOMAIN rx_queue' : \A obj : Pending(i)' /\ obj = rx_queue'[i] =>
                ~Same(obj.re, obj.id, a.what, a.n)
  BY OneWaySent
<1>3. \A req, other \in wire' : Same(req.kind, req.id, other.kind, other.id) => req = other
  BY OneWayWire
<1>4. \A req \in wire' : \A i \in DOMAIN rx_queue' : \A obj :
          Pending(i)' /\ obj = rx_queue'[i] => ~Same(obj.re, obj.id, req.kind, req.id)
  BY OneWayAnswer
<1>5. \A i, j \in DOMAIN rx_queue' : \A obj, obj2 :
          Pending(i)' /\ Pending(j)' /\ obj = rx_queue'[i] /\ obj2 = rx_queue'[j]
             /\ Same(obj.re, obj.id, obj2.re, obj2.id) => i = j
  BY OneWayQueue
<1> QED BY <1>1, <1>2, <1>3, <1>4, <1>5 DEF OneWay, Same

-----------------------------------------------------------------------------
(* The roster has one item for a contact                                    *)

LEMMA PushDistinct ==
    ASSUME NEW r \in Seq(Item), Distinct(r), NEW item \in Item
    PROVE  Distinct(HandlePush(r, item))
<1>1. DOMAIN r = 1..Len(r) /\ Len(r) \in Nat /\ \A i \in 1..Len(r) : r[i] \in Item
  BY ItemsAre
<1>2. CASE (\A i \in 1..Len(r) : r[i].jid # item.jid) /\ HandlePush(r, item) = Append(r, item)
  <2>1. PICK s : s = Append(r, item)
    OBVIOUS
  <2>2. /\ DOMAIN s = 1..(Len(r) + 1) /\ s[Len(r) + 1] = item
        /\ \A i \in 1..Len(r) : s[i] = r[i]
    BY <1>1, <2>1, AppendProperties, LenProperties
  <2>3. \A i \in 1..(Len(r) + 1) : i \in 1..Len(r) \/ i = Len(r) + 1
    BY <1>1
  <2> QED BY <1>1, <1>2, <2>1, <2>2, <2>3 DEF Distinct
<1>3. ASSUME NEW at \in 1..Len(r), r[at].jid = item.jid, \A i \in 1..(at - 1) : r[i].jid # item.jid,
             HandlePush(r, item) = IF item.sub = "remove" THEN RemoveAt(r, at) ELSE [r EXCEPT ![at] = item]
      PROVE  Distinct(HandlePush(r, item))
  <2>1. CASE item.sub = "remove"
    <3>1. PICK s : s = RemoveAt(r, at)
      OBVIOUS
    <3>2. /\ s \in Seq(Item) /\ Len(s) = Len(r) - 1
          /\ \A i \in 1..(Len(r) - 1) : s[i] = IF i < at THEN r[i] ELSE r[i + 1]
      BY <3>1, RemovedAtIs
    <3>3. DOMAIN s = 1..(Len(r) - 1)
      BY <3>2, LenProperties
    <3>4. ASSUME NEW i \in DOMAIN s, NEW j \in DOMAIN s, s[i].jid = s[j].jid PROVE i = j
      <4>1. PICK a, b : /\ a = (IF i < at THEN i ELSE i + 1) /\ b = (IF j < at THEN j ELSE j + 1)
        OBVIOUS
      <4>2. i \in Nat /\ j \in Nat /\ at \in Nat /\ a \in 1..Len(r) /\ b \in 1..Len(r)
        BY <1>1, <3>3, <4>1
      <4>3. r[a] = s[i] /\ r[b] = s[j]
        BY <3>2, <3>3, <4>1
      <4>4. a = b
        BY <1>1, <3>4, <4>2, <4>3 DEF Distinct
      <4> QED BY <4>1, <4>2, <4>4
    <3> QED BY <1>3, <2>1, <3>1, <3>4 DEF Distinct
  <2>2. CASE item.sub # "remove"
    <3>1. PICK s : s = [r EXCEPT ![at] = item]
      OBVIOUS
    <3>2. DOMAIN s = 1..Len(r) /\ \A i \in 1..Len(r) : s[i].jid = r[i].jid
      BY <1>1, <1>3, <3>1
    <3> QED BY <1>1, <1>3, <2>2, <3>1, <3>2 DEF Distinct
  <2> QED BY <2>1, <2>2
<1> QED BY <1>2, <1>3, HandlePushIs

LEMMA RosterDistinctStep ==
    ASSUME TypeOK, Shape, Separate, IdsApart, ProperIds, Objects, RosterDistinct, [Next]_vars
    PROVE  RosterDistinct'
<1>1. ASSUME Roster PROVE Registered("roster") /\ modules' = modules /\ Distinct(roster')
  <2>1. Now("rx", "process") /\ This("rx").n <= Len(modules) /\ modules[This("rx").n] = "roster" /\ modules' = modules
    BY <1>1 DEF Roster, Calls
  <2>2. This("rx").n \in Nat \ {0} /\ rx_queue # <<>>
    BY <2>1, CalledAlone
  <2>3. Len(modules) \in Nat /\ DOMAIN modules = 1..Len(modules)
    BY LenProperties DEF TypeOK
  <2>4. Registered("roster")
    BY <2>1, <2>2, <2>3 DEF Registered, Range
  <2>5. Object0 = rx_queue[1] /\ 1 \in DOMAIN rx_queue /\ Object0 \in Object
    BY <2>2, Shorter, FirstObject DEF Object0, TypeOK
  <2>6. CASE Waits("roster") /\ Object0.type = "result" /\ roster' = Object0.items
    <3>1. "roster" \in Heeded
      BY HeededKinds
    <3>2. Object0.re = "roster"
      BY <2>1, <2>6, <3>1, WaitsOnly DEF Swallowed
    <3> QED BY <2>1, <2>4, <2>5, <2>6, <3>2 DEF Objects, Sound
  <2>7. CASE roster' = <<>>
    BY <2>1, <2>4, <2>7, EmptySeq DEF Distinct
  <2>8. CASE RosterPush /\ roster' = HandlePush(roster, Object0.items[1])
    <3>1. Object0.items \in Seq(Item) /\ Object0.items # <<>>
      BY <2>5, <2>8 DEF RosterPush, Object
    <3>2. Object0.items[1] \in Item
      BY <3>1, EmptySeq, ItemsAre
    <3>3. roster \in Seq(Item) /\ Distinct(roster)
      BY DEF TypeOK, RosterDistinct
    <3> QED BY <2>1, <2>4, <2>8, <3>2, <3>3, PushDistinct
  <2>9. CASE roster' = roster
    BY <2>1, <2>4, <2>9 DEF RosterDistinct, Distinct
  <2> QED BY <1>1, <2>1, <2>4, <2>6, <2>7, <2>8, <2>9 DEF Roster
<1>2. ASSUME roster' = roster PROVE RosterDistinct'
  <2>1. Registered("roster") => Registered("roster")'
    BY RegisteredStays DEF Registered
  <2> QED BY <1>2, <2>1 DEF RosterDistinct
<1>3. ASSUME Roster PROVE RosterDistinct'
  BY <1>1, <1>3 DEF RosterDistinct, Registered
<1> QED BY <1>2, <1>3, Changes DEF Effects

-----------------------------------------------------------------------------
(* An object reaches the module it is for                                   *)

LEMMA KindsDisjoint ==
    ASSUME NEW mod \in Module, NEW mod2 \in Module, NEW k \in Kinds(mod), k \in Kinds(mod2)
    PROVE  mod = mod2
<1>1. ASSUME NEW m \in Module, k \in Kinds(m)
      PROVE  m = IF k = "bind" THEN "core" ELSE IF k = "session" THEN "session"
                 ELSE IF k \in {"disco", "query_info"} THEN "disco"
                 ELSE IF k \in {"info", "register", "unregister", "password"} THEN "register"
                 ELSE IF k = "fields" THEN "search" ELSE IF k \in {"vcard", "set_vcard"} THEN "vcard"
                 ELSE IF k \in {"private_set", "private_get"} THEN "private"
                 ELSE IF k = "version" THEN "version" ELSE IF k = "ping" THEN "ping"
                 ELSE IF k \in {"roster", "roster_set"} THEN "roster" ELSE "presence"
  BY <1>1, KindsOf DEF Module
<1> QED BY <1>1

LEMMA FirstStillAhead ==
    ASSUME TypeOK, ProperIds, Objects, todo["rx"] = <<Process(1)>>, rx_queue # <<>>, NEW mod \in Module, ForMe(mod)
    PROVE  \E i \in DOMAIN modules : i >= This("rx").n /\ modules[i] = mod
<1>1. This("rx") = Process(1) /\ Now("rx", "process") /\ ~Now("rx", "forget") /\ This("rx").n = 1
  <2>1. Head(todo["rx"]) = Process(1) /\ todo["rx"] # <<>>
    OBVIOUS
  <2> QED BY <2>1, StepFields DEF This, Now
<1>2. Object0 = rx_queue[1] /\ 1 \in DOMAIN rx_queue
  BY Shorter DEF Object0, TypeOK
<1>3. Pending(1) /\ Sound(Object0)
  BY <1>1, <1>2 DEF Pending, Objects
<1>4. Range(modules) \subseteq Module
  BY RangeOfSeq DEF TypeOK
<1>5. mod \in Range(modules)
  <2>1. CASE Object0.re # "none" /\ Object0.re \in Kinds(mod) /\ Object0.id \in ids[Object0.re]
    <3>1. IsAsker(Object0.re)
      BY <1>1, <1>2, <1>3, <2>1 DEF ProperIds
    <3>2. PICK m \in Range(modules) : Object0.re \in Kinds(m)
      BY <3>1 DEF IsAsker
    <3> QED BY <1>4, <2>1, <3>2, KindsDisjoint
  <2>2. CASE Object0.tag \in {"message", "presence"} /\ Object0.tag = mod
    BY <1>3, <2>2 DEF Sound
  <2> QED BY <2>1, <2>2 DEF ForMe
<1>6. DOMAIN modules = 1..Len(modules) /\ Len(modules) \in Nat
  BY LenProperties DEF TypeOK
<1>7. PICK i \in DOMAIN modules : modules[i] = mod
  BY <1>5 DEF Range
<1> QED BY <1>1, <1>6, <1>7

(* A module that hands an object on is not the one it is for.                 *)
LEMMA PassedOn ==
    ASSUME TypeOK, Shape, Separate, IdsApart, ProperIds, Objects, Now("rx", "process"),
           NEW mod \in Module, ForMe(mod),
           \A k \in Kind : TakenFor(mod, k) =>
             \/ mod \in {"version", "ping"} /\ Object0.type = "get"
             \/ mod = "roster" /\ Object0.type \notin {"result", "error"}
             \/ mod = "roster" /\ Object0.type = "result" /\ Object0.query # "roster",
           mod \in {"message", "presence"} => Object0.tag # mod
    PROVE  FALSE
<1>1. rx_queue # <<>>
  BY CalledAlone
<1>2. Object0 = rx_queue[1] /\ 1 \in DOMAIN rx_queue
  BY <1>1, Shorter DEF Object0, TypeOK
<1>3. Sound(Object0)
  BY <1>2 DEF Objects
<1>4. Object0.re # "none" /\ Object0.re \in Kinds(mod) /\ Object0.id \in ids[Object0.re]
  BY DEF ForMe
<1>5. Waits(Object0.re) /\ Object0.re \in Heeded
  BY <1>4, AskerWaits
<1>6. Object0.type \in {"result", "error"}
  BY <1>4, <1>5, WaitsOnly
<1>7. TakenFor(mod, Object0.re) /\ Object0.re \in Kind
  BY <1>4, <1>5 DEF TakenFor, Heeded, Awaited
<1>8. mod = "roster" /\ Object0.type = "result" /\ Object0.query # "roster"
  BY <1>6, <1>7
<1>9. Object0.re = "roster"
  BY <1>4, <1>5, <1>8, KindsOf, HeededKinds
<1> QED BY <1>3, <1>4, <1>8, <1>9 DEF Sound

LEMMA NoHandler ==
    ASSUME Shape, Now("rx", "process"), NEW p, todo'["rx"] = <<p>>
    PROVE  (\A a : ~Handles(<<a>>)) /\ (\A a, b : ~Handles(<<a, b>>))
<1>1. Len(<<p>>) = 1
  OBVIOUS
<1>2. ASSUME NEW a, Handles(<<a>>) PROVE FALSE
  <2>1. todo'["rx"] = <<a, Popping>>
    BY <1>2, HandlesOne
  <2>2. Len(<<a, Popping>>) = 2
    OBVIOUS
  <2> QED BY <1>1, <2>1, <2>2
<1>3. ASSUME NEW a, NEW b, Handles(<<a, b>>) PROVE FALSE
  <2>1. todo'["rx"] = <<a, b, Popping>>
    BY <1>3, HandlesTwo
  <2>2. Len(<<a, b, Popping>>) = 3
    OBVIOUS
  <2> QED BY <1>1, <2>1, <2>2
<1> QED BY <1>2, <1>3

(* A module that hands the object on does not take it for an answer.          *)
LEMMA HandsOn ==
    ASSUME Shape, NEW mod \in Module, ModuleStep(mod), Now("rx", "process"),
           NEW p, todo'["rx"] = <<p>>, ids["set_vcard"] \subseteq {0}
    PROVE  /\ \A k \in Kind : TakenFor(mod, k) =>
                 \/ mod \in {"version", "ping"} /\ Object0.type = "get"
                 \/ mod = "roster" /\ Object0.type \notin {"result", "error"}
                 \/ mod = "roster" /\ Object0.type = "result" /\ Object0.query # "roster"
           /\ mod \in {"message", "presence"} => Object0.tag # mod
<1>1. Hands(mod)
  BY ModuleHands
<1>2. \A a : ~Handles(<<a>>)
  BY NoHandler
<1>3. \A a, b : ~Handles(<<a, b>>)
  BY NoHandler
<1>4. \A k : ~Handles(<<Callback(k)>> \o <<Reply>>)
  <2>1. \A k : <<Callback(k)>> \o <<Reply>> = <<Callback(k), Reply>>
    BY TupleOfTwo
  <2> QED BY <1>3, <2>1
<1> QED BY <1>1, <1>2, <1>3, <1>4 DEF Hands

LEMMA HasObject == ASSUME Shape, Now("rx", "process") PROVE rx_queue # <<>>
  BY CalledAlone

(* A module that is to have the object was to have it before.                 *)
LEMMA ForMeBefore ==
    ASSUME TypeOK, Shape, Separate, Askers, IdsApart, NewIds, ProperIds, Now("rx", "process"), [Next]_vars,
           Object0' = Object0, NEW mod, ForMe(mod)'
    PROVE  ForMe(mod)
<1>1. CASE Object0.tag \in {"message", "presence"} /\ Object0.tag = mod
  BY <1>1 DEF ForMe
<1>2. CASE Object0.re # "none" /\ Object0.re \in Kinds(mod) /\ Object0.id \in ids'[Object0.re]
  <2>1. rx_queue # <<>> /\ ~Forget
    BY CalledAlone DEF Forget, Now
  <2>2. Object0 = rx_queue[1] /\ 1 \in DOMAIN rx_queue /\ Object0 \in Object
    BY <2>1, Shorter, FirstObject DEF Object0, TypeOK
  <2>3. Proper(Object0.re, Object0.id) /\ Claimed(Object0.id)
    BY <1>2, <2>2 DEF ProperIds, Pending, Claimed
  <2>4. PICK k, n : k = Object0.re /\ n = Object0.id
    OBVIOUS
  <2>5. k \in Kind
    BY <1>2, <2>2, <2>4 DEF Object
  <2>6. n \in ids'[k] => n \in ids[k]
    BY <2>1, <2>3, <2>4, <2>5, ProperStays
  <2> QED BY <1>2, <2>4, <2>6 DEF ForMe
<1> QED BY <1>1, <1>2 DEF ForMe

LEMMA StillAheadStep ==
    ASSUME TypeOK, Shape, Separate, Askers, Between, IdsApart, NewIds, ProperIds, Objects, StillAhead, Doing,
           [Next]_vars, TypeOK', Shape', ProperIds', Objects'
    PROVE  StillAhead'
<1>1. ASSUME todo'["rx"] = <<Process(1)>>, did' = <<>> PROVE StillAhead'
  <2>1. (rx_queue # <<>>)'
    <3>1. Head(todo'["rx"]) = Process(1)
      BY <1>1
    <3>2. Now("rx", "process")'
      BY <1>1, <3>1, StepFields DEF Now
    <3>3. (Shape /\ Now("rx", "process"))'
      BY <3>2
    <3> QED BY <3>3, HasObject, PTL
  <2>2. (TypeOK /\ ProperIds /\ Objects /\ todo["rx"] = <<Process(1)>> /\ rx_queue # <<>>)'
    BY <1>1, <2>1
  <2>3. ASSUME NEW mod \in Module, ForMe(mod)'
        PROVE  (\E i \in DOMAIN modules : i >= This("rx").n /\ modules[i] = mod)'
    BY <2>2, <2>3, FirstStillAhead, PTL
  <2> QED BY <1>1, <2>3 DEF StillAhead
<1>2. Handling' => StillAhead'
  BY HandlingIsNotProcess, PTL DEF StillAhead
<1>3. ASSUME UNCHANGED <<modules, did>>, todo'["rx"] = todo["rx"],
             Now("rx", "process") => Object0' = Object0
      PROVE  StillAhead'
  <2>1. ASSUME Now("rx", "process"), NEW mod \in Module, ForMe(mod)' PROVE ForMe(mod)
    BY <1>3, <2>1, ForMeBefore
  <2>2. Now("rx", "process")' = Now("rx", "process") /\ This("rx")' = This("rx")
    BY <1>3 DEF Now, This
  <2> QED BY <1>3, <2>1, <2>2 DEF StillAhead
<1>4. ASSUME NEW t \in Thread, ThreadStep(t) PROVE StillAhead'
  <2>1. /\ rx_queue' = rx_queue /\ modules' = modules
        /\ \A u \in Thread \ {t} : todo'[u] = todo[u]
        /\ t = "rx" => Handling'
    BY <1>4, ThreadMoves DEF ThreadStep
  <2>2. did' = did
    BY <1>4 DEF ThreadStep, Check, Store, Send, ReadInterval, SetTimeout, SetInterval, IfBound,
                Keep, Correct, ResetCorrection, WriteMessage, ChangeState, TellListener
  <2>3. CASE t = "rx"
    BY <1>2, <2>1, <2>3
  <2>4. CASE t # "rx"
    BY <1>3, <2>1, <2>2, <2>4 DEF Object0, Thread
  <2> QED BY <2>3, <2>4
<1>5. CASE Rx
  <2>1. todo'["rx"] = <<Process(1)>> /\ todo["rx"] = <<>>
    BY <1>5, RxShape DEF Shape, Thread
  <2>2. did' = <<>>
    BY <1>5, <2>1 DEF Rx, Doing
  <2> QED BY <1>1, <2>1, <2>2
<1>6. CASE Pop
  <2>1. todo'["rx"] = IF rx_queue' = <<>> THEN <<>> ELSE <<Process(1)>>
    BY <1>6, PopShape DEF Shape, Thread
  <2>2. did' = <<>>
    BY <1>6 DEF Pop
  <2>3. CASE todo'["rx"] = <<>>
    BY <2>3 DEF StillAhead, Now
  <2> QED BY <1>1, <2>1, <2>2, <2>3
<1>7. CASE Respond \/ RespondText \/ Forget
  BY <1>2, <1>7, RespondShape
<1>8. CASE Unhandled
  BY <1>2, <1>8, UnhandledShape
<1>9. ASSUME NEW mod \in Module, ModuleStep(mod) PROVE StillAhead'
  <2>1. /\ Calls(mod) /\ rx_queue' = rx_queue
        /\ ((Passes /\ modules' = modules) \/ Handling')
    BY <1>9, HandlerMoves DEF ModuleStep
  <2>2. CASE Handling'
    BY <1>2, <2>2
  <2>3. CASE Passes /\ modules' = modules /\ ~Handling'
    <3>1. /\ Now("rx", "process") /\ This("rx").n \in Nat \ {0}
          /\ modules[This("rx").n] = mod
      BY <2>1, CalledAlone DEF Calls
    <3>2. todo' = [todo EXCEPT !["rx"] = <<Process(This("rx").n + 1)>>]
      BY <2>1, <2>3, <3>1, PassesShape
    <3>3. todo'["rx"] = <<Process(This("rx").n + 1)>>
      BY <3>2 DEF Shape, Thread
    <3>4. This("rx")'.n = This("rx").n + 1
      BY <3>3 DEF This, Process, Step
    <3>5. did' = did
      <4>1. ~(Pop \/ Respond \/ RespondText)
        BY <3>1 DEF Pop, Respond, RespondText, Now
      <4> QED BY <4>1, Changes DEF Effects
    <3>6. ~ForMe(mod)
      <4>1. SUFFICES ASSUME ForMe(mod) PROVE FALSE
        OBVIOUS
      <4>2. ids["set_vcard"] \subseteq {0}
        BY AwaitedKinds, KindNames DEF IdsApart
      <4>3. /\ \A k \in Kind : TakenFor(mod, k) =>
                  \/ mod \in {"version", "ping"} /\ Object0.type = "get"
                  \/ mod = "roster" /\ Object0.type \notin {"result", "error"}
                  \/ mod = "roster" /\ Object0.type = "result" /\ Object0.query # "roster"
            /\ mod \in {"message", "presence"} => Object0.tag # mod
        BY <1>9, <2>3, <3>1, <3>3, <4>2, HandsOn
      <4> QED BY <3>1, <4>1, <4>3, PassedOn
    <3>7. ASSUME NEW m \in Module, ForMe(m)
          PROVE  \E i \in DOMAIN modules : i >= This("rx").n + 1 /\ modules[i] = m
      <4>1. PICK i \in DOMAIN modules : i >= This("rx").n /\ modules[i] = m
        BY <3>1, <3>7 DEF StillAhead
      <4>2. i # This("rx").n
        BY <3>1, <3>6, <3>7, <4>1
      <4>3. i \in Nat
        <5>1. DOMAIN modules = 1..Len(modules) /\ Len(modules) \in Nat
          BY LenProperties DEF TypeOK
        <5> QED BY <4>1, <5>1
      <4>4. i >= This("rx").n + 1
        BY <3>1, <4>1, <4>2, <4>3
      <4> QED BY <4>1, <4>4
    <3>8. did' = <<>>
      BY <3>1, <3>5 DEF StillAhead
    <3>9. ASSUME NEW m \in Module, ForMe(m)' PROVE ForMe(m)
      <4>1. Object0' = Object0
        BY <2>1 DEF Object0
      <4> QED BY <3>1, <3>9, <4>1, ForMeBefore
    <3> QED BY <2>3, <3>4, <3>7, <3>8, <3>9 DEF StillAhead
  <2> QED BY <2>1, <2>2, <2>3
<1>10. CASE Outside
  <2>1. modules' = modules /\ todo'["rx"] = todo["rx"] /\ (rx_queue # <<>> => Object0' = Object0)
    BY <1>10, OutsideMoves
  <2>2. did' = did
    BY <1>10 DEF Outside, CallText, OtherCall, Run, StopStream, End, Expire, Answer, Change,
                 PeerAsks, Call, vars
  <2>3. CASE Now("rx", "process")
    <3>1. rx_queue # <<>>
      BY <2>3, CalledAlone
    <3> QED BY <1>3, <2>1, <2>2, <3>1
  <2>4. CASE ~Now("rx", "process")
    <3>1. ~Now("rx", "process")'
      BY <2>1, <2>4 DEF Now
    <3> QED BY <3>1 DEF StillAhead
  <2> QED BY <2>3, <2>4
<1> QED BY <1>4, <1>5, <1>6, <1>7, <1>8, <1>9, <1>10, StepClasses

-----------------------------------------------------------------------------
(* Whom the roster lets see our presence                                    *)

LEMMA Authorised ==
    ASSUME TypeOK, RosterDistinct, NEW j
    PROVE  is_jid_authorized(j) <=> [jid |-> j, sub |-> "both"] \in Range(roster)
<1> DEFINE I == {i \in 1..Len(roster) : roster[i].jid = j}
           at == SelectInSeq(roster, LAMBDA i : i.jid = j)
<1>1. /\ DOMAIN roster = 1..Len(roster) /\ Len(roster) \in Nat
      /\ \A i \in 1..Len(roster) : roster[i] \in Item
  BY ItemsAre DEF TypeOK
<1>2. at = IF I # {} THEN Min(I) ELSE 0
  BY DEF SelectInSeq
<1>3. is_jid_authorized(j) <=> Registered("roster") /\ at # 0 /\ roster[at].sub = "both"
  BY DEF is_jid_authorized
<1>4. I # {} => Min(I) \in I
  BY <1>1, LeastIndex
<1>5. PICK a : a = at
  OBVIOUS
<1>6. is_jid_authorized(j) <=> Registered("roster") /\ a # 0 /\ roster[a].sub = "both"
  BY <1>3, <1>5
<1>7. a = IF I # {} THEN Min(I) ELSE 0
  BY <1>2, <1>5
<1> HIDE DEF at
<1>8. PICK item : item = [jid |-> j, sub |-> "both"]
  OBVIOUS
<1>9. item \in Range(roster) <=> \E i \in 1..Len(roster) : roster[i] = item
  BY <1>1 DEF Range
<1>10. CASE I = {}
  <2>1. \A i \in 1..Len(roster) : roster[i] # item
    BY <1>8, <1>10
  <2> QED BY <1>6, <1>7, <1>8, <1>9, <1>10, <2>1
<1>11. CASE I # {}
  <2>1. a \in 1..Len(roster) /\ roster[a].jid = j
    BY <1>4, <1>7, <1>11
  <2>2. \A i \in 1..Len(roster) : roster[i].jid = j => i = a
    BY <1>1, <2>1 DEF RosterDistinct, Distinct
  <2>3. roster # <<>>
    BY <1>1, <2>1, EmptySeq
  <2>4. Registered("roster") /\ a # 0
    BY <1>1, <2>1, <2>3 DEF RosterDistinct
  <2>5. roster[a] = item <=> roster[a].sub = "both"
    <3>1. roster[a] \in Item
      BY <1>1, <2>1
    <3>2. PICK x : x = roster[a]
      OBVIOUS
    <3>3. x = [jid |-> x.jid, sub |-> x.sub]
      BY <3>1, <3>2 DEF Item
    <3> QED BY <1>8, <2>1, <3>2, <3>3
  <2>6. ASSUME NEW i \in 1..Len(roster), roster[i] = item PROVE roster[a] = item
    BY <1>8, <2>2, <2>6
  <2> QED BY <1>6, <1>8, <1>9, <2>1, <2>4, <2>5, <2>6
<1> QED BY <1>10, <1>11

-----------------------------------------------------------------------------
(* What the steps that are left do                                          *)

LEMMA OwesBegins ==
    ASSUME NEW s, NEW owed, Owes(s, owed), s # <<>>, Head(s).op # "pop"
    PROVE  \E a : /\ Head(s) = a
                  /\ \/ s = <<a, Popping>> /\ owed = Does(a)
                     \/ \E b : s = <<a, b, Popping>> /\ MayPrecede(a, b) /\ owed = Does(a) \o Does(b)
<1>1. s # <<Popping>>
  <2>1. Head(<<Popping>>) = Popping
    OBVIOUS
  <2> QED BY <2>1, StepFields
<1>2. ASSUME NEW a, s = <<a, Popping>> PROVE Head(s) = a
  BY <1>2
<1>3. ASSUME NEW a, NEW b, s = <<a, b, Popping>> PROVE Head(s) = a
  BY <1>3
<1> QED BY <1>1, <1>2, <1>3 DEF Owes

LEMMA DoesSeq ==
    ASSUME NEW a PROVE Does(a) \in Seq({a.what, "reply"})
<1>1. PICK S : S = {a.what, "reply"}
  OBVIOUS
<1>2. <<>> \in Seq(S) /\ <<a.what>> \in Seq(S) /\ <<"reply">> \in Seq(S)
  BY <1>1
<1> QED BY <1>1, <1>2 DEF Does

LEMMA DoesNothing ==
    ASSUME NEW a, a.op \notin {"callback", "reply"} PROVE Does(a) = <<>>
  BY DEF Does

LEMMA NothingBefore == ASSUME NEW a PROVE Does(a) \o <<>> = Does(a) /\ <<>> \o Does(a) = Does(a)
<1>1. PICK S : Does(a) \in Seq(S)
  BY DoesSeq
<1> QED BY <1>1, ConcatEmptySeq

LEMMA OneBeforeTwo ==
    ASSUME NEW a, NEW b, NEW c PROVE <<a>> \o <<b, c>> = <<a, b, c>>
<1>1. <<a>> \in Seq({a, b, c}) /\ <<b, c>> \in Seq({a, b, c}) /\ <<a, b, c>> \in Seq({a, b, c})
  OBVIOUS
<1>2. PICK s : s = <<a>> \o <<b, c>>
  OBVIOUS
<1>3. /\ Len(<<a>>) = 1 /\ <<a>>[1] = a /\ Len(<<b, c>>) = 2 /\ <<b, c>>[1] = b /\ <<b, c>>[2] = c
      /\ Len(<<a, b, c>>) = 3 /\ <<a, b, c>>[1] = a /\ <<a, b, c>>[2] = b /\ <<a, b, c>>[3] = c
  OBVIOUS
<1>4. s \in Seq({a, b, c}) /\ Len(s) = 3 /\ s[1] = a /\ s[2] = b /\ s[3] = c
  BY <1>1, <1>2, <1>3, ConcatProperties
<1>5. \A i \in 1..Len(s) : s[i] = <<a, b, c>>[i]
  BY <1>3, <1>4
<1> QED BY <1>1, <1>2, <1>3, <1>4, <1>5, SeqEqual

(* One step less.                                                            *)
LEMMA OwesRest ==
    ASSUME NEW s, NEW owed, Owes(s, owed), s # <<>>, Head(s).op # "pop"
    PROVE  /\ \E b : owed = Does(Head(s)) \o Does(b) /\ Owes(Tail(s), Does(b))
           /\ Tail(s) # <<>> /\ Head(Tail(s)).op \notin {"forget", "process"}
<1>1. PICK a : /\ Head(s) = a
               /\ \/ s = <<a, Popping>> /\ owed = Does(a)
                  \/ \E b : s = <<a, b, Popping>> /\ MayPrecede(a, b) /\ owed = Does(a) \o Does(b)
  BY OwesBegins
<1>2. CASE s = <<a, Popping>> /\ owed = Does(a)
  <2>1. Tail(s) = <<Popping>>
    BY <1>2, TupleOfTwo
  <2>2. Does(Popping) = <<>>
    BY StepFields, DoesNothing
  <2>3. owed = Does(a) \o Does(Popping)
    BY <1>2, <2>2, NothingBefore
  <2>4. Owes(<<Popping>>, <<>>)
    BY DEF Owes
  <2>5. Head(<<Popping>>) = Popping /\ <<Popping>> # <<>>
    OBVIOUS
  <2> QED BY <1>1, <2>1, <2>2, <2>3, <2>4, <2>5, StepFields
<1>3. ASSUME NEW b, s = <<a, b, Popping>>, MayPrecede(a, b), owed = Does(a) \o Does(b)
      PROVE  /\ \E c : owed = Does(Head(s)) \o Does(c) /\ Owes(Tail(s), Does(c))
             /\ Tail(s) # <<>> /\ Head(Tail(s)).op \notin {"forget", "process"}
  <2>1. Tail(s) = <<b, Popping>>
    BY <1>3, TailOfThree
  <2>2. Owes(<<b, Popping>>, Does(b))
    BY DEF Owes
  <2>3. b.op \notin {"forget", "process"}
    BY <1>3, StepFields DEF MayPrecede
  <2>4. Head(<<b, Popping>>) = b /\ <<b, Popping>> # <<>>
    BY TupleOfTwo
  <2> QED BY <1>1, <1>3, <2>1, <2>2, <2>3, <2>4
<1> QED BY <1>1, <1>2, <1>3

(* Another step in place of the first.                                       *)
LEMMA OwesOther ==
    ASSUME NEW s, NEW owed, Owes(s, owed), s # <<>>, Head(s).op # "pop",
           NEW c, Does(c) = <<>>, \A b : MayPrecede(Head(s), b) => MayPrecede(c, b)
    PROVE  /\ \E b : owed = Does(Head(s)) \o Does(b) /\ Owes(<<c>> \o Tail(s), Does(b))
           /\ <<c>> \o Tail(s) # <<>> /\ Head(<<c>> \o Tail(s)) = c
<1>1. PICK a : /\ Head(s) = a
               /\ \/ s = <<a, Popping>> /\ owed = Does(a)
                  \/ \E b : s = <<a, b, Popping>> /\ MayPrecede(a, b) /\ owed = Does(a) \o Does(b)
  BY OwesBegins
<1>2. CASE s = <<a, Popping>> /\ owed = Does(a)
  <2>1. Tail(s) = <<Popping>>
    BY <1>2, TupleOfTwo
  <2>2. <<c>> \o Tail(s) = <<c, Popping>>
    BY <2>1, TupleOfTwo
  <2>3. Does(Popping) = <<>>
    BY StepFields, DoesNothing
  <2>4. owed = Does(a) \o Does(Popping)
    BY <1>2, <2>3, NothingBefore
  <2>5. Owes(<<c, Popping>>, <<>>)
    BY DEF Owes
  <2>6. Head(<<c, Popping>>) = c /\ <<c, Popping>> # <<>>
    BY TupleOfTwo
  <2> QED BY <1>1, <2>2, <2>3, <2>4, <2>5, <2>6
<1>3. ASSUME NEW b, s = <<a, b, Popping>>, MayPrecede(a, b), owed = Does(a) \o Does(b)
      PROVE  /\ \E d : owed = Does(Head(s)) \o Does(d) /\ Owes(<<c>> \o Tail(s), Does(d))
             /\ <<c>> \o Tail(s) # <<>> /\ Head(<<c>> \o Tail(s)) = c
  <2>1. Tail(s) = <<b, Popping>>
    BY <1>3, TailOfThree
  <2>2. <<c>> \o Tail(s) = <<c, b, Popping>>
    BY <2>1, OneBeforeTwo
  <2>3. MayPrecede(c, b)
    BY <1>1, <1>3
  <2>4. Does(c) \o Does(b) = Does(b)
    BY NothingBefore
  <2>5. Owes(<<c, b, Popping>>, Does(b))
    BY <2>3, <2>4 DEF Owes
  <2>6. Head(<<c, b, Popping>>) = c
    OBVIOUS
  <2>7. <<c, b, Popping>> # <<>>
    BY TailOfThree
  <2> QED BY <1>1, <1>3, <2>2, <2>5, <2>6, <2>7
<1> QED BY <1>1, <1>2, <1>3

-----------------------------------------------------------------------------
(* Everything is done that is due                                           *)

LEMMA OneMoreDone ==
    ASSUME NEW S, NEW s \in Seq(S), NEW x, NEW a
    PROVE  Append(s, x) \o Does(a) = s \o (<<x>> \o Does(a))
<1>1. PICK S2 : S2 = S \cup {x, a.what, "reply"}
  OBVIOUS
<1>2. S \subseteq S2 /\ {a.what, "reply"} \subseteq S2 /\ x \in S2
  BY <1>1
<1>3. s \in Seq(S2) /\ Does(a) \in Seq(S2) /\ <<x>> \in Seq(S2)
  <2>1. Does(a) \in Seq({a.what, "reply"})
    BY DoesSeq
  <2>2. Does(a) \in Seq(S2)
    BY <1>2, <2>1, SeqMonotonic
  <2>3. s \in Seq(S2)
    BY <1>2, SeqMonotonic
  <2> QED BY <1>2, <2>2, <2>3
<1>4. Append(s, x) = s \o <<x>>
  BY <1>2, <1>3, AppendIsConcat
<1> QED BY <1>3, <1>4, ConcatAssociative

(* What may have been done stays so: an id does not come back.                *)
LEMMA OutcomeStays ==
    ASSUME TypeOK, Shape, Separate, Askers, IdsApart, NewIds, [Next]_vars, rx_queue # <<>>,
           Object0' = Object0, roster' = roster, NEW done, Outcome(done)
    PROVE  Outcome(done)'
<1>1. Due(Object0)' = Due(Object0) /\ Swallowed(Object0)' = Swallowed(Object0)
  BY DEF Due, Swallowed
<1>2. CASE done = <<>> /\ Lost(Object0) /\ Proper(Object0.re, Object0.id)
  <2>1. Object0 = rx_queue[1] /\ 1 \in DOMAIN rx_queue
    BY Shorter DEF Object0, TypeOK
  <2>2. PICK k, n : k = Object0.re /\ n = Object0.id
    OBVIOUS
  <2>3. k \in Single /\ k \in Kind /\ k # "none" /\ (k = "set_vcard" \/ n \notin ids[k])
    BY <1>2, <2>2, HeededKinds DEF Lost, Single
  <2>4. Claimed(n)
    BY <2>1, <2>2, <2>3 DEF Claimed
  <2>5. Proper(k, n)' /\ (n \in ids'[k] => n \in ids[k])
    BY <1>2, <2>2, <2>3, <2>4, ProperStays
  <2>6. k = "set_vcard" \/ (k \in Single /\ n \notin ids'[k])
    BY <2>3, <2>5
  <2>7. Lost(Object0)'
    BY <2>2, <2>6 DEF Lost
  <2>8. Proper(Object0.re, Object0.id)'
    BY <2>2, <2>5 DEF Proper, InUse, RosterId, FixedId
  <2> QED BY <1>2, <2>7, <2>8 DEF Outcome
<1> QED BY <1>1, <1>2 DEF Outcome

LEMMA DoesOn ==
    ASSUME TypeOK, Doing, todo["rx"] # <<>>, ~Now("rx", "process"),
           \A owed : Owes(todo["rx"], owed) =>
               \E b : owed = Does(This("rx")) \o Does(b) /\ Owes(todo'["rx"], Does(b)),
           todo'["rx"] # <<>>, Head(todo'["rx"]).op \notin {"forget", "process"},
           \/ did' = did /\ Does(This("rx")) = <<>>
           \/ \E x : did' = Append(did, x) /\ Does(This("rx")) = <<x>>,
           \A done : Outcome(done) => Outcome(done)'
    PROVE  Doing'
<1>1. PICK owed : Owes(todo["rx"], owed) /\ Outcome(did \o owed)
  BY DEF Doing
<1>2. PICK b : owed = Does(This("rx")) \o Does(b) /\ Owes(todo'["rx"], Does(b))
  BY <1>1
<1>3. did' \o Does(b) = did \o owed
  <2>1. CASE did' = did /\ Does(This("rx")) = <<>>
    BY <1>2, <2>1, NothingBefore
  <2>2. ASSUME NEW x, did' = Append(did, x), Does(This("rx")) = <<x>> PROVE did' \o Does(b) = did \o owed
    <3>1. PICK S : did \in Seq(S)
      BY DEF TypeOK
    <3>2. Append(did, x) \o Does(b) = did \o (<<x>> \o Does(b))
      BY <3>1, OneMoreDone
    <3> QED BY <1>2, <2>2, <3>2
  <2> QED BY <2>1, <2>2
<1>4. ~Now("rx", "forget")'
  BY DEF Now
<1>5. PICK done : done = did \o owed
  OBVIOUS
<1>6. Outcome(done)' /\ did' \o Does(b) = done
  BY <1>1, <1>3, <1>5
<1> QED BY <1>2, <1>4, <1>6 DEF Doing, Outcome

(* The rx thread is done with its first step.                                 *)
LEMMA DoneWithOne ==
    ASSUME TypeOK, Shape, Doing, todo["rx"] # <<>>, This("rx").op \notin {"process", "pop"}, Then("rx", <<>>),
           \/ did' = did /\ Does(This("rx")) = <<>>
           \/ \E x : did' = Append(did, x) /\ Does(This("rx")) = <<x>>,
           \A done : Outcome(done) => Outcome(done)'
    PROVE  Doing'
<1>1. todo["rx"] \in Seq(StepOK) /\ "rx" \in Thread /\ todo \in [Thread -> Seq(StepOK)]
  BY DEF Shape, Thread
<1>2. Tail(todo["rx"]) \in Seq(StepOK)
  BY <1>1, HeadTailProperties
<1>3. todo'["rx"] = Tail(todo["rx"])
  BY <1>1, <1>2, ConcatEmptySeq DEF Then
<1>4. ~Now("rx", "process") /\ Head(todo["rx"]).op # "pop"
  BY DEF Now, This
<1>5. PICK owed : Owes(todo["rx"], owed)
  BY <1>4 DEF Doing
<1>6. todo'["rx"] # <<>> /\ Head(todo'["rx"]).op \notin {"forget", "process"}
  BY <1>3, <1>4, <1>5, OwesRest
<1>7. ASSUME NEW o, Owes(todo["rx"], o)
      PROVE  \E b : o = Does(This("rx")) \o Does(b) /\ Owes(todo'["rx"], Does(b))
  BY <1>3, <1>4, <1>7, OwesRest DEF This
<1> QED BY <1>4, <1>6, <1>7, DoesOn

(* Or has another in its place.                                              *)
LEMMA DoneWithOther ==
    ASSUME TypeOK, Shape, Doing, todo["rx"] # <<>>, This("rx").op \notin {"process", "pop"},
           NEW c, Then("rx", <<c>>), Does(c) = <<>>, c.op \notin {"forget", "process"},
           \A b : MayPrecede(This("rx"), b) => MayPrecede(c, b),
           \/ did' = did /\ Does(This("rx")) = <<>>
           \/ \E x : did' = Append(did, x) /\ Does(This("rx")) = <<x>>,
           \A done : Outcome(done) => Outcome(done)'
    PROVE  Doing'
<1>1. todo \in [Thread -> Seq(StepOK)] /\ "rx" \in Thread
  BY DEF Shape, Thread
<1>2. todo'["rx"] = <<c>> \o Tail(todo["rx"])
  BY <1>1 DEF Then
<1>3. ~Now("rx", "process") /\ Head(todo["rx"]).op # "pop"
  BY DEF Now, This
<1>4. PICK owed : Owes(todo["rx"], owed)
  BY <1>3 DEF Doing
<1>5. \A b : MayPrecede(Head(todo["rx"]), b) => MayPrecede(c, b)
  BY DEF This
<1>6. todo'["rx"] # <<>> /\ Head(todo'["rx"]) = c
  BY <1>2, <1>3, <1>4, <1>5, OwesOther
<1>7. ASSUME NEW o, Owes(todo["rx"], o)
      PROVE  \E b : o = Does(This("rx")) \o Does(b) /\ Owes(todo'["rx"], Does(b))
  <2>1. \E b : o = Does(Head(todo["rx"])) \o Does(b) /\ Owes(<<c>> \o Tail(todo["rx"]), Does(b))
    BY <1>3, <1>5, <1>7, OwesOther
  <2> QED BY <1>2, <2>1 DEF This
<1> QED BY <1>3, <1>6, <1>7, DoesOn

(* Or tells a listener, which has something to do.                           *)
LEMMA DoneWithTold ==
    ASSUME TypeOK, Shape, Doing, todo["rx"] # <<>>, This("rx").op = "told",
           NEW a, NEW b, Then("rx", <<a>> \o <<b>>), b.op = "told", a.op \in {"check", "arm", "cancel"},
           did' = did, \A done : Outcome(done) => Outcome(done)'
    PROVE  Doing'
<1>1. todo \in [Thread -> Seq(StepOK)] /\ "rx" \in Thread
  BY DEF Shape, Thread
<1>2. ~Now("rx", "process") /\ Head(todo["rx"]).op = "told"
  BY DEF Now, This
<1>3. ASSUME NEW o, Owes(todo["rx"], o) PROVE todo["rx"] = <<This("rx"), Popping>> /\ o = <<>>
  <2>1. PICK c : /\ Head(todo["rx"]) = c
                 /\ \/ todo["rx"] = <<c, Popping>> /\ o = Does(c)
                    \/ \E d : todo["rx"] = <<c, d, Popping>> /\ MayPrecede(c, d) /\ o = Does(c) \o Does(d)
    BY <1>2, <1>3, OwesBegins
  <2>2. \A d : ~MayPrecede(c, d)
    BY <1>2, <2>1 DEF MayPrecede, Asking
  <2>3. Does(c) = <<>>
    BY <1>2, <2>1, DoesNothing
  <2> QED BY <2>1, <2>2, <2>3 DEF This
<1>4. todo["rx"] = <<This("rx"), Popping>>
  BY <1>2, <1>3 DEF Doing
<1>5. PICK c, p : c = This("rx") /\ p = Popping
  OBVIOUS
<1>6. Tail(todo["rx"]) = <<p>>
  BY <1>4, <1>5, TupleOfTwo
<1>7. <<a>> \o <<b>> = <<a, b>>
  BY TupleOfTwo
<1>8. todo'["rx"] = <<a, b>> \o <<p>>
  BY <1>1, <1>6, <1>7 DEF Then
<1>9. <<a, b>> \o <<p>> = <<a, b, p>>
  <2>1. <<a, b>> \in Seq({a, b, p}) /\ p \in {a, b, p}
    OBVIOUS
  <2>2. Append(<<a, b>>, p) = <<a, b>> \o <<p>>
    BY <2>1, AppendIsConcat
  <2> QED BY <2>2, ThirdAppended
<1>10. todo'["rx"] = <<a, b, p>>
  BY <1>8, <1>9
<1>11. MayPrecede(a, b)
  BY DEF MayPrecede, Asking
<1>12. Does(a) = <<>> /\ Does(b) = <<>> /\ Does(This("rx")) = <<>>
  BY DoesNothing
<1>13. Does(a) \o Does(b) = Does(b)
  BY <1>12, NothingBefore
<1>14. Owes(<<a, b, Popping>>, Does(b))
  BY <1>11, <1>13 DEF Owes
<1>15. Head(<<a, b, p>>) = a
  OBVIOUS
<1>16. <<a, b, p>> # <<>>
  BY TailOfThree
<1>17. Does(This("rx")) \o Does(b) = <<>>
  BY <1>12, NothingBefore
<1>18. ASSUME NEW o, Owes(todo["rx"], o)
       PROVE  \E d : o = Does(This("rx")) \o Does(d) /\ Owes(todo'["rx"], Does(d))
  BY <1>3, <1>5, <1>10, <1>14, <1>17, <1>18
<1>19. todo'["rx"] # <<>> /\ Head(todo'["rx"]).op \notin {"forget", "process"}
  BY <1>10, <1>15, <1>16
<1> QED BY <1>2, <1>12, <1>18, <1>19, DoesOn

-----------------------------------------------------------------------------
(* What a module does is due                                                *)

LEMMA OwesSeq ==
    ASSUME NEW s, NEW owed, Owes(s, owed) PROVE <<>> \o owed = owed
<1>1. CASE owed = <<>>
  BY <1>1, EmptySeq, ConcatEmptySeq
<1>2. ASSUME NEW a, owed = Does(a) PROVE <<>> \o owed = owed
  BY <1>2, NothingBefore
<1>3. ASSUME NEW a, NEW b, owed = Does(a) \o Does(b) PROVE <<>> \o owed = owed
  <2>1. PICK S : S = {a.what, "reply"} \cup {b.what, "reply"}
    OBVIOUS
  <2>2. {a.what, "reply"} \subseteq S /\ {b.what, "reply"} \subseteq S
    BY <2>1
  <2>3. Does(a) \in Seq({a.what, "reply"}) /\ Does(b) \in Seq({b.what, "reply"})
    BY DoesSeq
  <2>4. Does(a) \in Seq(S)
    BY <2>2, <2>3, SeqMonotonic
  <2>5. Does(b) \in Seq(S)
    BY <2>2, <2>3, SeqMonotonic
  <2>6. owed \in Seq(S)
    BY <1>3, <2>4, <2>5, ConcatProperties
  <2> QED BY <2>6, ConcatEmptySeq
<1> QED BY <1>1, <1>2, <1>3 DEF Owes

LEMMA DoingBegins ==
    ASSUME did' = <<>>, Object0' = Object0,
           NEW owed, Owes(todo'["rx"], owed), todo'["rx"] # <<>>,
           Head(todo'["rx"]).op = "forget" =>
               /\ Head(todo'["rx"]).n = Object0.id
               /\ \/ Head(todo'["rx"]).what = Object0.re
                  \/ Head(todo'["rx"]).what = "disco" /\ Swallowed(Object0),
           Outcome(owed)'
    PROVE  Doing'
<1>1. did' \o owed = owed
  BY OwesSeq
<1>2. Swallowed(Object0)' = Swallowed(Object0)
  BY DEF Swallowed
<1>3. \E new : Owes(todo'["rx"], new) /\ Outcome(did \o new)'
  <2>1. Outcome(did \o owed)'
    BY <1>1 DEF Outcome
  <2> QED BY <2>1
<1> QED BY <1>2, <1>3 DEF Doing, Now, This

(* The first step is the only one, or there is another.                       *)
LEMMA DoingOne ==
    ASSUME Shape, Now("rx", "process"), did' = <<>>, Object0' = Object0,
           NEW a, Handles(<<a>>), a.op # "forget", NEW done, Does(a) = done, Outcome(done)'
    PROVE  Doing'
<1>1. todo'["rx"] = <<a, Popping>>
  BY HandlesOne
<1>2. Owes(<<a, Popping>>, Does(a))
  BY DEF Owes
<1>3. Head(<<a, Popping>>) = a /\ <<a, Popping>> # <<>>
  BY TupleOfTwo
<1>4. Owes(todo'["rx"], Does(a)) /\ todo'["rx"] # <<>> /\ Head(todo'["rx"]).op # "forget"
  BY <1>1, <1>2, <1>3
<1> QED BY <1>4, DoingBegins

LEMMA DoingTwo ==
    ASSUME Shape, Now("rx", "process"), did' = <<>>, Object0' = Object0,
           NEW a, NEW b, Handles(<<a, b>>), MayPrecede(a, b),
           a.op = "forget" => /\ a.n = Object0.id
                              /\ a.what = Object0.re \/ (a.what = "disco" /\ Swallowed(Object0)),
           NEW done, Does(a) \o Does(b) = done, Outcome(done)'
    PROVE  Doing'
<1>1. todo'["rx"] = <<a, b, Popping>>
  BY HandlesTwo
<1>2. Owes(<<a, b, Popping>>, Does(a) \o Does(b))
  BY DEF Owes
<1>3. Head(<<a, b, Popping>>) = a
  OBVIOUS
<1>4. <<a, b, Popping>> # <<>>
  BY TailOfThree
<1>5. /\ Owes(todo'["rx"], Does(a) \o Does(b)) /\ todo'["rx"] # <<>>
      /\ Head(todo'["rx"]) = a
  BY <1>1, <1>2, <1>3, <1>4
<1> QED BY <1>5, DoingBegins

(* What is due does not change with the roster, but for a message.            *)
LEMMA DueStays ==
    ASSUME Object0' = Object0, Object0.tag # "message" PROVE Due(Object0)' = Due(Object0)
  BY DEF Due

LEMMA DoingInModule ==
    ASSUME TypeOK, Shape, Separate, IdsApart, ProperIds, Objects, RosterDistinct, StillAhead,
           NEW mod \in Module, ModuleStep(mod), [Next]_vars
    PROVE  Doing'
<1>1. ids["set_vcard"] \subseteq {0}
  BY AwaitedKinds, KindNames DEF IdsApart
<1>2. Now("rx", "process") /\ Hands(mod)
  BY <1>1, ModuleHands
<1>3. Calls(mod) /\ rx_queue' = rx_queue /\ rx_queue # <<>>
  BY <1>2, HandlerMoves, HasObject DEF ModuleStep
<1>4. Object0' = Object0 /\ Object0 = rx_queue[1] /\ 1 \in DOMAIN rx_queue
  BY <1>3, Shorter DEF Object0, TypeOK
<1>5. Sound(Object0)
  BY <1>4 DEF Objects
<1>6. \A done : done = Due(Object0)' => Outcome(done)'
  BY DEF Outcome
<1>7. did' = <<>>
  <2>1. ~(Pop \/ Respond \/ RespondText)
    BY <1>2 DEF Pop, Respond, RespondText, Now
  <2> QED BY <1>2, <2>1, Changes DEF Effects, StillAhead
<1>8. ASSUME NEW k \in Kind, TakenFor(mod, k),
             mod = "roster" => Object0.type \in {"result", "error"}
      PROVE  Outcome(<<k>>)' /\ (Object0.re = k \/ (Swallowed(Object0) /\ k \in {"session", "disco"}))
  <2>1. k \in Kinds(mod) /\ k \in Heeded /\ Waits(k)
    BY <1>8 DEF TakenFor
  <2>2. CASE Object0.re = k /\ Object0.tag = "iq" /\ Object0.type \in {"result", "error"}
    <3>1. k # "none"
      BY <1>8, NoneIsNoKind
    <3>2. Due(Object0) = <<k>>
      BY <2>2, <3>1 DEF Due
    <3>3. Due(Object0)' = <<k>>
      BY <1>4, <2>2, <3>2, DueStays
    <3> QED BY <1>6, <2>2, <3>3
  <2>3. CASE Swallowed(Object0) /\ k \in {"session", "disco", "roster"}
    <3>1. k # "roster"
      <4>1. SUFFICES ASSUME k = "roster" PROVE FALSE
        OBVIOUS
      <4>2. mod = "roster"
        BY <2>1, <4>1, KindsOf, KindsDisjoint DEF Module
      <4> QED BY <1>8, <2>3, <4>2 DEF Swallowed
    <3>2. <<k>> \in {<<"session">>, <<"disco">>}
      BY <2>3, <3>1
    <3>3. Swallowed(Object0)'
      BY <1>4, <2>3 DEF Swallowed
    <3>4. Outcome(<<k>>)'
      BY <3>2, <3>3 DEF Outcome
    <3> QED BY <2>3, <3>1, <3>4
  <2> QED BY <1>2, <2>1, <2>2, <2>3, WaitsOnly
<1>9. CASE Passes
  <2>1. todo'["rx"] = <<Process(This("rx").n + 1)>>
    BY <1>2, <1>9, PassesTodo
  <2>2. PICK p : p = Process(This("rx").n + 1)
    OBVIOUS
  <2>3. p.op = "process"
    BY <2>2, StepFields
  <2>4. todo'["rx"] # <<>> /\ Head(todo'["rx"]) = p
    BY <2>1, <2>2, TupleOfOne
  <2> QED BY <2>3, <2>4 DEF Doing, Now
<1>10. ASSUME NEW k \in Taking, TakenFor(mod, k), Handles(<<Forgetting(k), Callback(k)>>),
              mod = "session" => Object0.type = "result"
       PROVE  Doing'
  <2>1. k \in Kind
    BY <1>10, HeededKinds
  <2>2. PICK a, b : a = Forgetting(k) /\ b = Callback(k)
    OBVIOUS
  <2>3. /\ a.op = "forget" /\ a.what = k /\ a.n = Object0.id /\ b.op = "callback" /\ b.what = k
    BY <2>2, StepFields
  <2>4. Does(a) = <<>> /\ Does(b) = <<k>> /\ MayPrecede(a, b)
    BY <2>3 DEF Does, MayPrecede
  <2>5. Does(a) \o Does(b) = <<k>>
    BY <2>4, NothingBefore
  <2>6. k \in Kinds(mod)
    BY <1>10 DEF TakenFor
  <2>7. mod = "roster" => FALSE
    BY <1>10, <2>6, HeededKinds, KindsOf
  <2>8. Outcome(<<k>>)' /\ (Object0.re = k \/ (Swallowed(Object0) /\ k \in {"session", "disco"}))
    BY <1>8, <1>10, <2>1, <2>7
  <2>9. k = "session" => mod = "session"
    BY <2>6, KindsOf, KindsDisjoint DEF Module
  <2>10. Object0.re = k \/ (Swallowed(Object0) /\ k = "disco")
    BY <1>10, <2>8, <2>9 DEF Swallowed
  <2>11. Handles(<<a, b>>)
    BY <1>10, <2>2
  <2>12. PICK done : done = <<k>>
    OBVIOUS
  <2>13. Does(a) \o Does(b) = done /\ Outcome(done)'
    BY <2>5, <2>8, <2>12
  <2> QED BY <1>2, <1>4, <1>7, <2>3, <2>4, <2>10, <2>11, <2>13, DoingTwo
<1>11. ASSUME NEW a, Handles(<<a>>), a.op # "forget", NEW done, Does(a) = done, Outcome(done)' PROVE Doing'
  BY <1>2, <1>4, <1>7, <1>11, DoingOne
<1>12. ASSUME NEW k \in Kind, TakenFor(mod, k), Handles(<<Callback(k)>>),
              mod = "roster" => Object0.type \in {"result", "error"}
       PROVE  Doing'
  <2>1. Does(Callback(k)) = <<k>> /\ Callback(k).op # "forget"
    BY StepFields DEF Does
  <2>2. Outcome(<<k>>)'
    BY <1>8, <1>12
  <2>3. PICK done : done = <<k>>
    OBVIOUS
  <2> QED BY <1>11, <1>12, <2>1, <2>2, <2>3
<1>13. CASE Iq /\ Object0.type \in {"get", "set"} /\ Handles(<<Reply>>)
  <2>1. Does(Reply) = <<"reply">> /\ Reply.op # "forget"
    BY StepFields DEF Does
  <2>2. Due(Object0) = <<"reply">> /\ Object0.tag # "message"
    BY <1>13 DEF Due, Iq
  <2>3. Due(Object0)' = <<"reply">>
    BY <1>4, <2>2, DueStays
  <2> QED BY <1>6, <1>11, <1>13, <2>1, <2>3
<1>14. ASSUME NEW a, a.op \in {"state", "arm"}, Handles(<<a>>),
              Object0.tag \in {"stream", "timeout"} \/ Object0.query = "bind"
       PROVE  Doing'
  <2>1. Does(a) = <<>>
    BY <1>14, DoesNothing
  <2>2. /\ Object0.tag \notin {"message", "presence"} /\ Object0.type \notin {"get", "set"}
        /\ Object0.re = "none"
    BY <1>5, <1>14 DEF Sound
  <2>3. Due(Object0) = <<>>
    BY <2>2 DEF Due
  <2>4. Due(Object0)' = <<>>
    BY <1>4, <2>2, <2>3, DueStays
  <2> QED BY <1>6, <1>11, <1>14, <2>1, <2>4
<1>15. CASE Object0.tag = "presence" /\ Handles(<<Callback("presence")>>)
  <2>1. Does(Callback("presence")) = <<"presence">> /\ Callback("presence").op # "forget"
    BY StepFields DEF Does
  <2>2. Due(Object0) = <<"presence">>
    BY <1>15 DEF Due
  <2>3. Due(Object0)' = <<"presence">>
    BY <1>4, <1>15, <2>2, DueStays
  <2> QED BY <1>6, <1>11, <1>15, <2>1, <2>3
<1>16. ASSUME mod = "message", Object0.tag = "message", NEW k \in {"receipt", "message"},
              k = "receipt" <=> Object0.query = "received",
              IF Object0.query = "request" /\ (AlwaysReceipt \/ is_jid_authorized(Object0.from))
              THEN Handles(<<Callback(k)>> \o <<Reply>>)
              ELSE Handles(<<Callback(k)>>)
       PROVE  Doing'
  <2>1. roster' = roster
    <3>1. ~Roster
      BY <1>3, <1>16 DEF Roster, Calls
    <3> QED BY <3>1, Changes DEF Effects
  <2>2. PICK asked : asked = (Object0.query = "request" /\ (AlwaysReceipt \/ is_jid_authorized(Object0.from)))
    OBVIOUS
  <2>3. asked <=> /\ Object0.query = "request"
                  /\ AlwaysReceipt \/ [jid |-> Object0.from, sub |-> "both"] \in Range(roster)
    BY <2>2, Authorised
  <2>4. Due(Object0)' = Due(Object0)
    BY <1>4, <2>1 DEF Due
  <2>5. PICK c : c = Callback(k)
    OBVIOUS
  <2>6. c.op = "callback" /\ c.what = k /\ Does(c) = <<k>>
    BY <2>5, StepFields DEF Does
  <2>7. CASE asked
    <3>1. k = "message"
      BY <1>16, <2>3, <2>7
    <3>2. Due(Object0) = <<"message", "reply">>
      BY <1>16, <2>3, <2>7 DEF Due
    <3>3. <<c>> \o <<Reply>> = <<c, Reply>>
      BY TupleOfTwo
    <3>4. Handles(<<c, Reply>>)
      BY <1>16, <2>2, <2>5, <2>7, <3>3
    <3>5. Reply.op = "reply" /\ Does(Reply) = <<"reply">>
      BY StepFields DEF Does
    <3>6. <<"message">> \o <<"reply">> = <<"message", "reply">>
      BY TupleOfTwo
    <3>7. MayPrecede(c, Reply)
      BY <2>6, <3>5 DEF MayPrecede
    <3>8. Does(c) \o Does(Reply) = Due(Object0)'
      BY <2>4, <2>6, <3>1, <3>2, <3>5, <3>6
    <3>9. c.op # "forget"
      BY <2>6
    <3>10. PICK done : done = Does(c) \o Does(Reply)
      OBVIOUS
    <3>11. Outcome(done)'
      BY <1>6, <3>8, <3>10
    <3> QED BY <1>2, <1>4, <1>7, <3>4, <3>7, <3>9, <3>10, <3>11, DoingTwo
  <2>8. CASE ~asked
    <3>1. Due(Object0) = <<k>>
      BY <1>16, <2>3, <2>8 DEF Due
    <3>2. Handles(<<c>>)
      BY <1>16, <2>2, <2>5, <2>8
    <3>3. Outcome(<<k>>)'
      BY <1>6, <2>4, <3>1
    <3>4. PICK done : done = <<k>>
      OBVIOUS
    <3>5. c.op # "forget" /\ Does(c) = done /\ Outcome(done)'
      BY <2>6, <3>3, <3>4
    <3> QED BY <1>11, <3>2, <3>5
  <2> QED BY <2>2, <2>7, <2>8
<1>17. \A new : Step("state", new, 0).op = "state" /\ Arm.op = "arm"
  BY StepFields
<1>18. ASSUME Object0.tag = "stream" \/ Object0.query = "bind", NEW new, Handles(<<Step("state", new, 0)>>)
       PROVE  Doing'
  BY <1>14, <1>17, <1>18
<1>19. CASE Object0.tag = "timeout" /\ Handles(<<Arm>>)
  BY <1>14, <1>17, <1>19
<1>20. CASE /\ mod = "message" /\ Object0.tag = "message"
            /\ \E k \in {"receipt", "message"} :
                  /\ k = "receipt" <=> Object0.query = "received"
                  /\ IF Object0.query = "request" /\ (AlwaysReceipt \/ is_jid_authorized(Object0.from))
                     THEN Handles(<<Callback(k)>> \o <<Reply>>)
                     ELSE Handles(<<Callback(k)>>)
  BY <1>16, <1>20
<1> QED BY <1>2, <1>9, <1>10, <1>12, <1>13, <1>15, <1>18, <1>19, <1>20 DEF Hands

-----------------------------------------------------------------------------
(* And all of it is done                                                    *)

LEMMA DoingUnhandled ==
    ASSUME TypeOK, Shape, Separate, Askers, IdsApart, NewIds, ProperIds, Objects, StillAhead, Unhandled
    PROVE  Doing'
<1>1. PICK owed : /\ Owes(todo'["rx"], owed) /\ This("rx").n > Len(modules)
                  /\ owed = IF Iq /\ Object0.type \in {"get", "set"} THEN <<"reply">> ELSE <<>>
  BY FreshUnhandled
<1>2. /\ Now("rx", "process") /\ ~Now("rx", "forget") /\ ~Now("rx", "forget")' /\ ~Now("rx", "process")'
      /\ todo'["rx"] # <<>>
  BY FreshUnhandled DEF Now
<1>3. rx_queue # <<>> /\ This("rx").n \in Nat
  BY <1>2, CalledAlone
<1>4. Object0 = rx_queue[1] /\ 1 \in DOMAIN rx_queue
  BY <1>3, Shorter DEF Object0, TypeOK
<1>5. Sound(Object0) /\ Pending(1)
  BY <1>2, <1>4 DEF Objects, Pending
<1>6. UNCHANGED <<rx_queue, roster, did>> /\ did = <<>>
  BY <1>2 DEF Unhandled, modVars, StillAhead
<1>7. Object0' = Object0
  BY <1>6 DEF Object0
<1>8. ASSUME NEW mod \in Module, ForMe(mod) PROVE FALSE
  <2>1. PICK i \in DOMAIN modules : i >= This("rx").n
    BY <1>2, <1>8 DEF StillAhead
  <2>2. DOMAIN modules = 1..Len(modules) /\ Len(modules) \in Nat
    BY LenProperties DEF TypeOK
  <2> QED BY <1>1, <1>3, <2>1, <2>2
<1>9. Object0.tag \notin {"message", "presence"}
  <2>1. "message" \in Module /\ "presence" \in Module
    BY DEF Module
  <2> QED BY <1>8, <2>1 DEF ForMe
<1>10. Object0.re # "none" => Lost(Object0) /\ Proper(Object0.re, Object0.id)
  <2>1. SUFFICES ASSUME Object0.re # "none" PROVE Lost(Object0) /\ Proper(Object0.re, Object0.id)
    OBVIOUS
  <2>2. PICK k, n : k = Object0.re /\ n = Object0.id
    OBVIOUS
  <2>3. Proper(k, n) /\ (n \notin ids[k] \/ IsAsker(k)) /\ k \in Heeded \cup {"set_vcard"}
    BY <1>2, <1>4, <1>5, <2>1, <2>2 DEF ProperIds, Sound
  <2>4. n \notin ids[k]
    <3>1. SUFFICES ASSUME n \in ids[k] PROVE FALSE
      OBVIOUS
    <3>2. PICK mod \in Range(modules) : k \in Kinds(mod)
      BY <2>3, <3>1 DEF IsAsker
    <3>3. mod \in Module
      BY <3>2, RangeOfSeq DEF TypeOK
    <3> QED BY <1>8, <2>1, <2>2, <3>1, <3>2, <3>3 DEF ForMe
  <2>5. k = "set_vcard" \/ k \in Single
    BY <2>3, <2>4 DEF Proper, Heeded
  <2> QED BY <2>2, <2>3, <2>4, <2>5 DEF Lost
<1>11. Outcome(owed)
  <2>1. CASE Iq /\ Object0.type \in {"get", "set"}
    <3>1. owed = Due(Object0)
      BY <1>1, <2>1 DEF Due, Iq
    <3> QED BY <3>1 DEF Outcome
  <2>2. CASE ~(Iq /\ Object0.type \in {"get", "set"})
    <3>1. owed = <<>> /\ Object0.type \notin {"get", "set"}
      <4>1. Object0 \in Object
        BY <1>3, FirstObject DEF TypeOK
      <4>2. Object0.tag \in {"stream", "features", "timeout", "iq"}
        BY <1>9, <4>1 DEF Object
      <4> QED BY <1>1, <1>5, <2>2, <4>2 DEF Sound, Iq
    <3>2. CASE Object0.re = "none"
      <4>1. Due(Object0) = <<>>
        BY <1>9, <3>1, <3>2 DEF Due
      <4> QED BY <3>1, <4>1 DEF Outcome
    <3>3. CASE Object0.re # "none"
      BY <1>10, <3>1, <3>3 DEF Outcome
    <3> QED BY <3>2, <3>3
  <2> QED BY <2>1, <2>2
<1>12. Head(todo'["rx"]).op # "forget"
  BY <1>2 DEF Now
<1>13. Outcome(owed)'
  <2>1. [Next]_vars
    BY DEF Next
  <2> QED BY <1>3, <1>6, <1>7, <1>11, <2>1, OutcomeStays
<1> QED BY <1>1, <1>2, <1>6, <1>7, <1>12, <1>13, DoingBegins

(* What other threads and the world do does not disturb the rx thread.       *)
LEMMA DoingStays ==
    ASSUME Doing, todo'["rx"] = todo["rx"], did' = did,
           todo["rx"] # <<>> => Object0' = Object0 /\ \A done : Outcome(done) => Outcome(done)'
    PROVE  Doing'
<1>1. CASE todo["rx"] = <<>>
  BY <1>1 DEF Doing, Now
<1>2. CASE todo["rx"] # <<>>
  <2>1. Swallowed(Object0)' = Swallowed(Object0)
    BY <1>2 DEF Swallowed
  <2>2. Now("rx", "process")' = Now("rx", "process") /\ Now("rx", "forget")' = Now("rx", "forget")
    BY DEF Now
  <2>3. This("rx")' = This("rx")
    BY DEF This
  <2>4. /\ todo'["rx"] # <<>> /\ (Now("rx", "process")' <=> Now("rx", "process"))
        /\ (Now("rx", "forget")' => Now("rx", "forget"))
    BY <1>2, <2>2
  <2>5. ASSUME ~Now("rx", "process")
        PROVE  \E owed : Owes(todo'["rx"], owed) /\ Outcome(did \o owed)'
    <3>1. PICK owed : Owes(todo["rx"], owed) /\ Outcome(did \o owed)
      BY <1>2, <2>5 DEF Doing
    <3>2. PICK done : done = did \o owed
      OBVIOUS
    <3>3. Outcome(done)' /\ did' \o owed = done
      BY <1>2, <3>1, <3>2
    <3>4. Outcome(did \o owed)'
      BY <3>3 DEF Outcome
    <3> QED BY <3>1, <3>4
  <2>6. Now("rx", "forget")' =>
           /\ This("rx")'.n = Object0'.id
           /\ This("rx")'.what = Object0'.re \/ (This("rx")'.what = "disco" /\ Swallowed(Object0)')
    BY <1>2, <2>1, <2>3, <2>4 DEF Doing
  <2> QED BY <2>4, <2>5, <2>6 DEF Doing
<1> QED BY <1>1, <1>2

LEMMA DoingInThread ==
    ASSUME TypeOK, Shape, Separate, Askers, IdsApart, NewIds, Doing, ThreadStep("rx"), [Next]_vars
    PROVE  Doing'
<1>1. "rx" \in Thread
  BY DEF Thread
<1>2. rx_queue' = rx_queue /\ did' = did /\ roster' = roster
  <2>1. rx_queue' = rx_queue
    BY <1>1, ThreadMoves DEF ThreadStep
  <2> QED BY <2>1 DEF ThreadStep, Check, Store, Send, ReadInterval, SetTimeout, SetInterval, IfBound,
              Keep, Correct, ResetCorrection, WriteMessage, ChangeState, TellListener, modVars
<1>3. \A done : Outcome(done) => Outcome(done)'
  <2>1. Object0' = Object0
    BY <1>2 DEF Object0
  <2>2. todo["rx"] # <<>>
    BY <1>1, ThreadSteps
  <2>3. rx_queue # <<>>
    BY <2>2 DEF Shape
  <2> QED BY <1>2, <2>1, <2>3, OutcomeStays
<1>4. todo["rx"] # <<>> /\ This("rx").op \notin {"callback", "reply", "forget", "process", "pop"}
  BY <1>1, ThreadSteps
<1>5. Does(This("rx")) = <<>>
  BY <1>4, DoesNothing
<1>6. CASE Then("rx", <<>>)
  BY <1>2, <1>3, <1>4, <1>5, <1>6, DoneWithOne
<1>7. ASSUME NEW a, Then("rx", <<a>>), <<This("rx").op, a.op>> \in Onward PROVE Doing'
  <2>1. a.op \notin {"callback", "reply", "forget", "process"}
    BY <1>7 DEF Onward
  <2>2. Does(a) = <<>>
    BY <2>1, DoesNothing
  <2>3. ASSUME NEW b, MayPrecede(This("rx"), b) PROVE MayPrecede(a, b)
    BY <1>7, <2>3 DEF MayPrecede, Onward, Asking
  <2> QED BY <1>2, <1>3, <1>4, <1>5, <1>7, <2>1, <2>2, <2>3, DoneWithOther
<1>8. ASSUME This("rx").op = "told", NEW a, NEW b, Then("rx", <<a>> \o <<b>>), b.op = "told",
             a = Arm \/ a.op = "cancel" \/ \E k \in {"session", "disco"} : a = Ask(k)
      PROVE  Doing'
  <2>1. a.op \in {"check", "arm", "cancel"}
    BY <1>8, StepFields
  <2> QED BY <1>2, <1>3, <1>4, <1>8, <2>1, DoneWithTold
<1>9. CASE \E a : Then("rx", <<a>>) /\ <<This("rx").op, a.op>> \in Onward
  BY <1>7, <1>9
<1>10. CASE /\ This("rx").op = "told"
            /\ \E a, b : /\ Then("rx", <<a>> \o <<b>>) /\ b.op = "told"
                         /\ a = Arm \/ a.op = "cancel" \/ \E k \in {"session", "disco"} : a = Ask(k)
  BY <1>8, <1>10
<1>11. \/ Then("rx", <<>>)
       \/ \E a : /\ Then("rx", <<a>>) /\ <<This("rx").op, a.op>> \in Onward
                 /\ a.op = "store" => NewStore("rx", a)
                 /\ a.op = "send" => NewSend("rx", a)
       \/ /\ This("rx").op = "told"
          /\ \E a, b :
                /\ Then("rx", <<a>> \o <<b>>) /\ b.op = "told"
                /\ \/ a = Arm \/ a.op = "cancel"
                   \/ "rx" = "rx" /\ \E k \in {"session", "disco"} : a = Ask(k) /\ k \in Range(modules)
  BY <1>1, ThreadSteps
<1>12. CASE \E a : /\ Then("rx", <<a>>) /\ <<This("rx").op, a.op>> \in Onward
                   /\ a.op = "store" => NewStore("rx", a)
                   /\ a.op = "send" => NewSend("rx", a)
  BY <1>9, <1>12
<1>13. CASE /\ This("rx").op = "told"
            /\ \E a, b :
                  /\ Then("rx", <<a>> \o <<b>>) /\ b.op = "told"
                  /\ \/ a = Arm \/ a.op = "cancel"
                     \/ "rx" = "rx" /\ \E k \in {"session", "disco"} : a = Ask(k) /\ k \in Range(modules)
  BY <1>10, <1>13
<1> QED BY <1>6, <1>11, <1>12, <1>13

LEMMA DoingResponds ==
    ASSUME TypeOK, Shape, Separate, Askers, IdsApart, NewIds, Doing, Respond \/ RespondText \/ Forget,
           [Next]_vars
    PROVE  Doing'
<1>1. PICK op \in {"reply", "callback", "forget"} : Now("rx", op)
  BY DEF Respond, RespondText, Forget
<1>2. todo["rx"] # <<>> /\ This("rx").op = op
  BY <1>1 DEF Now, This
<1>3. \A done : Outcome(done) => Outcome(done)'
  <2>1. Object0' = Object0 /\ roster' = roster
    BY DEF Respond, RespondText, Forget, Object0, modVars
  <2>2. rx_queue # <<>>
    BY <1>2 DEF Shape
  <2> QED BY <2>1, <2>2, OutcomeStays
<1>4. CASE Forget
  <2>1. Then("rx", <<>>) /\ did' = did /\ This("rx").op = "forget"
    BY <1>4 DEF Forget, Now, This
  <2>2. Does(This("rx")) = <<>>
    BY <2>1, DoesNothing
  <2> QED BY <1>2, <1>3, <2>1, <2>2, DoneWithOne
<1>5. CASE Respond \/ RespondText
  <2>1. /\ This("rx").op \in {"reply", "callback"}
        /\ \E x : did' = Append(did, x) /\ Does(This("rx")) = <<x>>
    BY <1>5 DEF Respond, RespondText, Now, This, Does
  <2>2. CASE Then("rx", <<>>)
    BY <1>2, <1>3, <2>1, <2>2, DoneWithOne
  <2>3. ASSUME NEW c, This("rx").op = "callback", Then("rx", <<c>>),
               c.op \in {"check", "keep", "correct", "reset"}
        PROVE  Doing'
    <3>1. Does(c) = <<>>
      BY <2>3, DoesNothing
    <3>2. \A b : MayPrecede(This("rx"), b) => MayPrecede(c, b)
      BY <2>3 DEF MayPrecede, Asking
    <3>3. c.op \notin {"forget", "process"} /\ This("rx").op \notin {"process", "pop"}
      BY <2>3
    <3> QED BY <1>2, <1>3, <2>1, <2>3, <3>1, <3>2, <3>3, DoneWithOther
  <2>4. CASE Respond
    <3>1. \/ Then("rx", <<>>)
          \/ This("rx").op = "callback" /\ \E k : Then("rx", <<Ask(k)>>)
      BY <2>4 DEF Respond, Now, This
    <3>2. \A k : Ask(k).op = "check"
      BY StepFields
    <3> QED BY <2>2, <2>3, <3>1, <3>2
  <2>5. CASE RespondText
    <3>1. PICK step \in Texts : Then("rx", <<step>>)
      BY <2>5 DEF RespondText
    <3>2. step.op \in {"keep", "correct", "reset"} /\ This("rx").op = "callback"
      BY <2>5, <3>1 DEF Texts, RespondText, Now, This
    <3> QED BY <2>3, <3>1, <3>2
  <2> QED BY <1>5, <2>4, <2>5
<1> QED BY <1>4, <1>5

LEMMA DoingStep ==
    ASSUME TypeOK, Shape, Separate, Askers, IdsApart, NewIds, ProperIds, Objects, RosterDistinct,
           StillAhead, Doing, [Next]_vars
    PROVE  Doing'
<1>1. todo["rx"] # <<>> => rx_queue # <<>>
  BY DEF Shape
<1>2. ASSUME NEW t \in Thread, ThreadStep(t) PROVE Doing'
  <2>1. CASE t = "rx"
    BY <1>2, <2>1, DoingInThread
  <2>2. CASE t # "rx"
    <3>1. rx_queue' = rx_queue /\ todo'["rx"] = todo["rx"]
      BY <1>2, <2>2, ThreadMoves DEF ThreadStep, Thread
    <3>2. did' = did /\ roster' = roster
      BY <1>2 DEF ThreadStep, Check, Store, Send, ReadInterval, SetTimeout, SetInterval, IfBound,
                Keep, Correct, ResetCorrection, WriteMessage, ChangeState, TellListener, modVars
    <3>3. Object0' = Object0
      BY <3>1 DEF Object0
    <3>4. todo["rx"] # <<>> => \A done : Outcome(done) => Outcome(done)'
      BY <1>1, <3>2, <3>3, OutcomeStays
    <3> QED BY <3>1, <3>2, <3>3, <3>4, DoingStays
  <2> QED BY <2>1, <2>2
<1>3. CASE Rx
  <2>1. todo'["rx"] = <<Process(1)>>
    BY <1>3, RxShape DEF Shape, Thread
  <2>2. todo'["rx"] # <<>> /\ Head(todo'["rx"]) = Process(1)
    BY <2>1
  <2> QED BY <2>2, StepFields DEF Doing, Now
<1>4. CASE Pop
  <2>1. todo'["rx"] = IF rx_queue' = <<>> THEN <<>> ELSE <<Process(1)>>
    BY <1>4, PopShape DEF Shape, Thread
  <2>2. did' = <<>>
    BY <1>4 DEF Pop
  <2>3. CASE todo'["rx"] = <<>>
    BY <2>2, <2>3 DEF Doing, Now
  <2>4. CASE todo'["rx"] = <<Process(1)>>
    <3>1. todo'["rx"] # <<>> /\ Head(todo'["rx"]) = Process(1)
      BY <2>4
    <3> QED BY <3>1, StepFields DEF Doing, Now
  <2> QED BY <2>1, <2>3, <2>4
<1>5. CASE Outside
  <2>1. roster' = roster /\ todo'["rx"] = todo["rx"] /\ (rx_queue # <<>> => Object0' = Object0)
    BY <1>5, OutsideMoves
  <2>2. did' = did
    BY <1>5 DEF Outside, CallText, OtherCall, Run, StopStream, End, Expire, Answer, Change,
                 PeerAsks, Call, vars
  <2>3. todo["rx"] # <<>> => \A done : Outcome(done) => Outcome(done)'
    BY <1>1, <2>1, OutcomeStays
  <2> QED BY <1>1, <2>1, <2>2, <2>3, DoingStays
<1> QED BY <1>2, <1>3, <1>4, <1>5, DoingInModule, DoingResponds, DoingUnhandled, StepClasses

-----------------------------------------------------------------------------
(* What holds whatever the threads, the server and the peers do.             *)
AnswersInv ==
    /\ TypeOK /\ Shape
    /\ Askers /\ Between /\ IdsApart /\ NewIds /\ ProperIds /\ OneWay
    /\ Objects /\ RosterDistinct /\ StillAhead /\ Doing

LEMMA AnswersInit == Init => AnswersInv
<1> SUFFICES ASSUME Init PROVE AnswersInv
  OBVIOUS
<1>1. TypeOK /\ Shape
  BY TypeInit
<1>2. \A t \in Thread : todo[t] = <<>>
  BY DEF Init
<1>3. \A t \in Thread : \A step \in Range(todo[t]) : FALSE
  BY <1>2, OneElement
<1>4. /\ rx_queue = <<>> /\ wire = {} /\ did = <<>> /\ roster = <<>> /\ session = 0 /\ asks = 0
      /\ state = "closed" /\ ~running
  BY DEF Init
<1>5. \A i \in DOMAIN rx_queue : FALSE
  BY <1>4, EmptySeq
<1>6. \A k \in Kind : ids[k] \subseteq {0}
  BY DEF Init
<1>7. MaxAsk \in Nat /\ MaxSession \in Nat
  BY ModulesAssumption
<1>8. todo["rx"] = <<>> /\ todo["run"] = <<>>
  BY <1>2 DEF Thread
<1>9. Askers
  BY <1>2, <1>3 DEF Askers
<1>10. Between
  BY <1>4, <1>8 DEF Between
<1>11. IdsApart
  <2>1. asks <= MaxAsk /\ session <= MaxSession
    BY <1>4, <1>7
  <2>2. Awaited \subseteq Kind
    BY DEF Awaited
  <2> QED BY <1>6, <2>1, <2>2 DEF IdsApart
<1>12. NewIds /\ ProperIds /\ OneWay /\ Objects
  BY <1>3, <1>4, <1>5 DEF NewIds, ProperIds, OneWay, Objects
<1>13. RosterDistinct
  BY <1>4, EmptySeq DEF RosterDistinct, Distinct
<1>14. StillAhead /\ Doing
  BY <1>4, <1>8 DEF StillAhead, Doing, Now
<1> QED BY <1>1, <1>9, <1>10, <1>11, <1>12, <1>13, <1>14 DEF AnswersInv

LEMMA AnswersStep ==
    ASSUME Public, Separate, Polite, AnswersInv, [Next]_vars
    PROVE  AnswersInv'
<1> USE DEF AnswersInv
<1>1. TypeOK' /\ Shape'
  BY TypeStep, ShapeStep
<1>2. ids["set_vcard"] \subseteq {0}
  BY AwaitedKinds, KindNames DEF IdsApart
<1>3. Askers' /\ Between'
  BY <1>2, AskersStep, BetweenStep
<1>4. IdsApart' /\ NewIds'
  BY <1>1, IdsApartStep, NewIdsStep
<1>5. ProperIds' /\ OneWay' /\ Objects'
  BY ProperIdsStep, OneWayStep, ObjectsStep
<1>6. RosterDistinct' /\ Doing'
  BY RosterDistinctStep, DoingStep
<1>7. StillAhead'
  BY <1>1, <1>5, StillAheadStep
<1> QED BY <1>1, <1>3, <1>4, <1>5, <1>6, <1>7

(* When an object has been handled, a request of the peer has got its reply,  *)
(* and an answer has reached the module that asked, once, as the answer to    *)
(* what it asked: whatever the order of the modules and whatever threads and  *)
(* callbacks ask meanwhile, also when another session has begun. But for the  *)
(* requests without an id that SessionModule and DiscoModule swallow, and the *)
(* answers that are lost because their module no longer has the id.           *)
THEOREM AnswersCorrect ==
    ASSUME Public, Separate, Polite
    PROVE  Spec => []EachAnsweredOnce
<1>1. Init => AnswersInv
  BY AnswersInit
<1>2. AnswersInv /\ [Next]_vars => AnswersInv'
  BY AnswersStep
<1>3. AnswersInv => EachAnsweredOnce
  <2> SUFFICES ASSUME AnswersInv, Now("rx", "pop") PROVE Outcome(did)
    BY DEF EachAnsweredOnce, Outcome
  <2> USE DEF AnswersInv
  <2>1. todo["rx"] # <<>> /\ ~Now("rx", "process") /\ Head(todo["rx"]).op = "pop"
    BY DEF Now
  <2>2. PICK owed : Owes(todo["rx"], owed) /\ Outcome(did \o owed)
    BY <2>1 DEF Doing
  <2>3. PICK s \in Seq(StepFor("rx")) : todo["rx"] = Append(s, Popping)
    <3>1. \A n : Head(<<Process(n)>>) = Process(n)
      OBVIOUS
    <3> QED BY <2>1, <3>1, StepFields DEF Shape, Handling
  <2>4. s = <<>>
    BY <2>1, <2>3, HeadTailAppend, HeadTailProperties DEF StepFor
  <2>5. todo["rx"] = <<Popping>>
    BY <2>3, <2>4, TupleOfOne
  <2>6. owed = <<>>
    <3>1. Len(<<Popping>>) = 1 /\ (\A a : Len(<<a, Popping>>) = 2) /\ \A a, b : Len(<<a, b, Popping>>) = 3
      OBVIOUS
    <3>2. \A a : todo["rx"] # <<a, Popping>>
      BY <2>5, <3>1
    <3>3. \A a, b : todo["rx"] # <<a, b, Popping>>
      BY <2>5, <3>1
    <3> QED BY <2>2, <3>2, <3>3 DEF Owes
  <2>7. did \o owed = did
    BY <2>6, ConcatEmptySeq DEF TypeOK
  <2> QED BY <2>2, <2>7
<1> QED BY <1>1, <1>2, <1>3, PTL DEF Spec
=============================================================================
