------------------------------- MODULE Modules -------------------------------
(****************************************************************************)
(* The XMPP modules of a session (src/src/uxmpp/mod) and how Session         *)
(* dispatches to them: on_rx_xml_obj, change_state and its listeners, the    *)
(* modules that send a request and wait for the answer with its id, the      *)
(* roster, and the keep-alive timer.                                        *)
(*                                                                          *)
(* MessageModule and its corrections are here too, and PresenceModule.       *)
(*                                                                          *)
(* Three threads: "rx" handles the received objects, "app" is a thread of    *)
(* the application that calls the modules, "run" is in Session::run. What a  *)
(* thread has left to do is a sequence of steps; between two of them the     *)
(* others run. No lock protects the modules: each step reads or writes one   *)
(* thing. The server is the peer: it keeps a roster, answers requests in any *)
(* order or not at all, and sends its own.                                  *)
(*                                                                          *)
(* An id is a number: of a request, that of the request; 0 is the empty id.  *)
(****************************************************************************)
EXTENDS Naturals, FiniteSets, SequencesExt, Jid

CONSTANTS
    Setups,        \* sequences of modules that an application registers
    Features,      \* the stream features for which a module sends a request
    AppKinds,      \* the requests a thread of the application makes
    CallbackKinds, \* those its callbacks make
    Given,         \* per request of PrivateDataModule: ids that it chooses
    Overlap,       \* a call to a module may outlive the session it was made in
    Jids,          \* contacts: the names of bare JIDs
    Addresses,     \* the text of the JIDs that messages are sent to
    Texters,       \* setups of the applications that send messages
    Together,      \* two threads may send messages at the same time
    AlwaysReceipt, \* MessageModule::always_send_receipt
    PeerRequests,  \* per module, what the peer asks of a client that has it
    Rosters,       \* sets of contacts the roster may start with
    MaxAsk,        \* bound on the requests
    MaxCall,       \* bound on the calls of set_interval
    MaxChange,     \* bound on the changes of the roster at the server
    MaxPeer,       \* bound on the requests of the peer
    MaxText,       \* bound on the messages
    MaxSession,    \* bound on the calls of run()
    MaxRx          \* bound on the objects waiting in the receive queue

Thread == {"rx", "app", "run"}
State  == {"closed", "connecting", "negotiating", "bound", "closing"}
Module == {"core", "keepalive", "session", "disco", "register", "search", "vcard",
           "private", "version", "ping", "roster", "presence", "message"}

(* The kinds of requests, per module that makes them.                        *)
Kinds(mod) ==
    CASE mod = "core"     -> {"bind"}
      [] mod = "session"  -> {"session"}
      [] mod = "disco"    -> {"disco", "query_info"}
      [] mod = "register" -> {"info", "register", "unregister", "password"}
      [] mod = "search"   -> {"fields"}
      [] mod = "vcard"    -> {"vcard", "set_vcard"}
      [] mod = "private"  -> {"private_set", "private_get"}
      [] mod = "version"  -> {"version"}
      [] mod = "ping"     -> {"ping"}
      [] mod = "roster"   -> {"roster", "roster_set"}
      [] mod = "presence" -> {"announce", "probe", "subscription"}
      [] OTHER            -> {}
Kind == UNION {Kinds(mod) : mod \in Module}

(* Those with one id: the module has a string, and {0} when it is empty. The *)
(* others keep a set or map of ids.                                         *)
Single == {"session", "disco", "info", "register", "unregister", "password",
           "fields", "set_vcard", "roster"}

VARIABLES
    state, running, session, \* Session::state, the stream runs, calls of run()
    modules,    \* xmpp_modules
    ids,        \* per kind of request, the ids the module waits for
    interval,   \* KeepAliveModule::interval
    timer,      \* the "keep-alive" timeout of the stream is set
    roster,     \* RosterModule::roster
    kept,       \* MessageModule::correctable_messages: ids, by address
    said,       \* the messages the peer has got, in order
    texts,      \* counter: messages and corrections
    todo,       \* per thread, the steps of the call it is in
    rx_queue,   \* received objects
    did,        \* what has been done for the one being handled
    wire,       \* requests the server has not answered
    server,     \* the roster at the server: a function from contacts
    interested, \* it has been asked for the roster in this session
    fresh,      \* the roster has been received in this session
    asks, calls, changes, peers \* counters

sessVars == <<state, running, session>>
modVars  == <<modules, ids, interval, timer, roster>>
peerVars == <<wire, server, interested, fresh>>
counters == <<asks, calls, changes, peers>>
textVars == <<kept, said, texts>>
vars == <<sessVars, modVars, textVars, todo, rx_queue, did, peerVars, counters>>

Sub   == {"none", "both"}
Item  == [jid : Jids, sub : Sub \cup {"remove"}]
Object == [tag : {"stream", "features", "timeout", "iq", "message", "presence"},
           type : {"none", "get", "set", "result", "error"}, id : Nat,
           query : {"none", "bind", "ping", "version", "roster", "request", "received"},
           from : {"none", "other"} \cup Jids, items : Seq(Item),
           re : Kind \cup {"none"},  \* the kind of request this answers,
           of : Nat]                 \* and the session it was sent in

(* A peer sends stanzas; a push of the roster has a contact.                 *)
ASSUME ModulesAssumption ==
    /\ Setups \subseteq Seq(Module) /\ \A s \in Setups : IsInjective(s)
    /\ \A s \in Texters : "message" \in Range(s)
    /\ Overlap \in BOOLEAN /\ AlwaysReceipt \in BOOLEAN /\ Together \in BOOLEAN
    /\ AppKinds \subseteq Kind /\ CallbackKinds \subseteq Kind
    /\ Given \in [Kinds("private") -> SUBSET Nat]
    /\ Jids # {} /\ \A js \in Rosters : js \subseteq Jids /\ IsFiniteSet(js)
    /\ PeerRequests \in [Module -> SUBSET Object]
    /\ \A mod \in Module : \A obj \in PeerRequests[mod] :
           obj.tag \in {"iq", "message", "presence"}
    /\ {MaxAsk, MaxCall, MaxChange, MaxPeer, MaxText, MaxSession, MaxRx} \subseteq Nat

NoItem == [jid |-> CHOOSE j \in Jids : TRUE, sub |-> "none"]

(* The text of an address, as a key of MessageModule.                        *)
Keys == {to_string(Jid(to)) : to \in Addresses} \cup {to_string(bare(Jid(to))) : to \in Addresses}

(* What a step is about, by its operation.                                   *)
StepOK ==
    [op : {"check", "store", "send"}, what : Kind, n : Nat, arg : Item]
    \cup [op : {"forget"}, what : Kind, n : Nat, arg : {NoItem}]
    \cup [op : {"callback"}, what : Kind \cup {"message", "receipt", "presence"}, n : Nat, arg : {NoItem}]
    \cup [op : {"state"}, what : State, n : Nat, arg : {NoItem}]
    \cup [op : {"told"}, what : State, n : Nat, arg : State]
    \cup [op : {"arm", "timeout", "cancel", "interval", "ifbound", "process", "pop", "reply"},
          what : {"none"}, n : Nat, arg : {NoItem}]
    \cup [op : {"keep", "correct", "reset", "write"}, what : Addresses, n : Nat, arg : Nat]

TypeOK ==
    /\ state \in State /\ running \in BOOLEAN /\ session \in Nat
    /\ modules \in Seq(Module)
    /\ ids \in [Kind -> SUBSET Nat] /\ \A k \in Single : \E id \in ids[k] : ids[k] = {id}
    /\ interval \in Nat /\ timer \in BOOLEAN
    /\ roster \in Seq(Item)
    /\ kept \in [DOMAIN kept -> Nat] /\ DOMAIN kept \subseteq Keys
    /\ said \in Seq([to : Keys, id : Nat, replaces : Nat])
    /\ todo \in [Thread -> Seq(StepOK)]
    /\ rx_queue \in Seq(Object)
    /\ did \in Seq(Kind \cup {"message", "receipt", "presence", "reply"})
    /\ wire \subseteq [kind : Kind, id : Nat, item : Item]
    /\ server \in [DOMAIN server -> Sub] /\ DOMAIN server \subseteq Jids
    /\ IsFiniteSet(DOMAIN server)
    /\ interested \in BOOLEAN /\ fresh \in BOOLEAN
    /\ {texts, asks, calls, changes, peers} \subseteq Nat

(* arg: the item to set at the server, or the id of the message to replace.    *)
Step(op, what, n) == [op |-> op, what |-> what, n |-> n, arg |-> NoItem]

-----------------------------------------------------------------------------
(* Threads and their steps                                                  *)

Now(t, op) == todo[t] # <<>> /\ Head(todo[t]).op = op
This(t) == Head(todo[t])

(* Thread t has done its first step: these come before the rest.             *)
Then(t, steps) == todo' = [todo EXCEPT ![t] = steps \o Tail(@)]

Starts(t, steps) == todo[t] = <<>> /\ todo' = [todo EXCEPT ![t] = steps]

Registered(mod) == mod \in Range(modules)

Object0 == Head(rx_queue)

-----------------------------------------------------------------------------
(* Sending a request: the check, the id, the stanza                         *)

(* RegisterModule: one request of each kind at a time.                       *)
RegisterAllows(k) == k \in Kinds("register") /\ ids[k] = {0}

(* SearchModule::request_fields                                             *)
SearchAllows(k) == k \in Kinds("search") /\ ids[k] = {0}

(* VcardModule: any number of queries, one vCard being set.                  *)
VcardAllows(k) == k = "vcard" \/ (k = "set_vcard" /\ ids[k] = {0})

(* PingModule::ping                                                         *)
PingAllows(k) == k = "ping" /\ state = "bound"

(* RosterModule::refresh and roster_set                                     *)
RosterAllows(k) == k \in Kinds("roster") /\ state = "bound"

(* SessionModule and DiscoModule ask when the server has the feature.        *)
SessionAllows(k) == k = "session" /\ k \in Features /\ ids[k] = {0}
DiscoAllows(k) == k = "disco" /\ k \in Features /\ ids[k] = {0}

(* PresenceModule: announce, probe and the four operations on subscriptions. *)
PresenceAllows(k) == k \in Kinds("presence") /\ state = "bound"

(* Others ask at any time: the application has a session.                    *)
FreelyAsked(k) == k \in {"version", "query_info"} \cup Kinds("private")

Allows(k) ==
    \/ FreelyAsked(k) \/ PresenceAllows(k)
    \/ RegisterAllows(k) \/ SearchAllows(k) \/ VcardAllows(k) \/ PingAllows(k)
    \/ RosterAllows(k) \/ SessionAllows(k) \/ DiscoAllows(k)

Ask(k) == Step("check", k, 0)

Check(t) ==
    /\ Now(t, "check")
    /\ IF This(t).what = "bind"
       THEN Then(t, <<[This(t) EXCEPT !.op = "store"]>>) /\ UNCHANGED asks
       ELSE IF asks < MaxAsk /\ Allows(This(t).what)
       THEN Then(t, <<[This(t) EXCEPT !.op = "store", !.n = asks + 1]>>) /\ asks' = asks + 1
       ELSE Then(t, <<>>) /\ UNCHANGED asks
    /\ UNCHANGED <<sessVars, modVars, rx_queue, did, peerVars, calls, changes, peers, textVars>>

(* Ids, told apart by who makes them. Those of make_id come first, and what   *)
(* callers of PrivateDataModule and other peers choose comes after these.     *)
RosterId(n) == MaxAsk + n
FixedId == MaxAsk + MaxSession + 1
PushId == MaxAsk + MaxSession + 2

(* The id of a request: unique, "rq" and the session's for the roster, fixed *)
(* to bind or set an item, or chosen by the caller of PrivateDataModule.     *)
IdsFor(k, new) ==
    CASE k = "roster" -> {RosterId(session)}
      [] k \in {"bind", "roster_set"} -> {FixedId}
      [] k \in Kinds("private") -> {new} \cup Given[k]
      [] OTHER -> {new}

(* Bug: the new id joins those before it.                                    *)
BugStored(k, id) ==
    IF k \in {"bind", "roster_set", "set_vcard"} THEN ids
    ELSE [ids EXCEPT ![k] = @ \cup {id}]

(* VcardModule::set_vcard keeps the id in a local variable of the same name; *)
(* no one waits for the answer to bind or to roster_set.                     *)
Stored(k, id) ==
    IF k \in {"bind", "roster_set", "set_vcard"} THEN ids
    ELSE [ids EXCEPT ![k] = IF k \in Single THEN {id} ELSE @ \cup {id}]

(* PrivateDataModule refuses an id that is in use.                           *)
Store(t) ==
    /\ Now(t, "store")
    /\ LET k == This(t).what IN
       \E id \in IdsFor(k, This(t).n) :
           IF k \in Kinds("private") /\ id \in ids[k]
           THEN Then(t, <<>>) /\ UNCHANGED ids
           ELSE /\ ids' = Stored(k, id)
                /\ Then(t, <<[This(t) EXCEPT !.op = "send", !.n = id]>>)
    /\ UNCHANGED <<sessVars, modules, interval, timer, roster, rx_queue, did,
                   peerVars, counters, textVars>>

(* XmlStream::write ignores what it is given unless the stream runs.         *)
Send(t) ==
    /\ Now(t, "send")
    /\ wire' = IF running
               THEN wire \cup {[kind |-> This(t).what, id |-> This(t).n, item |-> This(t).arg]}
               ELSE wire
    /\ Then(t, <<>>)
    /\ UNCHANGED <<sessVars, modVars, rx_queue, did, server, interested, fresh, counters, textVars>>

-----------------------------------------------------------------------------
(* KeepAliveModule                                                          *)

Arm == Step("arm", "none", 0)

(* It reads the interval, and then sets the timeout.                         *)
ReadInterval(t) ==
    /\ Now(t, "arm")
    /\ Then(t, IF interval = 0 THEN <<>> ELSE <<Step("timeout", "none", 0)>>)
    /\ UNCHANGED <<sessVars, modVars, rx_queue, did, peerVars, counters, textVars>>

SetTimeout(t) ==
    /\ (Now(t, "timeout") \/ Now(t, "cancel"))
    /\ timer' = Now(t, "timeout")
    /\ Then(t, <<>>)
    /\ UNCHANGED <<sessVars, modules, ids, interval, roster, rx_queue, did, peerVars, counters, textVars>>

(* Bug: the new interval is left to the next time the timer expires.         *)
BugSetInterval(t) ==
    /\ Now(t, "interval")
    /\ interval' = This(t).n
    /\ Then(t, IF interval' = 0 THEN <<Step("cancel", "none", 0)>> ELSE <<>>)
    /\ UNCHANGED <<sessVars, modules, ids, timer, roster, rx_queue, did, peerVars, counters, textVars>>

SetInterval(t) ==
    /\ Now(t, "interval")
    /\ interval' = This(t).n
    /\ Then(t, <<Step(IF interval' = 0 THEN "cancel" ELSE "ifbound", "none", 0)>>)
    /\ UNCHANGED <<sessVars, modules, ids, timer, roster, rx_queue, did, peerVars, counters, textVars>>

IfBound(t) ==
    /\ Now(t, "ifbound")
    /\ Then(t, IF state = "bound" THEN <<Step("timeout", "none", 0)>> ELSE <<>>)
    /\ UNCHANGED <<sessVars, modVars, rx_queue, did, peerVars, counters, textVars>>

(* XmlStream::timer_callback; what a stopped stream receives is dropped.     *)
Expire ==
    /\ timer /\ Len(rx_queue) < MaxRx
    /\ timer' = FALSE
    /\ rx_queue' = IF ~running THEN rx_queue ELSE Append(rx_queue, [tag |-> "timeout", type |-> "none", id |-> 0,
           query |-> "none", from |-> "none", items |-> <<>>, re |-> "none", of |-> session])
    /\ UNCHANGED <<sessVars, modules, ids, interval, roster, todo, did, peerVars, counters, textVars>>

-----------------------------------------------------------------------------
(* MessageModule: sending and correcting                                    *)

(* The map without a key, and with the message last sent to this address.    *)
Keeping(to, id, out) ==
    [key \in (DOMAIN kept \ out) \cup {to} |-> IF key = to THEN id ELSE kept[key]]

(* Bug: the message last sent to the bare JID stays correctable.             *)
BugKeep(t) ==
    /\ Now(t, "keep")
    /\ kept' = Keeping(to_string(Jid(This(t).what)), This(t).n, {})
    /\ Then(t, <<[This(t) EXCEPT !.op = "write"]>>)
    /\ UNCHANGED <<sessVars, modVars, said, texts, rx_queue, did, peerVars, counters>>

(* send_message. After a message to a resource, the one before it to the     *)
(* bare JID is not to be corrected.                                          *)
Keep(t) ==
    /\ Now(t, "keep")
    /\ LET jid == Jid(This(t).what) IN
       kept' = Keeping(to_string(jid), This(t).n,
                       IF is_bare(jid) THEN {} ELSE {to_string(bare(jid))})
    /\ Then(t, <<[This(t) EXCEPT !.op = "write"]>>)
    /\ UNCHANGED <<sessVars, modVars, said, texts, rx_queue, did, peerVars, counters>>

(* correct_message: the last message to this address, with a new id, and the *)
(* id it had before as that of the one it replaces.                          *)
Correct(t) ==
    /\ Now(t, "correct")
    /\ LET key == to_string(Jid(This(t).what)) IN
       IF key \in DOMAIN kept
       THEN /\ kept' = [kept EXCEPT ![key] = This(t).n]
            /\ Then(t, <<[This(t) EXCEPT !.op = "write", !.arg = kept[key]]>>)
       ELSE UNCHANGED kept /\ Then(t, <<>>)
    /\ UNCHANGED <<sessVars, modVars, said, texts, rx_queue, did, peerVars, counters>>

(* reset_correction: for a bare JID, all keys that begin with its text.      *)
ResetCorrection(t) ==
    /\ Now(t, "reset")
    /\ LET jid == Jid(This(t).what) IN
       kept' = [key \in {k \in DOMAIN kept : IF is_bare(jid) THEN ~IsPrefix(to_string(jid), k)
                                             ELSE k # to_string(jid)} |-> kept[key]]
    /\ Then(t, <<>>)
    /\ UNCHANGED <<sessVars, modVars, said, texts, rx_queue, did, peerVars, counters>>

WriteMessage(t) ==
    /\ Now(t, "write")
    /\ said' = IF running
               THEN Append(said, [to |-> to_string(Jid(This(t).what)), id |-> This(t).n,
                                  replaces |-> This(t).arg])
               ELSE said
    /\ Then(t, <<>>)
    /\ UNCHANGED <<sessVars, modVars, kept, texts, rx_queue, did, peerVars, counters>>

(* The calls of send_message, correct_message and reset_correction           *)
Texts == {[op |-> op, what |-> to, n |-> texts + 1, arg |-> 0] :
             op \in {"keep", "correct", "reset"}, to \in Addresses}

Texting(t) == todo[t] # <<>> /\ Head(todo[t]).op \in {"keep", "correct", "reset", "write"}

MayText ==
    /\ modules \in Texters /\ texts < MaxText /\ texts' = texts + 1
    /\ Together \/ ~(\E t \in Thread : Texting(t))

-----------------------------------------------------------------------------
(* Session::change_state and the listeners                                  *)

OnStateChange(mod, new, old) ==
    CASE mod = "keepalive" /\ new = "bound" -> <<Arm>>
      [] mod = "keepalive" /\ new # "bound" /\ old = "bound" -> <<Step("cancel", "none", 0)>>
      [] mod \in {"session", "disco"} /\ new = "bound" -> <<Ask(mod)>>
      [] OTHER -> <<>>

Accepted(old, new) ==
    \/ new = "closed"
    \/ <<old, new>> \in {<<"closed", "connecting">>, <<"connecting", "negotiating">>,
                         <<"negotiating", "negotiating">>, <<"negotiating", "bound">>}
    \/ new = "closing" /\ old \notin {"closed", "closing"}

ChangeState(t) ==
    /\ Now(t, "state")
    /\ LET new == This(t).what IN
       IF Accepted(state, new)
       THEN state' = new /\ Then(t, <<[Step("told", new, 1) EXCEPT !.arg = state]>>)
       ELSE UNCHANGED state /\ Then(t, <<>>)
    /\ UNCHANGED <<running, session, modVars, rx_queue, did, peerVars, counters, textVars>>

(* The modules registered as listeners are called in the order they came; of *)
(* most of them nothing is left to do.                                       *)
TellListener(t) ==
    /\ Now(t, "told")
    /\ LET does(i) == OnStateChange(modules[i], This(t).what, This(t).arg)
           left == {i \in DOMAIN modules : i >= This(t).n /\ does(i) # <<>>} IN
       \/ left = {} /\ Then(t, <<>>)
       \/ \E i \in left :
             /\ \A j \in left : i <= j
             /\ Then(t, does(i) \o <<[This(t) EXCEPT !.n = i + 1]>>)
    /\ UNCHANGED <<sessVars, modVars, rx_queue, did, peerVars, counters, textVars>>

-----------------------------------------------------------------------------
(* Session::on_rx_xml_obj: the modules in turn, until one has handled it     *)

Rx ==
    /\ running /\ rx_queue # <<>>
    /\ Starts("rx", <<Step("process", "none", 1)>>)
    /\ UNCHANGED <<sessVars, modVars, rx_queue, did, peerVars, counters, textVars>>

(* The thread goes on while there are objects, even if the stream has been    *)
(* stopped.                                                                 *)
Pop ==
    /\ Now("rx", "pop")
    /\ rx_queue' = Tail(rx_queue)
    /\ Then("rx", IF rx_queue' = <<>> THEN <<>> ELSE <<Step("process", "none", 1)>>)
    /\ did' = <<>>
    /\ UNCHANGED <<sessVars, modVars, peerVars, counters, textVars>>

Calls(mod) ==
    /\ Now("rx", "process")
    /\ This("rx").n <= Len(modules)
    /\ modules[This("rx").n] = mod

Popping == Step("pop", "none", 0)

(* The module has handled the object, with these steps left.                 *)
Handles(steps) == Then("rx", Append(steps, Popping))

Passes == Then("rx", <<Step("process", "none", This("rx").n + 1)>>)

Iq == Object0.tag = "iq"
Reply == Step("reply", "none", 0)

(* A stanza that answers the object being handled, or a callback for it.     *)
Respond ==
    /\ (Now("rx", "reply") \/ Now("rx", "callback"))
    /\ did' = Append(did, IF Now("rx", "reply") THEN "reply" ELSE This("rx").what)
    /\ \/ Then("rx", <<>>)
       \/ /\ Now("rx", "callback")
          /\ \E k \in CallbackKinds :
                Then("rx", IF \E mod \in Range(modules) : k \in Kinds(mod)
                           THEN <<Ask(k)>> ELSE <<>>)
    /\ UNCHANGED <<sessVars, modVars, rx_queue, peerVars, counters, textVars>>

(* A callback that sends or corrects a message.                              *)
RespondText ==
    /\ Now("rx", "callback") /\ MayText
    /\ did' = Append(did, This("rx").what)
    /\ \E step \in Texts : Then("rx", <<step>>)
    /\ UNCHANGED <<sessVars, modVars, kept, said, rx_queue, peerVars, counters>>

(* Bug: everyone else is told that the service is unavailable.               *)
BugUnhandled ==
    /\ Now("rx", "process") /\ This("rx").n > Len(modules)
    /\ Handles((IF Iq THEN <<Reply>> ELSE <<>>)
               \o (IF state = "negotiating" THEN <<Ask("bind")>> ELSE <<>>))
    /\ UNCHANGED <<sessVars, modVars, rx_queue, did, peerVars, counters, textVars>>

(* No module has handled it: an error for a request, and the request to bind.*)
Unhandled ==
    /\ Now("rx", "process") /\ This("rx").n > Len(modules)
    /\ Handles((IF Iq /\ Object0.type \in {"get", "set"} THEN <<Reply>> ELSE <<>>)
               \o (IF state = "negotiating" THEN <<Ask("bind")>> ELSE <<>>))
    /\ UNCHANGED <<sessVars, modVars, rx_queue, did, peerVars, counters, textVars>>

(* Session itself is the first module.                                       *)
Core ==
    /\ Calls("core")
    /\ CASE Object0.tag = "stream" -> Handles(<<Step("state", "negotiating", 0)>>)
         [] Object0.query = "bind" /\ state = "negotiating" ->
                Handles(<<Step("state", "bound", 0)>>)
         [] OTHER -> Passes
    /\ UNCHANGED <<sessVars, modVars, rx_queue, did, peerVars, counters, textVars>>

KeepAlive ==
    /\ Calls("keepalive")
    /\ IF Object0.tag = "timeout" THEN Handles(<<Arm>>) ELSE Passes
    /\ UNCHANGED <<sessVars, modVars, rx_queue, did, peerVars, counters, textVars>>

(* A module waits for this id. RegisterModule, SearchModule and VcardModule   *)
(* do not compare an empty one, the others do.                               *)
Waits(k) ==
    /\ Iq /\ Object0.id \in ids[k]
    /\ k \in {"session", "disco", "roster"} \/ Object0.id # 0

Callback(k) == Step("callback", k, 0)

Forgetting(k) == Step("forget", k, Object0.id)

Forget ==
    /\ Now("rx", "forget")
    /\ LET k == This("rx").what IN
       ids' = [ids EXCEPT ![k] = IF k \in Single THEN {0} ELSE @ \ {This("rx").n}]
    /\ Then("rx", <<>>)
    /\ UNCHANGED <<sessVars, modules, interval, timer, roster, rx_queue, did, peerVars, counters, textVars>>

(* The id is forgotten before the callback is called, which may ask again.   *)
Takes(k) == Handles(<<Forgetting(k), Callback(k)>>)

Others == <<sessVars, modVars, rx_queue, did, peerVars, counters, textVars>>

(* RegisterModule forgets the id of the information only.                    *)
Register ==
    /\ Calls("register")
    /\ IF Waits("info") THEN Takes("info")
       ELSE IF \E k \in Kinds("register") : Waits(k)
       THEN Handles(<<Callback(CHOOSE k \in Kinds("register") : Waits(k))>>)
       ELSE Passes
    /\ UNCHANGED Others

Search ==
    /\ Calls("search")
    /\ IF Waits("fields") THEN Takes("fields") ELSE Passes
    /\ UNCHANGED Others

Vcard ==
    /\ Calls("vcard")
    /\ IF Waits("vcard") THEN Takes("vcard")
       ELSE IF Waits("set_vcard") THEN Takes("set_vcard") ELSE Passes
    /\ UNCHANGED Others

(* PrivateDataModule looks for the id among those of set() first.            *)
Private ==
    /\ Calls("private")
    /\ IF Waits("private_set") THEN Takes("private_set")
       ELSE IF Waits("private_get") THEN Takes("private_get") ELSE Passes
    /\ UNCHANGED Others

Version ==
    /\ Calls("version")
    /\ IF Iq /\ Object0.type = "get"
       THEN IF Object0.query = "version" THEN Handles(<<Reply>>) ELSE Passes
       ELSE IF Waits("version") THEN Takes("version") ELSE Passes
    /\ UNCHANGED Others

Ping ==
    /\ Calls("ping")
    /\ IF Iq /\ Object0.type = "get"
       THEN IF Object0.query = "ping" THEN Handles(<<Reply>>) ELSE Passes
       ELSE IF Waits("ping") THEN Takes("ping") ELSE Passes
    /\ UNCHANGED Others

Disco ==
    /\ Calls("disco")
    /\ IF Waits("disco") THEN Takes("disco")
       ELSE IF Waits("query_info") THEN Takes("query_info") ELSE Passes
    /\ UNCHANGED Others

(* SessionModule unregisters itself when the session is established.         *)
SessionResult ==
    /\ Calls("session")
    /\ IF ~Waits("session") THEN Passes /\ UNCHANGED modules
       ELSE IF Object0.type = "result"
       THEN Takes("session") /\ modules' = RemoveAt(modules, This("rx").n)
       ELSE Handles(<<Callback("session")>>) /\ UNCHANGED modules
    /\ UNCHANGED <<sessVars, ids, interval, timer, roster, rx_queue, did, peerVars, counters, textVars>>

(* Whom the roster lets see our presence: its first item with the bare JID.   *)
is_jid_authorized(jid) ==
    /\ Registered("roster")
    /\ LET at == SelectInSeq(roster, LAMBDA i : i.jid = jid) IN
       at # 0 /\ roster[at].sub = "both"

Message ==
    /\ Calls("message")
    /\ IF Object0.tag # "message" THEN Passes
       ELSE Handles(<<Callback(IF Object0.query = "received" THEN "receipt" ELSE "message")>>
                    \o (IF Object0.query = "request"
                              /\ (AlwaysReceipt \/ is_jid_authorized(Object0.from))
                        THEN <<Reply>> ELSE <<>>))
    /\ UNCHANGED Others

Presence ==
    /\ Calls("presence")
    /\ IF Object0.tag = "presence" THEN Handles(<<Callback("presence")>>) ELSE Passes
    /\ UNCHANGED Others

-----------------------------------------------------------------------------
(* RosterModule                                                             *)

(* Bug: an item that is removed is updated.                                  *)
BugHandlePush(r, item) ==
    LET at == SelectInSeq(r, LAMBDA i : i.jid = item.jid) IN
    IF at = 0 THEN Append(r, item) ELSE [r EXCEPT ![at] = item]

(* handle_roster_push: the first item with the jid is removed or replaced.   *)
HandlePush(r, item) ==
    LET at == SelectInSeq(r, LAMBDA i : i.jid = item.jid) IN
    IF at = 0 THEN Append(r, item)
    ELSE IF item.sub = "remove" THEN RemoveAt(r, at)
    ELSE [r EXCEPT ![at] = item]

RosterPush == Iq /\ Object0.type = "set" /\ Object0.query = "roster" /\ Object0.items # <<>>

Roster ==
    /\ Calls("roster")
    /\ \/ /\ Waits("roster") /\ Object0.type = "result" /\ Object0.query = "roster"
          /\ roster' = Object0.items
          /\ fresh' = (Object0.of = session)
          /\ Handles(<<Callback("roster")>>)
       \/ /\ Waits("roster") /\ Object0.type = "error"
          /\ roster' = <<>> /\ fresh' = FALSE
          /\ Handles(<<Callback("roster")>>)
       \/ /\ RosterPush
          /\ roster' = IF Object0.from = "other" THEN roster
                       ELSE HandlePush(roster, Object0.items[1])
          /\ Handles(<<Reply>>) /\ UNCHANGED fresh
       \/ /\ ~RosterPush
          /\ \/ ~Waits("roster")
             \/ Object0.type \notin {"result", "error"}
             \/ Object0.type = "result" /\ Object0.query # "roster"
          /\ Passes /\ UNCHANGED <<roster, fresh>>
    /\ UNCHANGED <<sessVars, modules, ids, interval, timer, rx_queue, did,
                   wire, server, interested, counters, textVars>>

-----------------------------------------------------------------------------
(* The application and Session::run                                         *)

Call(k) ==
    /\ state # "closed" /\ asks < MaxAsk
    /\ \E item \in IF k = "roster_set" THEN [jid : Jids, sub : {"none", "remove"}] ELSE {NoItem} :
           Starts("app", <<[Ask(k) EXCEPT !.arg = item]>>)
    /\ \E mod \in Range(modules) : k \in Kinds(mod)
    /\ UNCHANGED <<sessVars, modVars, rx_queue, did, peerVars, counters, textVars>>

(* set_interval, or Session::stop                                           *)
OtherCall ==
    /\ \/ /\ Registered("keepalive") /\ calls < MaxCall /\ calls' = calls + 1
          /\ \E n \in {0, 1} : Starts("app", <<Step("interval", "none", n)>>)
       \/ /\ state = "bound" /\ UNCHANGED calls
          /\ Starts("app", <<Step("state", "closing", 0)>>)
    /\ UNCHANGED <<sessVars, modVars, rx_queue, did, peerVars, asks, changes, peers, textVars>>

CallText ==
    /\ state # "closed" /\ MayText
    /\ \E step \in Texts : Starts("app", <<step>>)
    /\ UNCHANGED <<sessVars, modVars, kept, said, rx_queue, did, peerVars, counters>>

Run ==
    /\ state = "closed" /\ session < MaxSession
    /\ Overlap \/ todo["app"] = <<>>
    /\ Starts("run", <<>>)
    /\ state' = "connecting" /\ running' = TRUE /\ session' = session + 1
    /\ fresh' = FALSE
    /\ rx_queue' = rx_queue \o
           [i \in 1..2 |-> [tag |-> <<"stream", "features">>[i], type |-> "none", id |-> 0,
               query |-> "none", from |-> "none", items |-> <<>>, re |-> "none", of |-> session + 1]]
    /\ UNCHANGED <<modVars, did, wire, server, interested, counters, textVars>>

(* XmlStream::stop, when the connection is closed.                           *)
StopStream ==
    /\ running /\ session < MaxSession
    /\ running' = FALSE
    /\ wire' = {} /\ interested' = FALSE
    /\ UNCHANGED <<state, session, modVars, todo, rx_queue, did, server, fresh, counters, textVars>>

(* XmlStream::run returns once its thread has ended, and cancels the timeouts.*)
End ==
    /\ ~running /\ state # "closed" /\ todo["rx"] = <<>>
    /\ timer' = FALSE
    /\ Starts("run", <<Step("state", "closed", 0)>>)
    /\ UNCHANGED <<sessVars, modules, ids, interval, roster, rx_queue, did, peerVars, counters, textVars>>

-----------------------------------------------------------------------------
(* The server                                                               *)

Says(objs) == running /\ Len(rx_queue) + Len(objs) <= MaxRx /\ rx_queue' = rx_queue \o objs

AnIq(type, id, query, items, re) ==
    [tag |-> "iq", type |-> type, id |-> id, query |-> query, from |-> "none",
     items |-> items, re |-> re, of |-> session]

Contacts(r) == {[jid |-> j, sub |-> r[j]] : j \in DOMAIN r}

Push(jid, sub) ==
    IF interested
    THEN <<AnIq("set", PushId, "roster", <<[jid |-> jid, sub |-> sub]>>, "none")>>
    ELSE <<>>

(* The roster with a contact, or without it.                                 *)
Changed(item) ==
    IF item.sub = "remove"
    THEN server' = [j \in DOMAIN server \ {item.jid} |-> server[j]]
    ELSE server' = [j \in DOMAIN server \cup {item.jid} |->
                       IF j = item.jid THEN item.sub ELSE server[j]]

Answer ==
    /\ \E req \in wire :
       /\ wire' = wire \ {req}
       /\ CASE req.kind = "bind" ->
                 /\ Says(<<AnIq("result", req.id, "bind", <<>>, "none")>>)
                 /\ UNCHANGED <<server, interested>>
            [] req.kind = "roster" ->
                 /\ interested' = TRUE
                 /\ \/ Says(<<AnIq("result", req.id, "roster", SetToSeq(Contacts(server)), "roster")>>)
                    \/ Says(<<AnIq("error", req.id, "none", <<>>, "roster")>>)
                 /\ UNCHANGED server
            [] req.kind = "roster_set" ->
                 /\ IF req.item.sub = "remove" /\ req.item.jid \notin DOMAIN server
                    THEN UNCHANGED server /\ Says(<<AnIq("error", req.id, "none", <<>>, "none")>>)
                    ELSE /\ Changed(req.item)
                         /\ Says(Push(req.item.jid, req.item.sub)
                                 \o <<AnIq("result", req.id, "none", <<>>, "none")>>)
                 /\ UNCHANGED interested
            [] req.kind \in Kinds("presence") -> UNCHANGED <<rx_queue, server, interested>>
            [] OTHER ->
                 /\ \E type \in {"result", "error"} :
                        Says(<<AnIq(type, req.id, "none", <<>>, req.kind)>>)
                 /\ UNCHANGED <<server, interested>>
    /\ UNCHANGED <<sessVars, modVars, todo, did, fresh, counters, textVars>>

(* Another client of the same user changes the roster.                       *)
Change ==
    /\ changes < MaxChange /\ changes' = changes + 1
    /\ Registered("roster")
    /\ \E item \in Item :
           /\ item.sub = "remove" => item.jid \in DOMAIN server
           /\ Changed(item)
           /\ Says(Push(item.jid, item.sub))
    /\ UNCHANGED <<sessVars, modVars, todo, did, wire, interested, fresh, asks, calls, peers, textVars>>

PeerAsks ==
    /\ peers < MaxPeer /\ peers' = peers + 1
    /\ \E mod \in Range(modules) : \E obj \in PeerRequests[mod] :
           Says(<<[obj EXCEPT !.of = session]>>)
    /\ UNCHANGED <<sessVars, modVars, todo, did, peerVars, asks, calls, changes, textVars>>

-----------------------------------------------------------------------------
Init ==
    /\ state = "closed" /\ running = FALSE /\ session = 0
    /\ modules \in Setups
    /\ ids = [k \in Kind |-> IF k \in Single THEN {0} ELSE {}]
    /\ interval \in (IF Registered("keepalive") THEN {0, 1} ELSE {0}) /\ timer = FALSE /\ roster = <<>>
    /\ todo = [t \in Thread |-> <<>>]
    /\ rx_queue = <<>> /\ did = <<>>
    /\ wire = {} /\ interested = FALSE /\ fresh = FALSE
    /\ server \in (IF Registered("roster") THEN UNION {[js -> {"none"}] : js \in Rosters}
                   ELSE {[j \in {} |-> "none"]})
    /\ kept = [key \in {} |-> 0] /\ said = <<>> /\ texts = 0
    /\ asks = 0 /\ calls = 0 /\ changes = 0 /\ peers = 0

Next ==
    \/ \E t \in Thread :
           \/ Check(t) \/ Store(t) \/ Send(t)
           \/ ReadInterval(t) \/ SetTimeout(t) \/ SetInterval(t) \/ IfBound(t)
           \/ Keep(t) \/ Correct(t) \/ ResetCorrection(t) \/ WriteMessage(t)
           \/ ChangeState(t) \/ TellListener(t)
    \/ Rx \/ Pop \/ Respond \/ RespondText \/ Forget \/ Unhandled
    \/ Core \/ KeepAlive \/ Register \/ Search \/ Vcard \/ Private
    \/ Version \/ Ping \/ Disco \/ SessionResult \/ Message \/ Presence \/ Roster
    \/ \E k \in AppKinds : Call(k)
    \/ CallText \/ OtherCall \/ Run \/ StopStream \/ End \/ Expire
    \/ Answer \/ Change \/ PeerAsks

Spec == Init /\ [][Next]_vars

-----------------------------------------------------------------------------
(* Safety                                                                   *)

(* What an object is to lead to. A message may ask for a receipt, which is   *)
(* for those that the roster lets see us.                                    *)
Due(obj) ==
    IF obj.tag = "presence" THEN <<"presence">>
    ELSE IF obj.tag = "message"
    THEN IF obj.query = "received" THEN <<"receipt">>
         ELSE IF obj.query = "request"
                 /\ (AlwaysReceipt \/ [jid |-> obj.from, sub |-> "both"] \in Range(roster))
         THEN <<"message", "reply">>
         ELSE <<"message">>
    ELSE IF obj.type \in {"get", "set"} THEN <<"reply">>
    ELSE IF obj.re # "none" THEN <<obj.re>>
    ELSE <<>>

(* A request without an id: SessionModule and DiscoModule, which wait for     *)
(* the empty id while they have sent nothing, take it for their answer.       *)
Swallowed(obj) == obj.id = 0 /\ obj.type \in {"get", "set"}

(* No one takes the answer to set_vcard, which waits for the empty id. A      *)
(* module with one id looks whether it is empty before it makes a request:    *)
(* two threads that do so at once both find it empty, the second id replaces  *)
(* the first, and the answer to either empties it again. RosterModule has     *)
(* the id of the session in which it asked last.                            *)
Lost(obj) ==
    \/ obj.re = "set_vcard"
    \/ obj.re \in Single /\ obj.id \notin ids[obj.re]

(* Whatever the order of the modules, and whatever callbacks and other        *)
(* threads ask meanwhile: when an object has been handled, a request of the   *)
(* peer has got one reply, an answer has reached the module that asked, once, *)
(* as the answer to what it asked, also when another session has begun since, *)
(* and no one took anything else for an answer. An answer that is lost is     *)
(* ignored; a request without an id may be swallowed by a module that has     *)
(* nothing to be answered (SessionModule.cpp:95, DiscoModule.cpp:161).        *)
(* A message is seen once, and its receipt sent if the roster allows it.     *)
EachAnsweredOnce ==
    Now("rx", "pop") =>
        \/ did = Due(Object0)
        \/ did = <<>> /\ Lost(Object0)
        \/ Swallowed(Object0) /\ did \in {<<"session">>, <<"disco">>}

RosterNews(obj) == obj.tag = "iq" /\ obj.of = session /\ (obj.re = "roster" \/ obj.query = "roster")

(* Once the roster has been received, and while no push of the server is in   *)
(* the queue, the client's roster is the server's: it follows each change,    *)
(* also those made while the query was answered, and no other contact's.      *)
RosterFollowsServer ==
    fresh /\ running /\ ~(\E i \in DOMAIN rx_queue : RosterNews(rx_queue[i]))
        => /\ Range(roster) = Contacts(server)
           /\ Len(roster) = Cardinality(DOMAIN server)

(* x is a full JID, and to its bare one.                                     *)
Covers(to, x) == IsPrefix(to \o <<"/">>, x) /\ ~("/" \in Range(to))

(* A correction replaces the last message: of those that came to its address, *)
(* and for a bare JID of the new ones to its resources, it is the last one,    *)
(* whatever was sent to others, reset or corrected meanwhile. It may be one   *)
(* that never came, because the stream was stopped.                          *)
CorrectsTheLast ==
    \A i \in DOMAIN said : said[i].replaces # 0 =>
        LET before == {k \in 1..(i - 1) : \/ said[k].to = said[i].to
                                          \/ /\ said[k].replaces = 0
                                             /\ Covers(said[i].to, said[k].to)} IN
        \/ \A k \in 1..(i - 1) : said[k].id # said[i].replaces
        \/ before # {} /\ said[Max(before)].id = said[i].replaces

(* A correction is only sent after a message to that address has been         *)
(* ("A correction can't be sent if no previous message to the recipient has   *)
(* been sent", MessageModule.hpp:104-105).                                   *)
CorrectsSent ==
    \A i \in DOMAIN said : said[i].replaces # 0 =>
        \E k \in 1..(i - 1) : said[k].to = said[i].to

(* A step that has yet to tell KeepAliveModule of the new state.              *)
TellsKeepAlive(step) ==
    step.op = "told" /\ \E i \in DOMAIN modules : i >= step.n /\ modules[i] = "keepalive"

AboutKeepAlive(t) ==
    \E step \in Range(todo[t]) :
        \/ step.op \in {"arm", "timeout", "cancel", "interval", "ifbound"}
        \/ TellsKeepAlive(step)

(* The keep-alive never falls asleep: while the session is bound and there is *)
(* an interval, the timeout is set, or has expired and is to be handled,      *)
(* however the thread of the application that calls set_interval, the rx      *)
(* thread that handles timeouts, and the two that change the state interleave.*)
KeepAliveLives ==
    (/\ Registered("keepalive") /\ running /\ state = "bound" /\ interval # 0
     /\ ~(\E t \in Thread : AboutKeepAlive(t))
     /\ ~(\E i \in DOMAIN rx_queue : rx_queue[i].tag = "timeout"))
    => timer
=============================================================================
