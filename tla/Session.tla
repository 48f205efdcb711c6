------------------------------- MODULE Session -------------------------------
(****************************************************************************)
(* Session, an XMPP client session on one XmlStream                         *)
(* (src/src/uxmpp/Session.cpp).                                             *)
(*                                                                          *)
(* Three threads execute its code: "run" is blocked in Session::run, "rx"   *)
(* is the stream's receive thread, in which on_rx_xml_obj and the modules   *)
(* execute, and "app" is another thread of the application, which calls     *)
(* Session::stop. `state` and `stream_xml_obj` are plain members shared     *)
(* without a lock: reading and writing them are separate steps.             *)
(*                                                                          *)
(* The stream is reduced to what StreamLifecycle says of it, which XmlStream *)
(* implements: its phase, the objects in its receive queue, those on their  *)
(* way to the peer, and the "stop_session" timeout.                         *)
(****************************************************************************)
EXTENDS Naturals, Sequences

CONSTANTS
    PeerKinds,  \* kinds of XML objects the peer sends
    StopWhen,   \* session states in which the application calls stop()
    Fast,       \* the arguments it calls stop() with
    MaxAddr,    \* addresses the resolver returns
    MaxRun,     \* bound on the calls of run()
    MaxObj,     \* bound on the objects received in one run
    MaxRx       \* bound on those waiting in the receive queue

State == {"closed", "connecting", "negotiating", "bound", "closing"}

Kind == {"stream", "mechanisms", "bind", "bound", "success", "iq", "error", "end"}

ASSUME SessionAssumption ==
    /\ PeerKinds \subseteq Kind
    /\ StopWhen \subseteq State
    /\ Fast \subseteq BOOLEAN
    /\ MaxAddr \in Nat /\ MaxRun \in Nat /\ MaxObj \in Nat /\ MaxRx \in Nat

Thread == {"run", "rx", "app"}

VARIABLES
    state,       \* Session::state
    part,        \* the part of stream_xml_obj: start or end tag
    bindable,    \* the stored features include "bind"
    at,          \* where each thread is
    new,         \* the argument of the change_state call it is in
    fast,        \* the stop() it is in does not wait for the peer's end tag
    nested,      \* the calls of stop() that change_state made under that one
    addrs,       \* addresses not yet tried
    runs,        \* calls of run() so far
    stream,      \* "off", "open", "ending": the phase of the XmlStream
    rx_queue,    \* received objects not yet handled
    objs,        \* objects received in this run
    out,         \* objects written and not yet sent
    wire,        \* what the peer has seen: "none", "open" or "closed" stream
    stop_timer   \* the "stop_session" timeout is armed

streamVars == <<stream, rx_queue, objs, out, wire, stop_timer>>
callVars   == <<at, new, fast, nested>>
vars == <<state, part, bindable, at, new, fast, nested, addrs, runs,
          stream, rx_queue, objs, out, wire, stop_timer>>

Pc == {"idle", "handle", "return", "bind", "reset", "restart", "rewrite",
       "stop", "stop2", "chg", "set", "isrun", "part", "timeout", "write", "xstop",
       "init", "connect", "xrun", "header", "wait", "cancel", "close"}

StateTypes ==
    /\ state \in State
    /\ part \in {"start", "end"}
    /\ bindable \in BOOLEAN

CallTypes ==
    /\ at \in [Thread -> Pc]
    /\ new \in [Thread -> State]
    /\ fast \in [Thread -> BOOLEAN]
    /\ nested \in [Thread -> Nat]

StreamTypes ==
    /\ stream \in {"off", "open", "ending"}
    /\ rx_queue \in Seq(Kind \cup {"timeout"})
    /\ out \in Seq({"start", "end", "other"})
    /\ wire \in {"none", "open", "closed"}
    /\ stop_timer \in BOOLEAN

CountTypes == addrs \in Nat /\ runs \in Nat /\ objs \in Nat

TypeOK == StateTypes /\ CallTypes /\ StreamTypes /\ CountTypes

Init ==
    /\ state = "closed"
    /\ part = "start"
    /\ bindable = FALSE
    /\ at = [t \in Thread |-> "idle"]
    /\ new = [t \in Thread |-> "closed"]
    /\ fast = [t \in Thread |-> FALSE]
    /\ nested = [t \in Thread |-> 0]
    /\ addrs = 0
    /\ runs = 0
    /\ stream = "off"
    /\ rx_queue = <<>>
    /\ objs = 0
    /\ out = <<>>
    /\ wire = "none"
    /\ stop_timer = FALSE

-----------------------------------------------------------------------------
(* Shared pieces                                                            *)

(* Bug: a session being closed never becomes closed.                        *)
BugAccepted(old, to) ==
    to \in CASE old = "closed"      -> {"closed", "connecting"}
             [] old = "connecting"  -> {"closed", "negotiating", "closing"}
             [] old = "negotiating" -> {"closed", "negotiating", "bound", "closing"}
             [] old = "bound"       -> {"closed", "closing"}
             [] old = "closing"     -> {}

(* valid_session_state_matrix                                               *)
Accepted(old, to) ==
    to \in CASE old = "closed"      -> {"closed", "connecting"}
             [] old = "connecting"  -> {"closed", "negotiating", "closing"}
             [] old = "negotiating" -> {"closed", "negotiating", "bound", "closing"}
             [] old = "bound"       -> {"closed", "closing"}
             [] old = "closing"     -> {"closed"}

Goto(t, pc) == at' = [at EXCEPT ![t] = pc] /\ UNCHANGED nested

(* change_state(to) begins.                                                 *)
Change(t, to) == Goto(t, "chg") /\ new' = [new EXCEPT ![t] = to]

(* change_state has begun to close the session: it calls stop(), which asks   *)
(* for no fast stop.                                                         *)
CallStop(t) ==
    /\ at' = [at EXCEPT ![t] = "stop"]
    /\ nested' = [nested EXCEPT ![t] = @ + 1]

FastStop(t) == fast[t] /\ nested[t] = 0

(* The end of a call. The stop() that change_state made returns to the tail   *)
(* of the outer one; the rx thread goes back to the stream, which pops.       *)
Done(t) ==
    IF nested[t] > 0
    THEN /\ at' = [at EXCEPT ![t] = "isrun"]
         /\ nested' = [nested EXCEPT ![t] = @ - 1]
    ELSE Goto(t, IF t = "rx" THEN "return" ELSE "idle")

(* XmlStream::write ignores its argument unless the stream runs.            *)
WriteObj(obj) == out' = IF stream = "open" THEN Append(out, obj) ELSE out

(* XmlStream::stop cancels what is not yet sent.                            *)
StopStream ==
    IF stream = "open"
    THEN stream' = "ending" /\ out' = <<>>
    ELSE UNCHANGED <<stream, out>>

-----------------------------------------------------------------------------
(* Session::stop                                                            *)

Stop(t) ==
    /\ at[t] = "stop"
    /\ IF ~FastStop(t) /\ state \in {"closed", "closing"}
       THEN Done(t)
       ELSE Goto(t, "stop2")
    /\ UNCHANGED <<state, part, bindable, new, fast, addrs, runs, streamVars>>

StopAgain(t) ==
    /\ at[t] = "stop2"
    /\ IF state = "closing"
       THEN Goto(t, "isrun") /\ UNCHANGED new
       ELSE Change(t, "closing")
    /\ UNCHANGED <<state, part, bindable, fast, addrs, runs, streamVars>>

IsRunning(t) ==
    /\ at[t] = "isrun"
    /\ IF stream = "open" THEN Goto(t, "part") ELSE Done(t)
    /\ UNCHANGED <<state, part, bindable, new, fast, addrs, runs, streamVars>>

(* Bug: stop() relies on the peer's answer.                                  *)
BugSetEndPart(t) ==
    /\ at[t] = "part"
    /\ part' = "end"
    /\ Goto(t, "write")
    /\ UNCHANGED <<state, bindable, new, fast, addrs, runs, streamVars>>

SetEndPart(t) ==
    /\ at[t] = "part"
    /\ part' = "end"
    /\ Goto(t, IF FastStop(t) THEN "write" ELSE "timeout")
    /\ UNCHANGED <<state, bindable, new, fast, addrs, runs, streamVars>>

SetStopTimeout(t) ==
    /\ at[t] = "timeout"
    /\ stop_timer' = TRUE
    /\ Goto(t, "write")
    /\ UNCHANGED <<state, part, bindable, new, fast, addrs, runs,
                   stream, rx_queue, objs, out, wire>>

WriteEnd(t) ==
    /\ at[t] = "write"
    /\ WriteObj(part)
    /\ IF FastStop(t) THEN Goto(t, "xstop") ELSE Done(t)
    /\ UNCHANGED <<state, part, bindable, new, fast, addrs, runs,
                   stream, rx_queue, objs, wire, stop_timer>>

StopTheStream(t) ==
    /\ at[t] = "xstop"
    /\ StopStream
    /\ Done(t)
    /\ UNCHANGED <<state, part, bindable, new, fast, addrs, runs,
                   rx_queue, objs, wire, stop_timer>>

-----------------------------------------------------------------------------
(* Session::change_state: the old state is read and checked in one step, the *)
(* new one is assigned in a later one. For "closing" it calls stop(), which   *)
(* returns at once if it finds that state.                                   *)

(* Bug: the old state is not looked at.                                      *)
BugCheckState(t) ==
    /\ at[t] = "chg"
    /\ Goto(t, "set")
    /\ UNCHANGED <<state, part, bindable, new, fast, addrs, runs, streamVars>>

CheckState(t) ==
    /\ at[t] = "chg"
    /\ IF Accepted(state, new[t]) THEN Goto(t, "set") ELSE Done(t)
    /\ UNCHANGED <<state, part, bindable, new, fast, addrs, runs, streamVars>>

SetState(t) ==
    /\ at[t] = "set"
    /\ state' = new[t]
    /\ CASE new[t] = "connecting" -> Goto(t, "init")
         [] new[t] = "closed"     -> Goto(t, "cancel")
         [] new[t] = "closing"    -> CallStop(t)
         [] OTHER                 -> Done(t)
    /\ UNCHANGED <<part, bindable, new, fast, addrs, runs, streamVars>>

-----------------------------------------------------------------------------
(* Session::run                                                             *)

Run ==
    /\ at["run"] = "idle"
    /\ runs < MaxRun
    /\ runs' = runs + 1
    /\ Change("run", "connecting")
    /\ UNCHANGED <<state, part, bindable, fast, addrs, streamVars>>

RunInit ==
    /\ at["run"] = "init"
    /\ part' = "start"
    /\ \E n \in 0..MaxAddr : addrs' = n
    /\ Goto("run", "connect")
    /\ UNCHANGED <<state, bindable, new, fast, runs, streamVars>>

(* Bug: the loop does not look for the end of the list.                      *)
BugConnect ==
    /\ at["run"] = "connect"
    /\ addrs' = addrs - 1
    /\ \E connected \in BOOLEAN : Goto("run", IF connected THEN "xrun" ELSE "connect")
    /\ UNCHANGED <<state, part, bindable, new, fast, runs, streamVars>>

(* An address is tried: the connection is established, or fails or times    *)
(* out, which leads to the next one.                                        *)
Connect ==
    /\ at["run"] = "connect"
    /\ addrs > 0
    /\ addrs' = addrs - 1
    /\ \E connected \in BOOLEAN : Goto("run", IF connected THEN "xrun" ELSE "connect")
    /\ UNCHANGED <<state, part, bindable, new, fast, runs, streamVars>>

ConnectFailed ==
    /\ at["run"] = "connect"
    /\ addrs = 0
    /\ Change("run", "closed")
    /\ UNCHANGED <<state, part, bindable, fast, addrs, runs, streamVars>>

RunStream ==
    /\ at["run"] = "xrun"
    /\ stream' = "open"
    /\ wire' = "none"
    /\ objs' = 0
    /\ Goto("run", "header")
    /\ UNCHANGED <<state, part, bindable, new, fast, addrs, runs, rx_queue, out,
                   stop_timer>>

RunHeader ==
    /\ at["run"] = "header"
    /\ WriteObj(part)
    /\ Goto("run", "wait")
    /\ UNCHANGED <<state, part, bindable, new, fast, addrs, runs,
                   stream, rx_queue, objs, wire, stop_timer>>

(* Bug: run() leaves the state as it was.                                    *)
BugNotClosed ==
    /\ at["run"] = "wait"
    /\ stream = "ending"
    /\ at["rx"] = "idle"
    /\ stream' = "off"
    /\ out' = <<>>
    /\ stop_timer' = FALSE
    /\ Goto("run", "cancel")
    /\ UNCHANGED <<state, part, bindable, new, fast, addrs, runs, rx_queue, objs, wire>>

(* XmlStream::run returns: the rx thread was joined, the timeouts cleared.  *)
StreamEnded ==
    /\ at["run"] = "wait"
    /\ stream = "ending"
    /\ at["rx"] = "idle"
    /\ stream' = "off"
    /\ out' = <<>>
    /\ stop_timer' = FALSE
    /\ Change("run", "closed")
    /\ UNCHANGED <<state, part, bindable, fast, addrs, runs, rx_queue, objs, wire>>

CancelStopTimeout ==
    /\ at["run"] = "cancel"
    /\ stop_timer' = FALSE
    /\ Goto("run", "close")
    /\ UNCHANGED <<state, part, bindable, new, fast, addrs, runs,
                   stream, rx_queue, objs, out, wire>>

RunReturn ==
    /\ at["run"] = "close"
    /\ Goto("run", "idle")
    /\ UNCHANGED <<state, part, bindable, new, fast, addrs, runs, streamVars>>

-----------------------------------------------------------------------------
(* on_rx_xml_obj, process_xml_object and AuthModule, in the rx thread       *)

RxTake ==
    /\ at["rx"] = "idle"
    /\ stream = "open"
    /\ rx_queue # <<>>
    /\ Goto("rx", "handle")
    /\ UNCHANGED <<state, part, bindable, new, fast, addrs, runs, streamVars>>

RxReturn ==
    /\ at["rx"] = "return"
    /\ rx_queue # <<>>
    /\ rx_queue' = Tail(rx_queue)
    /\ Goto("rx", IF rx_queue' # <<>> THEN "handle" ELSE "idle")
    /\ UNCHANGED <<state, part, bindable, new, fast, addrs, runs,
                   stream, objs, out, wire, stop_timer>>

(* The rx thread is about to handle an object of this kind.                 *)
Handling(kind) == at["rx"] = "handle" /\ Head(rx_queue) = kind

OnStream ==
    /\ Handling("stream")
    /\ Change("rx", "negotiating")
    /\ UNCHANGED <<state, part, bindable, fast, addrs, runs, streamVars>>

(* A bind result means something only while negotiating.                    *)
OnBound ==
    /\ Handling("bound")
    /\ IF state = "negotiating" THEN Change("rx", "bound") ELSE Goto("rx", "bind") /\ UNCHANGED new
    /\ UNCHANGED <<state, part, bindable, fast, addrs, runs, streamVars>>

(* Features: stored, and authentication begins if it is offered.            *)
OnFeatures ==
    /\ \/ Handling("mechanisms") /\ bindable' = FALSE /\ WriteObj("other")
       \/ Handling("bind") /\ bindable' = TRUE /\ UNCHANGED out
    /\ Goto("rx", "bind")
    /\ UNCHANGED <<state, part, new, fast, addrs, runs,
                   stream, rx_queue, objs, wire, stop_timer>>

(* An IQ request no module knows is answered with an error.                 *)
OnIq ==
    /\ Handling("iq")
    /\ WriteObj("other")
    /\ Goto("rx", "bind")
    /\ UNCHANGED <<state, part, bindable, new, fast, addrs, runs,
                   stream, rx_queue, objs, wire, stop_timer>>

(* After an unhandled object: ask for a resource if that is possible.       *)
RequestBind ==
    /\ at["rx"] = "bind"
    /\ IF state = "negotiating" /\ bindable THEN WriteObj("other") ELSE UNCHANGED out
    /\ Done("rx")
    /\ UNCHANGED <<state, part, bindable, new, fast, addrs, runs,
                   stream, rx_queue, objs, wire, stop_timer>>

(* Errors, of the peer or of the stream itself, and a failed authentication. *)
OnError ==
    /\ Handling("error")
    /\ fast' = [fast EXCEPT !["rx"] = FALSE]
    /\ Goto("rx", "stop")
    /\ UNCHANGED <<state, part, bindable, new, addrs, runs, streamVars>>

(* The peer's end tag: the answer to ours, or the request to close.         *)
OnEnd ==
    /\ Handling("end")
    /\ fast' = [fast EXCEPT !["rx"] = TRUE]
    /\ IF state = "closing"
       THEN Goto("rx", "xstop") /\ UNCHANGED new
       ELSE Change("rx", "closing")
    /\ UNCHANGED <<state, part, bindable, addrs, runs, streamVars>>

OnStopTimeout ==
    /\ Handling("timeout")
    /\ Goto("rx", "xstop")
    /\ UNCHANGED <<state, part, bindable, new, fast, addrs, runs, streamVars>>

(* Session::reset: XmlStream::reset cancels the pending operations and all   *)
(* timeouts, then the stream header is sent again.                           *)
OnSuccess ==
    /\ Handling("success")
    /\ Goto("rx", "reset")
    /\ UNCHANGED <<state, part, bindable, new, fast, addrs, runs, streamVars>>

ResetStream ==
    /\ at["rx"] = "reset"
    /\ out' = <<>>
    /\ stop_timer' = FALSE
    /\ Goto("rx", "restart")
    /\ UNCHANGED <<state, part, bindable, new, fast, addrs, runs,
                   stream, rx_queue, objs, wire>>

SetStartPart ==
    /\ at["rx"] = "restart"
    /\ part' = "start"
    /\ bindable' = FALSE
    /\ Goto("rx", "rewrite")
    /\ UNCHANGED <<state, new, fast, addrs, runs, streamVars>>

WriteHeader ==
    /\ at["rx"] = "rewrite"
    /\ WriteObj(part)
    /\ Done("rx")
    /\ UNCHANGED <<state, part, bindable, new, fast, addrs, runs,
                   stream, rx_queue, objs, wire, stop_timer>>

-----------------------------------------------------------------------------
(* The application, the peer, the network and the Timer thread              *)

AppStop ==
    /\ at["app"] = "idle"
    /\ state \in StopWhen
    /\ \E f \in Fast : fast' = [fast EXCEPT !["app"] = f]
    /\ Goto("app", "stop")
    /\ UNCHANGED <<state, part, bindable, new, addrs, runs, streamVars>>

Receive ==
    /\ stream = "open"
    /\ objs < MaxObj
    /\ Len(rx_queue) < MaxRx
    /\ objs' = objs + 1
    /\ \E kind \in PeerKinds : rx_queue' = Append(rx_queue, kind)
    /\ UNCHANGED <<state, part, bindable, callVars, addrs, runs, stream, out, wire,
                   stop_timer>>

(* The connection is closed by the peer: XmlStream stops itself.            *)
Disconnect ==
    /\ stream = "open"
    /\ StopStream
    /\ UNCHANGED <<state, part, bindable, callVars, addrs, runs, rx_queue, objs,
                   wire, stop_timer>>

Transmit ==
    /\ out # <<>>
    /\ out' = Tail(out)
    /\ wire' = CASE Head(out) = "start" -> "open"
                 [] Head(out) = "end"   -> "closed"
                 [] OTHER               -> wire
    /\ UNCHANGED <<state, part, bindable, callVars, addrs, runs, stream, rx_queue,
                   objs, stop_timer>>

(* XmlStream::timer_callback delivers the timeout if the stream runs.       *)
StopTimeout ==
    /\ stop_timer
    /\ stop_timer' = FALSE
    /\ rx_queue' = IF stream = "open" THEN Append(rx_queue, "timeout") ELSE rx_queue
    /\ UNCHANGED <<state, part, bindable, callVars, addrs, runs, stream, objs, out,
                   wire>>

-----------------------------------------------------------------------------
StopCall(t)   == Stop(t) \/ StopAgain(t) \/ IsRunning(t) \/ SetEndPart(t)
                 \/ SetStopTimeout(t) \/ WriteEnd(t) \/ StopTheStream(t)
ChangeCall(t) == CheckState(t) \/ SetState(t)
RunStep       == RunInit \/ Connect \/ ConnectFailed \/ RunStream \/ RunHeader
                 \/ StreamEnded \/ CancelStopTimeout \/ RunReturn
RxStep        == RxTake \/ RxReturn \/ OnStream \/ OnBound \/ OnFeatures \/ OnIq
                 \/ RequestBind \/ OnError \/ OnEnd \/ OnStopTimeout \/ OnSuccess
                 \/ ResetStream \/ SetStartPart \/ WriteHeader
Outside       == AppStop \/ Receive \/ Disconnect \/ Transmit \/ StopTimeout

Next ==
    \/ Run \/ RunStep \/ RxStep \/ Outside
    \/ \E t \in Thread : ChangeCall(t)
    \/ \E t \in {"rx", "app"} : StopCall(t)

Spec == Init /\ [][Next]_vars

(* Threads that can go on do so, and an armed timeout expires. Nothing is    *)
(* assumed of the peer or the network.                                       *)
Fairness ==
    /\ WF_vars(RunStep \/ ChangeCall("run"))
    /\ WF_vars(RxStep \/ ChangeCall("rx") \/ StopCall("rx"))
    /\ WF_vars(ChangeCall("app") \/ StopCall("app"))
    /\ WF_vars(StopTimeout)

FairSpec == Spec /\ Fairness

-----------------------------------------------------------------------------
(* Properties                                                               *)

(* Whatever the application does in other threads: the modules execute, and   *)
(* the stream is open, only while run() is in it; and the session is          *)
(* negotiating or bound only then, or while run() is about to leave that      *)
(* state, never while it connects or after it returned.                       *)
ConnectedStates ==
    /\ at["rx"] # "idle" \/ stream # "off" => at["run"] \in {"header", "wait"}
    /\ state \in {"negotiating", "bound"} =>
          \/ at["run"] \in {"header", "wait"}
          \/ at["run"] \in {"chg", "set"} /\ new["run"] = "closed"

(* run() returns with the session closed ("run the session until it is      *)
(* closed. This call will block until the XMPP session is closed.",         *)
(* Session.hpp:60-61), and without a timeout left armed for the next one     *)
(* ("Disable stop_session timer", Session.cpp:249).                          *)
ClosedAfterRun == at["run"] = "idle" => state = "closed" /\ ~stop_timer

(* Whatever the threads do, a state follows another as                       *)
(* valid_session_state_matrix allows ("Check if the new state is accepted.", *)
(* Session.cpp:233).                                                         *)
MatrixKept == [][state' # state => Accepted(state, state')]_vars

(* The stream was restarted by <success/>, which AuthModule accepts in any    *)
(* state, after a stop() had armed its timeout and written its end tag: the   *)
(* timeout is cancelled, the header is to be written, nobody stops.            *)
Restarted ==
    /\ part = "start" /\ ~stop_timer
    /\ \A t \in Thread : at[t] \notin {"stop", "stop2", "isrun", "part", "timeout", "xstop"}

(* A session that was stopped while negotiating or bound, and is being        *)
(* closed, gets rid of its stream, answer or no answer ("Disconnect from the  *)
(* XMPP server.", Session.hpp:67), whatever the peer sends, unless that has    *)
(* restarted the stream.                                                     *)
StopEnds == (state = "closing" /\ stream = "open") ~> (stream # "open" \/ Restarted)

(* The same without exception.                                               *)
StopEndsAnyway == (state = "closing" /\ stream = "open") ~> (stream # "open")

(* stop(true) has sent the end tag when it closes the stream ("If true, send *)
(* </stream:stream> to the peer and close the socket without waiting for an  *)
(* answer.", Session.hpp:68-69).                                             *)
FastStopSendsEnd ==
    [][at["app"] = "xstop" /\ at'["app"] = "idle" /\ stream = "open" => wire = "closed"]_vars
=============================================================================
