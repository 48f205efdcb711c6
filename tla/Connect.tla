------------------------------ MODULE Connect ------------------------------
(****************************************************************************)
(* How a session gets a connection: the connect loop of Session::run        *)
(* (src/src/uxmpp/Session.cpp), SocketConnection (src/src/uxmpp/io) and the  *)
(* TLS negotiation of TlsModule (src/src/uxmpp/mod).                         *)
(*                                                                          *)
(* Four threads: "run" is in Session::run, "rx" in TlsModule, "worker" is    *)
(* the connection manager's, which executes queued operations, and "timer"   *)
(* the one that executes msg_timer callbacks. The two waits, for a           *)
(* connection and for a handshake, are alike: the waiting function has a     *)
(* semaphore and a flag `connected` in its frame, and the callback it        *)
(* registers writes the flag, then posts, whether the function is still      *)
(* waiting or not.                                                          *)
(****************************************************************************)
EXTENDS Resolver

CONSTANTS
    Worlds,      \* pairs of a configuration and a name server
    Locals,      \* addresses a socket is constructed with
    MaxRun,      \* bound on the calls of run()
    MaxProceed,  \* bound on the <proceed/> the server sends in one run
    Late         \* a callback may outlive the close() and try_wait() that
                 \* follow a timeout, and the function whose frame it uses

ASSUME ConnectAssumption ==
    /\ MaxRun \in Nat /\ MaxProceed \in Nat
    /\ Late \in BOOLEAN

Short == 0..(256 * 256 - 1)  \* 16 bit numbers: ports, priorities, weights

ASSUME WorldAssumption ==  \* what a name server answers are lists
    \A w \in Worlds :
        /\ w.cfg.port \in Short
        /\ \A query \in DOMAIN w.dns.srv :
               LET answer == w.dns.srv[query] IN
               /\ answer \in Seq(ToSet(answer))
               /\ \A r \in ToSet(answer) :
                      r.type = "SRV" => {r.prio, r.weight, r.port} \subseteq Short
        /\ \A name \in DOMAIN w.dns.host : w.dns.host[name] \in Seq(ToSet(w.dns.host[name]))

Thread == {"run", "rx", "worker", "timer"}
Wait   == {"connect", "tls"}

VARIABLES
    world,     \* the configuration and the name server
    list, pos, \* the addresses to try, and the one being tried
    at,        \* where each thread is
    frame,     \* per wait: the flag and the semaphore of the function waiting
    cb,        \* per wait: the frame the registered callback uses, 0 for none
    job,       \* the result a worker or timer thread is reporting
    msg,       \* what msg_timer will report
    sock,      \* the SocketConnection
    ops,       \* its queued operations
    net,       \* the state of its descriptor: "down", "pending", "up", "refused"
    hs,        \* the handshake: "none", "hello" sent, "answer" received
    fds, runs, proceeds, \* descriptors opened, calls of run(), <proceed/> seen
    wild       \* a callback has written to the frame of a function that returned

vars == <<world, list, pos, at, frame, cb, job, msg, sock, ops, net, hs, fds,
          runs, proceeds, wild>>
loopVars == <<world, list, pos, fds, runs, proceeds>>

NoMsg == [wait |-> "none", close |-> FALSE]
Job  == [wait : Wait, ok : BOOLEAN, frame : Nat]
Pc   == {"idle", "next", "connect", "wait", "close", "close2", "trywait",
         "stream", "end", "lastclose", "lastclose2", "return",
         "tls", "reset", "giveup", "clear", "result", "call", "write", "post"}

TypeOK ==
    /\ pos \in 0..Len(list)
    /\ at \in [Thread -> Pc]
    /\ frame \in [Wait -> [id : Nat, alive : BOOLEAN, connected : BOOLEAN, sem : Nat]]
    /\ cb \in [Wait -> Nat]
    /\ job \in [{"worker", "timer"} -> Job]
    /\ msg \in [wait : Wait \cup {"none"}, close : BOOLEAN]
    /\ sock.fd \in 0..fds /\ sock.ssl \in 0..fds
    /\ sock.connected \in BOOLEAN /\ sock.tls \in BOOLEAN
    /\ ops \subseteq Wait
    /\ net \in {"down", "pending", "up", "refused"}
    /\ hs \in {"none", "hello", "answer"}
    /\ <<runs, proceeds>> \in (0..MaxRun) \X (0..MaxProceed)
    /\ wild \in BOOLEAN

(* SocketConnection::SocketConnection, with or without an address to bind to *)
(* (an ip of 0 or a port of 0 leaves the choice to the system).              *)
Socket(bind) ==
    [fd |-> 0, connected |-> FALSE, tls |-> FALSE, ssl |-> 0,
     peer |-> bind, dgram |-> FALSE, local |-> bind,
     bind_to_local_addr |-> bind.type # "any" /\ bind.ip # 0,
     bind_to_local_port |-> bind.port # 0]

Init ==
    /\ world \in Worlds
    /\ list = <<>> /\ pos = 0
    /\ at = [t \in Thread |-> "idle"]
    /\ frame = [w \in Wait |-> [id |-> 0, alive |-> FALSE, connected |-> FALSE, sem |-> 0]]
    /\ cb = [w \in Wait |-> 0]
    /\ job = [t \in {"worker", "timer"} |-> [wait |-> "connect", ok |-> FALSE, frame |-> 0]]
    /\ msg = NoMsg
    /\ sock \in {Socket(bind) : bind \in Locals}
    /\ ops = {} /\ net = "down" /\ hs = "none"
    /\ fds = 0 /\ runs = 0 /\ proceeds = 0
    /\ wild = FALSE

Goto(t, pc) == at' = [at EXCEPT ![t] = pc]

(* No thread is executing, or about to execute, a callback.                  *)
Quiet == msg = NoMsg /\ \A t \in {"worker", "timer"} : at[t] = "idle"

(* Connection::close: the first step cancels and closes the descriptor, the  *)
(* second clears fd. Three threads call it.                                  *)
CloseFd(t, pc, next) ==
    /\ at[t] = pc
    /\ IF sock.fd = 0
       THEN Goto(t, next) /\ UNCHANGED <<ops, net, hs>>
       ELSE /\ Goto(t, IF pc = "close" THEN "close2" ELSE "lastclose2")
            /\ ops' = {} /\ net' = "down" /\ hs' = "none"
    /\ UNCHANGED <<loopVars, frame, cb, job, msg, sock, wild>>

ClearFd(t, pc, next) ==
    /\ at[t] = pc
    /\ sock' = [sock EXCEPT !.fd = 0]
    /\ Goto(t, next)
    /\ UNCHANGED <<loopVars, frame, cb, job, msg, ops, net, hs, wild>>

(* The frame of a function that waits, and the callback that refers to it.   *)
Enter(w, flag) ==
    /\ frame' = [frame EXCEPT ![w] = [id |-> @.id + 1, alive |-> TRUE,
                                      connected |-> flag, sem |-> 0]]
    /\ cb' = [cb EXCEPT ![w] = frame[w].id + 1]

(* Bug: the count is decremented whatever it is.                             *)
BugTake(w) == frame' = [frame EXCEPT ![w].sem = @ - 1]

(* Semaphore::wait with a time limit, or try_wait.                           *)
Take(w) == frame' = [frame EXCEPT ![w].sem = IF @ > 0 THEN @ - 1 ELSE 0]

-----------------------------------------------------------------------------
(* The connect loop of Session::run                                         *)

Run ==
    /\ at["run"] = "idle" /\ runs < MaxRun
    /\ runs' = runs + 1 /\ proceeds' = 0
    /\ list' \in ServerAddressLists(world.cfg, world.dns)
    /\ pos' = 0
    /\ \E uninitialized \in BOOLEAN : Enter("connect", uninitialized)
    /\ Goto("run", "next")
    /\ UNCHANGED <<world, fds, job, msg, sock, ops, net, hs, wild>>

NextAddress ==
    /\ at["run"] = "next"
    /\ IF pos = Len(list)
       THEN Goto("run", "end") /\ UNCHANGED <<list, pos, frame>>
       ELSE /\ pos' = pos + 1
            /\ list' = [list EXCEPT ![pos'] = WithPort(world.cfg, @)]
            /\ frame' = [frame EXCEPT !["connect"].connected = FALSE]
            /\ Goto("run", "connect")
    /\ UNCHANGED <<world, fds, runs, proceeds, cb, job, msg, sock, ops, net, hs, wild>>

(* The address bind_socket binds to, of the peer's family if any may do and   *)
(* with 0 for what the system chooses; its type is "any" when it binds none.   *)
BindTo(s) ==
    LET port == IF s.bind_to_local_port THEN s.local.port ELSE 0
    IN IF s.bind_to_local_addr
       THEN [type |-> s.local.type, ip |-> s.local.ip, port |-> port]
       ELSE [type |-> IF ~s.bind_to_local_port THEN "any"
                      ELSE IF s.local.type = "any" THEN s.peer.type ELSE s.local.type,
             ip |-> 0, port |-> port]

(* A socket of one family cannot be bound to an address of the other.        *)
BindFits(s) == BindTo(s).type \in {"any", s.peer.type}

(* SocketConnection::connect: what fails at once is reported by msg_timer,   *)
(* with the socket closed by then or by its callback.                        *)
Connect ==
    /\ at["run"] = "connect"
    /\ Goto("run", "wait")
    /\ LET addr == list[pos]
           s    == [sock EXCEPT !.peer = addr, !.connected = FALSE,
                                !.dgram = addr.proto \in {"udp", "dtls"}]
           Report(close) == msg' = [wait |-> "connect", close |-> close]
       IN IF sock.fd # 0  \* already connected
          THEN UNCHANGED <<fds, sock, ops, net, msg>>
          ELSE \/ /\ Report(FALSE)    \* no socket, or it cannot be bound
                  /\ sock' = s
                  /\ UNCHANGED <<fds, ops, net>>
               \/ /\ addr.type # "any" /\ BindFits(s)
                  /\ fds' = fds + 1
                  /\ sock' = [s EXCEPT !.fd = fds']
                  /\ \/ Report(TRUE) /\ net' = "refused" /\ UNCHANGED ops
                     \/ /\ ops' = {"connect"}
                        /\ net' = IF s.dgram THEN "up" ELSE "pending"
                        /\ UNCHANGED msg
    /\ UNCHANGED <<world, list, pos, runs, proceeds, frame, cb, job, hs, wild>>

(* Bug: the loop waits for the answer however long it takes.                 *)
BugWaitConnected ==
    /\ at["run"] = "wait"
    /\ frame["connect"].sem > 0
    /\ Take("connect")
    /\ Goto("run", IF frame["connect"].connected THEN "stream" ELSE "close")
    /\ UNCHANGED <<loopVars, cb, job, msg, sock, ops, net, hs, wild>>

(* sem.wait(5 seconds): the answer, or no answer and a timeout.              *)
WaitConnected ==
    /\ at["run"] = "wait"
    /\ Take("connect")
    /\ Goto("run", IF frame["connect"].sem > 0 /\ frame["connect"].connected
                   THEN "stream" ELSE "close")
    /\ UNCHANGED <<loopVars, cb, job, msg, sock, ops, net, hs, wild>>

(* Bug: an answer that came after the timeout is left in the semaphore.      *)
BugTryWait ==
    /\ at["run"] = "trywait"
    /\ Late \/ Quiet
    /\ Goto("run", "next")
    /\ UNCHANGED <<loopVars, frame, cb, job, msg, sock, ops, net, hs, wild>>

TryWait ==
    /\ at["run"] = "trywait"
    /\ Late \/ Quiet
    /\ Take("connect")
    /\ Goto("run", "next")
    /\ UNCHANGED <<loopVars, cb, job, msg, sock, ops, net, hs, wild>>

(* XmlStream::run returns when its threads have ended.                       *)
StreamEnds ==
    /\ at["run"] = "stream" /\ at["rx"] = "idle"
    /\ Goto("run", "end")
    /\ UNCHANGED <<loopVars, frame, cb, job, msg, sock, ops, net, hs, wild>>

End ==
    /\ at["run"] = "end"
    /\ cb' = [cb EXCEPT !["connect"] = 0]
    /\ Goto("run", "lastclose")
    /\ UNCHANGED <<loopVars, frame, job, msg, sock, ops, net, hs, wild>>

RunReturn ==
    /\ at["run"] = "return"
    /\ Late \/ Quiet
    /\ frame' = [frame EXCEPT !["connect"].alive = FALSE]
    /\ Goto("run", "idle")
    /\ UNCHANGED <<loopVars, cb, job, msg, sock, ops, net, hs, wild>>

RunThread ==
    \/ NextAddress \/ Connect \/ WaitConnected
    \/ CloseFd("run", "close", "trywait") \/ ClearFd("run", "close2", "trywait")
    \/ TryWait \/ End \/ RunReturn
    \/ CloseFd("run", "lastclose", "return") \/ ClearFd("run", "lastclose2", "return")

-----------------------------------------------------------------------------
(* TlsModule::process_xml_object and SocketConnection::enable_tls           *)

(* <proceed/> is handled unless TLS is enabled: all operations are cancelled *)
(* and the callback is set.                                                  *)
Proceed ==
    /\ at["run"] = "stream" /\ at["rx"] = "idle"
    /\ proceeds < MaxProceed
    /\ proceeds' = proceeds + 1
    /\ IF sock.tls
       THEN UNCHANGED <<ops, frame, cb, at>>
       ELSE ops' = {} /\ Enter("tls", FALSE) /\ Goto("rx", "tls")
    /\ UNCHANGED <<world, list, pos, fds, runs, job, msg, sock, net, hs, wild>>

EnableTls ==
    /\ at["rx"] = "tls"
    /\ Goto("rx", "wait")
    /\ LET Fails == msg' = [wait |-> "tls", close |-> FALSE]
       IN IF ~sock.connected
          THEN Fails /\ UNCHANGED <<sock, ops, hs>>
          ELSE IF sock.tls
          THEN UNCHANGED <<sock, ops, hs, msg>>
          ELSE \/ Fails /\ UNCHANGED <<sock, ops, hs>>                \* no SSL_CTX
               \/ Fails /\ sock' = [sock EXCEPT !.ssl = 0] /\ UNCHANGED <<ops, hs>>
               \/ /\ sock' = [sock EXCEPT !.ssl = sock.fd]
                  /\ ops' = ops \cup {"tls"} /\ hs' = "none"
                  /\ UNCHANGED msg
    /\ UNCHANGED <<loopVars, frame, cb, job, net, wild>>

(* Bug: that the wait ended is taken for success.                            *)
BugWaitTls ==
    /\ at["rx"] = "wait"
    /\ Take("tls")
    /\ Goto("rx", IF frame["tls"].sem > 0 THEN "reset" ELSE "giveup")
    /\ UNCHANGED <<loopVars, cb, job, msg, sock, ops, net, hs, wild>>

WaitTls ==
    /\ at["rx"] = "wait"
    /\ Take("tls")
    /\ Goto("rx", IF frame["tls"].sem > 0 /\ frame["tls"].connected
                  THEN "reset" ELSE "giveup")
    /\ UNCHANGED <<loopVars, cb, job, msg, sock, ops, net, hs, wild>>

(* The session is reset over the encrypted connection, or, after a second    *)
(* look at the semaphore, stopped.                                           *)
AfterTls ==
    /\ \/ at["rx"] = "reset" /\ UNCHANGED frame
       \/ at["rx"] = "giveup" /\ (Late \/ Quiet) /\ Take("tls")
    /\ Goto("rx", "clear")
    /\ UNCHANGED <<loopVars, cb, job, msg, sock, ops, net, hs, wild>>

ClearTlsCb ==
    /\ at["rx"] = "clear"
    /\ cb' = [cb EXCEPT !["tls"] = 0]
    /\ Goto("rx", "return")
    /\ UNCHANGED <<loopVars, frame, job, msg, sock, ops, net, hs, wild>>

TlsReturn ==
    /\ at["rx"] = "return"
    /\ Late \/ Quiet
    /\ frame' = [frame EXCEPT !["tls"].alive = FALSE]
    /\ Goto("rx", "idle")
    /\ UNCHANGED <<loopVars, cb, job, msg, sock, ops, net, hs, wild>>

RxThread == EnableTls \/ WaitTls \/ AfterTls \/ ClearTlsCb \/ TlsReturn

-----------------------------------------------------------------------------
(* The worker: results of connect() and of the handshake                    *)

(* The zero byte write of connect() is executed when the descriptor is       *)
(* writable, that of enable_tls and its successors when there is progress.   *)
Execute ==
    /\ at["worker"] = "idle"
    /\ "connect" \in ops /\ net \in {"up", "refused"}
    /\ ops' = ops \ {"connect"}
    /\ Goto("worker", "result")
    /\ UNCHANGED <<loopVars, frame, cb, job, msg, sock, net, hs, wild>>

SetJob(t, w, ok) == job' = [job EXCEPT ![t] = [wait |-> w, ok |-> ok, frame |-> 0]]

(* Bug: SO_ERROR is not looked at.                                           *)
BugHandleConnectionResult ==
    /\ at["worker"] = "result"
    /\ IF sock.fd = 0
       THEN /\ sock' = [sock EXCEPT !.connected = FALSE]
            /\ SetJob("worker", "connect", FALSE) /\ Goto("worker", "close")
       ELSE /\ sock' = [sock EXCEPT !.connected = TRUE]
            /\ SetJob("worker", "connect", TRUE) /\ Goto("worker", "call")
    /\ UNCHANGED <<loopVars, frame, cb, msg, ops, net, hs, wild>>

(* A descriptor still being connected has no error either.                   *)
HandleConnectionResult ==
    /\ at["worker"] = "result"
    /\ IF sock.fd = 0 \/ net \in {"refused", "down"}
       THEN /\ sock' = [sock EXCEPT !.connected = FALSE]
            /\ SetJob("worker", "connect", FALSE) /\ Goto("worker", "close")
       ELSE /\ sock' = [sock EXCEPT !.connected = TRUE,
                          !.local = [type |-> sock.peer.type, ip |-> 1, port |-> 1]]
            /\ SetJob("worker", "connect", TRUE) /\ Goto("worker", "call")
    /\ UNCHANGED <<loopVars, frame, cb, msg, ops, net, hs, wild>>

(* SSL_connect wants more, and another operation is queued, or it is done.    *)
HandleTlsConnectionResult ==
    /\ at["worker"] = "idle" /\ "tls" \in ops /\ net = "up"
    /\ \/ /\ hs = "none" /\ hs' = "hello"
          /\ UNCHANGED <<at, job, ops, sock>>
       \/ /\ hs = "answer"
          /\ ops' = ops \ {"tls"}
          /\ SetJob("worker", "tls", TRUE) /\ Goto("worker", "call")
          /\ UNCHANGED <<sock, hs>>
       \/ /\ ops' = ops \ {"tls"}
          /\ sock' = [sock EXCEPT !.ssl = 0]
          /\ SetJob("worker", "tls", FALSE) /\ Goto("worker", "call")
          /\ UNCHANGED hs
    /\ UNCHANGED <<loopVars, frame, cb, msg, net, wild>>

(* msg_timer expires.                                                        *)
MsgTimer ==
    /\ at["timer"] = "idle" /\ msg # NoMsg
    /\ SetJob("timer", msg.wait, FALSE)
    /\ Goto("timer", IF msg.close THEN "close" ELSE "call")
    /\ msg' = NoMsg
    /\ UNCHANGED <<loopVars, frame, cb, sock, ops, net, hs, wild>>

(* The callback, if there is one, is called; that of a finished handshake     *)
(* has TLS enabled first.                                                    *)
Call(t) ==
    /\ at[t] = "call"
    /\ LET w == job[t].wait
       IN IF cb[w] = 0
          THEN Goto(t, "idle") /\ UNCHANGED <<job, sock>>
          ELSE /\ Goto(t, "write")
               /\ job' = [job EXCEPT ![t].frame = cb[w]]
               /\ sock' = IF w = "tls" /\ job[t].ok THEN [sock EXCEPT !.tls = TRUE] ELSE sock
    /\ UNCHANGED <<loopVars, frame, cb, msg, ops, net, hs, wild>>

Reaches(t) ==
    LET f == frame[job[t].wait] IN f.alive /\ f.id = job[t].frame

(* connected = ...; sem.post (), in a frame that may be gone.                 *)
WriteFlag(t) ==
    /\ at[t] = "write"
    /\ Goto(t, "post")
    /\ IF Reaches(t)
       THEN /\ frame' = [frame EXCEPT ![job[t].wait].connected = job[t].ok]
            /\ UNCHANGED wild
       ELSE wild' = TRUE /\ UNCHANGED frame
    /\ UNCHANGED <<loopVars, cb, job, msg, sock, ops, net, hs>>

Post(t) ==
    /\ at[t] = "post"
    /\ Goto(t, "idle")
    /\ IF Reaches(t)
       THEN /\ frame' = [frame EXCEPT ![job[t].wait].sem = @ + 1]
            /\ UNCHANGED wild
       ELSE wild' = TRUE /\ UNCHANGED frame
    /\ UNCHANGED <<loopVars, cb, job, msg, sock, ops, net, hs>>

Answering(t) ==
    \/ CloseFd(t, "close", "call") \/ ClearFd(t, "close2", "call")
    \/ Call(t) \/ WriteFlag(t) \/ Post(t)

WorkerThread == HandleConnectionResult \/ Answering("worker")
TimerThread  == MsgTimer \/ Answering("timer")

-----------------------------------------------------------------------------
(* The network and the server                                               *)

Network ==
    /\ \/ net = "pending" /\ net' \in {"up", "refused"} /\ UNCHANGED hs
       \/ hs = "hello" /\ hs' = "answer" /\ UNCHANGED net
    /\ UNCHANGED <<loopVars, at, frame, cb, job, msg, sock, ops, wild>>

(* XmlStream::stop in another thread cancels what is queued.                  *)
StopStream ==
    /\ at["run"] = "stream" /\ ops # {}
    /\ ops' = {}
    /\ UNCHANGED <<loopVars, at, frame, cb, job, msg, sock, net, hs, wild>>

Next == RunThread \/ RxThread \/ WorkerThread \/ TimerThread
        \/ Run \/ StreamEnds \/ Proceed \/ Execute \/ HandleTlsConnectionResult
        \/ Network \/ StopStream

(* The threads run. No fairness for the network, nor for the end of streams.  *)
Spec == Init /\ [][Next]_vars
        /\ WF_vars(RunThread) /\ WF_vars(RxThread)
        /\ WF_vars(WorkerThread) /\ WF_vars(TimerThread)

-----------------------------------------------------------------------------
(* Properties                                                               *)

(* The SRV records an address may come from.                                  *)
RecordsOf(a) ==
    LET query == <<"xmpp-client", a.proto, Server(world.cfg)>>
    IN IF query \in DOMAIN world.dns.srv
       THEN {r \in ToSet(world.dns.srv[query]) : r.type = "SRV" /\ r.target = a.hostname}
       ELSE {}

(* The addresses are tried in the order of the SRV records' priorities and,   *)
(* for one priority, the heavier first; they all use one protocol, and the     *)
(* port of the next one is, in network byte order, the configured one, that of *)
(* its record, or 5222 (lookup_srv, get_server_address_list and run).          *)
AddressOrder ==
    LET ListedAfter(i, j) == \E r \in RecordsOf(list[i]), q \in RecordsOf(list[j]) :
                                r.prio < q.prio \/ (r.prio = q.prio /\ r.weight >= q.weight)
        port == Htons(list[pos].port)
    IN /\ \A i, j \in DOMAIN list :
             /\ list[i].proto = list[j].proto
             /\ i < j /\ RecordsOf(list[i]) # {} => ListedAfter(i, j)
       /\ at["run"] = "connect" =>
             IF world.cfg.port # 0 THEN port = world.cfg.port
             ELSE port = 5222 \/ \E r \in RecordsOf(list[pos]) : port = r.port

(* run() opens the stream only on a socket that is connected to the address   *)
(* being tried: no answer for another address, and none given early, is taken *)
(* for its answer.                                                           *)
OpenedConnected ==
    [][at["run"] = "wait" /\ at'["run"] = "stream" =>
         sock.fd # 0 /\ sock.connected /\ net = "up" /\ sock.peer = list[pos]]_vars

(* An answer that waits in the semaphore is for the attempt in progress: it    *)
(* comes once, none is left when the next address is tried, and a failure is   *)
(* reported only when the socket of the attempt is closed, which is why run()  *)
(* may go on to the next address without closing an attempt that could still   *)
(* succeed ("Timeout or connection failed", Session.cpp:162).                 *)
AnswerOfAttempt ==
    /\ frame["connect"].sem <= 1
    /\ at["run"] \in {"next", "connect"} => frame["connect"].sem = 0
    /\ at["run"] = "wait" /\ frame["connect"].sem > 0 /\ ~frame["connect"].connected =>
         sock.fd = 0

(* TlsModule resets the session only when the handshake on this connection    *)
(* has finished and everything written from then on is encrypted. The server   *)
(* sends one <proceed/> in a run: a second could be given the late answer to a *)
(* first handshake that TlsModule gave up.                                    *)
ResetEncrypted ==
    [][at["rx"] = "wait" /\ at'["rx"] = "reset" =>
         sock.tls /\ sock.ssl = sock.fd /\ hs = "answer"]_vars

(* Neither wait blocks its thread for ever, whatever the network does and      *)
(* whether or not the callback comes.                                        *)
WaitsEnd ==
    /\ (at["run"] \in {"next", "connect", "wait", "close", "trywait"})
          ~> (at["run"] \in {"stream", "idle"})
    /\ (at["rx"] # "idle") ~> (at["rx"] = "idle")

(* SocketConnection.hpp:143: is_tls_enabled is true when TLS is enabled: there *)
(* is a TLS session with the peer the socket is connected to.                 *)
TlsEnabled == sock.tls /\ at["run"] = "stream" => sock.ssl = sock.fd

(* A callback writes only to the frame of a function that has not returned.   *)
FrameAlive == ~wild
=============================================================================
