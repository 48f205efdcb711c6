------------------------------ MODULE XmlStream ------------------------------
(****************************************************************************)
(* XmlStream, the duplex XML stream of a session                            *)
(* (src/src/uxmpp/XmlStream.cpp).                                           *)
(*                                                                          *)
(* Five threads meet in it:                                                 *)
(*   - the session thread is blocked in XmlStream::run      (run_pc)        *)
(*   - the rx thread hands received objects to the client   (rx_pc)         *)
(*   - the ConnectionManager worker completes operations and               *)
(*     calls rx_callback and tx_callback                    (worker)        *)
(*   - the Timer thread calls timer_callback                (timer)         *)
(*   - any thread calls write, stop, set_timeout, cancel_timeout; the       *)
(*     client's callback, in the rx thread, also calls reset (reset_pc), and *)
(*     cancels what the connection is doing.                                *)
(*                                                                          *)
(* One action is one critical section, or the code between two of them.     *)
(* rx_conn and tx_conn are one Connection, as Session passes its socket     *)
(* twice; its operation queues are those of ConnectionManager.              *)
(****************************************************************************)
EXTENDS Naturals, Sequences, FiniteSets

CONSTANTS
    Buf,      \* addresses a serialized object can have: the keys of tx_buffers
    NoBuf,    \* no address
    TimerId,  \* names of timeouts
    PeerObj,  \* XML objects the peer can send
    MaxRun,   \* bound on the calls of run()
    MaxRx     \* bound on the objects waiting in rx_queue

ASSUME StreamAssumption ==
    /\ NoBuf \notin Buf
    /\ MaxRun \in Nat
    /\ MaxRx \in Nat \ {0}

VARIABLES
    running,      \* XmlStream::running, guarded by rx_cond_mutex
    run_pc,       \* where the session thread is in run()
    run,          \* how many times run() was entered (numbers the runs)
    reset_pc,     \* where the thread executing reset() is
    rx_pc,        \* where the rx thread is in rx_queue_thread_func
    rx_queue,     \* objects received and not yet handed to the client
    parse_error,  \* XmlInputStream ignores its input after a parse error
    tx_buffers,   \* serialized objects kept alive until they are written
    tx_op,        \* the connection's queued write operations
    rx_op,        \* the connection's queued read operations
    cancelled,    \* ConnectionInfo::cancel_in_callback
    worker,       \* the ConnectionManager worker: callback it is in
    timers,       \* keys of XmlStream::timers
    armed,        \* the timers that are scheduled
    timer         \* the Timer thread: callback it is in

runVars   == <<running, run_pc, run>>
ioVars    == <<tx_op, rx_op, cancelled>>
timerVars == <<timers, armed, timer>>
vars == <<running, run_pc, run, reset_pc, rx_pc, rx_queue, parse_error,
          tx_buffers, tx_op, rx_op, cancelled, worker, timers, armed, timer>>

ObjKind == {"xml", "timeout", "rx-error", "tx-error", "parse-error"}

(* Received objects, stamped with the run in which they were queued.        *)
Obj == [kind : ObjKind, id : PeerObj \cup TimerId \cup {"none"}, run : Nat]

(* A write operation: its buffer, and the callback the connection had when   *)
(* it was queued (the callback is bound at that moment). Of a read operation *)
(* only the callback is kept: all share rx_buf.                              *)
TxOp == [buf : Buf, cb : {"stream", "none"}]

TxPc == {"tx_callback", "tx_check", "tx_end"}
RxPc == {"rx_callback", "rx_parse", "rx_end"}

ThreadTypes ==
    /\ running \in BOOLEAN
    /\ run_pc \in {"idle", "set_cb", "write", "read", "join", "drain", "reset", "clear"}
    /\ reset_pc \in {"none", "check", "read"}
    /\ rx_pc \in {"off", "wait", "callback", "done"}
    /\ parse_error \in BOOLEAN
    /\ cancelled \in BOOLEAN

QueueTypes ==
    /\ rx_queue \in Seq(Obj)
    /\ tx_buffers \subseteq Buf
    /\ tx_op \in Seq(TxOp)
    /\ rx_op \in Seq({"stream", "none"})

CallbackTypes ==
    /\ worker \in [pc  : {"idle"} \cup TxPc \cup RxPc,
                   res : {"none", "ok", "error", "eof"},
                   buf : Buf \cup {NoBuf}]
    /\ timers \subseteq TimerId
    /\ armed \subseteq TimerId
    /\ timer \in [pc : {"idle", "lookup", "push"}, id : TimerId \cup {"none"}]

TypeOK == run \in Nat /\ ThreadTypes /\ QueueTypes /\ CallbackTypes

Idle      == [pc |-> "idle", res |-> "none", buf |-> NoBuf]
TimerIdle == [pc |-> "idle", id |-> "none"]

Init ==
    /\ running = FALSE
    /\ run_pc = "idle"
    /\ run = 0
    /\ reset_pc = "none"
    /\ rx_pc = "off"
    /\ rx_queue = <<>>
    /\ parse_error = FALSE
    /\ tx_buffers = {}
    /\ tx_op = <<>>
    /\ rx_op = <<>>
    /\ cancelled = FALSE
    /\ worker = Idle
    /\ timers = {}
    /\ armed = {}
    /\ timer = TimerIdle

-----------------------------------------------------------------------------
(* Shared pieces                                                            *)

(* XmlStream::mutex: run() holds it until it joins the rx thread, reset()    *)
(* holds it throughout.                                                      *)
MutexFree == run_pc \notin {"set_cb", "write", "read"} /\ reset_pc = "none"

(* The connection callbacks are set between set_cb and the final reset.      *)
Callback == IF run_pc \in {"write", "read", "join", "drain"} THEN "stream" ELSE "none"

(* The handler XmlInputStream calls for each object: dropped unless running. *)
Deliver(kind, id) ==
    IF running
    THEN /\ Len(rx_queue) < MaxRx
         /\ rx_queue' = Append(rx_queue, [kind |-> kind, id |-> id, run |-> run])
    ELSE UNCHANGED rx_queue

(* ConnectionManager::cancel: both operation queues are emptied.             *)
CancelIo ==
    /\ tx_op' = <<>>
    /\ rx_op' = <<>>
    /\ cancelled' = TRUE

(* Bugs: write() without the test of running, and with a failed allocation.  *)
BugWriteAnyway ==
    /\ run_pc # "idle"
    /\ \E b \in Buf \ tx_buffers :
          /\ tx_buffers' = tx_buffers \cup {b}
          /\ tx_op' = Append(tx_op, [buf |-> b, cb |-> Callback])
    /\ UNCHANGED <<rx_op, cancelled>>
BugWriteNull ==
    /\ running
    /\ \E b \in (Buf \cup {NoBuf}) \ tx_buffers :
          /\ tx_buffers' = tx_buffers \cup {b}
          /\ tx_op' = Append(tx_op, [buf |-> b, cb |-> Callback])
    /\ UNCHANGED <<rx_op, cancelled>>

(* XmlStream::write on a running stream: the buffer is kept in tx_buffers    *)
(* and its write operation is queued, both under rx_cond_mutex.              *)
QueueWrite ==
    /\ running
    /\ \E b \in Buf \ tx_buffers :
          /\ tx_buffers' = tx_buffers \cup {b}
          /\ tx_op' = Append(tx_op, [buf |-> b, cb |-> Callback])
    /\ UNCHANGED <<rx_op, cancelled>>

(* XmlStream::stop.                                                          *)
StopStream ==
    IF running
    THEN running' = FALSE /\ CancelIo
    ELSE UNCHANGED <<running, tx_op, rx_op, cancelled>>

-----------------------------------------------------------------------------
(* XmlStream::run, the session thread                                       *)

RunStart ==
    /\ run_pc = "idle"
    /\ run < MaxRun
    /\ ~running
    /\ MutexFree
    /\ run' = run + 1
    /\ running' = TRUE
    /\ parse_error' = FALSE
    /\ rx_pc' = "wait"
    /\ run_pc' = "set_cb"
    /\ UNCHANGED <<reset_pc, rx_queue, tx_buffers, ioVars, worker, timerVars>>

RunSetCb ==
    /\ run_pc = "set_cb"
    /\ run_pc' = "write"
    /\ UNCHANGED <<running, run, reset_pc, rx_pc, rx_queue, parse_error,
                   tx_buffers, ioVars, worker, timerVars>>

(* The initial object: ignored if the stream was stopped in the meantime.    *)
RunWrite ==
    /\ run_pc = "write"
    /\ IF running THEN QueueWrite ELSE UNCHANGED <<tx_buffers, ioVars>>
    /\ run_pc' = "read"
    /\ UNCHANGED <<running, run, reset_pc, rx_pc, rx_queue, parse_error,
                   worker, timerVars>>

RunRead ==
    /\ run_pc = "read"
    /\ rx_op' = Append(rx_op, Callback)
    /\ run_pc' = "join"
    /\ UNCHANGED <<running, run, reset_pc, rx_pc, rx_queue, parse_error,
                   tx_buffers, tx_op, cancelled, worker, timerVars>>

(* Bug: run() does not wait for the rx thread, but detaches it.              *)
BugRunJoin ==
    /\ run_pc = "join"
    /\ ~running
    /\ MutexFree
    /\ run_pc' = "drain"
    /\ UNCHANGED <<running, run, reset_pc, rx_pc, rx_queue, parse_error, tx_buffers,
                   ioVars, worker, timerVars>>

RunJoin ==
    /\ run_pc = "join"
    /\ rx_pc = "done"
    /\ MutexFree
    /\ rx_pc' = "off"
    /\ run_pc' = "drain"
    /\ UNCHANGED <<running, run, reset_pc, rx_queue, parse_error, tx_buffers,
                   ioVars, worker, timerVars>>

(* Bug: run() does not wait for the buffers in use.                          *)
BugRunDrained ==
    /\ run_pc = "drain"
    /\ MutexFree
    /\ run_pc' = "reset"
    /\ UNCHANGED <<running, run, reset_pc, rx_pc, rx_queue, parse_error,
                   tx_buffers, ioVars, worker, timerVars>>

(* The polling loop over tx_buffers ends and the callbacks are removed.      *)
RunDrained ==
    /\ run_pc = "drain"
    /\ tx_buffers = {}
    /\ MutexFree
    /\ run_pc' = "reset"
    /\ UNCHANGED <<running, run, reset_pc, rx_pc, rx_queue, parse_error,
                   tx_buffers, ioVars, worker, timerVars>>

RunClear ==
    /\ run_pc = "clear"
    /\ MutexFree
    /\ tx_buffers' = {}
    /\ run_pc' = "idle"
    /\ UNCHANGED <<running, run, reset_pc, rx_pc, rx_queue, parse_error,
                   ioVars, worker, timerVars>>

-----------------------------------------------------------------------------
(* XmlStream::reset, called by the client's callback in the rx thread and   *)
(* by run() itself once the stream has ended                                *)

(* Bug: reset() leaves the pending operations alone.                         *)
BugResetClear ==
    /\ rx_pc = "callback" \/ run_pc = "reset"
    /\ MutexFree
    /\ parse_error' = FALSE
    /\ timers' = {}
    /\ armed' = armed \ timers
    /\ reset_pc' = "check"
    /\ UNCHANGED <<runVars, rx_pc, rx_queue, tx_buffers, ioVars, worker, timer>>

ResetClear ==
    /\ rx_pc = "callback" \/ run_pc = "reset"
    /\ MutexFree
    /\ parse_error' = FALSE
    /\ CancelIo
    /\ timers' = {}
    /\ armed' = armed \ timers
    /\ reset_pc' = "check"
    /\ UNCHANGED <<runVars, rx_pc, rx_queue, tx_buffers, worker, timer>>

(* The end of reset(): the caller goes on.                                   *)
ResetReturn ==
    /\ reset_pc' = "none"
    /\ run_pc' = IF run_pc = "reset" THEN "clear" ELSE run_pc

(* Connection::cancel called by the client's callback: TlsModule does so      *)
(* before it negotiates, and resets or stops the session up to five seconds  *)
(* later. Until then the stream runs and reads nothing.                      *)
CancelConnection ==
    /\ rx_pc = "callback"
    /\ reset_pc = "none"
    /\ CancelIo
    /\ UNCHANGED <<runVars, reset_pc, rx_pc, rx_queue, parse_error, tx_buffers,
                   worker, timerVars>>

(* "if (running)": read outside rx_cond_mutex, acted on later.               *)
ResetCheck ==
    /\ reset_pc = "check"
    /\ IF running
       THEN reset_pc' = "read" /\ UNCHANGED run_pc
       ELSE ResetReturn
    /\ UNCHANGED <<running, run, rx_pc, rx_queue, parse_error, tx_buffers,
                   ioVars, worker, timerVars>>

ResetRead ==
    /\ reset_pc = "read"
    /\ rx_op' = Append(rx_op, Callback)
    /\ ResetReturn
    /\ UNCHANGED <<running, run, rx_pc, rx_queue, parse_error, tx_buffers,
                   tx_op, cancelled, worker, timerVars>>

-----------------------------------------------------------------------------
(* rx_queue_thread_func, the rx thread                                      *)

(* Bug: a woken rx thread does not test running again.                       *)
BugRxTake ==
    /\ rx_pc = "wait"
    /\ rx_queue # <<>>
    /\ rx_pc' = "callback"
    /\ UNCHANGED <<runVars, reset_pc, rx_queue, parse_error, tx_buffers,
                   ioVars, worker, timerVars>>

RxTake ==
    /\ rx_pc = "wait"
    /\ running
    /\ rx_queue # <<>>
    /\ rx_pc' = "callback"
    /\ UNCHANGED <<runVars, reset_pc, rx_queue, parse_error, tx_buffers,
                   ioVars, worker, timerVars>>

(* The client's callback has returned: pop, and take the next object without *)
(* looking at running.                                                       *)
RxReturn ==
    /\ rx_pc = "callback"
    /\ reset_pc = "none"
    /\ rx_queue # <<>>
    /\ rx_queue' = Tail(rx_queue)
    /\ rx_pc' = IF Tail(rx_queue) # <<>> THEN "callback" ELSE "wait"
    /\ UNCHANGED <<runVars, reset_pc, parse_error, tx_buffers, ioVars, worker,
                   timerVars>>

(* Bug: a stopped rx thread waits for the rest of the queue.                 *)
BugRxExit ==
    /\ rx_pc = "wait"
    /\ ~running
    /\ rx_queue = <<>>
    /\ rx_pc' = "done"
    /\ UNCHANGED <<runVars, reset_pc, rx_queue, parse_error, tx_buffers,
                   ioVars, worker, timerVars>>

RxExit ==
    /\ rx_pc = "wait"
    /\ ~running
    /\ rx_pc' = "done"
    /\ UNCHANGED <<runVars, reset_pc, rx_queue, parse_error, tx_buffers,
                   ioVars, worker, timerVars>>

-----------------------------------------------------------------------------
(* The client, in any thread                                                *)

Write ==
    /\ QueueWrite
    /\ UNCHANGED <<runVars, reset_pc, rx_pc, rx_queue, parse_error, worker,
                   timerVars>>

Stop ==
    /\ running
    /\ StopStream
    /\ UNCHANGED <<run_pc, run, reset_pc, rx_pc, rx_queue, parse_error,
                   tx_buffers, worker, timerVars>>

SetTimeout(id) ==
    /\ MutexFree
    /\ timers' = timers \cup {id}
    /\ armed' = armed \cup {id}
    /\ UNCHANGED <<runVars, reset_pc, rx_pc, rx_queue, parse_error,
                   tx_buffers, ioVars, worker, timer>>

CancelTimeout(id) ==
    /\ MutexFree
    /\ timers' = timers \ {id}
    /\ armed' = armed \ {id}
    /\ UNCHANGED <<runVars, reset_pc, rx_pc, rx_queue, parse_error,
                   tx_buffers, ioVars, worker, timer>>

-----------------------------------------------------------------------------
(* The ConnectionManager worker and the two connection callbacks            *)

(* ConnectionManager::handle_poll_io: the operation at the head was executed *)
(* and its callback is called with map_mutex released.                       *)
TxResult ==
    /\ worker.pc = "idle"
    /\ tx_op # <<>>
    /\ tx_op[1].cb = "stream"
    /\ \E r \in {"ok", "error", "eof"} :
          worker' = [pc |-> "tx_callback", res |-> r, buf |-> tx_op[1].buf]
    /\ cancelled' = FALSE
    /\ UNCHANGED <<runVars, reset_pc, rx_pc, rx_queue, parse_error,
                   tx_buffers, tx_op, rx_op, timerVars>>

(* An operation queued without a callback is popped at once, unless the      *)
(* cancel flag still is set from an earlier cancel.                          *)
TxResultNoCb ==
    /\ worker.pc = "idle"
    /\ tx_op # <<>>
    /\ tx_op[1].cb = "none"
    /\ tx_op' = IF cancelled THEN tx_op ELSE Tail(tx_op)
    /\ UNCHANGED <<runVars, reset_pc, rx_pc, rx_queue, parse_error,
                   tx_buffers, rx_op, cancelled, worker, timerVars>>

(* tx_callback frees the buffer it is called with.                           *)
TxCallback ==
    /\ worker.pc = "tx_callback"
    /\ tx_buffers' = tx_buffers \ {worker.buf}
    /\ worker' = [worker EXCEPT !.pc = "tx_check"]
    /\ UNCHANGED <<runVars, reset_pc, rx_pc, rx_queue, parse_error, ioVars,
                   timerVars>>

TxCheck ==
    /\ worker.pc = "tx_check"
    /\ worker' = [worker EXCEPT !.pc = "tx_end"]
    /\ CASE worker.res = "error" -> /\ Deliver("tx-error", "none")
                                    /\ UNCHANGED <<running, ioVars>>
         [] worker.res = "eof"   -> StopStream /\ UNCHANGED rx_queue
         [] OTHER                -> UNCHANGED <<running, ioVars, rx_queue>>
    /\ UNCHANGED <<run_pc, run, reset_pc, rx_pc, parse_error, tx_buffers,
                   timerVars>>

(* Back in handle_poll_io: pop unless the queue was cancelled meanwhile.     *)
TxEnd ==
    /\ worker.pc = "tx_end"
    /\ worker' = Idle
    /\ tx_op' = IF tx_op # <<>> /\ ~cancelled THEN Tail(tx_op) ELSE tx_op
    /\ UNCHANGED <<runVars, reset_pc, rx_pc, rx_queue, parse_error,
                   tx_buffers, rx_op, cancelled, timerVars>>

RxResult ==
    /\ worker.pc = "idle"
    /\ rx_op # <<>>
    /\ rx_op[1] = "stream"
    /\ \E r \in {"ok", "error", "eof"} :
          worker' = [pc |-> "rx_callback", res |-> r, buf |-> NoBuf]
    /\ cancelled' = FALSE
    /\ UNCHANGED <<runVars, reset_pc, rx_pc, rx_queue, parse_error,
                   tx_buffers, tx_op, rx_op, timerVars>>

RxResultNoCb ==
    /\ worker.pc = "idle"
    /\ rx_op # <<>>
    /\ rx_op[1] = "none"
    /\ rx_op' = IF cancelled THEN rx_op ELSE Tail(rx_op)
    /\ UNCHANGED <<runVars, reset_pc, rx_pc, rx_queue, parse_error,
                   tx_buffers, tx_op, cancelled, worker, timerVars>>

(* rx_callback: on data the next read is queued before the data is parsed.   *)
RxCallback ==
    /\ worker.pc = "rx_callback"
    /\ \/ /\ worker.res = "ok"
          /\ rx_op' = Append(rx_op, Callback)
          /\ worker' = [worker EXCEPT !.pc = "rx_parse"]
          /\ UNCHANGED <<running, rx_queue, tx_op, cancelled>>
       \/ /\ worker.res = "error"
          /\ Deliver("rx-error", "none")
          /\ worker' = [worker EXCEPT !.pc = "rx_end"]
          /\ UNCHANGED <<running, ioVars>>
       \/ /\ worker.res = "eof"
          /\ StopStream
          /\ worker' = [worker EXCEPT !.pc = "rx_end"]
          /\ UNCHANGED rx_queue
    /\ UNCHANGED <<run_pc, run, reset_pc, rx_pc, parse_error, tx_buffers,
                   timerVars>>

(* XML_Parse completes an object, or fails, or has consumed its input.       *)
RxParse ==
    /\ worker.pc = "rx_parse"
    /\ \/ /\ ~parse_error
          /\ \E o \in PeerObj : Deliver("xml", o)
          /\ UNCHANGED <<parse_error, worker>>
       \/ /\ ~parse_error
          /\ parse_error' = TRUE
          /\ Deliver("parse-error", "none")
          /\ worker' = [worker EXCEPT !.pc = "rx_end"]
       \/ /\ worker' = [worker EXCEPT !.pc = "rx_end"]
          /\ UNCHANGED <<parse_error, rx_queue>>
    /\ UNCHANGED <<runVars, reset_pc, rx_pc, tx_buffers, ioVars, timerVars>>

(* Bug: the head is removed although the queue was cancelled.                *)
BugRxEnd ==
    /\ worker.pc = "rx_end"
    /\ worker' = Idle
    /\ rx_op' = IF rx_op # <<>> THEN Tail(rx_op) ELSE rx_op
    /\ UNCHANGED <<runVars, reset_pc, rx_pc, rx_queue, parse_error,
                   tx_buffers, tx_op, cancelled, timerVars>>

(* The callback has returned: the head is removed unless the queue was       *)
(* cancelled in the meantime.                                                *)
RxEnd ==
    /\ worker.pc = "rx_end"
    /\ worker' = Idle
    /\ rx_op' = IF rx_op # <<>> /\ ~cancelled THEN Tail(rx_op) ELSE rx_op
    /\ UNCHANGED <<runVars, reset_pc, rx_pc, rx_queue, parse_error,
                   tx_buffers, tx_op, cancelled, timerVars>>

-----------------------------------------------------------------------------
(* timer_callback, the Timer thread                                         *)

TimerExpire ==
    /\ timer.pc = "idle"
    /\ \E id \in armed :
          /\ armed' = armed \ {id}
          /\ timer' = [pc |-> "lookup", id |-> id]
    /\ UNCHANGED <<runVars, reset_pc, rx_pc, rx_queue, parse_error,
                   tx_buffers, ioVars, worker, timers>>

TimerLookup ==
    /\ timer.pc = "lookup"
    /\ MutexFree
    /\ timer' = IF timer.id \in timers THEN [timer EXCEPT !.pc = "push"] ELSE TimerIdle
    /\ UNCHANGED <<runVars, reset_pc, rx_pc, rx_queue, parse_error,
                   tx_buffers, ioVars, worker, timers, armed>>

TimerPush ==
    /\ timer.pc = "push"
    /\ Deliver("timeout", timer.id)
    /\ timer' = TimerIdle
    /\ UNCHANGED <<runVars, reset_pc, rx_pc, parse_error, tx_buffers, ioVars,
                   worker, timers, armed>>

-----------------------------------------------------------------------------
RunThread   == RunStart \/ RunSetCb \/ RunWrite \/ RunRead \/ RunJoin
               \/ RunDrained \/ RunClear
ResetCall   == ResetClear \/ ResetCheck \/ ResetRead
RxThread    == RxTake \/ RxReturn \/ RxExit \/ CancelConnection
Client      == Write \/ Stop \/ \E id \in TimerId : SetTimeout(id) \/ CancelTimeout(id)
Worker      == TxResult \/ TxResultNoCb \/ TxCallback \/ TxCheck \/ TxEnd
               \/ RxResult \/ RxResultNoCb \/ RxCallback \/ RxParse \/ RxEnd
TimerThread == TimerExpire \/ TimerLookup \/ TimerPush

Next == RunThread \/ ResetCall \/ RxThread \/ Client \/ Worker \/ TimerThread

Spec == Init /\ [][Next]_vars

(* The operating system runs every thread that is ready, the client's        *)
(* callback returns, and the worker completes the callback it is in. Nothing *)
(* is assumed of the peer: that an operation ever completes.                 *)
Fairness ==
    /\ WF_vars(RunSetCb \/ RunWrite \/ RunRead \/ RunJoin \/ RunDrained \/ RunClear)
    /\ WF_vars(run_pc = "reset" /\ ResetClear)
    /\ WF_vars(ResetCheck \/ ResetRead)
    /\ SF_vars(RxReturn)
    /\ WF_vars(RxTake \/ RxExit)
    /\ WF_vars(TxCallback \/ TxCheck \/ TxEnd \/ RxCallback \/ RxEnd)
    /\ WF_vars(TimerLookup \/ TimerPush)

FairSpec == Spec /\ Fairness

-----------------------------------------------------------------------------
(* Properties                                                               *)

(* The operations whose execution has not begun: while the worker is in a    *)
(* callback, the head of that queue is the operation being executed, unless  *)
(* the queues were cancelled under it.                                       *)
PendingTx == IF worker.pc \in TxPc /\ ~cancelled THEN Tail(tx_op) ELSE tx_op
PendingRx == IF worker.pc \in RxPc /\ ~cancelled THEN Tail(rx_op) ELSE rx_op

(* Every operation of q has a buffer of bufs, and no two have the same.      *)
OwnBuffers(q, bufs) ==
    /\ \A i \in DOMAIN q : q[i].buf \in bufs
    /\ \A i, j \in DOMAIN q : q[i].buf = q[j].buf => i = j

(* XmlStream::write hands the connection a bare pointer into tx_buffers      *)
(* (XmlStream.cpp:319-322). No operation that still is to be written, nor the *)
(* one whose callback is about to look its buffer up, refers to a buffer      *)
(* that was freed, and no two operations share one. The operation in its      *)
(* callback stays at the head of the queue: what is popped afterwards is not  *)
(* an operation that was never executed.                                      *)
BuffersAlive ==
    /\ OwnBuffers(PendingTx, tx_buffers)
    /\ worker.pc = "tx_callback" =>
          /\ worker.buf \in tx_buffers
          /\ \A i \in DOMAIN PendingTx : PendingTx[i].buf # worker.buf
    /\ worker.pc \in TxPc /\ ~cancelled => tx_op # <<>>

(* Once stop() has returned nothing more is written to the peer until the    *)
(* next run(): stop() cancels and clears running in one critical section and *)
(* write() tests running in the same one.                                    *)
QuietWhenStopped == ~running => PendingTx = <<>>

(* The rx thread lives exactly while run() waits to join it, no stage of     *)
(* run() after the join is reached by a stream that still runs, and reset()  *)
(* has one caller at a time: the client's callback, or run() after the join, *)
(* which never queues a read on a connection nobody looks at any more.       *)
ThreadLifetime ==
    /\ (rx_pc # "off") <=> run_pc \in {"set_cb", "write", "read", "join"}
    /\ run_pc \in {"idle", "drain", "reset", "clear"} => ~running
    /\ rx_pc = "done" => ~running
    /\ rx_pc = "callback" => rx_queue # <<>>
    /\ run_pc \in {"reset", "clear"} => tx_buffers = {}
    /\ reset_pc # "none" => run_pc = "reset" \/ (run_pc = "join" /\ rx_pc = "callback")
    /\ reset_pc = "read" => run_pc = "join"

(* However resets, cancels and callbacks interleave, at most two reads wait  *)
(* behind the one being executed: rx_buf is a single buffer.                 *)
BoundedReads == Len(PendingRx) <= 2

HasRead == (\E i \in DOMAIN PendingRx : PendingRx[i] = "stream") \/ worker.pc = "rx_callback"

(* The stream never goes deaf silently: a running stream that has a read      *)
(* outstanding loses its last one only to a read error that is reported to    *)
(* the client, to reset(), which queues another, or to the client, whose      *)
(* callback cancels the connection's operations and has to reset or stop the  *)
(* stream itself. No cancel that meets a read being completed, and no block   *)
(* that does, takes the read that was queued meanwhile with it.               *)
NeverDeafSilently ==
    [][run_pc = "join" /\ running /\ HasRead /\ ~HasRead' =>
          \/ ~running'
          \/ reset_pc' = "check"
          \/ CancelConnection
          \/ worker.res = "error" /\ rx_queue' # <<>> /\ rx_queue'[Len(rx_queue')].kind = "rx-error"]_vars

(* stop() gets the session thread out of the join, whatever the rx thread    *)
(* was doing.                                                                *)
StopUnblocks == (run_pc = "join" /\ ~running) ~> (run_pc = "drain")

(* run() returns once the stream has been stopped ("This method does not     *)
(* return until the stream has ended", XmlStream.hpp:82).                    *)
ReturnsAfterStop == (run_pc # "idle" /\ ~running) ~> (run_pc = "idle")

(* The client's callback is given objects received on this run's connection  *)
(* ("called when XML objects are received on the input connection",          *)
(* XmlStream.hpp:54).                                                        *)
FreshDelivery == rx_pc = "callback" => Head(rx_queue).run = run

(* What the stream promises its user: objects are handed over one at a time  *)
(* and in order, and once a run has ended it begins no callback, except for    *)
(* those that were queued behind the one its rx thread is in (XmlStream.cpp:440 *)
(* does not look at running).                                                *)
Lifecycle == INSTANCE StreamLifecycle
             WITH phase <- IF running THEN "open"
                           ELSE IF run_pc = "idle" THEN "idle" ELSE "ending",
                  held  <- tx_buffers,
                  inbox <- rx_queue,
                  busy  <- rx_pc = "callback"
LifecycleSpec == Lifecycle!Spec
=============================================================================
