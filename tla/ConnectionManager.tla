-------------------------- MODULE ConnectionManager --------------------------
(****************************************************************************)
(* io::ConnectionManager, the singleton whose worker thread polls the file  *)
(* descriptors of all connections and executes their queued operations      *)
(* (src/src/uxmpp/io/ConnectionManager.cpp, Connection.cpp).                *)
(*                                                                          *)
(* Clients queue operations under map_mutex and tell the worker through a   *)
(* pipe which descriptors to poll. The worker reads one command per round   *)
(* of poll(), then executes the head operation of every queue whose         *)
(* descriptor is ready, and calls its callback with map_mutex released.     *)
(* Each action is one critical section of map_mutex, or the code between    *)
(* two. The pipe never is full.                                             *)
(****************************************************************************)
EXTENDS Naturals, Sequences

CONSTANTS
    Conn,      \* connections
    NoConn,    \* none
    Fd,        \* file descriptors the operating system hands out
    NoFd,      \* -1
    Usage,     \* what clients do: "cancel" operations, "destroy" connections,
               \* queue operations on a connection that another thread is
               \* closing ("late"), or that is not open ("unopened")
    MaxOp,     \* bound on the operations of a queue
    MaxPipe    \* bound on the commands in the pipe before a client adds to it

ASSUME ManagerAssumption ==
    /\ NoConn \notin Conn
    /\ NoFd \notin Fd
    /\ Usage \subseteq {"cancel", "destroy", "late", "unopened"}
    /\ MaxOp \in Nat /\ MaxPipe \in Nat

Dir == {"rx", "tx"}

VARIABLES
    registered,  \* the keys of ConnectionManager::connections
    fd,          \* Connection::fd
    closing,     \* connections in Connection::close, after its cancel
    released,    \* those of them whose descriptor ::close has given back, while
                 \* Connection::fd still has its number
    shadowed,    \* connections that were given a number such a one still has
    queue,       \* the operations of a connection and direction: those whose
                 \* callback was called are "done", the others "new"
    cancelled,   \* ConnectionInfo::cancel_in_callback
    pipe,        \* the commands on their way to the worker
    slot,        \* the poll list, with poll_fd_map: owner NoConn if not in it
    worker       \* what the worker is doing, and for which descriptor,
                 \* connection and direction

vars == <<registered, fd, closing, released, shadowed, queue, cancelled, pipe, slot, worker>>
fdVars == <<fd, closing, released, shadowed>>

Slot == [owner : Conn \cup {NoConn}, events : SUBSET Dir, revents : SUBSET Dir,
         more : SUBSET Dir]

Command == [op : {"add", "del"}, conn : Conn, dir : Dir]
           \cup [op : {"del_fd"}, fd : Fd \cup {NoFd}]

Job == [pc : {"poll", "dispatch", "scan", "callback", "badf"},
        fd : Fd \cup {NoFd}, conn : Conn \cup {NoConn}, dir : Dir, more : BOOLEAN]

ClientTypes ==
    /\ registered \subseteq Conn
    /\ fd \in [Conn -> Fd \cup {NoFd}]
    /\ closing \subseteq Conn
    /\ released \subseteq Conn
    /\ shadowed \subseteq Conn
    /\ cancelled \in [Conn -> BOOLEAN]

TypeOK ==
    /\ ClientTypes
    /\ queue \in [Conn -> [Dir -> Seq({"new", "done"})]]
    /\ pipe \in Seq(Command)
    /\ slot \in [Fd -> Slot]
    /\ worker \in Job

NoSlot == [owner |-> NoConn, events |-> {}, revents |-> {}, more |-> {}]
Poll   == [pc |-> "poll", fd |-> NoFd, conn |-> NoConn, dir |-> "rx", more |-> FALSE]
Scan   == [Poll EXCEPT !.pc = "scan"]

Init ==
    /\ registered = {}
    /\ fd = [c \in Conn |-> NoFd]
    /\ closing = {}
    /\ released = {}
    /\ shadowed = {}
    /\ queue = [c \in Conn |-> [d \in Dir |-> <<>>]]
    /\ cancelled = [c \in Conn |-> FALSE]
    /\ pipe = <<>>
    /\ slot = [f \in Fd |-> NoSlot]
    /\ worker = Poll

Add(c, d)  == [op |-> "add", conn |-> c, dir |-> d]
Del(c, d)  == [op |-> "del", conn |-> c, dir |-> d]
DelFd(f)   == [op |-> "del_fd", fd |-> f]
Send(cmd)  == pipe' = Append(pipe, cmd)
Polled(f)  == slot[f].owner # NoConn

-----------------------------------------------------------------------------
(* Clients                                                                  *)

(* Connection::Connection                                                   *)
Register(c) ==
    /\ c \notin registered
    /\ registered' = registered \cup {c}
    /\ cancelled' = [cancelled EXCEPT ![c] = FALSE]
    /\ UNCHANGED <<fdVars, queue, pipe, slot, worker>>

(* A descriptor is opened and given to the connection by set_fd. The system   *)
(* hands out a number that is free, and does not know of the Connection that   *)
(* has just closed it and still has its number.                               *)
Open(c) ==
    /\ c \in registered
    /\ fd[c] = NoFd
    /\ \E f \in Fd :
          LET same == {other \in Conn : fd[other] = f}
          IN  /\ same \subseteq released
              /\ fd' = [fd EXCEPT ![c] = f]
              /\ shadowed' = IF same = {} THEN shadowed ELSE shadowed \cup {c}
    /\ UNCHANGED <<registered, closing, released, queue, cancelled, pipe, slot, worker>>

(* read and write: the worker is told when the queue was empty.             *)
Queue(c, d) ==
    /\ c \in registered
    /\ c \in closing => "late" \in Usage
    /\ fd[c] = NoFd => "unopened" \in Usage
    /\ Len(queue[c][d]) < MaxOp
    /\ Len(pipe) < MaxPipe
    /\ queue' = [queue EXCEPT ![c][d] = Append(@, "new")]
    /\ IF queue[c][d] = <<>> THEN Send(Add(c, d)) ELSE UNCHANGED pipe
    /\ UNCHANGED <<registered, fdVars, cancelled, slot, worker>>

Emptied(c) == [queue EXCEPT ![c] = [d \in Dir |-> <<>>]]

(* Bug: the command is given the connection where it needs the descriptor.   *)
BugCancel(c) ==
    /\ "cancel" \in Usage
    /\ c \in registered
    /\ Len(pipe) < MaxPipe
    /\ queue' = Emptied(c)
    /\ cancelled' = [cancelled EXCEPT ![c] = TRUE]
    /\ Send(DelFd(c))
    /\ UNCHANGED <<registered, fdVars, slot, worker>>

Cancel(c) ==
    /\ "cancel" \in Usage
    /\ c \in registered
    /\ Len(pipe) < MaxPipe
    /\ queue' = Emptied(c)
    /\ cancelled' = [cancelled EXCEPT ![c] = TRUE]
    /\ Send(DelFd(fd[c]))
    /\ UNCHANGED <<registered, fdVars, slot, worker>>

(* Bug: close() leaves the descriptor in the poll list.                      *)
BugCloseBegin(c) ==
    /\ c \notin closing
    /\ fd[c] # NoFd
    /\ closing' = closing \cup {c}
    /\ queue' = Emptied(c)
    /\ cancelled' = [cancelled EXCEPT ![c] = TRUE]
    /\ UNCHANGED <<registered, fd, released, shadowed, pipe, slot, worker>>

(* Connection::close cancels, then closes the descriptor.                   *)
CloseBegin(c) ==
    /\ c \notin closing
    /\ fd[c] # NoFd
    /\ closing' = closing \cup {c}
    /\ Len(pipe) < MaxPipe
    /\ queue' = Emptied(c)
    /\ cancelled' = [cancelled EXCEPT ![c] = TRUE]
    /\ Send(DelFd(fd[c]))
    /\ UNCHANGED <<registered, fd, released, shadowed, slot, worker>>

(* ::close: from now on another connection may get the number.               *)
CloseFd(c) ==
    /\ c \in closing \ released
    /\ released' = released \cup {c}
    /\ UNCHANGED <<registered, fd, closing, shadowed, queue, cancelled, pipe, slot,
                   worker>>

(* The number is forgotten.                                                  *)
CloseEnd(c) ==
    /\ c \in released
    /\ closing' = closing \ {c}
    /\ released' = released \ {c}
    /\ shadowed' = shadowed \ {c}
    /\ fd' = [fd EXCEPT ![c] = NoFd]
    /\ UNCHANGED <<registered, queue, cancelled, pipe, slot, worker>>

(* Connection::~Connection: after close, and not while the worker is in one  *)
(* of its callbacks.                                                         *)
Unregister(c) ==
    /\ "destroy" \in Usage
    /\ c \in registered
    /\ fd[c] = NoFd
    /\ worker.conn # c
    /\ Len(pipe) < MaxPipe
    /\ registered' = registered \ {c}
    /\ queue' = Emptied(c)
    /\ Send(DelFd(NoFd))
    /\ UNCHANGED <<fdVars, cancelled, slot, worker>>

-----------------------------------------------------------------------------
(* The worker: run_worker                                                   *)

(* poll() returns: descriptors in the list are ready, or a command waits, or *)
(* a former operation probably left data behind. What is left behind counts  *)
(* as ready in this round; a descriptor that was closed does not.            *)
PollReturns ==
    /\ worker.pc = "poll"
    /\ \E ready \in SUBSET (Fd \X Dir) :
          /\ \A r \in ready : /\ r[2] \in slot[r[1]].events
                             /\ \E c \in Conn \ released : fd[c] = r[1]
          /\ ready # {} \/ pipe # <<>> \/ \E f \in Fd : slot[f].more # {}
          /\ slot' = [f \in Fd |-> [slot[f] EXCEPT !.revents =
                              slot[f].more \cup {d \in Dir : <<f, d>> \in ready}]]
    /\ worker' = [worker EXCEPT !.pc = IF pipe # <<>> THEN "dispatch" ELSE "scan"]
    /\ UNCHANGED <<registered, fdVars, queue, cancelled, pipe>>

(* A place in the poll list is polled for d as well, no longer for d, or its  *)
(* event d was looked at and there is more to do at once or not.             *)
Watch(p, d)  == [p EXCEPT !.events  = p.events \cup {d},
                          !.revents = p.revents \ {d},
                          !.more    = p.more \ {d}]
Ignore(p, d) == [p EXCEPT !.events  = p.events \ {d},
                          !.revents = p.revents \ {d},
                          !.more    = p.more \ {d}]
Scanned(p, d, more) == [p EXCEPT !.revents = p.revents \ {d},
                                 !.more    = IF more THEN p.more \cup {d} ELSE p.more \ {d}]

(* The descriptor is polled for d from now on, on behalf of whoever owned    *)
(* its place in the list before, or of c if it is not in the list.           *)
AddPollFd(c, d) ==
    slot' = [slot EXCEPT ![fd[c]] =
                IF Polled(fd[c])
                THEN Watch(slot[fd[c]], d)
                ELSE [owner |-> c, events |-> {d}, revents |-> {}, more |-> {}]]

(* The loop over the operations of a connection that had no descriptor, with  *)
(* q left: the callback of the head is called with an error, or the queue is  *)
(* empty, or a descriptor has been opened meanwhile, which then is polled.    *)
BadFd(c, d, q) ==
    /\ queue' = [queue EXCEPT ![c][d] = IF q # <<>> /\ fd[c] = NoFd
                                       THEN [q EXCEPT ![1] = "done"] ELSE q]
    /\ worker' = IF q # <<>> /\ fd[c] = NoFd
                 THEN [Poll EXCEPT !.pc = "badf", !.conn = c, !.dir = d] ELSE Scan
    /\ IF q # <<>> /\ fd[c] # NoFd THEN AddPollFd(c, d) ELSE UNCHANGED slot

DispatchAdd ==
    /\ worker.pc = "dispatch"
    /\ Head(pipe).op = "add"
    /\ pipe' = Tail(pipe)
    /\ LET c == Head(pipe).conn
           d == Head(pipe).dir
       IN  \/ c \notin registered /\ worker' = Scan /\ UNCHANGED <<queue, slot>>
           \/ c \in registered /\ fd[c] = NoFd /\ BadFd(c, d, queue[c][d])
           \/ /\ c \in registered /\ fd[c] # NoFd
              /\ AddPollFd(c, d)
              /\ worker' = Scan
              /\ UNCHANGED queue
    /\ UNCHANGED <<registered, fdVars, cancelled>>

(* The callback has returned: the head of the queue is removed, whatever it   *)
(* is by now. Removing the head of a queue that was emptied meanwhile is      *)
(* undefined behaviour; the model stops there.                               *)
BadFdNext ==
    /\ worker.pc = "badf"
    /\ LET q == queue[worker.conn][worker.dir]
       IN  q # <<>> /\ BadFd(worker.conn, worker.dir, Tail(q))
    /\ UNCHANGED <<registered, fdVars, cancelled, pipe>>

DispatchDel ==
    /\ worker.pc = "dispatch"
    /\ Head(pipe).op = "del"
    /\ pipe' = Tail(pipe)
    /\ LET c == Head(pipe).conn
           d == Head(pipe).dir
       IN  IF c \in registered /\ fd[c] # NoFd
           THEN slot' = [slot EXCEPT ![fd[c]] = Ignore(slot[fd[c]], d)]
           ELSE UNCHANGED slot
    /\ worker' = Scan
    /\ UNCHANGED <<registered, fdVars, queue, cancelled>>

DispatchDelFd ==
    /\ worker.pc = "dispatch"
    /\ Head(pipe).op = "del_fd"
    /\ pipe' = Tail(pipe)
    /\ slot' = [f \in Fd |-> IF f = Head(pipe).fd THEN NoSlot ELSE slot[f]]
    /\ worker' = Scan
    /\ UNCHANGED <<registered, fdVars, queue, cancelled>>

(* Bug: polling ends although operations are left.                           *)
BugHandled(f, c, d, emptied, more) ==
    /\ Send(Del(c, d))
    /\ slot' = [slot EXCEPT ![f] = Scanned(slot[f], d, more)]

(* The end of a call of handle_poll_io: the queue was emptied or not, and    *)
(* there probably is more to do at once or not.                              *)
Handled(f, c, d, emptied, more) ==
    /\ IF emptied THEN Send(Del(c, d)) ELSE UNCHANGED pipe
    /\ slot' = [slot EXCEPT ![f] = Scanned(slot[f], d, more)]

(* Bug: the flag of an earlier cancel is left raised.                        *)
BugExecute(f, c, d) ==
    /\ queue' = [queue EXCEPT ![c][d][1] = "done"]
    /\ \E more \in BOOLEAN :
          worker' = [pc |-> "callback", fd |-> f, conn |-> c, dir |-> d, more |-> more]
    /\ UNCHANGED <<cancelled, pipe, slot>>

(* The head operation is executed and its callback is called.                *)
Execute(f, c, d) ==
    /\ queue' = [queue EXCEPT ![c][d][1] = "done"]
    /\ cancelled' = [cancelled EXCEPT ![c] = FALSE]
    /\ \E more \in BOOLEAN :
          worker' = [pc |-> "callback", fd |-> f, conn |-> c, dir |-> d, more |-> more]
    /\ UNCHANGED <<pipe, slot>>

(* handle_poll_io for one that is ready: its owner is gone, nothing is       *)
(* queued, the operation would block, or it is executed.                     *)
HandlePollIo ==
    /\ worker.pc = "scan"
    /\ \E f \in Fd : \E d \in slot[f].revents :
          /\ d = "rx" => "tx" \notin slot[f].revents
          /\ LET c == slot[f].owner IN
             \/ /\ c \notin registered
                /\ Send(DelFd(f))
                /\ slot' = [slot EXCEPT ![f] = Scanned([slot[f] EXCEPT !.events = {}], d, FALSE)]
                /\ UNCHANGED <<queue, cancelled, worker>>
             \/ /\ c \in registered
                /\ queue[c][d] = <<>>
                /\ Handled(f, c, d, TRUE, FALSE)
                /\ UNCHANGED <<queue, cancelled, worker>>
             \/ /\ c \in registered
                /\ queue[c][d] # <<>>
                /\ Handled(f, c, d, FALSE, FALSE)
                /\ UNCHANGED <<queue, cancelled, worker>>
             \/ /\ c \in registered
                /\ queue[c][d] # <<>>
                /\ Execute(f, c, d)
    /\ UNCHANGED <<registered, fdVars>>

(* Bug: the head is removed although the queue was cancelled.                *)
BugHandlePollIoEnd ==
    /\ worker.pc = "callback"
    /\ LET c == worker.conn
           d == worker.dir
           left == IF queue[c][d] = <<>> THEN <<>> ELSE Tail(queue[c][d])
       IN  /\ queue' = [queue EXCEPT ![c][d] = left]
           /\ Handled(worker.fd, c, d, left = <<>>, worker.more)
    /\ worker' = Scan
    /\ UNCHANGED <<registered, fdVars, cancelled>>

(* The callback has returned: the operation is removed unless the queue was  *)
(* cancelled in the meantime.                                                *)
HandlePollIoEnd ==
    /\ worker.pc = "callback"
    /\ LET c == worker.conn
           d == worker.dir
           left == IF cancelled[c] \/ queue[c][d] = <<>> THEN queue[c][d] ELSE Tail(queue[c][d])
       IN  /\ queue' = [queue EXCEPT ![c][d] = left]
           /\ Handled(worker.fd, c, d, left = <<>>, worker.more)
    /\ worker' = Scan
    /\ UNCHANGED <<registered, fdVars, cancelled>>

ScanEnd ==
    /\ worker.pc = "scan"
    /\ \A f \in Fd : slot[f].revents = {}
    /\ worker' = Poll
    /\ UNCHANGED <<registered, fdVars, queue, cancelled, pipe, slot>>

-----------------------------------------------------------------------------
Client(c) == Register(c) \/ Open(c) \/ Cancel(c) \/ CloseBegin(c) \/ CloseFd(c)
             \/ CloseEnd(c) \/ Unregister(c) \/ \E d \in Dir : Queue(c, d)
Worker == PollReturns \/ DispatchAdd \/ BadFdNext \/ DispatchDel
          \/ DispatchDelFd \/ HandlePollIo \/ HandlePollIoEnd \/ ScanEnd

Next == Worker \/ \E c \in Conn : Client(c)

Spec == Init /\ [][Next]_vars

-----------------------------------------------------------------------------
(* Properties                                                               *)

(* c is polled for its operations and is the one poll_fd_map names.           *)
Woken(c) == \A d \in Dir : queue[c][d] # <<>> =>
                slot[fd[c]].owner = c /\ d \in slot[fd[c]].events

(* While the worker sleeps in poll() and no command is on its way, every     *)
(* open connection with queued operations is polled for them: no operation    *)
(* waits forever for a wakeup that was lost to a command applied after the     *)
(* descriptor number was reused. It is lost for one that was given its number  *)
(* between ::close(fd) and fd = -1 of another (Connection.cpp:89-90), and for  *)
(* that one only, until it is closed itself.                                  *)
NoLostWakeup ==
    worker.pc = "poll" /\ pipe = <<>> =>
        \A c \in registered \ (closing \cup shadowed) : fd[c] # NoFd => Woken(c)

(* The same without exception.                                               *)
NoLostWakeupAnyway ==
    worker.pc = "poll" /\ pipe = <<>> =>
        \A c \in registered \ closing : fd[c] # NoFd => Woken(c)

(* A place in the poll list belongs to a connection that has the descriptor   *)
(* and has not given it back, or the command that frees it is on its way: an   *)
(* operation is never executed for a connection whose descriptor now is        *)
(* another's, however long other closing connections keep the number.          *)
NoStaleSlot ==
    \A f \in Fd : Polled(f) =>
        \/ fd[slot[f].owner] = f /\ slot[f].owner \notin released
        \/ \E i \in DOMAIN pipe : pipe[i] = DelFd(f)

(* The worker removes an operation only after calling its callback ("don't   *)
(* pop if queue was cancelled", ConnectionManager.cpp:482): a client waits    *)
(* for the callback to free the buffer.                                      *)
Answered ==
    [][Worker => \A c \in Conn, d \in Dir :
          Len(queue'[c][d]) < Len(queue[c][d]) => Head(queue[c][d]) = "done"]_vars

(* No operation is left in its queue when its callback has returned, to be    *)
(* executed again with a buffer the callback freed: cancel() in or during     *)
(* the callback empties the queue, and the flag it raises is not left over    *)
(* for a later operation.                                                    *)
ExecutedOnce ==
    \A c \in Conn, d \in Dir : \A i \in DOMAIN queue[c][d] :
        queue[c][d][i] = "done" =>
            i = 1 /\ worker.pc \in {"callback", "badf"} /\ worker.conn = c /\ worker.dir = d
=============================================================================
