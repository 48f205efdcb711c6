----------------------- MODULE ConnectionManager_proofs -----------------------
(****************************************************************************)
(* Proofs about ConnectionManager, for every number of connections,         *)
(* descriptors and operations.                                              *)
(****************************************************************************)
EXTENDS ConnectionManager, TLAPS

(* Where the worker is decides which of its fields mean something.          *)
Positions ==
    /\ worker.pc = "dispatch" => pipe # <<>>
    /\ worker.pc \in {"callback", "badf"} => worker.conn \in Conn
    /\ worker.pc = "callback" => worker.fd \in Fd

ITypes == TypeOK /\ Positions

-----------------------------------------------------------------------------
(* Types                                                                    *)

(* Commands are commands.                                                   *)
LEMMA CommandTypes ==
    /\ \A c \in Conn, d \in Dir : Add(c, d) \in Command /\ Del(c, d) \in Command
    /\ \A f \in Fd \cup {NoFd} : DelFd(f) \in Command
BY DEF Command, Add, Del, DelFd

(* What a command says, by its name.                                        *)
LEMMA CommandFields ==
    ASSUME NEW cmd \in Command
    PROVE  /\ cmd.op \in {"add", "del"} => cmd.conn \in Conn /\ cmd.dir \in Dir
           /\ cmd.op = "del_fd" => cmd.fd \in Fd \cup {NoFd}
           /\ cmd.op \in {"add", "del", "del_fd"}
BY DEF Command

(* A command sent joins the others.                                         *)
LEMMA SendType ==
    ASSUME pipe \in Seq(Command), NEW cmd \in Command, Send(cmd)
    PROVE  pipe' \in Seq(Command) /\ pipe' # <<>>
BY DEF Send

(* Taking a command from the pipe.                                          *)
LEMMA TakeType ==
    ASSUME pipe \in Seq(Command), pipe # <<>>
    PROVE  Head(pipe) \in Command /\ Tail(pipe) \in Seq(Command)
OBVIOUS

(* What happens to a queue of operations: one is added, the head is removed, *)
(* or marked, or all are removed.                                            *)
LEMMA OpTypes ==
    ASSUME NEW q \in Seq({"new", "done"})
    PROVE  /\ Append(q, "new") \in Seq({"new", "done"})
           /\ q # <<>> => Tail(q) \in Seq({"new", "done"})
           /\ q # <<>> => [q EXCEPT ![1] = "done"] \in Seq({"new", "done"})
           /\ <<>> \in Seq({"new", "done"})
OBVIOUS

(* What clients change keeps its types.                                     *)
LEMMA ClientTypesStep ==
    ASSUME ITypes, [Next]_vars
    PROVE  ClientTypes'
<1> USE DEF ITypes, TypeOK, ClientTypes, fdVars
<1>1. CASE Worker
  <2>1. CASE PollReturns
    BY <2>1 DEF PollReturns
  <2>2. CASE DispatchAdd
    BY <2>2 DEF DispatchAdd
  <2>3. CASE BadFdNext
    BY <2>3 DEF BadFdNext
  <2>4. CASE DispatchDel
    BY <2>4 DEF DispatchDel
  <2>5. CASE DispatchDelFd
    BY <2>5 DEF DispatchDelFd
  <2>6. CASE HandlePollIo
    BY <2>6, CommandTypes DEF HandlePollIo, Execute, Positions, Slot
  <2>7. CASE HandlePollIoEnd
    BY <2>7 DEF HandlePollIoEnd
  <2>8. CASE ScanEnd
    BY <2>8 DEF ScanEnd
  <2> QED BY <1>1, <2>1, <2>2, <2>3, <2>4, <2>5, <2>6, <2>7, <2>8 DEF Worker
<1>2. ASSUME NEW c \in Conn, Client(c)
      PROVE  ClientTypes'
  <2>1. CASE Register(c)
    BY <2>1 DEF Register
  <2>2. CASE Open(c)
    BY <2>2 DEF Open
  <2>3. CASE Cancel(c)
    BY <2>3 DEF Cancel
  <2>4. CASE CloseBegin(c)
    BY <2>4 DEF CloseBegin
  <2>5. CASE CloseEnd(c)
    BY <2>5 DEF CloseEnd
  <2>6. CASE Unregister(c)
    BY <2>6 DEF Unregister
  <2>7. ASSUME NEW d \in Dir, Queue(c, d)
        PROVE  ClientTypes'
    BY <2>7 DEF Queue
  <2>8. CASE CloseFd(c)
    BY <2>8 DEF CloseFd
  <2> QED BY <1>2, <2>1, <2>2, <2>3, <2>4, <2>5, <2>6, <2>7, <2>8 DEF Client
<1>3. CASE UNCHANGED vars
  BY <1>3 DEF vars
<1> QED BY <1>1, <1>2, <1>3 DEF Next

(* A new value for one queue keeps the types of all.                        *)
LEMMA QueueUpdate ==
    ASSUME queue \in [Conn -> [Dir -> Seq({"new", "done"})]],
           NEW c, NEW d, NEW q \in Seq({"new", "done"}),
           queue' = [queue EXCEPT ![c][d] = q]
    PROVE  queue' \in [Conn -> [Dir -> Seq({"new", "done"})]]
OBVIOUS

(* Emptying the queues of a connection.                                     *)
LEMMA EmptiedType ==
    ASSUME queue \in [Conn -> [Dir -> Seq({"new", "done"})]], NEW c
    PROVE  Emptied(c) \in [Conn -> [Dir -> Seq({"new", "done"})]]
BY OpTypes DEF Emptied

(* The queues of operations stay queues of operations.                      *)
LEMMA QueueTypesStep ==
    ASSUME ITypes, [Next]_vars
    PROVE  queue' \in [Conn -> [Dir -> Seq({"new", "done"})]]
<1> USE DEF ITypes, TypeOK, ClientTypes, fdVars
<1>1. CASE Worker
  <2>1. CASE PollReturns
    BY <2>1 DEF PollReturns
  <2>2. CASE DispatchAdd
    <3> DEFINE c == Head(pipe).conn
               d == Head(pipe).dir
    <3>1. c \in Conn /\ d \in Dir
      BY <2>2, TakeType, CommandFields DEF DispatchAdd, Positions
    <3>2. queue[c][d] \in Seq({"new", "done"})
      BY <3>1
    <3>3. CASE UNCHANGED queue
      BY <3>3
    <3>4. CASE BadFd(c, d, queue[c][d])
      <4>1. PICK q \in Seq({"new", "done"}) : queue' = [queue EXCEPT ![c][d] = q]
        BY <3>2, <3>4, OpTypes DEF BadFd
      <4> QED BY <4>1, QueueUpdate
    <3> QED BY <2>2, <3>3, <3>4 DEF DispatchAdd
  <2>3. CASE BadFdNext
    <3> DEFINE c == worker.conn
               d == worker.dir
    <3>1. c \in Conn /\ d \in Dir
      BY <2>3 DEF BadFdNext, Positions, Job
    <3>2. queue[c][d] \in Seq({"new", "done"}) /\ queue[c][d] # <<>>
      BY <2>3, <3>1 DEF BadFdNext
    <3>3. Tail(queue[c][d]) \in Seq({"new", "done"})
      BY <3>2, OpTypes
    <3>4. PICK q \in Seq({"new", "done"}) : queue' = [queue EXCEPT ![c][d] = q]
      BY <2>3, <3>3, OpTypes DEF BadFdNext, BadFd
    <3> QED BY <3>4, QueueUpdate
  <2>4. CASE DispatchDel
    BY <2>4 DEF DispatchDel
  <2>5. CASE DispatchDelFd
    BY <2>5 DEF DispatchDelFd
  <2>6. CASE HandlePollIo
    <3>1. CASE UNCHANGED queue
      BY <3>1
    <3>2. ASSUME NEW f \in Fd, NEW d \in slot[f].revents, slot[f].owner \in registered,
                 queue[slot[f].owner][d] # <<>>, Execute(f, slot[f].owner, d)
          PROVE  queue' \in [Conn -> [Dir -> Seq({"new", "done"})]]
      <4> DEFINE c == slot[f].owner
      <4>1. c \in Conn /\ d \in Dir
        BY <3>2 DEF Slot
      <4>2. queue[c][d] \in Seq({"new", "done"})
        BY <4>1
      <4>3. [queue[c][d] EXCEPT ![1] = "done"] \in Seq({"new", "done"})
        BY <3>2, <4>2, OpTypes
      <4>4. queue' = [queue EXCEPT ![c][d] = [queue[c][d] EXCEPT ![1] = "done"]]
        BY <3>2 DEF Execute
      <4> QED BY <4>3, <4>4, QueueUpdate
    <3> QED BY <2>6, <3>1, <3>2 DEF HandlePollIo
  <2>7. CASE HandlePollIoEnd
    <3> DEFINE c == worker.conn
               d == worker.dir
               left == IF cancelled[c] \/ queue[c][d] = <<>> THEN queue[c][d] ELSE Tail(queue[c][d])
    <3>1. c \in Conn /\ d \in Dir
      BY <2>7 DEF HandlePollIoEnd, Positions, Job
    <3>2. queue[c][d] \in Seq({"new", "done"})
      BY <3>1
    <3>3. left \in Seq({"new", "done"})
      BY <3>2, OpTypes
    <3>4. queue' = [queue EXCEPT ![c][d] = left]
      BY <2>7 DEF HandlePollIoEnd
    <3> QED BY <3>3, <3>4, QueueUpdate
  <2>8. CASE ScanEnd
    BY <2>8 DEF ScanEnd
  <2> QED BY <1>1, <2>1, <2>2, <2>3, <2>4, <2>5, <2>6, <2>7, <2>8 DEF Worker
<1>2. ASSUME NEW c \in Conn, Client(c)
      PROVE  queue' \in [Conn -> [Dir -> Seq({"new", "done"})]]
  <2>1. CASE Register(c)
    BY <2>1 DEF Register
  <2>2. CASE Open(c)
    BY <2>2 DEF Open
  <2>3. CASE Cancel(c)
    BY <2>3, EmptiedType DEF Cancel
  <2>4. CASE CloseBegin(c)
    BY <2>4, EmptiedType DEF CloseBegin
  <2>5. CASE CloseEnd(c)
    BY <2>5 DEF CloseEnd
  <2>6. CASE Unregister(c)
    BY <2>6, EmptiedType DEF Unregister
  <2>7. ASSUME NEW d \in Dir, Queue(c, d)
        PROVE  queue' \in [Conn -> [Dir -> Seq({"new", "done"})]]
    <3>1. queue[c][d] \in Seq({"new", "done"})
      BY <2>7
    <3>2. Append(queue[c][d], "new") \in Seq({"new", "done"})
      BY <3>1, OpTypes
    <3>3. queue' = [queue EXCEPT ![c][d] = Append(queue[c][d], "new")]
      BY <2>7 DEF Queue
    <3> QED BY <3>2, <3>3, QueueUpdate
  <2>8. CASE CloseFd(c)
    BY <2>8 DEF CloseFd
  <2> QED BY <1>2, <2>1, <2>2, <2>3, <2>4, <2>5, <2>6, <2>7, <2>8 DEF Client
<1>3. CASE UNCHANGED vars
  BY <1>3 DEF vars
<1> QED BY <1>1, <1>2, <1>3 DEF Next

(* Commands stay commands, and there is one to dispatch.                    *)
LEMMA PipeTypesStep ==
    ASSUME ITypes, [Next]_vars
    PROVE  pipe' \in Seq(Command) /\ (worker'.pc = "dispatch" => pipe' # <<>>)
<1> USE DEF ITypes, TypeOK, ClientTypes, fdVars
<1>1. CASE Worker
  <2>1. CASE PollReturns
    BY <2>1 DEF PollReturns, Job
  <2>2. CASE DispatchAdd
    <3>1. worker'.pc # "dispatch"
      BY <2>2 DEF DispatchAdd, BadFd, Scan, Poll
    <3>2. pipe' = Tail(pipe) /\ pipe # <<>>
      BY <2>2 DEF DispatchAdd, Positions
    <3> QED BY <3>1, <3>2, TakeType
  <2>3. CASE BadFdNext
    <3>1. worker'.pc # "dispatch"
      BY <2>3 DEF BadFdNext, BadFd, Scan, Poll
    <3> QED BY <2>3, <3>1 DEF BadFdNext
  <2>4. CASE DispatchDel
    BY <2>4, TakeType DEF DispatchDel, Scan, Poll, Positions
  <2>5. CASE DispatchDelFd
    BY <2>5, TakeType DEF DispatchDelFd, Scan, Poll, Positions
  <2>6. CASE HandlePollIo
    <3>1. worker'.pc # "dispatch"
      <4>1. worker' = worker \/ \E f \in Fd, d \in Dir : Execute(f, slot[f].owner, d)
        BY <2>6 DEF HandlePollIo, Slot
      <4>2. ASSUME NEW f, NEW c, NEW d, Execute(f, c, d)
            PROVE  worker'.pc = "callback"
        BY <4>2 DEF Execute
      <4> QED BY <2>6, <4>1, <4>2 DEF HandlePollIo
    <3>2. ASSUME NEW f \in Fd, NEW d \in slot[f].revents
          PROVE  /\ DelFd(f) \in Command
                 /\ slot[f].owner \in registered => Del(slot[f].owner, d) \in Command
      BY CommandTypes DEF Slot
    <3>3. pipe' = pipe \/ \E cmd \in Command : Send(cmd)
      BY <2>6, <3>2 DEF HandlePollIo, Execute, Handled
    <3> QED BY <3>1, <3>3, SendType
  <2>7. CASE HandlePollIoEnd
    <3>1. worker'.pc # "dispatch"
      BY <2>7 DEF HandlePollIoEnd, Scan, Poll
    <3>2. Del(worker.conn, worker.dir) \in Command
      BY <2>7, CommandTypes DEF HandlePollIoEnd, Positions, Job
    <3>3. pipe' = pipe \/ Send(Del(worker.conn, worker.dir))
      BY <2>7 DEF HandlePollIoEnd, Handled
    <3> QED BY <3>1, <3>2, <3>3, SendType
  <2>8. CASE ScanEnd
    BY <2>8 DEF ScanEnd, Poll
  <2> QED BY <1>1, <2>1, <2>2, <2>3, <2>4, <2>5, <2>6, <2>7, <2>8 DEF Worker
<1>2. ASSUME NEW c \in Conn, Client(c)
      PROVE  pipe' \in Seq(Command) /\ (worker'.pc = "dispatch" => pipe' # <<>>)
  <2>1. CASE Register(c)
    BY <2>1 DEF Register, Positions
  <2>2. CASE Open(c)
    BY <2>2 DEF Open, Positions
  <2>3. CASE Cancel(c)
    <3>1. Send(DelFd(fd[c])) /\ DelFd(fd[c]) \in Command
      BY <1>2, <2>3, CommandTypes DEF Cancel
    <3> QED BY <3>1, SendType
  <2>4. CASE CloseBegin(c)
    <3>1. Send(DelFd(fd[c])) /\ DelFd(fd[c]) \in Command
      BY <1>2, <2>4, CommandTypes DEF CloseBegin
    <3> QED BY <3>1, SendType
  <2>5. CASE CloseEnd(c)
    BY <2>5 DEF CloseEnd, Positions
  <2>6. CASE Unregister(c)
    <3>1. Send(DelFd(NoFd)) /\ DelFd(NoFd) \in Command
      BY <2>6, CommandTypes DEF Unregister
    <3> QED BY <3>1, SendType
  <2>7. ASSUME NEW d \in Dir, Queue(c, d)
        PROVE  pipe' \in Seq(Command) /\ (worker'.pc = "dispatch" => pipe' # <<>>)
    <3>1. worker' = worker /\ (Send(Add(c, d)) \/ UNCHANGED pipe)
      BY <2>7 DEF Queue
    <3>2. Add(c, d) \in Command
      BY <2>7, CommandTypes
    <3> QED BY <3>1, <3>2, SendType DEF Positions
  <2>8. CASE CloseFd(c)
    BY <2>8 DEF CloseFd, Positions
  <2> QED BY <1>2, <2>1, <2>2, <2>3, <2>4, <2>5, <2>6, <2>7, <2>8 DEF Client
<1>3. CASE UNCHANGED vars
  BY <1>3 DEF vars, Positions
<1> QED BY <1>1, <1>2, <1>3 DEF Next

(* A place in the poll list with events added or removed is one.            *)
LEMMA SlotUpdate ==
    ASSUME slot \in [Fd -> Slot], NEW f, NEW p \in Slot, slot' = [slot EXCEPT ![f] = p]
    PROVE  slot' \in [Fd -> Slot]
OBVIOUS

(* What becomes of a place in the poll list.                                *)
LEMMA SlotTypes ==
    /\ NoSlot \in Slot
    /\ \A c \in Conn, d \in Dir : [owner |-> c, events |-> {d}, revents |-> {}, more |-> {}] \in Slot
    /\ \A p \in Slot, d \in Dir :
          /\ Watch(p, d) \in Slot
          /\ Ignore(p, d) \in Slot
          /\ \A more : Scanned(p, d, more) \in Slot
          /\ Scanned([p EXCEPT !.events = {}], d, FALSE) \in Slot
<1>1. NoSlot \in Slot
  BY DEF NoSlot, Slot
<1>2. \A c \in Conn, d \in Dir : [owner |-> c, events |-> {d}, revents |-> {}, more |-> {}] \in Slot
  BY DEF Slot
<1>3. ASSUME NEW p \in Slot, NEW d \in Dir
      PROVE  /\ Watch(p, d) \in Slot
             /\ Ignore(p, d) \in Slot
  BY DEF Slot, Watch, Ignore
<1>4. ASSUME NEW p \in Slot, NEW d \in Dir, NEW more
      PROVE  Scanned(p, d, more) \in Slot
  BY DEF Slot, Scanned
<1>5. ASSUME NEW p \in Slot
      PROVE  [p EXCEPT !.events = {}] \in Slot
  BY DEF Slot
<1> QED BY <1>1, <1>2, <1>3, <1>4, <1>5

(* add_poll_fd.                                                             *)
LEMMA AddPollType ==
    ASSUME slot \in [Fd -> Slot], NEW c \in Conn, fd[c] \in Fd, NEW d \in Dir, AddPollFd(c, d)
    PROVE  slot' \in [Fd -> Slot]
<1>1. CASE Polled(fd[c])
  <2>1. slot' = [slot EXCEPT ![fd[c]] = Watch(slot[fd[c]], d)]
    BY <1>1 DEF AddPollFd, Polled
  <2>2. Watch(slot[fd[c]], d) \in Slot
    BY SlotTypes
  <2> QED BY <2>1, <2>2, SlotUpdate
<1>2. CASE ~Polled(fd[c])
  <2>1. slot' = [slot EXCEPT ![fd[c]] = [owner |-> c, events |-> {d}, revents |-> {}, more |-> {}]]
    BY <1>2 DEF AddPollFd, Polled
  <2>2. [owner |-> c, events |-> {d}, revents |-> {}, more |-> {}] \in Slot
    BY SlotTypes
  <2> QED BY <2>1, <2>2, SlotUpdate
<1> QED BY <1>1, <1>2

(* A direction is removed from the events of a descriptor.                  *)
LEMMA RemoveType ==
    ASSUME slot \in [Fd -> Slot], NEW f \in Fd, NEW d \in Dir,
           slot' = [slot EXCEPT ![f] = Ignore(slot[f], d)]
    PROVE  slot' \in [Fd -> Slot]
BY SlotTypes, SlotUpdate

(* The end of handle_poll_io.                                               *)
LEMMA HandledType ==
    ASSUME slot \in [Fd -> Slot], NEW f \in Fd, NEW c, NEW d \in Dir, NEW emptied, NEW more, Handled(f, c, d, emptied, more)
    PROVE  slot' \in [Fd -> Slot]
<1>1. slot' = [slot EXCEPT ![f] = Scanned(slot[f], d, more)]
  BY DEF Handled
<1>2. Scanned(slot[f], d, more) \in Slot
  BY SlotTypes
<1> QED BY <1>1, <1>2, SlotUpdate

(* The poll list keeps its type.                                            *)
LEMMA SlotTypesStep ==
    ASSUME ITypes, [Next]_vars
    PROVE  slot' \in [Fd -> Slot]
<1> USE DEF ITypes, TypeOK, ClientTypes, fdVars
<1>1. CASE Worker
  <2>1. CASE PollReturns
    <3>1. PICK ready \in SUBSET (Fd \X Dir) :
              slot' = [f \in Fd |-> [slot[f] EXCEPT !.revents = slot[f].more \cup {d \in Dir : <<f, d>> \in ready}]]
      BY <2>1 DEF PollReturns
    <3>2. \A f \in Fd : [slot[f] EXCEPT !.revents = slot[f].more \cup {d \in Dir : <<f, d>> \in ready}] \in Slot
      BY DEF Slot
    <3> QED BY <3>1, <3>2
  <2>2. CASE DispatchAdd
    <3>1. Head(pipe).conn \in Conn /\ Head(pipe).dir \in Dir
      BY <2>2, TakeType, CommandFields DEF DispatchAdd, Positions
    <3>2. UNCHANGED slot \/ (AddPollFd(Head(pipe).conn, Head(pipe).dir) /\ fd[Head(pipe).conn] \in Fd)
      BY <2>2, <3>1 DEF DispatchAdd, BadFd
    <3> QED BY <3>1, <3>2, AddPollType
  <2>3. CASE BadFdNext
    <3>1. worker.conn \in Conn /\ worker.dir \in Dir
      BY <2>3 DEF BadFdNext, Positions, Job
    <3>2. UNCHANGED slot \/ (AddPollFd(worker.conn, worker.dir) /\ fd[worker.conn] \in Fd)
      BY <2>3, <3>1 DEF BadFdNext, BadFd
    <3> QED BY <3>1, <3>2, AddPollType
  <2>4. CASE DispatchDel
    <3>1. Head(pipe).conn \in Conn /\ Head(pipe).dir \in Dir
      BY <2>4, TakeType, CommandFields DEF DispatchDel, Positions
    <3>2. CASE UNCHANGED slot
      BY <3>2
    <3>3. CASE fd[Head(pipe).conn] \in Fd /\ ~UNCHANGED slot
      BY <2>4, <3>1, <3>3, RemoveType DEF DispatchDel
    <3> QED BY <2>4, <3>1, <3>2, <3>3 DEF DispatchDel
  <2>5. CASE DispatchDelFd
    BY <2>5, SlotTypes DEF DispatchDelFd
  <2>6. CASE HandlePollIo
    <3>1. CASE UNCHANGED slot
      BY <3>1
    <3>2. ASSUME NEW f \in Fd, NEW d \in Dir,
                 slot' = [slot EXCEPT ![f] = Scanned([slot[f] EXCEPT !.events = {}], d, FALSE)]
          PROVE  slot' \in [Fd -> Slot]
      BY <3>2, SlotTypes, SlotUpdate
    <3>3. ASSUME NEW f \in Fd, NEW d \in Dir, NEW emptied, Handled(f, slot[f].owner, d, emptied, FALSE)
          PROVE  slot' \in [Fd -> Slot]
      BY <3>3, HandledType
    <3>4. \A f \in Fd : slot[f].revents \subseteq Dir
      BY DEF Slot
    <3> QED BY <2>6, <3>1, <3>2, <3>3, <3>4 DEF HandlePollIo, Execute
  <2>7. CASE HandlePollIoEnd
    <3>1. worker.fd \in Fd /\ worker.dir \in Dir
      BY <2>7 DEF HandlePollIoEnd, Positions, Job
    <3> QED BY <2>7, <3>1, HandledType DEF HandlePollIoEnd
  <2>8. CASE ScanEnd
    BY <2>8 DEF ScanEnd
  <2> QED BY <1>1, <2>1, <2>2, <2>3, <2>4, <2>5, <2>6, <2>7, <2>8 DEF Worker
<1>2. ASSUME NEW c \in Conn, Client(c)
      PROVE  slot' \in [Fd -> Slot]
  <2>1. CASE Register(c)
    BY <2>1 DEF Register
  <2>2. CASE Open(c)
    BY <2>2 DEF Open
  <2>3. CASE Cancel(c)
    BY <2>3 DEF Cancel
  <2>4. CASE CloseBegin(c)
    BY <2>4 DEF CloseBegin
  <2>5. CASE CloseEnd(c)
    BY <2>5 DEF CloseEnd
  <2>6. CASE Unregister(c)
    BY <2>6 DEF Unregister
  <2>7. ASSUME NEW d \in Dir, Queue(c, d)
        PROVE  slot' \in [Fd -> Slot]
    BY <2>7 DEF Queue
  <2>8. CASE CloseFd(c)
    BY <2>8 DEF CloseFd
  <2> QED BY <1>2, <2>1, <2>2, <2>3, <2>4, <2>5, <2>6, <2>7, <2>8 DEF Client
<1>3. CASE UNCHANGED vars
  BY <1>3 DEF vars
<1> QED BY <1>1, <1>2, <1>3 DEF Next

(* Where the worker waits.                                                  *)
LEMMA PollTypes == Poll \in Job /\ Scan \in Job
BY DEF Poll, Scan, Job, Dir

(* The worker keeps its type, and the fields it needs.                      *)
LEMMA WorkerTypesStep ==
    ASSUME ITypes, [Next]_vars
    PROVE  worker' \in Job /\ Positions'
<1> USE DEF ITypes, TypeOK, ClientTypes, Poll, Scan, fdVars
<1>0. worker'.pc = "dispatch" => pipe' # <<>>
  BY PipeTypesStep
<1>1. CASE Worker
  <2>1. CASE PollReturns
    BY <1>0, <2>1 DEF PollReturns, Job, Positions
  <2>2. CASE DispatchAdd
    <3>1. Head(pipe).conn \in Conn /\ Head(pipe).dir \in Dir
      BY <2>2, TakeType, CommandFields DEF DispatchAdd, Positions
    <3>2. worker' = Scan \/ worker' = [Poll EXCEPT !.pc = "badf", !.conn = Head(pipe).conn, !.dir = Head(pipe).dir]
      BY <2>2 DEF DispatchAdd, BadFd
    <3> QED BY ONLY <1>0, <3>1, <3>2 DEF Job, Positions, Poll, Scan, Dir
  <2>3. CASE BadFdNext
    <3>1. worker.conn \in Conn /\ worker.dir \in Dir
      BY <2>3 DEF BadFdNext, Positions, Job
    <3>2. worker' = Scan \/ worker' = [Poll EXCEPT !.pc = "badf", !.conn = worker.conn, !.dir = worker.dir]
      BY <2>3 DEF BadFdNext, BadFd
    <3> QED BY ONLY <1>0, <3>1, <3>2 DEF Job, Positions, Poll, Scan, Dir
  <2>4. CASE DispatchDel
    BY <1>0, <2>4, PollTypes DEF DispatchDel, Positions
  <2>5. CASE DispatchDelFd
    BY <1>0, <2>5, PollTypes DEF DispatchDelFd, Positions
  <2>6. CASE HandlePollIo
    <3>1. CASE UNCHANGED worker
      BY <1>0, <3>1 DEF Positions
    <3>2. ASSUME NEW f \in Fd, NEW d \in slot[f].revents, slot[f].owner \in registered, Execute(f, slot[f].owner, d)
          PROVE  worker' \in Job /\ Positions'
      <4>1. slot[f].owner \in Conn /\ d \in Dir
        BY <3>2 DEF Slot
      <4>2. PICK more \in BOOLEAN : worker' = [pc |-> "callback", fd |-> f, conn |-> slot[f].owner, dir |-> d, more |-> more]
        BY <3>2 DEF Execute
      <4> QED BY ONLY <1>0, <3>2, <4>1, <4>2 DEF Job, Positions
    <3> QED BY <2>6, <3>1, <3>2 DEF HandlePollIo
  <2>7. CASE HandlePollIoEnd
    BY <1>0, <2>7, PollTypes DEF HandlePollIoEnd, Positions
  <2>8. CASE ScanEnd
    BY <1>0, <2>8, PollTypes DEF ScanEnd, Positions
  <2> QED BY <1>1, <2>1, <2>2, <2>3, <2>4, <2>5, <2>6, <2>7, <2>8 DEF Worker
<1>2. ASSUME NEW c \in Conn, Client(c)
      PROVE  worker' \in Job /\ Positions'
  <2>1. CASE Register(c)
    BY <1>0, <2>1 DEF Register, Job, Positions
  <2>2. CASE Open(c)
    BY <1>0, <2>2 DEF Open, Job, Positions
  <2>3. CASE Cancel(c)
    BY <1>0, <2>3 DEF Cancel, Job, Positions
  <2>4. CASE CloseBegin(c)
    BY <1>0, <2>4 DEF CloseBegin, Job, Positions
  <2>5. CASE CloseEnd(c)
    BY <1>0, <2>5 DEF CloseEnd, Job, Positions
  <2>6. CASE Unregister(c)
    BY <1>0, <2>6 DEF Unregister, Job, Positions
  <2>7. ASSUME NEW d \in Dir, Queue(c, d)
        PROVE  worker' \in Job /\ Positions'
    BY <1>0, <2>7 DEF Queue, Positions
  <2>8. CASE CloseFd(c)
    BY <1>0, <2>8 DEF CloseFd, Job, Positions
  <2> QED BY <1>2, <2>1, <2>2, <2>3, <2>4, <2>5, <2>6, <2>7, <2>8 DEF Client
<1>3. CASE UNCHANGED vars
  BY <1>3 DEF vars, Positions
<1> QED BY <1>1, <1>2, <1>3 DEF Next

(* A new manager is well typed.                                             *)
LEMMA InitTypes == Init => ITypes
<1> SUFFICES ASSUME Init PROVE ITypes
  OBVIOUS
<1>1. ClientTypes /\ pipe \in Seq(Command)
  BY DEF Init, ClientTypes
<1>2. queue \in [Conn -> [Dir -> Seq({"new", "done"})]]
  BY OpTypes DEF Init
<1>3. slot \in [Fd -> Slot]
  BY SlotTypes DEF Init
<1>4. worker \in Job /\ Positions
  BY DEF Init, Job, Positions, Poll, Dir
<1> QED BY <1>1, <1>2, <1>3, <1>4 DEF ITypes, TypeOK

(* Every step keeps the types.                                              *)
LEMMA ITypesStep == ITypes /\ [Next]_vars => ITypes'
BY ClientTypesStep, QueueTypesStep, PipeTypesStep, SlotTypesStep, WorkerTypesStep DEF ITypes, TypeOK

(* Every variable of the manager keeps its type, whatever clients do.        *)
THEOREM TypeCorrect == Spec => []TypeOK
<1>1. ITypes => TypeOK
  BY DEF ITypes
<1> QED BY InitTypes, ITypesStep, <1>1, PTL DEF Spec

-----------------------------------------------------------------------------
(* Owners. A connection that is being closed has nothing queued, and every   *)
(* command that would put its descriptor back into the poll list is followed *)
(* by the del_fd of its close. So a place in the poll list is its owner's,   *)
(* and the owner is not being closed, or a del_fd for it is on its way.      *)

Quiet == \A c \in closing, d \in Dir : queue[c][d] = <<>>

Descriptor == released \subseteq closing /\ \A c \in closing : fd[c] \in Fd

Ordered ==
    \A c \in closing, d \in Dir, i \in DOMAIN pipe :
        pipe[i] = Add(c, d) => \E j \in DOMAIN pipe : j > i /\ pipe[j] = DelFd(fd[c])

Owned ==
    \A f \in Fd : Polled(f) =>
        \/ slot[f].owner \in Conn \ closing /\ fd[slot[f].owner] = f
        \/ \E i \in DOMAIN pipe : pipe[i] = DelFd(f)

IOwner == ITypes /\ Quiet /\ Descriptor /\ Ordered /\ Owned

(* No two commands are the same by accident.                                *)
LEMMA CommandsDiffer ==
    /\ \A c1, c2, d1, d2 : Add(c1, d1) # Del(c2, d2)
    /\ \A c, d, f : Add(c, d) # DelFd(f) /\ Del(c, d) # DelFd(f)
    /\ \A c1, c2, d1, d2 : Add(c1, d1) = Add(c2, d2) => c1 = c2 /\ d1 = d2
    /\ \A c1, c2, d1, d2 : Del(c1, d1) = Del(c2, d2) => c1 = c2 /\ d1 = d2
    /\ \A f1, f2 : DelFd(f1) = DelFd(f2) => f1 = f2
<1>1. \A c1, c2, d1, d2 : Add(c1, d1).op # Del(c2, d2).op
  BY DEF Add, Del
<1>2. \A c, d, f : Add(c, d).op # DelFd(f).op /\ Del(c, d).op # DelFd(f).op
  BY DEF Add, Del, DelFd
<1>3. \A c, d : Add(c, d).conn = c /\ Add(c, d).dir = d /\ Del(c, d).conn = c /\ Del(c, d).dir = d
  BY DEF Add, Del
<1>4. \A f : DelFd(f).fd = f
  BY DEF DelFd
<1> QED BY ONLY <1>1, <1>2, <1>3, <1>4

(* Sending puts a command behind all others.                                *)
LEMMA SendKeeps ==
    ASSUME pipe \in Seq(Command), NEW cmd, Send(cmd)
    PROVE  /\ \A i \in DOMAIN pipe : i \in DOMAIN pipe' /\ pipe'[i] = pipe[i] /\ i < Len(pipe) + 1
           /\ Len(pipe) + 1 \in DOMAIN pipe' /\ pipe'[Len(pipe) + 1] = cmd
           /\ \A i \in DOMAIN pipe' : i \in DOMAIN pipe \/ i = Len(pipe) + 1
           /\ \A i \in DOMAIN pipe' : i \in Nat /\ i <= Len(pipe) + 1
BY DEF Send

(* Taking the command at the head moves the others up.                      *)
LEMMA TakeKeeps ==
    ASSUME pipe \in Seq(Command), pipe # <<>>, pipe' = Tail(pipe)
    PROVE  /\ \A i \in DOMAIN pipe' : i + 1 \in DOMAIN pipe /\ pipe'[i] = pipe[i + 1]
           /\ \A i \in DOMAIN pipe : i = 1 \/ (i - 1 \in DOMAIN pipe' /\ pipe'[i - 1] = pipe[i])
           /\ Head(pipe) = pipe[1] /\ 1 \in DOMAIN pipe
           /\ \A i \in DOMAIN pipe : i \in Nat /\ i >= 1
           /\ \A i \in DOMAIN pipe' : i \in Nat /\ i >= 1
OBVIOUS

(* Nothing is queued while a connection is being closed.                    *)
LEMMA QuietStep ==
    ASSUME IOwner, "late" \notin Usage, [Next]_vars
    PROVE  Quiet' /\ Descriptor'
<1> USE DEF IOwner, ITypes, TypeOK, ClientTypes, Quiet, Descriptor, fdVars
<1>1. CASE Worker
  <2>1. CASE PollReturns
    BY <2>1 DEF PollReturns
  <2>2. CASE DispatchAdd
    <3> DEFINE c == Head(pipe).conn
               d == Head(pipe).dir
    <3>1. UNCHANGED queue \/ (fd[c] = NoFd /\ \E q : queue' = [queue EXCEPT ![c][d] = q])
      BY <2>2 DEF DispatchAdd, BadFd
    <3>2. UNCHANGED fdVars
      BY <2>2 DEF DispatchAdd
    <3>3. fd[c] = NoFd => c \notin closing
      BY ManagerAssumption
    <3> QED BY <3>1, <3>2, <3>3
  <2>3. CASE BadFdNext
    <3> DEFINE c == worker.conn
               d == worker.dir
    <3>1. queue[c][d] # <<>> /\ \E q : queue' = [queue EXCEPT ![c][d] = q]
      BY <2>3 DEF BadFdNext, BadFd
    <3>2. UNCHANGED fdVars
      BY <2>3 DEF BadFdNext
    <3>3. d \in Dir
      BY DEF Job
    <3> QED BY <3>1, <3>2, <3>3
  <2>4. CASE DispatchDel
    BY <2>4 DEF DispatchDel
  <2>5. CASE DispatchDelFd
    BY <2>5 DEF DispatchDelFd
  <2>6. CASE HandlePollIo
    <3>1. UNCHANGED queue \/ \E c \in registered, d \in Dir : \E q : queue[c][d] # <<>> /\ queue' = [queue EXCEPT ![c][d] = q]
      <4>1. \A f \in Fd : slot[f].revents \subseteq Dir
        BY DEF Slot
      <4>2. PICK f \in Fd : \E d \in slot[f].revents :
                \/ UNCHANGED queue
                \/ slot[f].owner \in registered /\ queue[slot[f].owner][d] # <<>> /\ Execute(f, slot[f].owner, d)
        BY <2>6 DEF HandlePollIo
      <4>3. PICK d \in slot[f].revents :
                \/ UNCHANGED queue
                \/ slot[f].owner \in registered /\ queue[slot[f].owner][d] # <<>> /\ Execute(f, slot[f].owner, d)
        BY <4>2
      <4>4. CASE UNCHANGED queue
        BY <4>4
      <4>5. CASE slot[f].owner \in registered /\ queue[slot[f].owner][d] # <<>> /\ Execute(f, slot[f].owner, d)
        <5>1. queue' = [queue EXCEPT ![slot[f].owner][d] = [queue[slot[f].owner][d] EXCEPT ![1] = "done"]]
          BY <4>5 DEF Execute
        <5>2. d \in Dir
          BY <4>1
        <5> QED BY ONLY <4>5, <5>1, <5>2
      <4> QED BY <4>3, <4>4, <4>5
    <3>2. UNCHANGED fdVars
      BY <2>6 DEF HandlePollIo
    <3> QED BY <3>1, <3>2
  <2>7. CASE HandlePollIoEnd
    <3> DEFINE c == worker.conn
               d == worker.dir
    <3>1. UNCHANGED queue \/ (queue[c][d] # <<>> /\ \E q : queue' = [queue EXCEPT ![c][d] = q])
      BY <2>7 DEF HandlePollIoEnd
    <3>2. UNCHANGED fdVars
      BY <2>7 DEF HandlePollIoEnd
    <3>3. d \in Dir
      BY DEF Job
    <3> QED BY <3>1, <3>2, <3>3
  <2>8. CASE ScanEnd
    BY <2>8 DEF ScanEnd
  <2> QED BY <1>1, <2>1, <2>2, <2>3, <2>4, <2>5, <2>6, <2>7, <2>8 DEF Worker
<1>2. ASSUME NEW c \in Conn, Client(c)
      PROVE  Quiet' /\ Descriptor'
  <2>1. CASE Register(c)
    BY <2>1 DEF Register
  <2>2. CASE Open(c)
    BY <2>2, ManagerAssumption DEF Open
  <2>3. CASE Cancel(c)
    BY <2>3 DEF Cancel, Emptied
  <2>4. CASE CloseBegin(c)
    BY <2>4 DEF CloseBegin, Emptied
  <2>5. CASE CloseEnd(c)
    BY <2>5 DEF CloseEnd
  <2>6. CASE Unregister(c)
    BY <2>6 DEF Unregister, Emptied
  <2>7. ASSUME NEW d \in Dir, Queue(c, d)
        PROVE  Quiet' /\ Descriptor'
    BY <2>7 DEF Queue
  <2>8. CASE CloseFd(c)
    BY <2>8 DEF CloseFd
  <2> QED BY <1>2, <2>1, <2>2, <2>3, <2>4, <2>5, <2>6, <2>7, <2>8 DEF Client
<1>3. CASE UNCHANGED vars
  BY <1>3 DEF vars
<1> QED BY <1>1, <1>2, <1>3 DEF Next

(* The commands stay as they are, and no connection begins to close.         *)
LEMMA OrderedSame ==
    ASSUME Ordered, pipe' = pipe, \A c \in closing' : c \in closing /\ fd'[c] = fd[c]
    PROVE  Ordered'
BY DEF Ordered

(* A command is sent that adds no descriptor of a closing connection.        *)
LEMMA OrderedSend ==
    ASSUME ITypes, Ordered, NEW cmd, Send(cmd), UNCHANGED fd,
           \A c \in closing, d \in Dir : cmd # Add(c, d),
           \A c \in closing' : c \in closing \/ cmd = DelFd(fd[c])
    PROVE  Ordered'
<1> USE DEF ITypes, TypeOK, fdVars
<1> SUFFICES ASSUME NEW c \in closing', NEW d \in Dir, NEW i \in DOMAIN pipe', pipe'[i] = Add(c, d)
             PROVE  \E j \in DOMAIN pipe' : j > i /\ pipe'[j] = DelFd(fd[c])
  BY DEF Ordered
<1>0. /\ \A k \in DOMAIN pipe : k \in DOMAIN pipe' /\ pipe'[k] = pipe[k] /\ k < Len(pipe) + 1
      /\ Len(pipe) + 1 \in DOMAIN pipe' /\ pipe'[Len(pipe) + 1] = cmd
      /\ i \in DOMAIN pipe \/ i = Len(pipe) + 1
      /\ i \in Nat
  BY SendKeeps
<1>1. CASE c \in closing
  <2>1. i \in DOMAIN pipe /\ pipe[i] = Add(c, d)
    BY <1>0, <1>1
  <2>2. PICK j \in DOMAIN pipe : j > i /\ pipe[j] = DelFd(fd[c])
    BY <1>1, <2>1 DEF Ordered
  <2> QED BY <1>0, <2>2
<1>2. CASE cmd = DelFd(fd[c])
  <2>1. cmd # Add(c, d)
    BY <1>2, CommandsDiffer
  <2>2. i \in DOMAIN pipe /\ Len(pipe) + 1 > i
    BY <1>0, <2>1
  <2> QED BY <1>0, <1>2, <2>2
<1> QED BY <1>1, <1>2

(* The command at the head is taken: what follows a command still does.      *)
LEMMA OrderedTake ==
    ASSUME ITypes, Ordered, pipe # <<>>, pipe' = Tail(pipe), UNCHANGED <<fd, closing>>
    PROVE  Ordered'
<1> USE DEF ITypes, TypeOK, fdVars
<1> SUFFICES ASSUME NEW c \in closing, NEW d \in Dir, NEW i \in DOMAIN pipe', pipe'[i] = Add(c, d)
             PROVE  \E j \in DOMAIN pipe' : j > i /\ pipe'[j] = DelFd(fd[c])
  BY DEF Ordered
<1>0. i + 1 \in DOMAIN pipe /\ pipe[i + 1] = Add(c, d) /\ i \in Nat /\ i >= 1
  BY TakeKeeps
<1>1. PICK j \in DOMAIN pipe : j > i + 1 /\ pipe[j] = DelFd(fd[c])
  BY <1>0 DEF Ordered
<1>2. j \in Nat /\ (j = 1 \/ (j - 1 \in DOMAIN pipe' /\ pipe'[j - 1] = pipe[j]))
  BY TakeKeeps
<1>3. j # 1 /\ j - 1 > i
  BY <1>0, <1>1, <1>2
<1> QED BY <1>1, <1>2, <1>3

(* What a round over the ready descriptors does besides executing: it may     *)
(* send a command that removes, and changes no owner.                        *)
LEMMA Scans ==
    ASSUME ITypes, HandlePollIo
    PROVE  /\ UNCHANGED <<registered, fdVars>>
           /\ \A f \in Fd : slot'[f].owner = slot[f].owner
           /\ \/ pipe' = pipe
              \/ \E f : Send(DelFd(f))
              \/ \E c, d : Send(Del(c, d))
<1> USE DEF ITypes, TypeOK, fdVars
<1>1. PICK f \in Fd : \E d \in slot[f].revents :
          \/ Send(DelFd(f)) /\ slot' = [slot EXCEPT ![f] = Scanned([slot[f] EXCEPT !.events = {}], d, FALSE)]
          \/ \E emptied \in BOOLEAN : Handled(f, slot[f].owner, d, emptied, FALSE)
          \/ UNCHANGED <<pipe, slot>>
  BY DEF HandlePollIo, Execute
<1>2. PICK d \in slot[f].revents :
          \/ Send(DelFd(f)) /\ slot' = [slot EXCEPT ![f] = Scanned([slot[f] EXCEPT !.events = {}], d, FALSE)]
          \/ \E emptied \in BOOLEAN : Handled(f, slot[f].owner, d, emptied, FALSE)
          \/ UNCHANGED <<pipe, slot>>
  BY <1>1
<1>3. slot[f] \in Slot
  OBVIOUS
<1>4. \A more : Scanned(slot[f], d, more).owner = slot[f].owner
  BY <1>3 DEF Scanned, Slot
<1>5. Scanned([slot[f] EXCEPT !.events = {}], d, FALSE).owner = slot[f].owner
  BY <1>3 DEF Scanned, Slot
<1>6. \A g \in Fd : slot'[g].owner = slot[g].owner
  BY <1>2, <1>4, <1>5 DEF Handled
<1>7. \/ pipe' = pipe
      \/ \E g : Send(DelFd(g))
      \/ \E c, e : Send(Del(c, e))
  BY <1>2 DEF Handled
<1> QED BY <1>6, <1>7 DEF HandlePollIo

(* A command that adds a descriptor is followed by the del_fd of its close.   *)
LEMMA OrderedStep ==
    ASSUME IOwner, "late" \notin Usage, [Next]_vars
    PROVE  Ordered'
<1> USE DEF IOwner, ITypes, TypeOK, ClientTypes, fdVars
<1>1. CASE Worker
  <2>1. CASE PollReturns
    BY <2>1, OrderedSame DEF PollReturns
  <2>2. CASE DispatchAdd
    BY <2>2, OrderedTake DEF DispatchAdd, Positions
  <2>3. CASE BadFdNext
    BY <2>3, OrderedSame DEF BadFdNext
  <2>4. CASE DispatchDel
    BY <2>4, OrderedTake DEF DispatchDel, Positions
  <2>5. CASE DispatchDelFd
    BY <2>5, OrderedTake DEF DispatchDelFd, Positions
  <2>6. CASE HandlePollIo
    BY <2>6, Scans, CommandsDiffer, OrderedSame, OrderedSend
  <2>7. CASE HandlePollIoEnd
    <3>1. UNCHANGED <<fd, closing>> /\ (pipe' = pipe \/ Send(Del(worker.conn, worker.dir)))
      BY <2>7 DEF HandlePollIoEnd, Handled
    <3> QED BY <3>1, CommandsDiffer, OrderedSame, OrderedSend
  <2>8. CASE ScanEnd
    BY <2>8, OrderedSame DEF ScanEnd
  <2> QED BY <1>1, <2>1, <2>2, <2>3, <2>4, <2>5, <2>6, <2>7, <2>8 DEF Worker
<1>2. ASSUME NEW c \in Conn, Client(c)
      PROVE  Ordered'
  <2>1. CASE Register(c)
    BY <2>1, OrderedSame DEF Register
  <2>2. CASE Open(c)
    <3>1. pipe' = pipe /\ closing' = closing /\ \A x \in closing : fd'[x] = fd[x]
      BY <2>2, ManagerAssumption DEF Open, Descriptor
    <3> QED BY <3>1, OrderedSame
  <2>3. CASE Cancel(c)
    BY <2>3, CommandsDiffer, OrderedSend DEF Cancel
  <2>4. CASE CloseBegin(c)
    <3>1. Send(DelFd(fd[c])) /\ UNCHANGED fd /\ closing' = closing \cup {c}
      BY <2>4 DEF CloseBegin
    <3> QED BY <3>1, CommandsDiffer, OrderedSend
  <2>5. CASE CloseEnd(c)
    <3>1. pipe' = pipe /\ \A x \in closing' : x \in closing /\ fd'[x] = fd[x]
      BY <2>5 DEF CloseEnd
    <3> QED BY <3>1, OrderedSame
  <2>6. CASE Unregister(c)
    BY <2>6, CommandsDiffer, OrderedSend DEF Unregister
  <2>7. ASSUME NEW d \in Dir, Queue(c, d)
        PROVE  Ordered'
    <3>1. UNCHANGED <<fd, closing>> /\ c \notin closing /\ (Send(Add(c, d)) \/ pipe' = pipe)
      BY <2>7 DEF Queue
    <3>2. \A x \in closing, y \in Dir : Add(c, d) # Add(x, y)
      BY <3>1, CommandsDiffer
    <3> QED BY <3>1, <3>2, OrderedSend, OrderedSame
  <2>8. CASE CloseFd(c)
    BY <2>8, OrderedSame DEF CloseFd
  <2> QED BY <1>2, <2>1, <2>2, <2>3, <2>4, <2>5, <2>6, <2>7, <2>8 DEF Client
<1>3. CASE UNCHANGED vars
  BY <1>3, OrderedSame DEF vars
<1> QED BY <1>1, <1>2, <1>3 DEF Next

(* No owner changes, no connection begins to close, and no command is taken. *)
LEMMA OwnedKept ==
    ASSUME ITypes, Owned, \A f \in Fd : slot'[f].owner = slot[f].owner,
           UNCHANGED <<fd, closing>>, pipe' = pipe \/ \E cmd : Send(cmd)
    PROVE  Owned'
<1> USE DEF ITypes, TypeOK, fdVars
<1>1. \A i \in DOMAIN pipe : i \in DOMAIN pipe' /\ pipe'[i] = pipe[i]
  BY SendKeeps
<1> QED BY <1>1 DEF Owned, Polled

(* A command is taken that is no del_fd, and no owner changes, or an empty    *)
(* place gets an owner that is not being closed, or that a del_fd follows.   *)
LEMMA OwnedTake ==
    ASSUME ITypes, Owned, pipe # <<>>, pipe' = Tail(pipe), UNCHANGED <<fd, closing>>,
           \A f : Head(pipe) # DelFd(f),
           \A f \in Fd : \/ slot'[f].owner = slot[f].owner
                         \/ slot'[f].owner \in Conn \ closing /\ fd[slot'[f].owner] = f
                         \/ \E i \in DOMAIN pipe : pipe[i] = DelFd(f)
    PROVE  Owned'
<1> USE DEF ITypes, TypeOK, fdVars
<1>1. ASSUME NEW f, NEW i \in DOMAIN pipe, pipe[i] = DelFd(f)
      PROVE  \E j \in DOMAIN pipe' : pipe'[j] = DelFd(f)
  <2>1. pipe[1] # DelFd(f)
    BY TakeKeeps
  <2>2. i - 1 \in DOMAIN pipe' /\ pipe'[i - 1] = pipe[i]
    BY <1>1, <2>1, TakeKeeps
  <2> QED BY <1>1, <2>2
<1> QED BY <1>1 DEF Owned, Polled

(* The owners after add_poll_fd.                                            *)
LEMMA AddsOwner ==
    ASSUME slot \in [Fd -> Slot], NEW c \in Conn, fd[c] \in Fd, NEW d \in Dir, AddPollFd(c, d)
    PROVE  \A f \in Fd : \/ slot'[f].owner = slot[f].owner
                         \/ f = fd[c] /\ slot'[f].owner = c
<1>1. CASE Polled(fd[c])
  <2>1. slot' = [slot EXCEPT ![fd[c]] = Watch(slot[fd[c]], d)]
    BY <1>1 DEF AddPollFd, Polled
  <2>2. slot[fd[c]] \in Slot
    OBVIOUS
  <2>3. Watch(slot[fd[c]], d).owner = slot[fd[c]].owner
    BY <2>2 DEF Watch, Slot
  <2> QED BY <2>1, <2>3
<1>2. CASE ~Polled(fd[c])
  <2>1. slot' = [slot EXCEPT ![fd[c]] = [owner |-> c, events |-> {d}, revents |-> {}, more |-> {}]]
    BY <1>2 DEF AddPollFd, Polled
  <2> QED BY <2>1
<1> QED BY <1>1, <1>2

(* Every place in the poll list is its owner's, or about to be freed.         *)
LEMMA OwnedStep ==
    ASSUME IOwner, "late" \notin Usage, [Next]_vars
    PROVE  Owned'
<1> USE DEF IOwner, ITypes, TypeOK, ClientTypes, fdVars
<1>1. CASE Worker
  <2>1. CASE PollReturns
    <3>1. UNCHANGED <<fd, closing, pipe>> /\ \A f \in Fd : slot'[f].owner = slot[f].owner
      BY <2>1 DEF PollReturns, Slot
    <3> QED BY <3>1, OwnedKept
  <2>2. CASE DispatchAdd
    <3> DEFINE c == Head(pipe).conn
               d == Head(pipe).dir
    <3>1. c \in Conn /\ d \in Dir /\ pipe # <<>> /\ pipe' = Tail(pipe) /\ UNCHANGED <<fd, closing>>
      BY <2>2, TakeType, CommandFields DEF DispatchAdd, Positions
    <3>2. Head(pipe) = Add(c, d) /\ pipe[1] = Add(c, d) /\ 1 \in DOMAIN pipe
      <4>1. Head(pipe) \in Command /\ Head(pipe).op = "add"
        BY <2>2, <3>1, TakeType DEF DispatchAdd
      <4>2. Head(pipe) = Add(c, d)
        BY <4>1 DEF Command, Add
      <4> QED BY <3>1, <4>2, TakeKeeps
    <3>3. UNCHANGED slot \/ (fd[c] \in Fd /\ AddPollFd(c, d))
      BY <2>2, <3>1 DEF DispatchAdd, BadFd
    <3>4. \A f \in Fd : slot'[f].owner = slot[f].owner \/ (f = fd[c] /\ slot'[f].owner = c)
      BY <3>1, <3>3, AddsOwner
    <3>5. c \in closing => \E j \in DOMAIN pipe : pipe[j] = DelFd(fd[c])
      BY <3>1, <3>2 DEF Ordered
    <3>6. \A f : Head(pipe) # DelFd(f)
      BY <3>2, CommandsDiffer
    <3> QED BY <3>1, <3>4, <3>5, <3>6, OwnedTake
  <2>3. CASE BadFdNext
    <3> DEFINE c == worker.conn
               d == worker.dir
    <3>1. c \in Conn /\ d \in Dir /\ queue[c][d] # <<>> /\ UNCHANGED <<fd, closing, pipe>>
      BY <2>3 DEF BadFdNext, Positions, Job
    <3>2. c \notin closing
      BY <3>1 DEF Quiet
    <3>3. UNCHANGED slot \/ (fd[c] \in Fd /\ AddPollFd(c, d))
      BY <2>3, <3>1 DEF BadFdNext, BadFd
    <3>4. \A f \in Fd : slot'[f].owner = slot[f].owner \/ (f = fd[c] /\ slot'[f].owner = c)
      BY <3>1, <3>3, AddsOwner
    <3> QED BY <3>1, <3>2, <3>4 DEF Owned, Polled
  <2>4. CASE DispatchDel
    <3> DEFINE c == Head(pipe).conn
               d == Head(pipe).dir
    <3>1. c \in Conn /\ d \in Dir /\ pipe # <<>> /\ pipe' = Tail(pipe) /\ UNCHANGED <<fd, closing>>
      BY <2>4, TakeType, CommandFields DEF DispatchDel, Positions
    <3>2. \A f : Head(pipe) # DelFd(f)
      BY <2>4 DEF DispatchDel, DelFd
    <3>3. \A p \in Slot : Ignore(p, d).owner = p.owner
      BY DEF Ignore, Slot
    <3>4. \A f \in Fd : slot'[f].owner = slot[f].owner
      BY <2>4, <3>3 DEF DispatchDel
    <3> QED BY <3>1, <3>2, <3>4, OwnedTake
  <2>5. CASE DispatchDelFd
    <3>1. pipe # <<>> /\ pipe' = Tail(pipe) /\ UNCHANGED <<fd, closing>>
      BY <2>5 DEF DispatchDelFd, Positions
    <3>2. Head(pipe) = DelFd(Head(pipe).fd)
      <4>1. Head(pipe) \in Command /\ Head(pipe).op = "del_fd"
        BY <2>5, <3>1, TakeType DEF DispatchDelFd
      <4> QED BY <4>1 DEF Command, DelFd
    <3>3. \A f \in Fd : slot'[f] = IF f = Head(pipe).fd THEN NoSlot ELSE slot[f]
      BY <2>5 DEF DispatchDelFd
    <3>4. ASSUME NEW f \in Fd, f # Head(pipe).fd, NEW i \in DOMAIN pipe, pipe[i] = DelFd(f)
          PROVE  \E j \in DOMAIN pipe' : pipe'[j] = DelFd(f)
      <4>1. DelFd(f) # Head(pipe)
        BY <3>2, <3>4, CommandsDiffer
      <4>2. i # 1
        BY <3>1, <3>4, <4>1, TakeKeeps
      <4> QED BY <3>1, <3>4, <4>2, TakeKeeps
    <3>5. NoSlot.owner = NoConn
      BY DEF NoSlot
    <3> QED BY <3>1, <3>3, <3>4, <3>5 DEF Owned, Polled
  <2>6. CASE HandlePollIo
    BY <2>6, Scans, OwnedKept
  <2>7. CASE HandlePollIoEnd
    <3>1. UNCHANGED <<fd, closing>> /\ \E emptied, more : Handled(worker.fd, worker.conn, worker.dir, emptied, more)
      BY <2>7 DEF HandlePollIoEnd
    <3>2. worker.fd \in Fd /\ slot[worker.fd] \in Slot
      BY <2>7 DEF HandlePollIoEnd, Positions
    <3>3. \A more : Scanned(slot[worker.fd], worker.dir, more).owner = slot[worker.fd].owner
      BY <3>2 DEF Scanned, Slot
    <3>4. \A f \in Fd : slot'[f].owner = slot[f].owner
      BY <3>1, <3>3 DEF Handled
    <3>5. pipe' = pipe \/ \E cmd : Send(cmd)
      BY <3>1 DEF Handled
    <3> QED BY <3>1, <3>4, <3>5, OwnedKept
  <2>8. CASE ScanEnd
    BY <2>8, OwnedKept DEF ScanEnd
  <2> QED BY <1>1, <2>1, <2>2, <2>3, <2>4, <2>5, <2>6, <2>7, <2>8 DEF Worker
<1>2. ASSUME NEW c \in Conn, Client(c)
      PROVE  Owned'
  <2>1. CASE Register(c)
    BY <2>1, OwnedKept DEF Register
  <2>2. CASE Open(c)
    <3>1. UNCHANGED <<pipe, slot, closing>> /\ \A x \in Conn : fd'[x] = fd[x] \/ fd[x] = NoFd
      BY <2>2 DEF Open
    <3> QED BY <3>1, ManagerAssumption DEF Owned, Polled
  <2>3. CASE Cancel(c)
    BY <2>3, OwnedKept DEF Cancel
  <2>4. CASE CloseBegin(c)
    <3>1. Send(DelFd(fd[c])) /\ UNCHANGED <<fd, slot>> /\ closing' = closing \cup {c}
      BY <2>4 DEF CloseBegin
    <3>2. \A i \in DOMAIN pipe : i \in DOMAIN pipe' /\ pipe'[i] = pipe[i]
      BY <3>1, SendKeeps
    <3>3. \E i \in DOMAIN pipe' : pipe'[i] = DelFd(fd[c])
      BY <3>1, SendKeeps
    <3> QED BY <3>1, <3>2, <3>3 DEF Owned, Polled
  <2>5. CASE CloseEnd(c)
    <3>1. UNCHANGED <<pipe, slot>> /\ \A x \in Conn \ closing : x \notin closing' /\ fd'[x] = fd[x]
      BY <2>5 DEF CloseEnd, Descriptor
    <3> QED BY <3>1 DEF Owned, Polled
  <2>6. CASE Unregister(c)
    BY <2>6, OwnedKept DEF Unregister
  <2>7. ASSUME NEW d \in Dir, Queue(c, d)
        PROVE  Owned'
    BY <2>7, OwnedKept DEF Queue
  <2>8. CASE CloseFd(c)
    BY <2>8, OwnedKept DEF CloseFd
  <2> QED BY <1>2, <2>1, <2>2, <2>3, <2>4, <2>5, <2>6, <2>7, <2>8 DEF Client
<1>3. CASE UNCHANGED vars
  BY <1>3, OwnedKept DEF vars
<1> QED BY <1>1, <1>2, <1>3 DEF Next

(* At first nothing is polled, and nothing is closing.                       *)
LEMMA InitOwner == Init => IOwner
BY InitTypes DEF Init, IOwner, Quiet, Descriptor, Ordered, Owned, Polled, NoSlot

(* Every step keeps the owners, as long as nobody queues operations on a      *)
(* connection another thread is closing.                                     *)
LEMMA IOwnerStep == ASSUME "late" \notin Usage PROVE IOwner /\ [Next]_vars => IOwner'
BY ITypesStep, QuietStep, OrderedStep, OwnedStep DEF IOwner

(* As long as nobody queues operations on a connection that another thread is *)
(* closing, no operation is executed for a connection whose descriptor        *)
(* another has got: the place in the poll list is its owner's, or the command *)
(* that frees it is on its way.                                              *)
THEOREM OwnersCorrect == ASSUME "late" \notin Usage PROVE Spec => []NoStaleSlot
<1>1. IOwner => NoStaleSlot
  BY DEF IOwner, Descriptor, Owned, NoStaleSlot
<1> QED BY InitOwner, IOwnerStep, <1>1, PTL DEF Spec

-----------------------------------------------------------------------------
(* Wakeups, when clients only open, cancel and close. An operation that is    *)
(* queued has its add command on the way with no command behind it that       *)
(* undoes it, or is polled for with no such command on the way. It rests on   *)
(* descriptors having one connection besides those that gave theirs back or   *)
(* got it from such a one, on queues being empty before there is one, and on  *)
(* places in the poll list having an owner.                                  *)

OwnDescriptor ==
    /\ \A c1, c2 \in Conn : fd[c1] = fd[c2] /\ fd[c1] # NoFd /\ c1 # c2 => c1 \in released \cup shadowed
    /\ \A c \in Conn : c \notin registered => fd[c] = NoFd

NothingEarly ==
    /\ \A c \in Conn, d \in Dir : fd[c] = NoFd => queue[c][d] = <<>>
    /\ worker.pc # "badf"

Places ==
    /\ \A f \in Fd : /\ slot[f].owner \in registered \cup {NoConn}
                     /\ slot[f].owner = NoConn =>
                           slot[f].events = {} /\ slot[f].revents = {} /\ slot[f].more = {}
    /\ worker.pc = "callback" => Polled(worker.fd)

Undoes(cmd, c, d) == cmd = DelFd(fd[c]) \/ cmd = Del(c, d)

Requested(c, d) ==
    \E i \in DOMAIN pipe :
        /\ pipe[i] = Add(c, d)
        /\ \A j \in DOMAIN pipe : j > i => ~Undoes(pipe[j], c, d)

Served(c, d) ==
    /\ slot[fd[c]].owner = c
    /\ d \in slot[fd[c]].events
    /\ \A j \in DOMAIN pipe : ~Undoes(pipe[j], c, d)

Awake ==
    \A c \in registered \ (closing \cup shadowed), d \in Dir :
        fd[c] # NoFd /\ queue[c][d] # <<>> => Requested(c, d) \/ Served(c, d)

IWake == IOwner /\ OwnDescriptor /\ NothingEarly /\ Places /\ Awake

(* Descriptors have one connection, which is registered.                    *)
LEMMA OwnDescriptorStep ==
    ASSUME IWake, Usage \subseteq {"cancel"}, [Next]_vars
    PROVE  OwnDescriptor'
<1> USE DEF IWake, IOwner, ITypes, TypeOK, ClientTypes, OwnDescriptor, fdVars
<1>1. CASE Worker
  <2>1. CASE PollReturns
    BY <2>1 DEF PollReturns
  <2>2. CASE DispatchAdd
    BY <2>2 DEF DispatchAdd
  <2>3. CASE BadFdNext
    BY <2>3 DEF BadFdNext
  <2>4. CASE DispatchDel
    BY <2>4 DEF DispatchDel
  <2>5. CASE DispatchDelFd
    BY <2>5 DEF DispatchDelFd
  <2>6. CASE HandlePollIo
    BY <2>6, Scans
  <2>7. CASE HandlePollIoEnd
    BY <2>7 DEF HandlePollIoEnd
  <2>8. CASE ScanEnd
    BY <2>8 DEF ScanEnd
  <2> QED BY <1>1, <2>1, <2>2, <2>3, <2>4, <2>5, <2>6, <2>7, <2>8 DEF Worker
<1>2. ASSUME NEW c \in Conn, Client(c)
      PROVE  OwnDescriptor'
  <2>1. CASE Register(c)
    BY <2>1 DEF Register
  <2>2. CASE Open(c)
    BY <2>2 DEF Open
  <2>3. CASE Cancel(c)
    BY <2>3 DEF Cancel
  <2>4. CASE CloseBegin(c)
    BY <2>4 DEF CloseBegin
  <2>5. CASE CloseEnd(c)
    BY <2>5 DEF CloseEnd
  <2>6. CASE Unregister(c)
    BY <2>6 DEF Unregister
  <2>7. ASSUME NEW d \in Dir, Queue(c, d)
        PROVE  OwnDescriptor'
    BY <2>7 DEF Queue
  <2>8. CASE CloseFd(c)
    BY <2>8 DEF CloseFd
  <2> QED BY <1>2, <2>1, <2>2, <2>3, <2>4, <2>5, <2>6, <2>7, <2>8 DEF Client
<1>3. CASE UNCHANGED vars
  BY <1>3 DEF vars
<1> QED BY <1>1, <1>2, <1>3 DEF Next

(* Nothing is queued before there is a descriptor.                          *)
LEMMA NothingEarlyStep ==
    ASSUME IOwner, NothingEarly, "unopened" \notin Usage, [Next]_vars
    PROVE  NothingEarly'
<1> USE DEF IOwner, ITypes, TypeOK, ClientTypes, NothingEarly, fdVars
<1>1. CASE Worker
  <2>1. CASE PollReturns
    BY <2>1 DEF PollReturns
  <2>2. CASE DispatchAdd
    <3> DEFINE c == Head(pipe).conn
               d == Head(pipe).dir
    <3>1. c \in Conn /\ d \in Dir
      BY <2>2, TakeType, CommandFields DEF DispatchAdd, Positions
    <3>2. UNCHANGED fd
      BY <2>2 DEF DispatchAdd
    <3>3. CASE UNCHANGED queue /\ worker' = Scan
      BY <3>2, <3>3 DEF Scan, Poll
    <3>4. CASE fd[c] = NoFd /\ BadFd(c, d, queue[c][d])
      <4>1. queue[c][d] = <<>>
        BY <3>1, <3>4
      <4>2. worker' = Scan /\ queue' = [queue EXCEPT ![c][d] = <<>>]
        BY <3>4, <4>1 DEF BadFd
      <4> QED BY <3>2, <4>2 DEF Scan, Poll
    <3> QED BY <2>2, <3>3, <3>4 DEF DispatchAdd
  <2>3. CASE BadFdNext
    BY <2>3 DEF BadFdNext
  <2>4. CASE DispatchDel
    BY <2>4 DEF DispatchDel, Scan, Poll
  <2>5. CASE DispatchDelFd
    BY <2>5 DEF DispatchDelFd, Scan, Poll
  <2>6. CASE HandlePollIo
    <3>1. UNCHANGED fd
      BY <2>6 DEF HandlePollIo
    <3>2. CASE UNCHANGED <<queue, worker>>
      BY <3>1, <3>2
    <3>3. ASSUME NEW c \in registered, NEW d \in Dir, NEW f, queue[c][d] # <<>>, Execute(f, c, d)
          PROVE  NothingEarly'
      <4>1. queue' = [queue EXCEPT ![c][d] = [queue[c][d] EXCEPT ![1] = "done"]]
        BY <3>3 DEF Execute
      <4>2. worker'.pc = "callback"
        BY <3>3 DEF Execute
      <4> QED BY ONLY <3>1, <3>3, <4>1, <4>2, TypeOK, NothingEarly DEF TypeOK, ClientTypes, NothingEarly
    <3>4. \A f \in Fd : slot[f].revents \subseteq Dir
      BY DEF Slot
    <3>5. PICK f \in Fd : \E d \in slot[f].revents :
              \/ UNCHANGED <<queue, worker>>
              \/ slot[f].owner \in registered /\ queue[slot[f].owner][d] # <<>> /\ Execute(f, slot[f].owner, d)
      BY <2>6 DEF HandlePollIo
    <3> QED BY <3>2, <3>3, <3>4, <3>5
  <2>7. CASE HandlePollIoEnd
    <3> DEFINE c == worker.conn
               d == worker.dir
    <3>1. UNCHANGED fd /\ worker' = Scan
      BY <2>7 DEF HandlePollIoEnd
    <3>2. UNCHANGED queue \/ (queue[c][d] # <<>> /\ \E q : queue' = [queue EXCEPT ![c][d] = q])
      BY <2>7 DEF HandlePollIoEnd
    <3>3. d \in Dir
      BY DEF Job
    <3> QED BY <3>1, <3>2, <3>3 DEF Scan, Poll
  <2>8. CASE ScanEnd
    BY <2>8 DEF ScanEnd, Poll
  <2> QED BY <1>1, <2>1, <2>2, <2>3, <2>4, <2>5, <2>6, <2>7, <2>8 DEF Worker
<1>2. ASSUME NEW c \in Conn, Client(c)
      PROVE  NothingEarly'
  <2>1. CASE Register(c)
    BY <2>1 DEF Register
  <2>2. CASE Open(c)
    BY <2>2, ManagerAssumption DEF Open
  <2>3. CASE Cancel(c)
    BY <2>3 DEF Cancel, Emptied
  <2>4. CASE CloseBegin(c)
    BY <2>4 DEF CloseBegin, Emptied
  <2>5. CASE CloseEnd(c)
    BY <2>5 DEF CloseEnd, Quiet, Descriptor
  <2>6. CASE Unregister(c)
    BY <2>6 DEF Unregister, Emptied
  <2>7. ASSUME NEW d \in Dir, Queue(c, d)
        PROVE  NothingEarly'
    <3>1. fd[c] # NoFd /\ UNCHANGED <<fd, worker>> /\ queue' = [queue EXCEPT ![c][d] = Append(queue[c][d], "new")]
      BY <2>7 DEF Queue
    <3> QED BY <3>1
  <2>8. CASE CloseFd(c)
    BY <2>8 DEF CloseFd
  <2> QED BY <1>2, <2>1, <2>2, <2>3, <2>4, <2>5, <2>6, <2>7, <2>8 DEF Client
<1>3. CASE UNCHANGED vars
  BY <1>3 DEF vars
<1> QED BY <1>1, <1>2, <1>3 DEF Next

(* add_poll_fd only adds: an owner or an event.                             *)
LEMMA AddsEvent ==
    ASSUME slot \in [Fd -> Slot], NEW c \in Conn, fd[c] \in Fd, NEW d \in Dir, AddPollFd(c, d)
    PROVE  /\ \A f \in Fd : f # fd[c] => slot'[f] = slot[f]
           /\ slot'[fd[c]].owner = IF Polled(fd[c]) THEN slot[fd[c]].owner ELSE c
           /\ d \in slot'[fd[c]].events
           /\ Polled(fd[c]) => slot[fd[c]].events \subseteq slot'[fd[c]].events
<1>1. CASE Polled(fd[c])
  <2>1. slot' = [slot EXCEPT ![fd[c]] = Watch(slot[fd[c]], d)]
    BY <1>1 DEF AddPollFd, Polled
  <2>2. slot[fd[c]] \in Slot
    OBVIOUS
  <2>3. /\ Watch(slot[fd[c]], d).owner = slot[fd[c]].owner
        /\ Watch(slot[fd[c]], d).events = slot[fd[c]].events \cup {d}
    BY <2>2 DEF Watch, Slot
  <2> QED BY <1>1, <2>1, <2>3
<1>2. CASE ~Polled(fd[c])
  <2>1. slot' = [slot EXCEPT ![fd[c]] = [owner |-> c, events |-> {d}, revents |-> {}, more |-> {}]]
    BY <1>2 DEF AddPollFd, Polled
  <2> QED BY <1>2, <2>1
<1> QED BY <1>1, <1>2

(* What a look at an event of a place does to the place.                    *)
LEMMA ScannedFields ==
    ASSUME NEW p \in Slot, NEW d
    PROVE  /\ Scanned(p, d, FALSE).owner = p.owner
           /\ Scanned(p, d, FALSE).events = p.events
           /\ Scanned(p, d, FALSE).revents \subseteq p.revents
           /\ Scanned(p, d, FALSE).more \subseteq p.more
BY DEF Slot, Scanned

(* What polling a place no longer for an event does to it.                   *)
LEMMA IgnoreFields ==
    ASSUME NEW p \in Slot, NEW d
    PROVE  /\ Ignore(p, d).owner = p.owner
           /\ Ignore(p, d).events = p.events \ {d}
           /\ Ignore(p, d).revents \subseteq p.revents
           /\ Ignore(p, d).more \subseteq p.more
BY DEF Slot, Ignore

(* While every place has a registered owner, a round over the ready           *)
(* descriptors sends only a del of what is empty.                            *)
LEMMA ScansWake ==
    ASSUME ITypes, Places, HandlePollIo
    PROVE  /\ UNCHANGED <<registered, fdVars>>
           /\ \A c \in Conn, d \in Dir : queue'[c][d] # <<>> => queue[c][d] # <<>>
           /\ \A f \in Fd : /\ slot'[f].owner = slot[f].owner /\ slot'[f].events = slot[f].events
                            /\ slot'[f].revents \subseteq slot[f].revents
                            /\ slot'[f].more \subseteq slot[f].more
           /\ \/ pipe' = pipe
              \/ \E c \in Conn, d \in Dir : queue'[c][d] = <<>> /\ Send(Del(c, d))
           /\ worker'.pc = "callback" => worker'.fd \in Fd /\ slot[worker'.fd].owner \in registered
<1> USE DEF ITypes, TypeOK, ClientTypes, fdVars
<1>1. PICK f \in Fd : \E d \in slot[f].revents :
         \/ slot[f].owner \notin registered
         \/ /\ slot[f].owner \in registered
            /\ queue[slot[f].owner][d] = <<>>
            /\ Handled(f, slot[f].owner, d, TRUE, FALSE)
            /\ UNCHANGED <<queue, worker>>
         \/ /\ Handled(f, slot[f].owner, d, FALSE, FALSE)
            /\ UNCHANGED <<queue, worker>>
         \/ /\ slot[f].owner \in registered
            /\ queue[slot[f].owner][d] # <<>>
            /\ Execute(f, slot[f].owner, d)
  BY DEF HandlePollIo
<1>2. PICK d \in slot[f].revents :
         \/ slot[f].owner \notin registered
         \/ /\ slot[f].owner \in registered
            /\ queue[slot[f].owner][d] = <<>>
            /\ Handled(f, slot[f].owner, d, TRUE, FALSE)
            /\ UNCHANGED <<queue, worker>>
         \/ /\ Handled(f, slot[f].owner, d, FALSE, FALSE)
            /\ UNCHANGED <<queue, worker>>
         \/ /\ slot[f].owner \in registered
            /\ queue[slot[f].owner][d] # <<>>
            /\ Execute(f, slot[f].owner, d)
  BY <1>1
<1>3. slot[f] \in Slot /\ d \in Dir
  BY DEF Slot
<1>4. slot[f].owner \in registered /\ slot[f].owner \in Conn
  BY <1>3 DEF Places
<1>5. UNCHANGED <<registered, fdVars>> /\ worker.pc = "scan"
  BY DEF HandlePollIo
<1>6. ASSUME NEW emptied \in BOOLEAN, emptied => queue[slot[f].owner][d] = <<>>,
             Handled(f, slot[f].owner, d, emptied, FALSE), UNCHANGED <<queue, worker>>
      PROVE  /\ \A g \in Fd : /\ slot'[g].owner = slot[g].owner /\ slot'[g].events = slot[g].events
                              /\ slot'[g].revents \subseteq slot[g].revents
                              /\ slot'[g].more \subseteq slot[g].more
             /\ \/ pipe' = pipe
                \/ queue'[slot[f].owner][d] = <<>> /\ Send(Del(slot[f].owner, d))
  <2>1. slot' = [slot EXCEPT ![f] = Scanned(slot[f], d, FALSE)]
    BY <1>6 DEF Handled
  <2>2. \A g \in Fd : slot'[g] = IF g = f THEN Scanned(slot[f], d, FALSE) ELSE slot[g]
    BY <2>1
  <2>3. pipe' = pipe \/ (emptied /\ Send(Del(slot[f].owner, d)))
    BY <1>6 DEF Handled
  <2>4. /\ Scanned(slot[f], d, FALSE).owner = slot[f].owner
        /\ Scanned(slot[f], d, FALSE).events = slot[f].events
        /\ Scanned(slot[f], d, FALSE).revents \subseteq slot[f].revents
        /\ Scanned(slot[f], d, FALSE).more \subseteq slot[f].more
    BY ONLY <1>3, ScannedFields
  <2>5. pipe' = pipe \/ (queue'[slot[f].owner][d] = <<>> /\ Send(Del(slot[f].owner, d)))
    BY <1>6, <2>3
  <2> QED BY ONLY <2>2, <2>4, <2>5
<1>7. CASE Execute(f, slot[f].owner, d) /\ queue[slot[f].owner][d] # <<>>
  <2>1. queue' = [queue EXCEPT ![slot[f].owner][d] = [queue[slot[f].owner][d] EXCEPT ![1] = "done"]]
    BY <1>7 DEF Execute
  <2>2. \A c \in Conn, e \in Dir : queue'[c][e] # <<>> => queue[c][e] # <<>>
    BY ONLY TypeOK, <1>7, <2>1 DEF TypeOK
  <2>3. UNCHANGED <<pipe, slot>> /\ worker'.fd = f
    BY <1>7 DEF Execute
  <2> QED BY <1>4, <1>5, <2>2, <2>3
<1> QED BY <1>2, <1>3, <1>4, <1>5, <1>6, <1>7

(* Every place that is polled has a registered owner.                       *)
LEMMA PlacesStep ==
    ASSUME IWake, Usage \subseteq {"cancel"}, [Next]_vars
    PROVE  Places'
<1> USE DEF IWake, IOwner, ITypes, TypeOK, ClientTypes, Places, Polled, fdVars
<1>1. CASE Worker
  <2>1. CASE PollReturns
    <3>1. PICK ready \in SUBSET (Fd \X Dir) :
              /\ \A r \in ready : r[2] \in slot[r[1]].events
              /\ slot' = [f \in Fd |-> [slot[f] EXCEPT !.revents = slot[f].more \cup {d \in Dir : <<f, d>> \in ready}]]
      BY <2>1 DEF PollReturns
    <3>2. ASSUME NEW f \in Fd
          PROVE  /\ slot'[f].owner = slot[f].owner /\ slot'[f].events = slot[f].events /\ slot'[f].more = slot[f].more
                 /\ slot'[f].revents = slot[f].more \cup {d \in Dir : <<f, d>> \in ready}
      BY <3>1 DEF Slot
    <3>3. \A f \in Fd, d \in Dir : <<f, d>> \in ready => d \in slot[f].events
      BY <3>1
    <3>4. registered' = registered /\ worker'.pc # "callback"
      BY <2>1 DEF PollReturns, Job
    <3> QED BY <3>2, <3>3, <3>4
  <2>2. CASE DispatchAdd
    <3> DEFINE c == Head(pipe).conn
               d == Head(pipe).dir
    <3>1. c \in Conn /\ d \in Dir
      BY <2>2, TakeType, CommandFields DEF DispatchAdd, Positions
    <3>2. worker'.pc # "callback" /\ UNCHANGED registered
      BY <2>2 DEF DispatchAdd, BadFd, Scan, Poll
    <3>3. UNCHANGED slot \/ (c \in registered /\ fd[c] \in Fd /\ AddPollFd(c, d))
      BY <2>2, <3>1 DEF DispatchAdd, BadFd
    <3>4. CASE c \in registered /\ fd[c] \in Fd /\ AddPollFd(c, d)
      <4>1. /\ \A f \in Fd : f # fd[c] => slot'[f] = slot[f]
            /\ slot'[fd[c]].owner \in registered
        BY <3>1, <3>4, AddsEvent
      <4> QED BY <3>2, <4>1, ManagerAssumption
    <3> QED BY <3>2, <3>3, <3>4
  <2>3. CASE BadFdNext
    BY <2>3 DEF BadFdNext, NothingEarly
  <2>4. CASE DispatchDel
    <3>1. Head(pipe).conn \in Conn
      BY <2>4, TakeType, CommandFields DEF DispatchDel, Positions
    <3>2. worker'.pc # "callback" /\ UNCHANGED registered
      BY <2>4 DEF DispatchDel, Scan, Poll
    <3>3. \A f \in Fd : slot'[f] = slot[f] \/ slot'[f] = Ignore(slot[f], Head(pipe).dir)
      BY <2>4, <3>1 DEF DispatchDel
    <3>5. ASSUME NEW f \in Fd
          PROVE  /\ slot'[f].owner = slot[f].owner /\ slot'[f].events \subseteq slot[f].events
                 /\ slot'[f].revents \subseteq slot[f].revents /\ slot'[f].more \subseteq slot[f].more
      <4>1. slot[f] \in Slot
        OBVIOUS
      <4>2. /\ Ignore(slot[f], Head(pipe).dir).owner = slot[f].owner
            /\ Ignore(slot[f], Head(pipe).dir).events \subseteq slot[f].events
            /\ Ignore(slot[f], Head(pipe).dir).revents \subseteq slot[f].revents
            /\ Ignore(slot[f], Head(pipe).dir).more \subseteq slot[f].more
        BY ONLY <4>1, IgnoreFields
      <4> QED BY ONLY <3>3, <4>2
    <3> QED BY ONLY <3>2, <3>5, Places DEF Places, Polled
  <2>5. CASE DispatchDelFd
    <3>1. worker'.pc # "callback" /\ UNCHANGED registered
      BY <2>5 DEF DispatchDelFd, Scan, Poll
    <3>2. \A f \in Fd : slot'[f] = slot[f] \/ slot'[f] = NoSlot
      BY <2>5 DEF DispatchDelFd
    <3> QED BY <3>1, <3>2 DEF NoSlot
  <2>6. CASE HandlePollIo
    <3>1. /\ UNCHANGED registered
          /\ \A f \in Fd : /\ slot'[f].owner = slot[f].owner /\ slot'[f].events = slot[f].events
                           /\ slot'[f].revents \subseteq slot[f].revents
                           /\ slot'[f].more \subseteq slot[f].more
          /\ worker'.pc = "callback" => worker'.fd \in Fd /\ slot[worker'.fd].owner \in registered
      BY <2>6, ScansWake
    <3>2. registered \subseteq Conn
      OBVIOUS
    <3> QED BY ONLY <3>1, <3>2, Places, ManagerAssumption DEF Places, Polled
  <2>7. CASE HandlePollIoEnd
    <3>1. UNCHANGED registered /\ worker'.pc # "callback" /\ worker.pc = "callback" /\ worker.fd \in Fd
      BY <2>7 DEF HandlePollIoEnd, Scan, Poll, Positions
    <3>2. PICK more \in BOOLEAN : slot' = [slot EXCEPT ![worker.fd] = Scanned(slot[worker.fd], worker.dir, more)]
      BY <2>7 DEF HandlePollIoEnd, Handled, Job
    <3>3. slot[worker.fd] \in Slot /\ slot[worker.fd].owner # NoConn
      BY <3>1
    <3>4. slot'[worker.fd].owner = slot[worker.fd].owner
      BY <3>1, <3>2, <3>3 DEF Scanned, Slot
    <3>5. \A f \in Fd : f # worker.fd => slot'[f] = slot[f]
      BY <3>2
    <3> QED BY ONLY <3>1, <3>3, <3>4, <3>5, Places DEF Places, Polled
  <2>8. CASE ScanEnd
    BY <2>8 DEF ScanEnd, Poll
  <2> QED BY <1>1, <2>1, <2>2, <2>3, <2>4, <2>5, <2>6, <2>7, <2>8 DEF Worker
<1>2. ASSUME NEW c \in Conn, Client(c)
      PROVE  Places'
  <2>1. CASE Register(c)
    BY <2>1 DEF Register
  <2>2. CASE Open(c)
    BY <2>2 DEF Open
  <2>3. CASE Cancel(c)
    BY <2>3 DEF Cancel
  <2>4. CASE CloseBegin(c)
    BY <2>4 DEF CloseBegin
  <2>5. CASE CloseEnd(c)
    BY <2>5 DEF CloseEnd
  <2>6. CASE Unregister(c)
    BY <2>6 DEF Unregister
  <2>7. ASSUME NEW d \in Dir, Queue(c, d)
        PROVE  Places'
    BY <2>7 DEF Queue
  <2>8. CASE CloseFd(c)
    BY <2>8 DEF CloseFd
  <2> QED BY <1>2, <2>1, <2>2, <2>3, <2>4, <2>5, <2>6, <2>7, <2>8 DEF Client
<1>3. CASE UNCHANGED vars
  BY <1>3 DEF vars
<1> QED BY <1>1, <1>2, <1>3 DEF Next

(* What a del command undoes.                                               *)
LEMMA DelUndoes == \A c, d, x, e : Undoes(Del(c, d), x, e) => c = x /\ d = e
BY CommandsDiffer DEF Undoes

(* What was asked for or is polled for remains so, unless a command is sent   *)
(* that undoes it.                                                           *)
LEMMA PendingSame ==
    ASSUME ITypes, NEW c \in Conn, NEW d \in Dir, Requested(c, d) \/ Served(c, d),
           fd'[c] = fd[c],
           slot'[fd[c]].owner = slot[fd[c]].owner,
           slot[fd[c]].events \subseteq slot'[fd[c]].events,
           pipe' = pipe \/ \E cmd : Send(cmd) /\ ~Undoes(cmd, c, d)
    PROVE  Requested(c, d)' \/ Served(c, d)'
<1>1. CASE pipe' = pipe
  BY <1>1 DEF Requested, Served, Undoes
<1>2. ASSUME NEW cmd, Send(cmd), ~Undoes(cmd, c, d)
      PROVE  Requested(c, d)' \/ Served(c, d)'
  <2>1. /\ \A i \in DOMAIN pipe : i \in DOMAIN pipe' /\ pipe'[i] = pipe[i]
        /\ pipe'[Len(pipe) + 1] = cmd
        /\ \A i \in DOMAIN pipe' : i \in DOMAIN pipe \/ i = Len(pipe) + 1
    BY <1>2, SendKeeps DEF ITypes, TypeOK
  <2> QED BY ONLY <1>2, <2>1, Requested(c, d) \/ Served(c, d), fd'[c] = fd[c],
               slot'[fd[c]].owner = slot[fd[c]].owner,
               slot[fd[c]].events \subseteq slot'[fd[c]].events
       DEF Requested, Served, Undoes
<1> QED BY <1>1, <1>2

(* An add command just sent has nothing behind it.                          *)
LEMMA RequestedNow ==
    ASSUME ITypes, NEW c \in Conn, NEW d \in Dir, Send(Add(c, d))
    PROVE  Requested(c, d)'
<1>1. /\ Len(pipe) + 1 \in DOMAIN pipe' /\ pipe'[Len(pipe) + 1] = Add(c, d)
      /\ \A i \in DOMAIN pipe' : i \in Nat /\ i <= Len(pipe) + 1
  BY SendKeeps DEF ITypes, TypeOK
<1>2. Len(pipe) + 1 \in Nat
  BY DEF ITypes, TypeOK
<1>3. \A j \in DOMAIN pipe' : ~(j > Len(pipe) + 1)
  BY <1>1, <1>2
<1> QED BY ONLY <1>1, <1>3 DEF Requested

(* The command at the head is taken.                                        *)
LEMMA PendingTaken ==
    ASSUME ITypes, NEW c \in Conn, NEW d \in Dir, Requested(c, d) \/ Served(c, d),
           UNCHANGED fd, pipe # <<>>, pipe' = Tail(pipe), ~Requested(c, d)'
    PROVE  /\ \A j \in DOMAIN pipe' : ~Undoes(pipe'[j], c, d)
           /\ Head(pipe) = Add(c, d) \/ (Served(c, d) /\ ~Undoes(Head(pipe), c, d))
<1>1. /\ \A i \in DOMAIN pipe' : i + 1 \in DOMAIN pipe /\ pipe'[i] = pipe[i + 1]
      /\ \A i \in DOMAIN pipe : i = 1 \/ (i - 1 \in DOMAIN pipe' /\ pipe'[i - 1] = pipe[i])
      /\ Head(pipe) = pipe[1] /\ 1 \in DOMAIN pipe
      /\ \A i \in DOMAIN pipe : i \in Nat /\ i >= 1
      /\ \A i \in DOMAIN pipe' : i \in Nat /\ i >= 1
  BY TakeKeeps DEF ITypes, TypeOK
<1>2. CASE Served(c, d)
  BY <1>1, <1>2 DEF Served
<1>3. CASE Requested(c, d)
  <2>1. PICK i \in DOMAIN pipe : /\ pipe[i] = Add(c, d)
                                /\ \A j \in DOMAIN pipe : j > i => ~Undoes(pipe[j], c, d)
    BY <1>3 DEF Requested
  <2>2. CASE i = 1
    <3>1. \A j \in DOMAIN pipe' : j + 1 \in DOMAIN pipe /\ j + 1 > 1
      BY <1>1
    <3> QED BY <1>1, <2>1, <2>2, <3>1
  <2>3. CASE i # 1
    <3>1. i - 1 \in DOMAIN pipe' /\ pipe'[i - 1] = Add(c, d)
      BY <1>1, <2>1, <2>3
    <3>2. ASSUME NEW j \in DOMAIN pipe', j > i - 1
          PROVE  ~Undoes(pipe'[j], c, d)
      <4>1. j + 1 \in DOMAIN pipe /\ j + 1 > i /\ pipe'[j] = pipe[j + 1]
        BY <1>1, <2>1, <3>2
      <4> QED BY <2>1, <4>1
    <3>3. Requested(c, d)'
      BY ONLY <3>1, <3>2, UNCHANGED fd DEF Requested, Undoes
    <3> QED BY <3>3
  <2> QED BY <2>2, <2>3
<1> QED BY <1>2, <1>3

(* Nothing is queued that was not, polling ends for nothing, and no command   *)
(* is sent that undoes what queued operations need.                          *)
LEMMA AwakeKept ==
    ASSUME ITypes, Awake,
           \A c \in registered' \ (closing' \cup shadowed'), d \in Dir : fd'[c] # NoFd /\ queue'[c][d] # <<>> =>
               c \in registered \ (closing \cup shadowed) /\ fd'[c] = fd[c] /\ queue[c][d] # <<>>,
           \A f \in Fd : /\ slot'[f].owner = slot[f].owner
                         /\ slot'[f].events = slot[f].events,
           \/ pipe' = pipe
           \/ \E cmd : /\ Send(cmd)
                       /\ \A c \in registered' \ (closing' \cup shadowed'), d \in Dir :
                            fd[c] # NoFd /\ queue'[c][d] # <<>> => ~Undoes(cmd, c, d)
    PROVE  Awake'
<1> SUFFICES ASSUME NEW c \in registered' \ (closing' \cup shadowed'), NEW d \in Dir, fd'[c] # NoFd, queue'[c][d] # <<>>
             PROVE  Requested(c, d)' \/ Served(c, d)'
  BY DEF Awake
<1>1. c \in registered \ (closing \cup shadowed) /\ fd'[c] = fd[c] /\ queue[c][d] # <<>>
  OBVIOUS
<1>2. c \in Conn /\ fd[c] \in Fd
  BY <1>1 DEF ITypes, TypeOK, ClientTypes
<1>3. Requested(c, d) \/ Served(c, d)
  BY <1>1 DEF Awake
<1>4. pipe' = pipe \/ \E cmd : Send(cmd) /\ ~Undoes(cmd, c, d)
  BY <1>1
<1> QED BY <1>1, <1>2, <1>3, <1>4, PendingSame

(* Operations that are queued have asked for their event, or are polled for. *)
LEMMA AwakeStep ==
    ASSUME IWake, Usage \subseteq {"cancel"}, [Next]_vars
    PROVE  Awake'
<1> USE DEF IWake, IOwner, ITypes, TypeOK, ClientTypes, fdVars
<1>1. CASE Worker
  <2>1. CASE PollReturns
    <3>1. PICK ready \in SUBSET (Fd \X Dir) :
              slot' = [f \in Fd |-> [slot[f] EXCEPT !.revents = slot[f].more \cup {d \in Dir : <<f, d>> \in ready}]]
      BY <2>1 DEF PollReturns
    <3>2. UNCHANGED <<registered, fdVars, queue, pipe>>
      BY <2>1 DEF PollReturns
    <3>3. \A f \in Fd : slot'[f].owner = slot[f].owner /\ slot'[f].events = slot[f].events
      BY <3>1 DEF Slot
    <3> QED BY <3>2, <3>3, AwakeKept
  <2>2. CASE DispatchAdd
    <3> DEFINE c == Head(pipe).conn
               d == Head(pipe).dir
    <3>a. c \in Conn /\ d \in Dir /\ pipe # <<>>
      BY <2>2, TakeType, CommandFields DEF DispatchAdd, Positions
    <3>b. fd[c] = NoFd => queue[c][d] = <<>>
      BY <3>a DEF NothingEarly
    <3>c. queue' = queue
      <4>1. CASE UNCHANGED queue
        BY <4>1
      <4>2. CASE fd[c] = NoFd /\ BadFd(c, d, queue[c][d])
        <5>1. queue' = [queue EXCEPT ![c][d] = queue[c][d]]
          BY <3>b, <4>2 DEF BadFd
        <5>2. queue[c] = [queue[c] EXCEPT ![d] = queue[c][d]]
          BY ONLY <3>a, TypeOK DEF TypeOK
        <5>3. queue' = [queue EXCEPT ![c] = [queue[c] EXCEPT ![d] = queue[c][d]]]
          BY <5>1
        <5> QED BY ONLY <3>a, <5>2, <5>3, TypeOK DEF TypeOK
      <4> QED BY <2>2, <4>1, <4>2 DEF DispatchAdd
    <3>1. pipe # <<>> /\ pipe' = Tail(pipe) /\ UNCHANGED <<registered, fdVars, queue>>
      BY <2>2, <3>c DEF DispatchAdd, Positions
    <3> SUFFICES ASSUME NEW x \in registered \ (closing \cup shadowed), NEW e \in Dir, fd[x] # NoFd, queue[x][e] # <<>>,
                        ~Requested(x, e)'
                 PROVE  Served(x, e)'
      BY <3>1 DEF Awake
    <3>2. x \in Conn /\ fd[x] \in Fd
      OBVIOUS
    <3>3. Requested(x, e) \/ Served(x, e)
      BY DEF Awake
    <3>4. /\ \A j \in DOMAIN pipe' : ~Undoes(pipe'[j], x, e)
          /\ Head(pipe) = Add(x, e) \/ (Served(x, e) /\ ~Undoes(Head(pipe), x, e))
      BY <3>1, <3>2, <3>3, PendingTaken
    <3>5. Head(pipe) = Add(c, d)
      <4>1. Head(pipe) \in Command /\ Head(pipe).op = "add"
        BY <2>2, <3>1, TakeType DEF DispatchAdd
      <4> QED BY <4>1 DEF Command, Add
    <3>6. CASE Head(pipe) = Add(x, e)
      <4>1. c = x /\ d = e
        BY <3>5, <3>6, CommandsDiffer
      <4>2. AddPollFd(x, e)
        BY <2>2, <4>1 DEF DispatchAdd
      <4>3. /\ slot'[fd[x]].owner = IF Polled(fd[x]) THEN slot[fd[x]].owner ELSE x
            /\ e \in slot'[fd[x]].events
        BY <3>2, <4>2, AddsEvent
      <4>4. Polled(fd[x]) => slot[fd[x]].owner = x
        <5>1. \A i \in DOMAIN pipe : pipe[i] # DelFd(fd[x])
          <6>1. pipe[1] # DelFd(fd[x])
            BY <3>1, <3>5, TakeKeeps, CommandsDiffer
          <6>2. \A j \in DOMAIN pipe' : pipe'[j] # DelFd(fd[x])
            BY <3>4 DEF Undoes
          <6>3. \A i \in DOMAIN pipe : i = 1 \/ (i - 1 \in DOMAIN pipe' /\ pipe'[i - 1] = pipe[i])
            BY <3>1, TakeKeeps
          <6> QED BY ONLY <6>1, <6>2, <6>3
        <5> QED BY <3>2, <5>1 DEF Owned, OwnDescriptor, Descriptor
      <4> QED BY <3>1, <3>4, <4>3, <4>4 DEF Served, Undoes
    <3>7. CASE Head(pipe) # Add(x, e)
      <4>1. Served(x, e)
        BY <3>4, <3>7
      <4>2. slot[fd[x]].owner = x /\ e \in slot[fd[x]].events /\ Polled(fd[x])
        BY <3>2, <4>1, ManagerAssumption DEF Served, Polled
      <4>3. UNCHANGED slot \/ (fd[c] \in Fd /\ AddPollFd(c, d))
        BY <2>2, <3>a DEF DispatchAdd, BadFd
      <4>4. slot'[fd[x]].owner = x /\ e \in slot'[fd[x]].events
        <5>1. CASE UNCHANGED slot
          BY <4>2, <5>1
        <5>2. CASE fd[c] \in Fd /\ AddPollFd(c, d)
          <6>1. /\ fd[x] # fd[c] => slot'[fd[x]] = slot[fd[x]]
                /\ slot'[fd[c]].owner = IF Polled(fd[c]) THEN slot[fd[c]].owner ELSE c
                /\ Polled(fd[c]) => slot[fd[c]].events \subseteq slot'[fd[c]].events
            BY <3>a, <3>2, <5>2, AddsEvent
          <6> QED BY ONLY <4>2, <6>1
        <5> QED BY <4>3, <5>1, <5>2
      <4> QED BY <3>1, <3>4, <4>4 DEF Served, Undoes
    <3> QED BY <3>6, <3>7
  <2>3. CASE BadFdNext
    BY <2>3 DEF BadFdNext, NothingEarly
  <2>4. CASE DispatchDel
    <3>1. pipe # <<>> /\ pipe' = Tail(pipe) /\ UNCHANGED <<registered, fdVars, queue>>
      BY <2>4 DEF DispatchDel, Positions
    <3> SUFFICES ASSUME NEW x \in registered \ (closing \cup shadowed), NEW e \in Dir, fd[x] # NoFd, queue[x][e] # <<>>,
                        ~Requested(x, e)'
                 PROVE  Served(x, e)'
      BY <3>1 DEF Awake
    <3>2. x \in Conn /\ fd[x] \in Fd
      OBVIOUS
    <3>3. Requested(x, e) \/ Served(x, e)
      BY DEF Awake
    <3>4. /\ \A j \in DOMAIN pipe' : ~Undoes(pipe'[j], x, e)
          /\ Head(pipe) = Add(x, e) \/ (Served(x, e) /\ ~Undoes(Head(pipe), x, e))
      BY <3>1, <3>2, <3>3, PendingTaken
    <3>5. Head(pipe) = Del(Head(pipe).conn, Head(pipe).dir) /\ Head(pipe).conn \in Conn
      <4>1. Head(pipe) \in Command /\ Head(pipe).op = "del"
        BY <2>4, <3>1, TakeType DEF DispatchDel
      <4> QED BY <4>1 DEF Command, Del
    <3>6. Served(x, e) /\ ~Undoes(Head(pipe), x, e)
      BY <3>4, <3>5, CommandsDiffer
    <3>7. slot[fd[x]] \in Slot /\ slot[fd[x]].owner = x /\ e \in slot[fd[x]].events
      BY <3>2, <3>6 DEF Served
    <3>8. CASE UNCHANGED slot
      BY <3>1, <3>4, <3>7, <3>8 DEF Served, Undoes
    <3>9. CASE slot' = [slot EXCEPT ![fd[Head(pipe).conn]] = Ignore(slot[fd[Head(pipe).conn]], Head(pipe).dir)]
      <4>1. CASE fd[Head(pipe).conn] # fd[x]
        <5>1. slot'[fd[x]] = slot[fd[x]]
          BY <3>2, <3>9, <4>1
        <5> QED BY <3>1, <3>4, <3>7, <5>1 DEF Served, Undoes
      <4>2. CASE fd[Head(pipe).conn] = fd[x]
        <5>1. Head(pipe).conn = x
          BY <3>2, <3>5, <4>2 DEF OwnDescriptor, Descriptor
        <5>2. Head(pipe).dir # e
          BY <3>5, <3>6, <5>1 DEF Undoes
        <5>3. slot'[fd[x]] = Ignore(slot[fd[x]], Head(pipe).dir)
          BY <3>2, <3>9, <4>2
        <5>4. slot'[fd[x]].owner = x /\ e \in slot'[fd[x]].events
          BY ONLY <3>7, <5>2, <5>3, IgnoreFields
        <5> QED BY <3>1, <3>4, <5>4 DEF Served, Undoes
      <4> QED BY <4>1, <4>2
    <3> QED BY <2>4, <3>8, <3>9 DEF DispatchDel
  <2>5. CASE DispatchDelFd
    <3>1. pipe # <<>> /\ pipe' = Tail(pipe) /\ UNCHANGED <<registered, fdVars, queue>>
      BY <2>5 DEF DispatchDelFd, Positions
    <3> SUFFICES ASSUME NEW x \in registered \ (closing \cup shadowed), NEW e \in Dir, fd[x] # NoFd, queue[x][e] # <<>>,
                        ~Requested(x, e)'
                 PROVE  Served(x, e)'
      BY <3>1 DEF Awake
    <3>2. x \in Conn /\ fd[x] \in Fd
      OBVIOUS
    <3>3. Requested(x, e) \/ Served(x, e)
      BY DEF Awake
    <3>4. /\ \A j \in DOMAIN pipe' : ~Undoes(pipe'[j], x, e)
          /\ Head(pipe) = Add(x, e) \/ (Served(x, e) /\ ~Undoes(Head(pipe), x, e))
      BY <3>1, <3>2, <3>3, PendingTaken
    <3>5. Head(pipe) = DelFd(Head(pipe).fd)
      <4>1. Head(pipe) \in Command /\ Head(pipe).op = "del_fd"
        BY <2>5, <3>1, TakeType DEF DispatchDelFd
      <4> QED BY <4>1 DEF Command, DelFd
    <3>6. Served(x, e) /\ ~Undoes(Head(pipe), x, e)
      BY <3>4, <3>5, CommandsDiffer
    <3>7. fd[x] # Head(pipe).fd
      BY <3>5, <3>6 DEF Undoes
    <3>8. slot'[fd[x]] = slot[fd[x]]
      BY <2>5, <3>2, <3>7 DEF DispatchDelFd
    <3> QED BY <3>1, <3>4, <3>6, <3>8 DEF Served, Undoes
  <2>6. CASE HandlePollIo
    <3>1. /\ UNCHANGED <<registered, fdVars>>
          /\ \A c \in Conn, d \in Dir : queue'[c][d] # <<>> => queue[c][d] # <<>>
          /\ \A f \in Fd : slot'[f].owner = slot[f].owner /\ slot'[f].events = slot[f].events
          /\ \/ pipe' = pipe
             \/ \E c \in Conn, d \in Dir : queue'[c][d] = <<>> /\ Send(Del(c, d))
      BY <2>6, ScansWake
    <3>2. \/ pipe' = pipe
          \/ \E cmd : /\ Send(cmd)
                      /\ \A c \in registered' \ (closing' \cup shadowed'), d \in Dir :
                           fd[c] # NoFd /\ queue'[c][d] # <<>> => ~Undoes(cmd, c, d)
      <4>1. ASSUME NEW c \in Conn, NEW d \in Dir, queue'[c][d] = <<>>,
                   NEW x \in Conn, NEW e \in Dir, queue'[x][e] # <<>>
            PROVE  ~Undoes(Del(c, d), x, e)
        BY ONLY <4>1, DelUndoes
      <4>2. registered' \subseteq Conn
        BY <3>1
      <4>3. CASE pipe' = pipe
        BY <4>3
      <4>4. ASSUME NEW c \in Conn, NEW d \in Dir, queue'[c][d] = <<>>, Send(Del(c, d))
            PROVE  \E cmd : /\ Send(cmd)
                            /\ \A x \in registered' \ (closing' \cup shadowed'), e \in Dir :
                                 fd[x] # NoFd /\ queue'[x][e] # <<>> => ~Undoes(cmd, x, e)
        <5>1. \A x \in registered' \ (closing' \cup shadowed'), e \in Dir :
                 fd[x] # NoFd /\ queue'[x][e] # <<>> => ~Undoes(Del(c, d), x, e)
          BY <4>1, <4>2, <4>4
        <5> QED BY ONLY <4>4, <5>1
      <4> QED BY ONLY <3>1, <4>3, <4>4
    <3> QED BY <3>1, <3>2, AwakeKept
  <2>7. CASE HandlePollIoEnd
    <3> DEFINE c == worker.conn
               d == worker.dir
               left == IF cancelled[c] \/ queue[c][d] = <<>> THEN queue[c][d] ELSE Tail(queue[c][d])
    <3>1. /\ UNCHANGED <<registered, fdVars>>
          /\ queue' = [queue EXCEPT ![c][d] = left]
          /\ Handled(worker.fd, c, d, left = <<>>, worker.more)
          /\ worker.fd \in Fd
      BY <2>7 DEF HandlePollIoEnd, Positions
    <3>2. c \in Conn /\ d \in Dir
      BY <2>7 DEF HandlePollIoEnd, Positions, Job
    <3>3. queue[c][d] = <<>> => left = <<>>
      OBVIOUS
    <3> HIDE DEF left
    <3>4. /\ queue'[c][d] = left
          /\ \A x \in Conn, e \in Dir : queue'[x][e] # <<>> => queue[x][e] # <<>>
      BY ONLY TypeOK, <3>1, <3>2, <3>3 DEF TypeOK
    <3>5. \/ pipe' = pipe
          \/ \E cmd : /\ Send(cmd)
                      /\ \A x \in registered' \ (closing' \cup shadowed'), e \in Dir :
                           fd[x] # NoFd /\ queue'[x][e] # <<>> => ~Undoes(cmd, x, e)
      <4>1. pipe' = pipe \/ (queue'[c][d] = <<>> /\ Send(Del(c, d)))
        BY <3>1, <3>4 DEF Handled
      <4>2. ASSUME queue'[c][d] = <<>>, NEW x \in registered' \ (closing' \cup shadowed'), NEW e \in Dir, queue'[x][e] # <<>>
            PROVE  ~Undoes(Del(c, d), x, e)
        BY ONLY <4>2, DelUndoes
      <4> QED BY ONLY <4>1, <4>2
    <3>6. slot' = [slot EXCEPT ![worker.fd] = Scanned(slot[worker.fd], d, worker.more)]
      BY <3>1 DEF Handled
    <3>7. \A p \in Slot : /\ Scanned(p, d, worker.more).owner = p.owner
                          /\ Scanned(p, d, worker.more).events = p.events
      BY DEF Scanned, Slot
    <3>8. \A f \in Fd : slot'[f].owner = slot[f].owner /\ slot'[f].events = slot[f].events
      BY <3>1, <3>6, <3>7
    <3> QED BY <3>1, <3>4, <3>5, <3>8, AwakeKept
  <2>8. CASE ScanEnd
    BY <2>8, AwakeKept DEF ScanEnd
  <2> QED BY <1>1, <2>1, <2>2, <2>3, <2>4, <2>5, <2>6, <2>7, <2>8 DEF Worker
<1>2. ASSUME NEW c \in Conn, Client(c)
      PROVE  Awake'
  <2>1. CASE Register(c)
    <3>1. UNCHANGED <<fdVars, queue, pipe, slot>> /\ registered' = registered \cup {c} /\ fd[c] = NoFd
      BY <2>1 DEF Register, OwnDescriptor
    <3> QED BY <3>1, AwakeKept
  <2>2. CASE Open(c)
    <3>1. /\ UNCHANGED <<registered, closing, queue, pipe, slot>> /\ shadowed \subseteq shadowed'
          /\ \A x \in Conn : fd'[x] = fd[x] \/ fd[x] = NoFd
      BY <2>2 DEF Open
    <3>2. \A x \in Conn, e \in Dir : queue[x][e] # <<>> => fd'[x] = fd[x]
      BY <3>1 DEF NothingEarly
    <3> QED BY <3>1, <3>2, AwakeKept
  <2>3. CASE Cancel(c)
    <3>1. UNCHANGED <<registered, fdVars, slot>> /\ queue' = Emptied(c) /\ Send(DelFd(fd[c]))
      BY <2>3 DEF Cancel
    <3>2. \A x \in Conn, e \in Dir : queue'[x][e] # <<>> => x # c /\ queue[x][e] # <<>>
      BY <3>1 DEF Emptied
    <3>3. \A x \in Conn \ (closing \cup shadowed), e \in Dir :
            x # c /\ fd[x] # NoFd => ~Undoes(DelFd(fd[c]), x, e)
      BY CommandsDiffer DEF Undoes, OwnDescriptor, Descriptor
    <3> QED BY <3>1, <3>2, <3>3, AwakeKept
  <2>4. CASE CloseBegin(c)
    <3>1. /\ UNCHANGED <<registered, fd, released, shadowed, slot>> /\ queue' = Emptied(c) /\ Send(DelFd(fd[c]))
          /\ closing' = closing \cup {c}
      BY <2>4 DEF CloseBegin
    <3>2. \A x \in Conn, e \in Dir : queue'[x][e] # <<>> => x # c /\ queue[x][e] # <<>>
      BY <3>1 DEF Emptied
    <3>3. \A x \in Conn \ (closing \cup shadowed), e \in Dir :
            x # c /\ fd[x] # NoFd => ~Undoes(DelFd(fd[c]), x, e)
      BY CommandsDiffer DEF Undoes, OwnDescriptor, Descriptor
    <3> QED BY <3>1, <3>2, <3>3, AwakeKept
  <2>5. CASE CloseEnd(c)
    <3>1. /\ UNCHANGED <<registered, queue, pipe, slot>> /\ fd' = [fd EXCEPT ![c] = NoFd]
          /\ closing' = closing \ {c} /\ shadowed' = shadowed \ {c}
      BY <2>5 DEF CloseEnd
    <3> QED BY <3>1, AwakeKept
  <2>6. CASE Unregister(c)
    BY <2>6 DEF Unregister
  <2>7. ASSUME NEW d \in Dir, Queue(c, d)
        PROVE  Awake'
    <3>1. /\ UNCHANGED <<registered, fdVars, slot>> /\ queue' = [queue EXCEPT ![c][d] = Append(queue[c][d], "new")]
          /\ IF queue[c][d] = <<>> THEN Send(Add(c, d)) ELSE UNCHANGED pipe
      BY <2>7 DEF Queue
    <3>2. \A x \in Conn, e \in Dir : ~(x = c /\ e = d) => queue'[x][e] = queue[x][e]
      BY <3>1
    <3>3. CASE queue[c][d] # <<>>
      <4>1. \A x \in Conn, e \in Dir : queue'[x][e] # <<>> => queue[x][e] # <<>>
        BY <3>2, <3>3
      <4> QED BY <3>1, <3>3, <4>1, AwakeKept
    <3>4. CASE queue[c][d] = <<>>
      <4>1. Requested(c, d)'
        BY <3>1, <3>4, RequestedNow
      <4>2. ASSUME NEW x \in registered \ (closing \cup shadowed), NEW e \in Dir, fd[x] # NoFd, queue'[x][e] # <<>>,
                   ~(x = c /\ e = d)
            PROVE  Requested(x, e)' \/ Served(x, e)'
        <5>1. x \in Conn /\ fd[x] \in Fd
          BY <4>2
        <5>2. Requested(x, e) \/ Served(x, e)
          BY <3>2, <4>2, <5>1 DEF Awake
        <5>3. Send(Add(c, d)) /\ ~Undoes(Add(c, d), x, e)
          BY <3>1, <3>4, CommandsDiffer DEF Undoes
        <5> QED BY <3>1, <5>1, <5>2, <5>3, PendingSame
      <4> QED BY <3>1, <4>1, <4>2 DEF Awake
    <3> QED BY <3>3, <3>4
  <2>8. CASE CloseFd(c)
    BY <2>8, AwakeKept DEF CloseFd
  <2> QED BY <1>2, <2>1, <2>2, <2>3, <2>4, <2>5, <2>6, <2>7, <2>8 DEF Client
<1>3. CASE UNCHANGED vars
  BY <1>3, AwakeKept DEF vars
<1> QED BY <1>1, <1>2, <1>3 DEF Next

(* At first nothing is open, queued or polled.                              *)
LEMMA InitWake == Init => IWake
<1> SUFFICES ASSUME Init PROVE IWake
  OBVIOUS
<1>1. OwnDescriptor /\ NothingEarly /\ Awake
  BY DEF Init, OwnDescriptor, NothingEarly, Awake, Poll
<1>2. Places
  BY DEF Init, Places, Poll, NoSlot
<1> QED BY <1>1, <1>2, InitOwner DEF IWake

(* Every step keeps the wakeups.                                            *)
LEMMA IWakeStep == ASSUME Usage \subseteq {"cancel"} PROVE IWake /\ [Next]_vars => IWake'
<1> SUFFICES ASSUME IWake, [Next]_vars PROVE IWake'
  OBVIOUS
<1>1. IOwner'
  BY IOwnerStep DEF IWake
<1>2. NothingEarly'
  BY NothingEarlyStep DEF IWake
<1> QED BY <1>1, <1>2, OwnDescriptorStep, PlacesStep, AwakeStep DEF IWake

(* While the worker sleeps and no command is on its way, every operation that *)
(* is queued is polled for, on behalf of its connection, whatever descriptors *)
(* were closed and reused, as long as connections are used while open, closed *)
(* by one thread and not destroyed. Excepted is a connection that itself got  *)
(* its number between ::close(fd) and fd = -1 of another.                     *)
THEOREM WakeupsCorrect == ASSUME Usage \subseteq {"cancel"} PROVE Spec => []NoLostWakeup
<1>1. IWake => NoLostWakeup
  BY DEF IWake, Awake, Requested, Served, NoLostWakeup, Woken
<1> QED BY InitWake, IWakeStep, <1>1, PTL DEF Spec

-----------------------------------------------------------------------------
(* Callbacks. Only the operation whose callback is being called has been      *)
(* executed, and it is at the head of its queue unless the queue was          *)
(* cancelled, which `cancelled` records until the callback has returned.       *)

AllNew(q) == \A i \in DOMAIN q : q[i] # "done"
Begun(q)  == q # <<>> /\ q[1] = "done" /\ \A i \in DOMAIN q : i # 1 => q[i] # "done"

Calling == worker.pc \in {"callback", "badf"}

Executed ==
    /\ Calling => worker.conn \in registered
    /\ \A c \in Conn, d \in Dir :
         \/ AllNew(queue[c][d])
         \/ Begun(queue[c][d]) /\ Calling /\ worker.conn = c /\ worker.dir = d
    /\ worker.pc = "callback" =>
         IF cancelled[worker.conn] THEN AllNew(queue[worker.conn][worker.dir])
                                   ELSE Begun(queue[worker.conn][worker.dir])

IOnce == ITypes /\ Executed

(* What happens to a queue, in these terms.                                  *)
LEMMA OpStates ==
    ASSUME NEW q \in Seq({"new", "done"})
    PROVE  /\ AllNew(<<>>)
           /\ AllNew(q) => AllNew(Append(q, "new"))
           /\ Begun(q) => Begun(Append(q, "new"))
           /\ AllNew(q) /\ q # <<>> => Begun([q EXCEPT ![1] = "done"])
           /\ (AllNew(q) \/ Begun(q)) /\ q # <<>> => AllNew(Tail(q))
           /\ AllNew(q) => ~Begun(q)
<1>1. \A i \in DOMAIN Append(q, "new") :
        IF i \in DOMAIN q THEN Append(q, "new")[i] = q[i] ELSE Append(q, "new")[i] = "new"
  OBVIOUS
<1>2. ASSUME q # <<>>
      PROVE  /\ 1 \in DOMAIN q /\ Append(q, "new") # <<>> /\ 1 \in DOMAIN Append(q, "new")
             /\ \A i \in DOMAIN Tail(q) : i + 1 \in DOMAIN q /\ i + 1 # 1 /\ Tail(q)[i] = q[i + 1]
  BY <1>2
<1>3. AllNew(<<>>)
  BY DEF AllNew
<1>4. AllNew(q) => AllNew(Append(q, "new"))
  BY <1>1 DEF AllNew
<1>5. Begun(q) => Begun(Append(q, "new"))
  BY <1>1, <1>2 DEF Begun
<1>6. AllNew(q) /\ q # <<>> => Begun([q EXCEPT ![1] = "done"])
  <2> SUFFICES ASSUME AllNew(q), q # <<>> PROVE Begun([q EXCEPT ![1] = "done"])
    OBVIOUS
  <2> DEFINE r == [q EXCEPT ![1] = "done"]
  <2>1. r \in Seq({"new", "done"}) /\ DOMAIN r = DOMAIN q /\ r[1] = "done" /\ 1 \in DOMAIN r
    BY <1>2
  <2>2. r # <<>>
    BY <2>1
  <2>3. \A i \in DOMAIN r : i # 1 => r[i] = q[i]
    OBVIOUS
  <2> QED BY <2>1, <2>2, <2>3 DEF AllNew, Begun
<1>7. (AllNew(q) \/ Begun(q)) /\ q # <<>> => AllNew(Tail(q))
  BY <1>2 DEF AllNew, Begun
<1>8. AllNew(q) => ~Begun(q)
  BY <1>2 DEF AllNew, Begun
<1> QED BY <1>3, <1>4, <1>5, <1>6, <1>7, <1>8

(* What is left of a queue behind its head.                                  *)
LEMMA RestNew ==
    ASSUME NEW q \in Seq({"new", "done"}), q # <<>>, AllNew(q) \/ Begun(q)
    PROVE  Tail(q) \in Seq({"new", "done"}) /\ AllNew(Tail(q))
<1>1. Tail(q) \in Seq({"new", "done"})
  OBVIOUS
<1>2. (AllNew(q) \/ Begun(q)) /\ q # <<>> => AllNew(Tail(q))
  BY OpStates
<1> QED BY <1>1, <1>2

(* A step that calls no callback and returns from none, and at most appends   *)
(* to a queue or empties those of a connection, raising its flag if the       *)
(* callback that is being called is its own.                                 *)
LEMMA ExecutedKept ==
    ASSUME ITypes, Executed, worker'.conn = worker.conn, worker'.dir = worker.dir,
           Calling => worker'.pc = worker.pc, ~Calling => ~Calling',
           Calling => worker.conn \in registered',
           \A c \in Conn, d \in Dir :
             \/ queue'[c][d] = queue[c][d]
             \/ queue'[c][d] = Append(queue[c][d], "new")
             \/ queue'[c][d] = <<>> /\ (worker.pc = "callback" /\ worker.conn = c => cancelled'[c]),
           \A c \in registered : cancelled[c] => cancelled'[c],
           \A c \in registered : cancelled'[c] /\ ~cancelled[c] => \A d \in Dir : queue'[c][d] = <<>>
    PROVE  Executed'
<1> USE DEF ITypes, TypeOK, fdVars
<1>1. ASSUME NEW c \in Conn, NEW d \in Dir
      PROVE  /\ AllNew(queue[c][d]) => AllNew(queue'[c][d])
             /\ Begun(queue[c][d]) => Begun(queue'[c][d]) \/ queue'[c][d] = <<>>
             /\ AllNew(<<>>)
  <2>1. queue[c][d] \in Seq({"new", "done"})
    OBVIOUS
  <2>2. CASE queue'[c][d] = queue[c][d]
    BY <2>1, <2>2, OpStates
  <2>3. CASE queue'[c][d] = Append(queue[c][d], "new")
    BY <2>1, <2>3, OpStates
  <2>4. CASE queue'[c][d] = <<>>
    BY <2>1, <2>4, OpStates
  <2> QED BY <2>2, <2>3, <2>4
<1>2. (Calling => Calling') /\ (Calling' => Calling)
  BY DEF Calling
<1>3. ASSUME NEW c \in Conn, NEW d \in Dir
      PROVE  \/ AllNew(queue'[c][d])
             \/ Begun(queue'[c][d]) /\ Calling' /\ worker'.conn = c /\ worker'.dir = d
  <2>1. CASE AllNew(queue[c][d]) BY <1>1, <2>1
  <2>2. CASE Begun(queue[c][d]) /\ Calling /\ worker.conn = c /\ worker.dir = d
    <3>1. Begun(queue'[c][d]) \/ AllNew(queue'[c][d])
      BY <1>1, <2>2
    <3>2. Calling'
      BY <2>2 DEF Calling
    <3> QED BY <2>2, <3>1, <3>2
  <2> QED BY <2>1, <2>2 DEF Executed
<1>4. ASSUME worker'.pc = "callback"
      PROVE  IF cancelled'[worker'.conn] THEN AllNew(queue'[worker'.conn][worker'.dir])
                                         ELSE Begun(queue'[worker'.conn][worker'.dir])
  <2> DEFINE c == worker.conn
             d == worker.dir
  <2>1. worker.pc = "callback" /\ c \in registered /\ c \in Conn /\ d \in Dir
    BY <1>4 DEF Calling, Executed, Positions, Job
  <2>2. CASE cancelled[c]
    <3>1. AllNew(queue[c][d]) /\ cancelled'[c]
      BY <2>1, <2>2 DEF Executed
    <3> QED BY <1>1, <2>1, <3>1
  <2>3. CASE ~cancelled[c] /\ cancelled'[c]
    <3>1. queue'[c][d] = <<>> /\ AllNew(<<>>)
      BY <1>1, <2>1, <2>3
    <3> QED BY <2>3, <3>1
  <2>4. CASE ~cancelled[c] /\ ~cancelled'[c]
    <3>1. Begun(queue[c][d])
      BY <2>1, <2>4 DEF Executed
    <3>2. queue'[c][d] = queue[c][d] \/ queue'[c][d] = Append(queue[c][d], "new")
      BY <2>1, <2>4
    <3>3. Begun(queue'[c][d])
      <4>1. queue[c][d] \in Seq({"new", "done"})
        BY <2>1
      <4>2. CASE queue'[c][d] = queue[c][d]
        BY <3>1, <4>2
      <4>3. CASE queue'[c][d] = Append(queue[c][d], "new")
        <5>1. Begun(Append(queue[c][d], "new"))
          BY <3>1, <4>1, OpStates
        <5> QED BY <4>3, <5>1
      <4> QED BY <3>2, <4>2, <4>3
    <3> QED BY <2>1, <2>4, <3>3
  <2> QED BY <2>2, <2>3, <2>4
<1>5. Calling' => worker'.conn \in registered'
  BY DEF Calling
<1> QED BY <1>3, <1>4, <1>5 DEF Executed, Calling

(* No callback is being called, and all queues hold operations that have not  *)
(* been executed.                                                            *)
LEMMA NoneCalled ==
    ASSUME Executed, ~Calling
    PROVE  \A c \in Conn, d \in Dir : AllNew(queue[c][d])
BY DEF Executed

(* One queue gets another value that suits where the worker is then.          *)
LEMMA ExecutedChange ==
    ASSUME ITypes, NEW c \in registered, NEW d \in Dir, NEW q,
           queue' = [queue EXCEPT ![c][d] = q], UNCHANGED registered,
           \A c2 \in Conn, d2 \in Dir : (c2 # c \/ d2 # d) => AllNew(queue[c2][d2]),
           \/ AllNew(q) /\ ~Calling'
           \/ Begun(q) /\ worker'.pc = "badf" /\ worker'.conn = c /\ worker'.dir = d
           \/ Begun(q) /\ worker'.pc = "callback" /\ worker'.conn = c /\ worker'.dir = d /\ ~cancelled'[c]
    PROVE  Executed'
<1> USE DEF ITypes, TypeOK, ClientTypes, fdVars
<1>1. queue'[c][d] = q /\ \A c2 \in Conn, d2 \in Dir : (c2 # c \/ d2 # d) => queue'[c2][d2] = queue[c2][d2]
  OBVIOUS
<1>2. CASE AllNew(q) /\ ~Calling'
  BY <1>1, <1>2 DEF Executed, Calling
<1>3. CASE Begun(q) /\ worker'.pc = "badf" /\ worker'.conn = c /\ worker'.dir = d
  BY <1>1, <1>3 DEF Executed, Calling
<1>4. CASE Begun(q) /\ worker'.pc = "callback" /\ worker'.conn = c /\ worker'.dir = d /\ ~cancelled'[c]
  BY <1>1, <1>4 DEF Executed, Calling
<1> QED BY <1>2, <1>3, <1>4

(* The loop over the operations of a connection without a descriptor.        *)
LEMMA BadFdExecuted ==
    ASSUME ITypes, NEW c \in registered, NEW d \in Dir, NEW q \in Seq({"new", "done"}),
           AllNew(q), BadFd(c, d, q), UNCHANGED registered,
           \A c2 \in Conn, d2 \in Dir : (c2 # c \/ d2 # d) => AllNew(queue[c2][d2])
    PROVE  Executed'
<1>1. CASE q # <<>> /\ fd[c] = NoFd
  <2> DEFINE r == [q EXCEPT ![1] = "done"]
  <2>1. Begun(r)
    BY <1>1, OpStates
  <2>2. queue' = [queue EXCEPT ![c][d] = r]
    BY <1>1 DEF BadFd
  <2>3. worker'.pc = "badf" /\ worker'.conn = c /\ worker'.dir = d
    BY <1>1 DEF BadFd, Poll
  <2> HIDE DEF r
  <2> QED BY <2>1, <2>2, <2>3, ExecutedChange
<1>2. CASE ~(q # <<>> /\ fd[c] = NoFd)
  <2>1. queue' = [queue EXCEPT ![c][d] = q]
    BY <1>2 DEF BadFd
  <2>2. ~Calling'
    BY <1>2 DEF BadFd, Scan, Poll, Calling
  <2> QED BY <2>1, <2>2, ExecutedChange
<1> QED BY <1>1, <1>2

(* One queue gets another value that holds nothing that was executed, and no  *)
(* callback is being called any more.                                        *)
LEMMA ExecutedLeft ==
    ASSUME ITypes, NEW c \in registered, NEW d \in Dir, NEW q,
           AllNew(q), ~Calling', UNCHANGED registered,
           queue' = [queue EXCEPT ![c][d] = q],
           \A c2 \in Conn, d2 \in Dir : (c2 # c \/ d2 # d) => AllNew(queue[c2][d2])
    PROVE  Executed'
BY ExecutedChange

(* A step of the worker that leaves the queues alone while no callback is     *)
(* being called, and calls none.                                             *)
LEMMA ExecutedIdle ==
    ASSUME Executed, ~Calling, ~Calling', UNCHANGED queue
    PROVE  Executed'
BY NoneCalled DEF Executed, Calling

(* Every step keeps this.                                                    *)
LEMMA ExecutedStep ==
    ASSUME ITypes, Executed, [Next]_vars
    PROVE  Executed'
<1> USE DEF ITypes, TypeOK, ClientTypes, fdVars
<1>1. ASSUME NEW c \in Conn, Client(c) PROVE Executed'
  <2>1. UNCHANGED worker /\ (Calling <=> Calling')
    BY <1>1 DEF Client, Register, Open, Queue, Cancel, CloseBegin, CloseFd, CloseEnd, Unregister, Calling
  <2>2. CASE Register(c)
    BY <2>1, <2>2, ExecutedKept DEF Register, Executed
  <2>3. CASE Open(c)
    BY <2>1, <2>3, ExecutedKept DEF Open, Executed
  <2>4. CASE Cancel(c) \/ CloseBegin(c)
    <3>1. queue' = Emptied(c) /\ cancelled' = [cancelled EXCEPT ![c] = TRUE] /\ UNCHANGED registered
      BY <2>4 DEF Cancel, CloseBegin
    <3>2. \A c2 \in Conn, d2 \in Dir : queue'[c2][d2] = IF c2 = c THEN <<>> ELSE queue[c2][d2]
      BY <3>1 DEF Emptied
    <3>3. \A c2 \in Conn : cancelled'[c2] = (c2 = c \/ cancelled[c2])
      BY <3>1, Zenon
    <3>4. Calling => worker.conn \in registered'
      BY <3>1 DEF Executed
    <3>5. \A c2 \in Conn, d2 \in Dir :
            \/ queue'[c2][d2] = queue[c2][d2]
            \/ queue'[c2][d2] = <<>> /\ (worker.pc = "callback" /\ worker.conn = c2 => cancelled'[c2])
      BY <3>2, <3>3
    <3>6. /\ \A c2 \in registered : cancelled[c2] => cancelled'[c2]
          /\ \A c2 \in registered : cancelled'[c2] /\ ~cancelled[c2] =>
                                      \A d2 \in Dir : queue'[c2][d2] = <<>>
      BY <3>2, <3>3
    <3> QED BY <2>1, <3>4, <3>5, <3>6, ExecutedKept
  <2>5. CASE CloseEnd(c)
    BY <2>1, <2>5, ExecutedKept DEF CloseEnd, Executed
  <2>6. CASE Unregister(c)
    <3>1. queue' = Emptied(c) /\ UNCHANGED cancelled /\ registered' = registered \ {c} /\ worker.conn # c
      BY <2>6 DEF Unregister
    <3>2. \A c2 \in Conn, d2 \in Dir : queue'[c2][d2] = IF c2 = c THEN <<>> ELSE queue[c2][d2]
      BY <3>1 DEF Emptied
    <3>3. Calling => worker.conn \in registered'
      BY <3>1 DEF Executed
    <3> QED BY <2>1, <3>1, <3>2, <3>3, ExecutedKept
  <2>7. ASSUME NEW d \in Dir, Queue(c, d) PROVE Executed'
    <3>1. queue' = [queue EXCEPT ![c][d] = Append(queue[c][d], "new")] /\ UNCHANGED <<cancelled, registered>>
      BY <2>7 DEF Queue
    <3>2. \A c2 \in Conn, d2 \in Dir :
            queue'[c2][d2] = queue[c2][d2] \/ queue'[c2][d2] = Append(queue[c2][d2], "new")
      BY <3>1
    <3>3. Calling => worker.conn \in registered'
      BY <3>1 DEF Executed
    <3> QED BY <2>1, <3>1, <3>2, <3>3, ExecutedKept
  <2>8. CASE CloseFd(c)
    BY <2>1, <2>8, ExecutedKept DEF CloseFd, Executed
  <2> QED BY <1>1, <2>2, <2>3, <2>4, <2>5, <2>6, <2>7, <2>8 DEF Client
<1>2. CASE Worker
  <2>1. CASE PollReturns \/ DispatchDel \/ DispatchDelFd \/ ScanEnd
    <3>1. UNCHANGED queue /\ ~Calling
      BY <2>1 DEF PollReturns, DispatchDel, DispatchDelFd, ScanEnd, Calling
    <3>2. ~Calling'
      BY <2>1 DEF PollReturns, DispatchDel, DispatchDelFd, ScanEnd, Calling, Job, Scan, Poll
    <3> QED BY <3>1, <3>2, ExecutedIdle
  <2>2. CASE DispatchAdd
    <3>1. ~Calling /\ UNCHANGED registered
      BY <2>2 DEF DispatchAdd, Calling
    <3>2. CASE UNCHANGED queue /\ worker' = Scan
      BY <3>1, <3>2, ExecutedIdle DEF Calling, Scan, Poll
    <3>3. CASE \E c \in registered, d \in Dir : BadFd(c, d, queue[c][d])
      <4>1. PICK c \in registered, d \in Dir : BadFd(c, d, queue[c][d])
        BY <3>3
      <4>2. c \in Conn /\ queue[c][d] \in Seq({"new", "done"})
        OBVIOUS
      <4> QED BY <3>1, <4>1, <4>2, NoneCalled, BadFdExecuted
    <3>4. Head(pipe).dir \in Dir
      BY <2>2, TakeType, CommandFields DEF DispatchAdd, Positions
    <3> QED BY <2>2, <3>2, <3>3, <3>4 DEF DispatchAdd
  <2>3. CASE BadFdNext
    <3> DEFINE c == worker.conn
               d == worker.dir
    <3>1. worker.pc = "badf" /\ Calling /\ queue[c][d] # <<>> /\ BadFd(c, d, Tail(queue[c][d]))
          /\ UNCHANGED registered
      BY <2>3 DEF BadFdNext, Calling
    <3>2. c \in registered /\ c \in Conn /\ d \in Dir
      BY <3>1 DEF Executed, Positions, Job
    <3>3. queue[c][d] \in Seq({"new", "done"}) /\ (AllNew(queue[c][d]) \/ Begun(queue[c][d]))
      BY <3>2 DEF Executed
    <3>4. AllNew(Tail(queue[c][d])) /\ Tail(queue[c][d]) \in Seq({"new", "done"})
      BY <3>1, <3>3, RestNew
    <3>5. \A c2 \in Conn, d2 \in Dir : (c2 # c \/ d2 # d) => AllNew(queue[c2][d2])
      BY DEF Executed
    <3> DEFINE q == Tail(queue[c][d])
    <3>6. q \in Seq({"new", "done"}) /\ AllNew(q) /\ BadFd(c, d, q)
      BY <3>1, <3>4
    <3> HIDE DEF q
    <3> QED BY <3>1, <3>2, <3>5, <3>6, BadFdExecuted
  <2>4. CASE HandlePollIo
    <3>1. worker.pc = "scan" /\ UNCHANGED registered /\ ~Calling
      BY <2>4 DEF HandlePollIo, Calling
    <3>2. CASE UNCHANGED <<queue, worker>>
      BY <3>1, <3>2, ExecutedIdle DEF Calling
    <3>3. ASSUME NEW f \in Fd, NEW d \in Dir, NEW c \in registered,
                 queue[c][d] # <<>>, Execute(f, c, d)
          PROVE  Executed'
      <4> DEFINE r == [queue[c][d] EXCEPT ![1] = "done"]
      <4>1. c \in Conn /\ queue[c][d] \in Seq({"new", "done"}) /\ AllNew(queue[c][d])
        BY <3>1, NoneCalled
      <4>2. Begun(r)
        BY <3>3, <4>1, OpStates
      <4>3. queue' = [queue EXCEPT ![c][d] = r]
        BY <3>3 DEF Execute
      <4>4. worker'.pc = "callback" /\ worker'.conn = c /\ worker'.dir = d
        BY <3>3 DEF Execute
      <4>5. ~cancelled'[c]
        BY <3>3, <4>1 DEF Execute
      <4> HIDE DEF r
      <4> QED BY <3>1, <4>2, <4>3, <4>4, <4>5, NoneCalled, ExecutedChange
    <3>4. \A f \in Fd : slot[f].revents \subseteq Dir
      BY DEF Slot
    <3> QED BY <2>4, <3>2, <3>3, <3>4 DEF HandlePollIo
  <2>5. CASE HandlePollIoEnd
    <3> DEFINE c == worker.conn
               d == worker.dir
               left == IF cancelled[c] \/ queue[c][d] = <<>> THEN queue[c][d] ELSE Tail(queue[c][d])
    <3>1. worker.pc = "callback" /\ Calling /\ UNCHANGED registered
      BY <2>5 DEF HandlePollIoEnd, Calling
    <3>2. queue' = [queue EXCEPT ![c][d] = left] /\ ~Calling'
      BY <2>5 DEF HandlePollIoEnd, Calling, Scan, Poll
    <3>3. c \in registered /\ c \in Conn /\ d \in Dir
      BY <3>1 DEF Executed, Positions, Job
    <3>4. queue[c][d] \in Seq({"new", "done"})
      BY <3>3
    <3>5. AllNew(left)
      <4>1. CASE cancelled[c]
        BY <3>1, <4>1 DEF Executed
      <4>2. CASE ~cancelled[c]
        <5>1. Begun(queue[c][d]) /\ queue[c][d] # <<>>
          BY <3>1, <4>2 DEF Executed, Begun
        <5> QED BY <3>4, <4>2, <5>1, OpStates
      <4> QED BY <4>1, <4>2
    <3>6. \A c2 \in Conn, d2 \in Dir : (c2 # c \/ d2 # d) => AllNew(queue[c2][d2])
      BY DEF Executed
    <3>7. PICK x \in registered, e \in Dir : x = c /\ e = d
      BY <3>3
    <3>8. queue' = [queue EXCEPT ![x][e] = left]
      BY <3>2, <3>7
    <3>9. \A c2 \in Conn, d2 \in Dir : (c2 # x \/ d2 # e) => AllNew(queue[c2][d2])
      BY <3>6, <3>7
    <3>10. UNCHANGED registered /\ ~Calling'
      BY <3>1, <3>2
    <3>11. PICK q : queue' = [queue EXCEPT ![x][e] = q] /\ AllNew(q)
      BY <3>5, <3>8
    <3> QED BY <3>9, <3>10, <3>11, ExecutedLeft
  <2> QED BY <1>2, <2>1, <2>2, <2>3, <2>4, <2>5 DEF Worker
<1>3. CASE UNCHANGED vars
  BY <1>3 DEF vars, Executed, Calling
<1> QED BY <1>1, <1>2, <1>3 DEF Next

(* At first nothing is queued.                                               *)
LEMMA InitExecuted == Init => Executed
BY DEF Init, Executed, Calling, Poll, AllNew

(* No operation is executed a second time, with a buffer its callback freed:  *)
(* the flag of a cancel in or during a callback is never missed and never      *)
(* left over, whatever clients do.                                           *)
THEOREM OnceCorrect == Spec => []ExecutedOnce
<1>1. IOnce => ExecutedOnce
  <2> SUFFICES ASSUME IOnce, NEW c \in Conn, NEW d \in Dir, NEW i \in DOMAIN queue[c][d],
                      queue[c][d][i] = "done"
               PROVE  i = 1 /\ Calling /\ worker.conn = c /\ worker.dir = d
    BY DEF ExecutedOnce, Calling
  <2>1. ~AllNew(queue[c][d])
    BY DEF AllNew
  <2>2. Begun(queue[c][d]) /\ Calling /\ worker.conn = c /\ worker.dir = d
    BY <2>1 DEF IOnce, Executed
  <2> QED BY <2>2 DEF Begun
<1>2. Init => IOnce
  BY InitTypes, InitExecuted DEF IOnce
<1>3. IOnce /\ [Next]_vars => IOnce'
  BY ITypesStep, ExecutedStep DEF IOnce
<1> QED BY <1>1, <1>2, <1>3, PTL DEF Spec

-----------------------------------------------------------------------------
(* Answers. When operations are queued only while their connection is open,   *)
(* no queue is ever emptied by the loop over operations without a descriptor,  *)
(* and the worker removes operations only behind their callback.              *)

IAnswer == IOwner /\ NothingEarly /\ Executed

(* A queue of which one element was replaced is as long as before.            *)
LEMMA SameLength ==
    ASSUME NEW q \in Seq({"new", "done"})
    PROVE  Len([q EXCEPT ![1] = "done"]) = Len(q) /\ Len(q) \in Nat
OBVIOUS

(* What the worker removes has been answered.                                *)
LEMMA AnswerStep ==
    ASSUME IAnswer, Worker, NEW c \in Conn, NEW d \in Dir,
           Len(queue'[c][d]) < Len(queue[c][d])
    PROVE  Head(queue[c][d]) = "done"
<1> USE DEF IAnswer, IOwner, ITypes, TypeOK, ClientTypes, fdVars
<1>1. queue[c][d] \in Seq({"new", "done"}) /\ Len(queue[c][d]) \in Nat
  BY SameLength
<1>2. queue'[c][d] # queue[c][d]
  BY <1>1
<1>3. CASE PollReturns \/ DispatchDel \/ DispatchDelFd \/ ScanEnd
  BY <1>2, <1>3 DEF PollReturns, DispatchDel, DispatchDelFd, ScanEnd
<1>4. CASE DispatchAdd
  <2>1. PICK x \in registered, e \in Dir : BadFd(x, e, queue[x][e])
    <3>1. Head(pipe).dir \in Dir
      BY <1>4, TakeType, CommandFields DEF DispatchAdd, Positions
    <3> QED BY <1>2, <1>4, <3>1 DEF DispatchAdd
  <2>2. \/ queue' = [queue EXCEPT ![x][e] = queue[x][e]]
        \/ queue' = [queue EXCEPT ![x][e] = [queue[x][e] EXCEPT ![1] = "done"]]
    BY <2>1 DEF BadFd
  <2>3. queue'[c][d] = queue[c][d] \/ queue'[c][d] = [queue[c][d] EXCEPT ![1] = "done"]
    <3> DEFINE r == [queue[x][e] EXCEPT ![1] = "done"]
    <3>1. CASE queue' = [queue EXCEPT ![x][e] = r]
      <4>1. queue'[c][d] = IF c = x /\ d = e THEN r ELSE queue[c][d]
        <5> HIDE DEF r
        <5> QED BY <3>1
      <4> QED BY <4>1
    <3>2. CASE queue' = [queue EXCEPT ![x][e] = queue[x][e]]
      BY <3>2
    <3> QED BY <2>2, <3>1, <3>2
  <2> QED BY <1>1, <1>2, <2>3, SameLength
<1>5. CASE BadFdNext
  BY <1>5 DEF BadFdNext, NothingEarly
<1>6. CASE HandlePollIo
  <2>1. PICK f \in Fd, x \in Conn, e \in Dir : Execute(f, x, e)
    <3>1. \A f \in Fd : slot[f].revents \subseteq Dir
      BY DEF Slot
    <3> QED BY <1>2, <1>6, <3>1 DEF HandlePollIo
  <2>2. queue' = [queue EXCEPT ![x][e] = [queue[x][e] EXCEPT ![1] = "done"]]
    BY <2>1 DEF Execute
  <2>3. queue'[c][d] = [queue[c][d] EXCEPT ![1] = "done"]
    BY <1>2, <2>2
  <2> QED BY <1>1, <2>3, SameLength
<1>7. CASE HandlePollIoEnd
  <2> DEFINE left == IF cancelled[c] \/ queue[c][d] = <<>> THEN queue[c][d] ELSE Tail(queue[c][d])
  <2>1. worker.conn = c /\ worker.dir = d /\ queue'[c][d] = left /\ worker.pc = "callback"
    BY <1>2, <1>7 DEF HandlePollIoEnd
  <2>2. ~cancelled[c]
    BY <1>2, <2>1
  <2>3. Begun(queue[c][d])
    BY <2>1, <2>2 DEF Executed
  <2> QED BY <1>1, <2>3 DEF Begun
<1> QED BY <1>3, <1>4, <1>5, <1>6, <1>7 DEF Worker

(* A client always hears of the operations the worker removes, so it frees     *)
(* their buffers once, as long as it queues none while its connection is not  *)
(* open or another thread is closing it.                                     *)
THEOREM AnsweredCorrect == ASSUME "late" \notin Usage, "unopened" \notin Usage PROVE Spec => Answered
<1>1. Init => IAnswer
  BY InitOwner, InitExecuted DEF IAnswer, Init, NothingEarly, Poll
<1>2. IAnswer /\ [Next]_vars => IAnswer'
  <2> SUFFICES ASSUME IAnswer, [Next]_vars PROVE IAnswer'
    OBVIOUS
  <2>1. IOwner' /\ NothingEarly'
    BY IOwnerStep, NothingEarlyStep DEF IAnswer
  <2>2. Executed'
    BY ExecutedStep DEF IAnswer, IOwner
  <2> QED BY <2>1, <2>2 DEF IAnswer
<1>3. IAnswer /\ [Next]_vars =>
        [Worker => \A c \in Conn, d \in Dir :
            Len(queue'[c][d]) < Len(queue[c][d]) => Head(queue[c][d]) = "done"]_vars
  BY AnswerStep
<1> QED BY <1>1, <1>2, <1>3, PTL DEF Spec, Answered
=============================================================================
