# A TLA+ model of uxmpp

uxmpp is a C++ library for XMPP clients. An application runs a `Session`; the
session reads and writes XML objects through an `XmlStream`; the stream reads
and writes bytes through a `Connection`; and one `ConnectionManager` thread
executes the input and output of all connections. Almost every method may be
called from any thread, most members have no lock, and callbacks are called
with locks released. That is what these modules are about: which interleavings
of the threads keep the promises of the header files, and which do not.

Paths below are relative to `src/src/uxmpp/`.

## 1. The system

### Threads

| thread | created by | executes |
|---|---|---|
| application | the user | `Session::stop`, `XmlStream::write`, anything public |
| session | the user, in `Session::run` | resolving, connecting, then blocked in `XmlStream::run` |
| rx | `XmlStream::run` | the stream's client callback: `Session::on_rx_xml_obj` and every module |
| worker | `ConnectionManager` | `poll`, operations of all connections and their callbacks, the XML parser |
| timer | the first `Timer::set` | timer callbacks |

### Components

**XmlStream** (`XmlStream.cpp`). State: `running`, `rx_queue`, `tx_buffers`,
`timers`, the callbacks of its connections. Operations: `run`, `stop`, `write`,
`reset`, `set_timeout`, `cancel_timeout`, the callbacks `rx_callback`,
`tx_callback` and `timer_callback`, and the rx thread. Hard: five threads; the
connection holds bare pointers into `tx_buffers`; `stop` and `reset` cancel
operations another thread waits for. Correct when no pointer outlives its
buffer, nothing is sent after `stop`, the rx thread and its callback end before
`run` cleans up, the one receive buffer is not read into without bound, the
stream does not lose its last read unnoticed, and `stop` makes `run` return.

**Session** (`Session.cpp`). State: `state`, `stream_xml_obj`, the features the
peer announced, addresses, modules, listeners. Operations: `run`, `stop`,
`change_state`, `reset`, and the handling of each kind of object. Hard: `state`
and `stream_xml_obj` are shared by three threads without a lock, and
`change_state` reads, checks and assigns in separate steps. Correct when the
state follows `valid_session_state_matrix`, the session is `closed` when `run`
returns, a session being closed gets rid of its stream, and nothing of one run
is left to the next.

**ConnectionManager** (`io/ConnectionManager.cpp`) and **Connection**
(`io/Connection.cpp`). State: an operation queue per connection and direction,
`cancel_in_callback`, a pipe of commands, and the worker's poll list with
`poll_fd_map`. Operations: `read`, `write`, `cancel`, registration, and the
worker's dispatching and executing. Hard: commands are applied later, by
descriptor number or by connection; callbacks run unlocked and cancel the queue
they came from; descriptor numbers are reused. Correct when a queued operation
is polled for, on behalf of the connection that queued it, is answered exactly
once, and no operation runs on a descriptor that belongs to another.

**Timer** (`io/Timer.cpp`). State: `timer_map`, the ordered `timer_set`. Hard:
entries are ordered by a key that is modified in place, equal keys are one
entry to `find`, callbacks run unlocked. Correct when a timer that was set
expires once per period, a cancelled one never, and others are left alone.

**SocketConnection, Semaphore, the connect loop** (`io/SocketConnection.cpp`,
`Semaphore.cpp`, `Session.cpp:98-194`). A non-blocking connect reports through
a callback that posts a semaphore, which the session thread waits for with a
timeout, for each address in turn. Hard: late answers, three threads that close
one socket, a flag and a semaphore in the frame of a function that may return.
Correct when a result is taken for the address it belongs to, and no wait blocks.

**TLS** (`mod/TlsModule.cpp`, `SocketConnection::enable_tls`). The same pattern
in the rx thread, with five seconds of patience. Correct when the session is
reset only over an encrypted connection.

**Resolver** (`io/BsdResolver.cpp`, `Session::get_server_address_list`). No
state. Hard: SRV priorities and weights sort in opposite directions, fallbacks,
two byte orders. Correct when the addresses come in the order of their records.

**XmlInputStream** (`XmlInputStream.cpp`). State: the expat parser, the element
stack, namespace aliases. Hard: its lock is released around the handlers, and
`reset` frees the parser. Correct when no parser in use is freed, the objects
delivered are those sent, with their namespaces, and nothing from outside passes
for an object of the program's own.

**XML objects and stanzas** (`XmlObject.cpp`, `Stanza.cpp`, `MessageStanza.cpp`,
...). Trees with a textual form, and operations that read and write their nodes
by name. Hard: one operation overwriting what another wrote; prefixes and default
namespaces on the way out and in. Correct when the receiver reads what the
sender set.

**Modules** (`mod/`). Authentication (inside the session model); keep-alive
timeouts; requests whose identifiers outlive a session (session, register,
search, vcard, version, private data, disco, ping); the roster with its pushes;
presence; messages and their corrections. Hard: none has a lock, and application,
rx and session thread all call them. Correct when every request of the peer is
answered once, every answer reaches the request it is for, the roster is the
server's, the keep-alive does not fall asleep and a correction replaces the last
message. PEP, publish-subscribe and in-band bytestreams are stubs without state.

**Jid** (`Jid.cpp`). Parsing and printing of addresses; the keys by which messages
are corrected.

**Logger, configuration, base64, FileConnection, command line client.** Output,
plain data, and functions of octets.

### How they interact

`Session` owns one `SocketConnection` and one `XmlStream` and passes the
connection to the stream for both directions. Calls go down (session, stream,
connection, manager); everything that comes back is a callback of the worker or
the timer thread, which `XmlStream` turns into objects in `rx_queue`: XML,
errors and timeouts arrive at the session in one order, in the rx thread.
Modules call down again from there. `PROJECT.json` lists the hazards that follow
with the line where each bites.

## 2. Modules

| module | what it is |
|---|---|
| `XmlStream` | the stream with its five threads |
| `StreamLifecycle` | what the stream promises its user, in 8 actions |
| `Session` | the session over a stream of its own that is reduced to what it uses |
| `ConnectionManager` | the manager, its worker and `Connection` as its client |
| `Connect` | the connect loop, `SocketConnection`, `Semaphore` and TLS negotiation |
| `Resolver` | SRV and host lookups and the list of addresses, as operators |
| `Timer` | the ordered set of timers and its worker |
| `TimerService` | what timers and their callbacks promise, and where the promise ends |
| `XmlObject`, `Stanza` | XML trees and the operations of stanzas, as operators |
| `XmlText` | the text of a tree as tokens, and what a text means by the rules of XML |
| `XmlInput` | a peer that writes, expat, `XmlInputStream`, and a program that reads |
| `Jid` | addresses, as operators |
| `Modules` | the modules of a session, dispatching, and a server |
| `XmlStream_proofs`, `Session_proofs`, `ConnectionManager_proofs`, `Timer_proofs`, `Connect_proofs`, `XmlInput_proofs`, `Modules_proofs`, `Answers_proofs` | theorems |
| `MC...` | instances for TLC |

`XmlStream` is shown to implement `StreamLifecycle`: `phase` is taken from
`running` and the position of the session thread in `run`, `held` from
`tx_buffers`, `inbox` from `rx_queue` and `busy` from the rx thread. `Session`
has a stream of its own that is reduced to a phase, the receive queue, the
objects on their way out and the `stop_session` timeout; its steps are
translated from the same lines of `XmlStream.cpp`, and are meant to be those of
`StreamLifecycle`, but that is by reading: the session cannot make the stream do
anything else, so that a check would show nothing. The full product of both has
far more states and would check no additional promise. `Connect` takes the
stream as something that opens and ends, and `Modules` a session as states and
objects. `Connect` is built on `Resolver`; `XmlInput` on `XmlText`, `Stanza` and
`XmlObject`; `Modules` on `Jid`.

**One action is one critical section, or the code between two.** Where code
runs under a mutex, the action is that section; where members are read and
written without a lock, each read that is used later and each write is a step of
its own.

### XmlStream

`run_pc` is the position of the session thread (`set_cb`, `write`, `read`,
`join`, then `drain`, `reset`, `clear`), `rx_pc` that of the rx thread,
`reset_pc` that of whoever executes `reset`. `worker` is the callback the
manager's thread is in, and `timer` the timer thread's. The operation queues of
the connection are here too (`tx_op`, `rx_op`, `cancelled`), with the rules of
`ConnectionManager::cancel` and of the end of `handle_poll_io` (the head is
popped after its callback unless the queue was cancelled): what a cancelled
operation means to the stream's buffers cannot be said without them. An
operation is bound to the callback the connection has when it is queued, so a
write queued before `set_tx_cb` has none.

`CancelConnection` is a client's callback that cancels the operations of the
connection, as `TlsModule` does on `<proceed/>` (`mod/TlsModule.cpp:96`), up to
five seconds before it resets or stops the session: meanwhile the stream runs and
reads nothing, which `NeverDeafSilently` says.

`StreamLifecycle` has the callbacks one by one: a stream that has ended hands
over what is queued behind the object being handled, because the inner loop of
the rx thread (`XmlStream.cpp:440`) does not look at `running`, and begins no
other.

`MutexFree` is the recursive mutex that `run` holds from its entry to the join
and `reset` throughout. `rx_queue` stamps each object with the number of the run
in which it was queued, only to state `FreshDelivery`.

Left out: two concurrent calls of `run` on one stream, different connections
for the two directions, and replacing the client callback during a run, none of
which `Session` does. That a pointer into a `std::string` stays valid when the
string is moved into the map is assumed.

### Session

`at` says where each of the three threads is, `new` the argument of the
`change_state` it is in, `fast` and `nested` the calls of `stop` in progress:
`change_state(closing)` calls `stop` again at its end, as in the code.
`CheckState` reads `state` and looks it up in the matrix, `SetState` assigns it;
between the two others run. `part` is the tag `stream_xml_obj` holds when
somebody else writes it. Kinds of objects stand for objects: those that change
what the session does are told apart, the others are `iq`. `addrs` counts
addresses that remain; connecting succeeds or fails. `Transmit` is the worker
writing the head of the outgoing queue, `wire` what the peer has seen.

Left out: what listeners and modules do with objects they only pass on, the
errors recorded for the application, and registering or unregistering modules.
Authentication is its outcome: `<success/>` is accepted in any state, as
`mod/AuthModule.cpp:134-136` does, and restarts the stream. Resource binding is
modelled as the session does it itself.

### ConnectionManager

The poll list is a function from descriptors to places (`slot`: owner in
`poll_fd_map`, events, returned events, and the "more to do" mark). Its order is
that of the array, which depends on history, so the model scans it in any order.
Operations are marked `done` when their callback has been called. A callback
returns when `HandlePollIoEnd` happens; whatever it calls is the clients'
actions, which may happen at any moment. `badf` is the loop of `add_poll_fd`
that answers operations of a connection without descriptor. `Usage` restricts
what clients do: an operation queued during a `close` of another thread, or
before a descriptor is open, are things some programs never do.

Left out: a full pipe (a command that does not fit is logged and lost), the
arrays `fds_rx_more` and `fds_tx_more`, which do not grow with the poll list,
short writes, construction and destruction of the singleton. Clients never
destroy a connection in its own callback and have one closer per connection.
`pop` on an empty queue, which is undefined, ends the behaviour.

`close` is three steps: `CloseBegin` cancels and sends the `del_fd`, `CloseFd` is
`::close`, `CloseEnd` the assignment of -1. Between the last two the number may be
given to another connection, while `get_fd` of the closing one returns it still;
`shadowed` are the connections that were given theirs in such a window. A command
for the old one may take away their place.

### Connect

`at` is where each of four threads is. A function that waits has a frame with
its flag and its semaphore (`frame`), numbered, so that a callback (`cb`) that
executes late can be told to write into another frame or into none. `CloseFd` and
`ClearFd` are `Connection::close` in the two steps in which others see it, and
run, worker and timer thread all take them. `connect` and `enable_tls` fail at
once (through `msg_timer`), later, or never. Descriptors are numbered and not
used again: their reuse is `ConnectionManager`'s subject. The resolver's part is
computed when `run` starts: every list that `get_server_address_list` could
return for the configuration and the name server of the instance (`Worlds`),
with every order `std::sort` may give to equal records.

`Late` says whether a callback may still be executing when the function that
waits has closed the socket, looked at the semaphore again, and goes on.
Nothing in the code excludes it; the run does, and says what holds otherwise.

Left out: what OpenSSL computes, reading and writing over TLS, the server side
(`listen`, `accept`).

### Timer

`timer_set` is the multiset, a sequence of nodes in tree order, each with the
place of its memory; `timer_map` the entries. `set` changes the key of an entry
that may be in the tree, so that the order can be lost: a lookup then finds any
equal node or none, and an insertion goes anywhere. The worker's iterator is a
place. If its node was erased meanwhile, the place may hold the node of another
timer, which is called in its stead; or memory that still names the entry of its
timer, which is called though it is scheduled no more; or the program ends
(`crashed`), as it does with the end of the set. `sound` says that no lookup found
another's node and no erased node was used. `Usage` lists what an application may
do and the run does not: destroy a timer during its callback, leave the set empty
for half an hour.

`TimerService` is what `Timer.hpp` promises: the earliest timer is called when its
time has come, once or once a period, one at a time, and never one that was
cancelled, set again to later or destroyed. The code keeps this within two limits,
which are part of `TimerService`: a timer that was set or cancelled since the worker
fell asleep may be called in place of the one it slept for (`touched`); and the
promise ends (`End`) when a timer is set or cancelled whose timeout another has, or
that is moved past another, or when a node that was erased is used. Equal timeouts and
moves past each other, as in `src/test/test_Timer.cpp:72`, are in the run; the two things
in `Usage` are not, and the proofs allow them too.

### XmlObject, Stanza, XmlText, XmlInput

An object is a record with the members of the class; texts are sequences of
characters, and only those that are escaped are told apart. `ToString_` gives
the tokens an XML parser sees: start tags, end tags, characters. `Meaning` is
the reference: the namespaces XML gives to names in such a text. `XmlInput` has a
peer that writes what the library's own calls build (`Calls`, in sequences of up
to `MaxCall`, on each kind of stanza) and objects of other software (`Foreign`),
expat as far as its calls and its errors go, and the handlers. `Meant` and
`MeantBy` say what a stanza should be read as, call by call, and are the
reference for the operations of `Stanza`.

Left out of the run, as what the code does with them is in a study
configuration: `set_status`, reading the chat state, and an element that uses a prefix it
declares itself. The escaping of the values of attributes is not modelled, only that
of content. `Reset` happens when nothing is left on the wire or the parser is in
error: the object that restarts the stream is the last of what was said, and of a text
cut short by a reset the properties say nothing. A call that C++ leaves undefined makes
no stanza.

### Modules

One module for all of `mod/` with state: they meet in one dispatch loop, and
most of what can go wrong is one of them taking another's object. What a thread
has left to do is a sequence of steps (`todo`); each step reads or writes one
thing, and there is no lock. Ids are numbers: that of the request, with 0 for the
empty one. A change of the state is told to the listeners one after the other
(`TellListener`), in the order in which they registered. The server answers requests in any order, or not, and has a roster
that other clients change. `did` records the callbacks and replies made for the
object being handled; that an object answers a request (`re`, `of`) is known only
to the properties. Messages carry the id that they replace. The application is one
thread, and its callbacks call the modules again in the rx thread, so that two
threads ask the same module for the same; messages are sent by one thread at a
time unless `Together`.

What the code does not keep is in `EachAnsweredOnce`, as exactly as it can be said.
`Swallowed`: a request of the peer without an id is taken by `SessionModule` or
`DiscoModule` for the answer to a request they have not sent. `Lost`: nobody takes
the answer to `set_vcard`, whose id is stored in a local variable that shadows the
member (`mod/VcardModule.cpp:165`; line 96 waits for the member); and where a module
has one id, two threads that ask at once replace it, and the answer to either
empties it. `Lost` looks at the ids when the object has been handled: of a module
with one id that forgets it without calling back, it would say the same.

Left out: forms, vCards and feature lists as data; registration of modules while
the session is used, except that `SessionModule` unregisters itself.

## 3. Runs

| run | module, configuration | distinct states | shows |
|---|---|---|---|
| `XmlStream` | `MCXmlStream.cfg` | 3,464,299 | types, buffers, thread lifetimes, reads, and the lifecycle, in every interleaving of two runs |
| `XmlStreamStop` | `MCXmlStreamLive.cfg` | 274,326 | a stopped stream always gets its session thread out of the join |
| `XmlStreamReturn` | `MCXmlStreamReturn.cfg` | - | refuted: `run` returns after `stop` |
| `Session` | `MCSession.cfg` | 1,388,162 | a session nobody stops, and any peer: matrix, timeout and closed state, over two runs |
| `SessionApp` | `MCSessionApp.cfg` | 3,392,065 | what is left of that when the application stops it at any moment |
| `SessionStop` | `MCSessionStop.cfg` | 366,496 | a session stopped while negotiating or bound gets rid of its stream, whatever the peer does, unless its `<success/>` restarts the stream |
| `Manager` | `MCConnectionManager.cfg` | 317,877 | wakeups, owners, answers, with cancel, the three steps of close, and one descriptor number that two connections get in turn, or while the other has not forgotten it |
| `ManagerAny` | `MCConnectionManagerAny.cfg` | 3,591,980 | owners also with connections destroyed and constructed again and operations queued before a descriptor is open |
| `Connect` | `MCConnect.cfg` | 84,598 | results belong to the address tried, nothing is opened unconnected or reset unencrypted, no wait blocks |
| `Timer` | `MCTimer.cfg` | 869,005 | two timers, set, moved past each other or to one time, cancelled and destroyed, are those of `TimerService`, and each that is set expires |
| `XmlInput` | `MCXmlInput.cfg` | 348,351 | what a peer says is heard, in its namespaces, once, in order, until the first error, and read as it was meant |
| `Modules` | `MCModules.cfg` | 2,261,473 | every answer to its request, every request answered, the roster the server's, the keep-alive alive, corrections right |

### Study configurations

Each gives a counterexample to a property of a module, in circumstances the runs
above exclude or for a promise the code does not keep (section 5). Those with a
constant, or with a property in another form, are the run's configuration with that one
thing changed.

| configuration | refutes | circumstances |
|---|---|---|
| `MCXmlStreamFresh` | `FreshDelivery` | objects left in `rx_queue` by one run are delivered in the next |
| `MCSessionEarly` | `StopEndsAnyway` | a session stopped while connecting |
| `MCSessionFast` | `FastStopSendsEnd` | `stop(true)` cancels the end tag it queued |
| `MCSessionAfter` | `ClosedAfterRun` | a `stop` that overlaps the end of `run` |
| `MCSessionRestart` | `StopEndsAnyway` | a restart of the stream by `<success/>` after `stop` loses its end tag and its timeout |
| `MCSessionRace` | `MatrixKept` | two threads in `change_state` |
| `MCConnectionManagerReuse` | `NoLostWakeup` | a connection is destroyed, another one gets its descriptor |
| `MCConnectionManager` | `NoLostWakeupAnyway`, in place of `NoLostWakeup` | a connection was given its number between `::close` and `fd = -1` of another |
| `MCConnectionManager`, `Usage = {"late"}` | `NoStaleSlot`, `NoLostWakeup` | an operation queued during a `close` leaves the closed connection as owner |
| `MCConnectionManager`, `Usage = {"unopened"}` | `Answered` | the loop for connections without descriptor removes an operation it never answered |
| `MCConnectLate` | `AnswerOfAttempt` | a callback posts after `try_wait`: the next address takes the answer |
| `MCConnectFrame` | `FrameAlive` | a callback writes into the frame of a function that returned |
| `MCConnectTls` | `TlsEnabled` | the second connection of a socket claims to be encrypted |
| `MCTimerStale` | `NoStaleEntry` | the wait times out while the timer is cancelled, and its callback is called all the same |
| `MCTimerEqual` | `CancelsOwn` | two timers with one timeout: cancelling one cancels the other |
| `MCXmlInputReset` | `ParserAlive` | `reset` while a handler runs |
| `MCXmlInputPrefix` | `HeardAsSaid` | an element with a prefix it declares itself |
| `MCXmlInputStatus` | `ReadAsMeant` | `set_status` overwrites another node |
| `MCXmlInputChat` | `ChatStateRead` | the chat state of a message is never found |
| `MCModules`, `Overlap = TRUE` | `KeepAliveLives` | `set_interval` outlives the session it was called in |
| `MCModules`, `Together = TRUE` | `CorrectsTheLast` | two threads send to one address |
| `MCModules` | `EachAnsweredOnce` without `Swallowed` | a request without an id meets `SessionModule` |
| `MCModules` | `EachAnsweredOnce` without `Lost`, or with `set_vcard` alone in it | the answer to `set_vcard`; two threads ask `RegisterModule` for the same |
| `MCModules`, `Addresses <- OfDomain`, `Setups <- TextSetups` | `CorrectsTheLast` | addresses without "@" |
| `MCModulesUnsent` | `CorrectsSent` | the stream dropped the message that is corrected |

### Bounds and why they are enough

- Two runs (`MaxRun = 2`): everything that is left over by one run is there in
  the next, and nothing counts beyond the previous run. The liveness runs have
  one. `Modules` has two sessions for the same reason.
- Two buffers: sharing and freeing need two; the third write waits for a free
  one. One timeout: timeouts do not interact except through the set of names.
- Two objects in `rx_queue`: the worker waits when it is full, and a queue that is
  empty, is being handled, and has one more behind, which the rx thread goes on to
  also after a `stop`, are all there. (One in `SessionApp` and `SessionStop`, which
  ask about `stop` rather than about what waits.)
- Two connections and one descriptor number: the number is reused at every
  close, before or after the closing connection forgets it. Two operations per queue tell the head from the next. Clients wait when
  three commands are in the pipe; the worker does not.
- The peer of `Session` sends up to four objects per run, enough for header,
  features, binding and one more; when the application stops the session too, three in
  `SessionStop` (a session may be stopped and restarted in any order with them) and two in
  `SessionApp`, of those that change the state or restart the stream (`CorePeer`).
- `Connect`: at most two addresses per run, so that there is one to be tried after
  a failure, and one `<proceed/>` per run. Name servers (`Worlds`) answer with
  records of different and of equal priority, of other types,
  unreadable ones, none, and "."; the socket is bound or not.
- `Timer`: two timers, times up to 3, three calls of `set`, periods of 0 and 2: a
  timer that expires, one that is set again while the other is waited for, to the
  same time or past it, one that recurs before and after the other. Three places for
  nodes (`Places`): that of the erased node the worker still points to may be free,
  taken again, or in use for something else.
- `XmlInput`: trees of up to four levels (`MaxDepth`), as deep as the deepest object said;
  two things said between resets, of which the second follows
  elements that opened and closed scopes; two calls per stanza, as the operations
  disturb each other in pairs; one object inserted and one reset. Every cut of the
  text between tokens; a cut inside a token is expat's.
- `Modules`: seven sets of modules of up to four, chosen so that modules with the
  same kind of id, and modules that use each other's state, meet. Two requests,
  a roster of one contact at first and one change of it by someone else, one request
  of the peer, three calls of `set_interval`, three messages to a bare and a full
  address: a correction needs a message before it, and one in between that must not
  count.

`BufSymmetry` and `Symmetry` permute model values that nothing distinguishes;
liveness runs use none. Deadlock is not checked: all systems stop when a bound
is reached and whoever is left has nothing to do, and `Manager` idles when no
client wants anything.

### Fairness

`XmlStream`: every thread that is ready is scheduled, so each step of the
session thread, of the rx thread, of `reset`, and of the callbacks that the
worker and the timer are in is weakly fair. The return of the client's callback
is strongly fair, as it is disabled while the callback is in `reset`. Nothing is
assumed of the peer: an operation need never complete, a timer need not be
armed. Clients need not call anything.

`Session`: the same for the three threads, and an armed timeout expires. That
the stream returns to `run` once it ends is part of the session thread's
fairness here. The run `XmlStreamReturn` shows when `XmlStream` does not provide
this; `StopEnds` therefore speaks of the stream being ended, not of `run`. It excepts a
stream that `<success/>` restarted after the stop: `Session::reset` cancels the
`stop_session` timeout, and nobody stops then (`Restarted`).

`Connect`: the four threads run. The network and the server owe nothing, and the
end of a stream is not assumed: `WaitsEnd` rests on the timeouts of the waits
alone.

`Timer`: the worker runs and time passes; the application may call or not.

## 4. What is proved

All for every value of the constants, any number of buffers, runs, addresses,
objects, connections, descriptors, timers and modules, from the named assumptions of the
modules (`StreamAssumption`, `SessionAssumption`, `ManagerAssumption`,
`TimerAssumption`, `ConnectAssumption`, `WorldAssumption`, `ModulesAssumption`): null
values are not among the values, bounds are numbers, kinds are kinds, what a
peer sends is an object, and what a name server answers is a list of records with 16-bit
numbers. A theorem that needs more says so in its `ASSUME`; what each of
these hypotheses excludes is told with the theorem, and section 5 and the
studies of section 3 show most of it go wrong.

`XmlStream_proofs`:

- `TypeCorrect`: `TypeOK`, by one lemma per group of variables.
- `LifetimeCorrect`: `ThreadLifetime` is inductive given the types. Each stage
  of `run` records what the former ones established: that the rx thread exists
  exactly until the join, and that `reset` is called either by a callback the
  join waits for or by `run` after it.
- `BuffersCorrect`: `BuffersAlive /\ QuietWhenStopped`, which need each other.
  `run` clears `tx_buffers` at its end, which is harmless only because nothing
  is pending on a stopped stream; and that holds because `stop` and `write` test
  and clear `running` in the critical section in which they touch the queue.
  `ThreadLifetime` is used for where `run` may be.
- `ReadsBounded`: `BoundedReads` is not inductive. `ReadBudget` counts whoever
  is about to queue a read as one: `run` before its first read, `reset`, the
  worker in `rx_callback`. The sum is at most two, and at most one between runs.
- `SilentWhenStopped`: `QuietWhenStopped` on its own, for `Session` to rely on.
- `ReadsGoOn`: `NeverDeafSilently`. The step that loses the last read can only be the end
  of a callback or a cancel, and a cancel without a reset or a stop is that of the client
  (`CancelConnection`); by `ReadBudget` and `ThreadLifetime` a callback that ends
  without an error has queued the read that follows, and one that is behind the head
  survives the pop.
- `ImplementsLifecycle`: each step is a step of `StreamLifecycle` or a stutter, with
  any number of objects in `rx_queue`. `Close` needs `ThreadLifetime` (nothing held, no
  callback executing).

`Session_proofs`:

- `TypeCorrect`.
- `ConnectedCorrect`: `ConnectedStates` whatever the application and the peer
  do. The strengthening `Arguments` says which states each thread ever asks
  `change_state` for: the session thread connects and closes, the rx thread
  negotiates, binds and closes, the application only closes. It is what survives
  the unlocked `change_state`: a checked transition may be stale, but the rx
  thread is the only one to make the session negotiating or bound, and it has
  ended when the session thread closes.
- `ReturnsClosed` and `MatrixCorrect`: `ClosedAfterRun` and `MatrixKept` if
  `StopWhen = {}`, that is if the application leaves the session alone
  (`MCSessionAfter` and `MCSessionRace` refute them otherwise). Then only the session and
  the rx thread change the state, never both at once: the rx thread ends before
  the session thread closes, so that a transition that was checked is still
  allowed when it is made.

`ConnectionManager_proofs`:

- `TypeCorrect`, with `Positions`: a job that names a connection has one.
- `OwnersCorrect`: `NoStaleSlot` if `"late" \notin Usage`, connections destroyed
  or not. `Owned` is stronger than `NoStaleSlot`: a place belongs to a connection
  that has the descriptor and is not being closed, or its `del_fd` is on the way.
  A connection that has begun to close could still be added by a command sent
  before, so `Ordered` says that behind every such command there is the `del_fd`
  of the close; and none is sent later because its queues stay empty (`Quiet`).
- `WakeupsCorrect`: `NoLostWakeup` if `Usage \subseteq {"cancel"}`, which is
  where `MCConnectionManagerReuse` refutes it otherwise; it speaks of every connection but
  those that were given their number while another was between `::close` and `fd = -1`. `Awake` holds at any time, not only
  while the worker sleeps: the connection of a queued operation has its add
  command in the pipe with nothing behind it that undoes it (`Requested`), or is
  polled for and nothing in the pipe undoes that (`Served`). When the add command
  is applied to a place that is taken, `Owned` says by whom; that no other
  connection's command undoes it takes `OwnDescriptor`; and `Places`, that owners
  of places are registered, excludes the `del_fd` on behalf of a destroyed
  connection, the one command that is not.

- `OnceCorrect`: `ExecutedOnce` whatever the clients do.
- `AnsweredCorrect`: `Answered` if neither `"late"` nor `"unopened"` is in `Usage`.
  With neither, no operation is queued on a connection without an open descriptor, so
  that the answers for a bad descriptor remove nothing that came later (`NothingEarly`), and
  what `handle_poll_io` removes after its callback is what it executed (`Executed`).

`Timer_proofs`, for every use of the timers, with no hypothesis:

- `TypeCorrect`: `TypeOK`: the types, and that every scheduled timer lives while the code
  is `sound`. The invariant, `IInv` (`Invariant`), adds what holds as long: the set is in the
  order of its timeouts (`Ordered`), a timer is scheduled at most once (`Distinct`), and
  the worker waits for the first of the timers that were not set or cancelled since it fell
  asleep (`WaitsForFirst`).
- `ImplementsService`: each step is one of `TimerService`, or a stutter. What a lookup
  finds is the entry looked for unless its timeout is another's or the set has lost its
  order, and both take a `set` or a `cancel` of a timer that is `Confused` with another:
  that is `End`. What the worker finds at its iterator is the first entry, or one touched
  meanwhile.

`Connect_proofs`; `AnswersCorrect`, `OpenedCorrect`, `FramesCorrect` and `ResetCorrect`
for callbacks that do not outlive the function that
waits (`~Late`; `MCConnectLate` and `MCConnectFrame` show the difference):

- `TypeCorrect`. That the resolver finds a list of addresses is proved of its definition
  (`ListsAreGood`), for any answers of a name server.
- `OrderCorrect`: `AddressOrder`. What the resolver finds is a `GoodList`: each address
  comes from one record of a sorted answer, or from the domain itself if there is none,
  and a later address from the same or a later record (`Comes`). `ComesOn` and `FlattenIs`
  carry this through the lists of each record and the list made of them, one after
  another (`UpTo`). `run` then overwrites ports only, up to `pos`; that is `Listed`.
- `AnswersCorrect`, `OpenedCorrect`, `FramesCorrect`: `AnswerOfAttempt`,
  `OpenedConnected`, `FrameAlive`. The invariant says to which frame a pending result belongs:
  an attempt that waits has one answer at most, which is in the timer, queued, being
  reported or in the semaphore; between two attempts nothing is pending.
- `ResetCorrect`: `ResetEncrypted` if `MaxProceed` is at most 1. With more, the
  answer to a handshake that was given up could be taken for that of the
  next: the code has one flag per call but one socket.

`XmlInput_proofs`, whatever a peer writes, however it is cut up, and for objects of any
size: nothing is assumed of tokens, objects and texts but what the handlers test.

- `TypeCorrect`: `TypeOK`. An open tag for every element on the stack and one for the
  stream: between the pop of an open tag and `end_xml_node` the count is one short,
  so the handlers are each proved from the count they find (`ParserForm`).
- `InternalCorrect`: `InternalFromInside`, also with `Overlap`. The invariant speaks of the
  object on its way to `rx_func` too, as `Deliver` tests nothing.
- `ErrorCorrect`: `ErrorIsLast` if `Foretold`: `reset` waits for the handler to end
  (`MCXmlInputReset`), and nobody inserts an object like that of a parse error. Once an error is
  heard, the worker is idle and the parser in error, whatever is inserted (`ErrorInv`).

`Modules_proofs`:

- `TypeCorrect`: `TypeOK`, which says of each step a thread has left that its arguments
  are those of its operation. `Shape` is the strengthening: which steps which thread
  may have, and that the rx thread either hands the first object of the queue to a
  module or has the call of one to finish and then the object to take away. The ids stay
  ids, and the queue holds objects, whatever the server answers (`Received`).
- `KeepAliveCorrect`: `KeepAliveLives` if `~Overlap`. `KeepAliveLives` speaks of moments at
  which nobody is about to do anything; `Lives` holds at all times: while the session is
  bound with an interval, the timer is set, or some step is left that sets it
  (`Rearms`: also a listener not yet told of the bound session), or a timeout has expired and
  KeepAliveModule has not yet had it (`Expired`). Three facts about others support it:
  a step that cancels the timer finds the interval or the session gone (`Cancels`), no other module
  takes a timeout (`Plains`), and a timeout that is on its way through the modules still
  has KeepAliveModule before it, although `SessionModule` may unregister itself
  (`Ahead`). `Overlap` lets a `set_interval` be in progress when the next session is
  bound, which breaks `Cancels`.
- `CorrectionsCorrect`: `CorrectsTheLast` if `~Together` and `Regular`: an address whose
  text is another's, a "/" and more is full, and the other is its bare JID. `OfDomain` has
  an address without "@" for which that is false. `TextInv` speaks of the map
  rather than of corrections: what is kept for an address never came, or is the last of
  the messages there (`KeptLast`), and between a change of the map and the
  write that follows, the new id has come nowhere and is kept for its address only
  (`TextOK`). That a message to a resource takes the entry of the bare JID away is used where
  it is written: no entry is left that covers it.

- `RosterCorrect`: `RosterFollowsServer`, from two assumptions. `Honest`: what the peer
  asks about the roster of its own accord comes from others; only the server, whose stanzas
  have no sender, speaks about it in earnest. `Apart`: the id of the server's pushes is
  none that the client waits for; with an equal id a request module takes the push
  for its answer, and `RosterModule` never sees it. `RosterFollowsServer` speaks of
  an empty queue of news; `Follows` holds at all times: there is a history of the
  server's roster, one entry before and after each object of `rx_queue`, in which
  each object accounts for the difference of its neighbours (`Links`), the last
  entry is the server's roster now, and the client's roster is the entry before the
  first object, or the one behind it once `RosterModule` has had that object (`Seen`). Four facts
  support it: objects are queued in the order of their sessions, and behind a roster
  that was received only those of its session (`Sessions`); the server does not speak of the
  roster before it is asked (`Unasked`); no other module waits for the id of a push
  (`PushIds`); and a push on its way through the modules still has `RosterModule`
  before it, although `SessionModule` may unregister itself (`PushAhead`).

`Answers_proofs`, over the invariant of `Modules_proofs`:

- `AnswersCorrect`: `EachAnsweredOnce`, for threads that ask for the same at once, calls that
  outlive their session and requests without an id, from three assumptions about what others
  choose, which `MCModules.cfg` fulfils. `Public`: applications and callbacks do not make the
  requests of `Session`, `SessionModule` and `DiscoModule` for them. `Separate`: the ids that
  callers of `PrivateDataModule` choose for its two kinds of requests are different from each
  other and from those the library makes. `Polite`: requests of a peer have ids of their own, none of
  those the client waits for, or no id, and messages and presence come to clients that have the
  module for them.
  `EachAnsweredOnce` speaks of the moment before an object is taken from
  the queue. At all times, what has been done and what the steps left will do make up
  an outcome (`Doing`, `Outcome`), and while an object is handed on, the module that waits for its
  id is still ahead (`StillAhead`). That this module takes it and no other does is a matter of
  ids: each is waited for by one module at most and for one kind (`IdsApart`); the id
  a request is about to be stored with is waited for by nobody, and no request or answer on its
  way has it (`NewIds`, `Claimed`), though that of another request of its kind may be where it is
  to be stored; what is sent, on its way or in the queue has an id of its kind that no other
  kind waits for, and that its module waits for unless it has one id only (`ProperIds`), and is
  in one place (`OneWay`), so that forgetting the id of the answer at hand forgets none of
  another. Between two sessions the rx thread rests and nothing is on its way (`Between`). The
  receipt of a message needs that a contact is in the roster once (`RosterDistinct`):
  `is_jid_authorized` looks at its first item only.

### Only model-checked

- The liveness properties `StopUnblocks`, `StopEnds`, `WaitsEnd` and `Expires`:
  liveness under fairness and `ENABLED` are out of the prover's reach.
- `HeardAsSaid`, `AllHeard` and `ReadAsMeant` of `XmlInput`: what a tree of any
  depth becomes as a text and again as a tree is an induction over data.

## 5. Where the code differs from its promises

1. `XmlStream::run` need not return after `stop`: it waits for `tx_buffers` to
   be empty, and a cancelled write never frees its buffer (`XmlStreamReturn`).
   With `Session` this is a hang after any `stop(true)` that finds a write queued.
2. `Session::stop` while connecting changes the state and has no stream to stop;
   `run` does not look again (`MCSessionEarly`). A `<success/>` after a stop restarts
   the stream, which cancels the timeout of the stop; the session stays
   open (`MCSessionRestart`).
3. `stop(true)` cancels the end tag it has just queued, unless the worker was
   faster (`MCSessionFast`).
4. A `stop` that overlaps the end of `run` leaves the session `closing`, a state
   from which it cannot be run again (`MCSessionAfter`).
5. A `del_fd` sent on behalf of a destroyed connection is applied to whoever has
   the descriptor number by then (`MCConnectionManagerReuse`); so is a command for a
   connection that is between `::close` and `fd = -1` (`NoLostWakeupAnyway`).
6. `SocketConnection::close` does not clear what `is_tls_enabled` returns: after a
   second `run` over the same socket, `TlsModule` ignores `<proceed/>`
   (`MCConnectTls`).
7. A connect or TLS callback that executes after its waiting function gave up
   answers for the next address, or writes into a frame that is gone
   (`MCConnectLate`, `MCConnectFrame`).
8. `Timer::set` and `Timer::cancel` find entries by a key that is not unique and
   has just been changed (`MCTimerEqual`), and the worker uses an
   iterator of before its wait when the wait times out, calling a timer that was
   cancelled or another one (`MCTimerStale`).
9. `XmlInputStream::reset` may free the parser under a handler
   (`MCXmlInputReset`), and a prefix is not found in the element that declares it
   (`MCXmlInputPrefix`).
10. `PresenceStanza::set_status` overwrites nodes other than the status, and
    `MessageStanza::get_chat_state` finds none (`MCXmlInputStatus`,
    `MCXmlInputChat`).
11. A message counts as the last one sent though the stream dropped it
    (`MCModulesUnsent`); a JID without "@" is a local part with everything after
    it, so that a message to its resource does not count as one
    (`MCModules` with `OfDomain` for `Addresses`).
12. Two threads that make the same request of `RegisterModule` or `SearchModule`
    both find its one id empty; the later id replaces the other, and nobody takes the
    first answer. Nobody ever takes that to `VcardModule::set_vcard`, whose id is
    stored in a local variable (`Lost`).
13. A request without an id is taken by `SessionModule` and `DiscoModule` for the answer
    to what they did not ask, and gets no reply (`Swallowed`).

## 6. Not modelled

Not modelled, and not planned: the data of forms, vCards and feature lists;
logging, configuration and `FileConnection`; base64 and digests, functions of
octets that a library computes; PEP, publish-subscribe and in-band bytestreams,
which keep no state; the creation and the end of the singletons and their
threads; what is undefined in C++ without a choice of outcomes (concurrent
changes of a list or a map, the arrays that do not grow with the poll list); and
expat, OpenSSL and the system resolver, which the models see only as the code
uses them. Short writes, a full pipe and I/O over TLS would need byte counts,
which no property here speaks of.

Every safety property of the passing runs is proved, but for the three of `XmlInput` that
compare a tree with its text. They would need an induction over trees and texts,
with an operator for a parameter, and a statement about each operation on
stanzas; they stay with TLC.
