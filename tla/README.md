# network_structure: a TLA+ verification of the reactor server

This directory models the network library of the repository in TLA+, checks the
models with TLC and proves theorems about them with TLAPS. It is read next to
`src/src/Network`. `PROJECT.json` lists the runs, the mutants that show that each
property can fail, and, for every definition that models code, the lines it stands
for.

## 1. The system

`main()` calls `InitNetworkServer` (`Network.cpp` 197-233), which starts a server on port
55266 with a limit of two clients on a static `EventLoop` (line 195), and then reads
commands from its standard input. The server is a reactor in the style of muduo. An older
server (`TcpServerSocket`, `Network`) and a local-socket service (`Ipc`) are compiled next
to it; the commands that would start them do nothing as the code stands, because nothing
sets `gNetworkPtr`. They are modelled as they would run if it did. The repository has no
tests and no documents; the comments in its headers are the only statements of intent.

| Component | State it keeps | Operations | What is hard about it |
|---|---|---|---|
| `EventLoop` | `quit_`, `callingPendingFunctors_`, `activeChannels_`, `pendingFunctors_`, the eventfd, `threadId_` | `loop`, `loopthread`, `quitLoop`, `runInLoop`, `queueInLoop`, `wakeup`, `handleRead`, `doPendingFunctors` | several threads; one mutex around the queue only; a wakeup that is decided on after the lock is released; the polling thread is not the thread the loop takes for its own |
| `Channel`, `Poller` | `events_`, `revents_`, `index_`, `tie_`; `channels_` and the kernel's interest list | `enableReading` … `disableAll`, `remove`, `handleEvent`; `poll`, `updateChannel`, `removeChannel` | three copies of the same fact (channel, map, kernel), and descriptors that are reused |
| `Acceptor`, `Socket`, `SocketOps` | the listening socket | `listen`, `handleRead`, and the system calls | one accept per event; accept that fails; sockets that stay in blocking mode |
| `TcpConnection` | `state_`, the channel, the two buffers | `connectEstablished`, `handleRead/Write/Close/Error`, `send`, `shutdown`, `forceClose`, `connectDestroyed` | ends of life that overlap; shared, weak and plain pointers in queued functors |
| `TcpServer` | `connections_` | `newConnection`, `removeConnection(InLoop)` | a removal made in two hops through the queue |
| `MyServer` | `numConnected_`, `hostPtr_` | `onConnection`, `onMessage` | the limit is compared after counting; the host may be gone |
| `Buffer` | a vector and two indices | append, prepend, retrieve, unwrite, `readFd` | boundary arithmetic on unsigned differences |
| `Network` start and stop | `listenerT`, `isThreadRunning`, a condition variable | `StartNetworkServer`, `StopNetworkServer`, `StarThread`, `StopThread`, `NetworkListenerThread` | a flag changed without the mutex; threads assigned and joined in turn |
| `TcpServerSocket`, `TcpInterfaceSocket` | lists of descriptors, threads | start, stop, accept, read, close | edge-triggered epoll with one call per event; two threads that share the descriptors of a process; joins |
| `FdManager` | lists of descriptors | insert, remove, find | the maximum is off by one |
| `Ipc` | server thread, `ipcFd`, forked children | start, accept, read, write, fork, stop | a descriptor shared by two threads without a lock; messages that arrive joined |
| `CTimeout`, `CTimeoutmS` | start and duration | set, reset, expired, rest | wrapping arithmetic in 32 and 64 bits |
| `TimerCallback` | a counter, a pointer to the last flag, detached threads | start, stop, expire | a stop against threads that nobody joins; a pointer used after deletion |
| `realtime.cpp` | `RLIMIT_RTPRIO` of the process | `set_sched_fifo` | a retry that must end |
| `Logging` | level, list of tags, callbacks | `log_print`, `log_set_*` | taking the list apart |
| `bmp.cpp` | – | `get_data`, `encode_bmp`, `RawToBmp` | rows, padding, last bytes |
| `DataParser`, `UdpSocket`, `TcpClient*`, `Tools/src/timer.cpp`, `Tools/src/Ipc.cpp` | – | – | not in the source lists of CMake |

How they interact: `EventLoop` calls `Poller::poll`, then `Channel::handleEvent` of
each active channel, which calls back into `Acceptor` or `TcpConnection`; those call
`TcpServer` and `MyServer` through callbacks and hand functors back to
`EventLoop::queueInLoop`. The lifetime of a connection is decided by the shared
pointers in `TcpServer::connections_` and in the queued functors. `Network` owns a
`TcpServerSocket` of each type and a listener thread, which the console starts and stops
in a fixed order. With `USE_IPC_CLASS` (commented out, `TcpServerSocket.h` 30) a start of
the concurrent server forks a child instead, which talks to the parent over the local
socket of `Ipc`. The libraries below (`OSAL`, `Logging`, `Tools`) share no state with
anything.

What makes each component correct, in one line each:

* `EventLoop`: every functor runs once, in order, on one thread, and never waits behind
  a sleep of `epoll_wait` that nothing will end.
* `Channel`/`Poller`: map, interest list and channel agree for the connection that
  owns the descriptor now.
* `TcpConnection`/`TcpServer`: up once, down once, removed once, destroyed after the
  last thing that names it; every connection that has ended is destroyed.
* `MyServer`: the count is the number of connections that are up; the limit holds.
* `Buffer`: a queue of bytes open at both ends, at any size.
* `TcpServerSocket`: every open connection is listed in its class and there are at most
  the maximum of them; the thread can always be joined and leaves nothing open.
* `Network`: the commands of the console return, and a stop leaves no thread and no
  connection.
* `Ipc`: what the console writes goes to the connection accepted last; a stop ends its
  child, unless the child hangs in its write to the parent; no accept and no read waits.
* Timeouts: expire on time as long as the duration fits; the rest is never more than what
  is left. Timers: silent once stopped. `set_sched_fifo` returns.
* `Logging`: a tag is let through when it is an item of the list, letter for letter.
  Bitmaps: every pixel is where the format has it.

## 2. The modules

| Module | Role | Proofs |
|---|---|---|
| `TaskQueue` | what a loop promises: tasks run once, in order | |
| `EventLoop` | the loop and the threads that use it; implements `TaskQueue` | `EventLoopProofs` |
| `MCEventLoop` | instance: constructing thread, polling thread, one more thread | |
| `ConnectionLife` | what the server promises about connections: up and down once, in order, served while fewer than the limit are up | |
| `PollerOps` | `Channel` and `Poller` as functions on a record | |
| `MyServer` | the running server: `MyServer`, `TcpServer`, `Acceptor`, `TcpConnection` on the loop, with `PollerOps`, against its clients; implements `ConnectionLife` | `MyServerProofs`, `PollerProofs` |
| `MCMyServer` | instances with two and three clients | |
| `ByteQueue` | what a buffer promises: its bytes as one sequence | |
| `Buffer` | the vector and its indices; implements `ByteQueue` | `BufferProofs` |
| `FdManager` | a list of descriptors as functions on a sequence | |
| `TcpServerSocket` | the older servers, of the types CONCURRENT and NONE_CONCURRENT, with `FdManager`, against their clients and the thread that starts and stops them | `TcpServerProofs` |
| `MCTcpServerSocket` | instance of the concurrent server: two devices and one interface | |
| `Network` | composes both servers with the listener thread and the commands of the console | `NetworkProofs` |
| `MCNetwork` | instance: one device, two hosts, one descriptor | |
| `Ipc` | the server with `USE_IPC_CLASS`: console, `IPCThread`, children, their local sockets | `IpcProofs` |
| `MCIpc` | instance in two sizes: two children, or one child with two messages; two connections, three descriptors | |
| `Timeout`, `TimerCallback`, `Realtime`, `Logging`, `Bmp` | the libraries | `SupportProofs` |
| `MCSupport` | `Buffer` and the libraries side by side: each behaviour is one of one of them | |

Definitions keep the names of the C++ members (`queueInLoop`, `handleClose`, ...); an
action with no member of its own has a capital letter (`Swap`, `PollReturns`). A
definition whose comment begins with "Fault" is not part of a specification. It is a
plausible mistake in the definition after it; put in its place, it makes TLC violate
the property named in `PROJECT.json`.

### EventLoop

One step of the model is one access to shared memory by one thread. `queueInLoop` is two
steps, the store under the mutex and then the test with the write to the eventfd, and
`caller[t]` says which thread is between the two; `quitLoop` likewise. The polling
thread goes through `pc`: `spawned` (thread started), `check` (`while (!quit_)`), `poll`
(inside `epoll_wait`), `events` (the active channels), `handler`, `swap`, `run`
(`doPendingFunctors`) and `functor`. Handlers and functors are arbitrary: while one is
running (`handler`, `functor`) the polling thread may itself call the loop.

Two facts of the code decide most of what is true here. `threadId_` is the thread that
constructed the loop, while `loop()` starts `loopthread()` on a new thread; so
`isInLoopThread()` answers TRUE to the constructing thread (`Owner`), which then writes
no eventfd, and FALSE to the polling thread, which always does. And `quit_` is cleared
by `loopthread()` when it starts.

`quit_` and `callingPendingFunctors_` are plain booleans shared between threads. CMake
sets only `-std=c++11`, so the build is not optimised: each access is one load or store
and is one atomic step of the model. Under an optimising build this would be a data
race, and the model would have to allow a loop that never sees `quit_`.
`quit_` is modelled by `quitters`, the set of threads that set it, which is empty when it
is FALSE, so that properties can speak of who asked.

Each functor is handed over once; `submitted` and `ran` are history variables for the
refinement. Bound: the number of functors.

### PollerOps and MyServer

A poller is a record of channels, the map and the kernel's list; each C++ member is a
function from pollers to pollers. `MyServer` uses them inside its actions, so one action
is one whole handler or functor with everything it calls: `handleClose`, for instance,
changes the state, disables the channel, counts down and queues the removal in one step.
The only point inside a handler where the loop can wait is the write of `sendInLoop` on
a socket in blocking mode; `pc = "send"` stands for it.

The loop is that of `EventLoop`, seen from its own thread. No other thread calls it:
after `InitNetworkServer` the commands that `main()` reads reach the older classes
only, through pointers that are NULL. So a handler is not interrupted
and one action per handler loses no interleaving: what happens between actions is what
the clients and their kernel do (`Connect`, `Send`, `Receive`, `Close`, `Abort`,
`Refuse`, `GiveUp`).

A connection is named after its client. Its C++ object exists until no shared pointer
names it: `Unreferenced` is computed from the map and from the queued functors
(`Shares`), the way `std::bind` copies or does not copy the pointer. The vector of
`doPendingFunctors` is destroyed as a whole at its end, so connections end there.
`Channel` and `Socket` are allocated with `new` and never deleted; the descriptor is
closed by `~TcpConnection`. Descriptors are reused lowest first, as the kernel does.

`ConnectionLife` keeps of all this the states of the connections and the map. It has no
counter: it compares the number of connections that are up with the limit, so the
refinement (`life <- state`, `listed <- connections`) says that `numConnected_`, however
late functors count, admits and refuses as an exact count would.

Data is a count of messages. A message is what one read returns, `MaxIn` bounds those
unread, `MaxOut` is the size of the send buffer, and the output buffer is empty or not.
The process can end in three ways (`Ends`): the null host, SIGPIPE from a write to a
connection that was reset (nothing blocks or handles the signal), and an assertion.

Some branches of the code are in the model and cannot be reached in it, as they cannot in
the program: `EPOLLHUP` without `EPOLLIN`, because a connection is always registered
for reading while it is up; and the part of `handleWrite` that writes to a live socket,
because the output buffer fills only after a write that failed for good.
`Poller::poll` has no return statement; its value is not used and the
build does not optimise, so it returns.

### Buffer

The state is the buffer, as the vector and the two indices, and `call`, the last call with
its data. `call` is a history variable: `ByteQueue` has it as well, which ties what enters
or leaves the queue to what the caller passed or got, so that the refinement is a statement
about the bytes and not only about their number. A buffer is used by one thread. Its initial
state and actions are `BufferInit` and `BufferNext`, so that `MCSupport` can put it beside
the libraries. `kCheapPrepend`, `kInitialSize` and the 65536 bytes of the stack buffer of
`readFd` are constants. Contents may be any sequence over `Bytes`, and fresh room holds
`Zero`. `readFd` is given what the kernel has, which is at most what its two pieces hold.

Members that only look (`peek`, `ReadFront`) return a value that `call` records, so the
refinement says that it is the front of the queue. Members that swap two buffers, search
or convert byte order are left out.

### FdManager and TcpServerSocket

`slots` holds the lists of descriptors, `fdOf` the descriptor of each connection that
the kernel knows as open; the two are updated by different lines and the properties are
about their agreement. Each branch of the loops of `ConcurrentThread` and
`NoneConcurrentThread` is one action: accept (`Admit`, `Refuse`, `AcceptFails`), data, reset,
end of stream, and any other error. The two `CheckFd` calls are made in the order of
the code, devices first.

Sockets are in blocking mode and registered edge-triggered. `edge` is what has had an
event since `epoll_wait` last reported it, so an event leads to one accept or one read and
what is left waits for the next event. `batch` is what `epoll_wait` returned; its
order is left open. An event holds the number of a descriptor: with two servers in one
process the number may belong to another connection by the time it is handled. A client
may connect again after the server closed its connection, and descriptors are taken
lowest first, by any class.

The owner calls `Start`, and `Stop` as two steps: the flag, and the return of the join. `bind`
and `listen` succeed.

The end of a thread is one step for each descriptor that it closes: it leaves the loop
(`LeaveLoop`), goes through the list of each of its classes (`CloseListed`) and closes the
listening socket of the class (`CloseListening`); `FirstClosed` and `NextClosed` are the order.
A descriptor that one of these steps has closed can be accepted by the thread of the other
server before the next step, and a listed number that is stale may by then be the other
server's connection, which is closed. The numbers of the listening
sockets and of the epoll descriptors are not among `Fds`: a number that closing a listening
socket frees is not given to a connection in the model.

### Network

`StartNetworkServer` and `StopNetworkServer` are the sequences of calls that the C++
functions make; `calls` is what the console's thread has still to do, and a join is a
call of its own that is enabled when the thread has ended. The listener thread tests its
flag, enters the wait of the condition variable and leaves it by a notification or after
five seconds (or for no reason at all). `StopThread` changes the flag and notifies
without the mutex, so between test and wait a notification is lost.

### Ipc

The parent has two threads that share `ipcFd` without a lock; one step is one access to
what they share. `IPC::IpcWrite` (`Ipc.cpp` 171-173) is three steps of the console: the test of
`ipcFd` (`IpcWrite`), the load for the call (`LoadIpcFd`) and the write (`Write`); in between
`IPCThread` may close the connection, clear `ipcFd`, and accept another connection with the
same number. The write therefore goes to whatever has the number by then: a
connection, the client's end of the parent's own connection (`ownFd`), or nothing.
`IPCThread` ends a connection in two steps: the close, and `SetConnFd(-1)`.

Towards a child, messages are `"stop"` and `"text"`; they are of three and of thirteen bytes,
so a read of 512 bytes takes all that is there, and the child sees a sequence of which it
compares the first bytes only (`if(num = 3)`, `TcpServerSocket.cpp` 566, assigns). Towards the
parent, data is counted in writes. `IPCThread` reads at most 512 bytes for an edge
(`Ipc.cpp` 272), so a read takes some or all of what is there and the rest waits for the next
edge: a backlog can build up, to `MaxUnread`, the room in the socket. The write of the child
(`TcpServerSocket.cpp` 602) is on a blocking socket: without room it waits (`WriteWaits`,
`WriteReturns`). Once it waits there need be no further edge for the parent, so
a child can hang there for good, and then no stop reaches it. That is what the code does;
nothing in the repository says otherwise, and `StopEndsChild` names it as its exception.

A write to a descriptor whose client has gone ends the parent with SIGPIPE,
a failed accept with `_exit(1)`, and the children with it (`PR_SET_PDEATHSIG`). The devices
of a child are seen in what it passes on only: its loop is that of `ConcurrentThread`, and a
turn of `epoll_wait` brings data of at most one device.
`edge` of the child's connection may be stale, as epoll's is, when what it announced was
read with what came before.

### The libraries

* `Timeout`: all numbers are taken modulo `Word` (2^32) or `LongWord` (2^64), scaled down; the
  clock is the one variable that moves by itself. `promise` is a history variable with
  what was asked for and how much time has passed, without bounds. `CTimeout` multiplies
  durations in 32 bits, `CTimeoutmS` in 64. The width of `time_t` is a constant, because
  `CTimeout::GetTimeNs` (`timeout.h` 81) multiplies seconds in it: where it has 32 bits the
  product overflows and the clock of `CTimeout` is the widened low bits (`Widened`).
* `TimerCallback`: one step is one access to an atomic or the work between two. A flag stands
  for the `atomic<bool>` of one `Start` and for its thread.
* `Realtime`: the kernel's answers are left open, including a refusal for reasons of its own.
* `Logging`: strings are sequences over letters and the separator; `Lower` says which letters
  differ in case only. The filter is compared with a definition of "item of the list" that
  does not mention tokens.
* `Bmp`: a pixel is represented by the place in the file or in the image it was taken from,
  so that the properties compare places with those of the format. Headers are laid out
  field by field. `DWORD` is `unsigned long` (`bmp.h` 11), which has four bytes on the
  32-bit ARM target that `App/CMakeLists.txt` 21 names in a comment and eight on x86-64.
  Only with four do the packed headers have the 14 and 40 bytes that the code copies. The
  theorems and the run are about that build; the assumption `BmpBuild == DWORD = 4` says so.

## 3. What the runs check

| Run | Instance | What it shows |
|---|---|---|
| `EventLoop` | 3 threads, 2 functors, 1 channel | `RunsOnce`: a functor that was handed over waits at one place or was executed, once. `NoLostWakeup`, `NoLostQuit`: no sleep over a functor or a quit of a foreign thread without a wakeup in the eventfd or on its way. `EventfdReadSucceeds`: the eventfd is never read empty. `BatchIsClosed`: functors queued by functors wait for the next turn. `ImplementsTaskQueue`: once each, in order, on the polling thread. `ForeignRequestsTakeEffect`: a foreign functor or quit takes effect without any timeout of `epoll_wait`; `OwnerRequestsTakeEffect`: one of the owner does so thanks to the timeout |
| `EventLoopOwnerThread` | same | violated: see finding 1 |
| `MyServerSafety` | 3 clients, limit 2, 3 descriptors | `CountIsExact`, `DescriptorsMatch` (reuse of descriptors), `NothingDangles` (lifetime), `CalledOnce`, `MessagesOnlyWhileUp`; `ImplementsConnectionLife`: each connection goes through its life once and in order, and is served exactly when fewer than the limit are up, from which `ServedWithinLimit` follows |
| `MyServerLiveness` | 2 clients, limit 1, 2 descriptors | connections of clients that went, and clients beyond the limit, are destroyed; every queued client gets its callback |
| `MyServerBlockingWrite` | 3 clients, limit 1, 2 descriptors | violated: see finding 2 |
| `MyServerNullHost` | same | violated: see finding 3 |
| `TcpServerSocket` | 2 devices with a limit of 1, 1 interface with a limit of 2, 2 descriptors, 2 unread reads | `OpenHasSlot`: whoever is connected is in the list of its class, with stale entries around; `WithinLimit`; `CallsDoNotWait`: no accept or read blocks, so the join of `Stop` depends on no client; `EndClosesAll`: a thread that ended has left no connection open |
| `TcpServerSlotLeak` | same | violated: see finding 4 |
| `Network` | both servers, 1 device, 1 interface, 1 host, 1 descriptor, no data | `CommandsReturn`: a start or a stop returns whatever the clients do, although a notification may be lost; `QuietWhenStopped`: after a stop no thread is left to be overwritten and no connection is open; `CallsDoNotWait` with two servers that take each other's numbers, which depends on the order of the stops |
| `Ipc` | 2 connections, 3 descriptors, room for 2 writes; 2 children and one message at a time, or 1 child and 2 messages | `WritesReachLatest`: what the console writes goes to the connection that was the latest when `ipcFd` was loaded, or that connection has been closed since; `IpcReadsDoNotWait`: no accept or read blocks; `StopEndsChild`: a stop at the head ends its child unless the child waits for ever in its write |
| `Support` | see below | `IndicesInOrder`, `ImplementsByteQueue`, and `GrowsOnlyWhenFull`: the vector of a buffer is resized only if the free room at both ends is too small; `OnTime`, `RestIsLeft` (timeouts); `StoppedStaysSilent` (timers); `SchedulerReturns`; `FilteredByTheList`; `FillsRaw`, `ReadsTheFormat`, `WritesTheFormat` (bitmaps) |
| `LoggingCase` | same | violated: see finding 5 |

### Why the bounds are enough

* `EventLoop`: the three kinds of thread the code tells apart are the owner, the polling
  thread and any other, and there is one of each. Two functors allow one in the local
  vector or in the queue while the other is in the hands of a caller. The
  theorems below hold for any number.
* `MyServer`: three clients with a limit of two allow a host, a second client and one
  beyond the limit; with each of them a descriptor can be released and taken again while
  the functors of its former owner are still queued. One unread message is enough for
  data to meet a close, one place in the send buffer for the buffer to be full. The
  clients are interchangeable (they enter only through sets and functions over `Conns`),
  so the safety run uses symmetry; the liveness run does not.
  `QueuedClientIsAnswered` needs one descriptor more than the limit: if accept fails
  because none is left, the level-triggered event stays ready, the loop spins, and the
  client waits for another one to go.
* `Buffer`: prepend 1, vector 2, stack 2, at most 6 bytes, data of up to 3 bytes over {0, 1}.
  With at most six bytes in a vector that starts at three, a call moves the
  content, resizes the vector, fills it exactly, empties it, and overflows into the
  stack piece of `readFd`.
* `TcpServerSocket`: two devices with a limit of one allow a refusal and two clients in
  one accept queue; two descriptors between three clients make accept fail, and a
  descriptor that a reset device left behind be taken by the interface and the other way
  round. The interface's list has room for one entry left behind beside one that is
  open. Two unread reads let a read take some of the data or all of it.
* `Network`: one client of each class and one descriptor for the three of them, so that the
  number goes from one server to the other and from one class to the other. A host that was
  reset and connects again finds its place taken, which is how a host is refused. What
  clients send is left to the run above (`MaxIn = 0`): here the question is who ends when.
  Commands may follow each other for ever; a second start and a stop of what was not started
  are among them.
* `Ipc`: two connections let one end while the other has its number or waits for it, and
  the console's own connection come between a child and its stop. Three descriptors are enough
  for the parent's own end and two accepted connections, and are used up by more. Two messages
  are the fewest that can arrive joined. Room for two writes lets the parent read
  some of what is there and leave the rest, and fill the socket. Two children and two messages
  together are too many states for one run, so `MCIpc` takes one of them at a time; `size`
  is chosen at the start. The safety theorems cover any number of
  connections, children and messages.
* `Timeout`: `Word` is 8, `LongWord` 64 and the factor 2: products pass `Word`, the clock
  passes `LongWord`, and no elapsed time reaches half of `LongWord`, as none does in
  292 years. The run takes a `time_t` of 64 bits; the theorems cover both widths. `OnTime` and
  `RestIsLeft` promise nothing of a `CTimeout` where `time_t` has 32 bits.
* `TimerCallback`: four timers; a stop and a start need two, a third to be counted while the
  first is deleted. The theorem covers any number.
* `Logging`: lists of up to five characters hold two items with separators at both ends or
  doubled, tags of up to two characters one that is a part of another; the two letters are one
  letter in both cases. The theorem covers any.
* `Bmp`: widths on both sides of 8 and 32, multiples of 4 and not, and up to three rows. The
  theorems cover any.

`CHECK_DEADLOCK FALSE` is set in `Ipc` only: after SIGPIPE or `_exit` the process is gone.

### Fairness

* `EventLoop`: the scheduler runs the polling thread (`Turn`, which includes the return
  of callbacks) and a thread in the middle of a call (`wakeup`), and `epoll_wait` returns
  when something is readable (`PollReturns`). Nothing makes it time out: the ten seconds
  of `kPollTimeMs` (`EventLoop.cpp` 20) are assumed only inside the property about
  the owner, as `PollTimesOut`.
* `MyServer`: the loop's thread is scheduled (`Turn`), and TCP answers data sent to a
  closed client (`Refuse`). No client is ever obliged to do anything by the
  specification. That clients read is an explicit premise of the liveness properties
  (`ClientsRead`): without it a client that does not read stops the loop for ever, which
  is finding 2.
* `Network`: the console's thread inside a command, the listener thread and each server's
  thread are scheduled. `epoll_wait` returns after 500 ms and `wait_for` after five seconds,
  so neither needs an event. Nobody is obliged to give a command, and no client to do
  anything.
* `Ipc`: `IPCThread` and each child are scheduled while the process runs. The console, the
  devices and the moment at which the last copy of a descriptor is closed are left open. So is
  a write that waits, unless the parent has read everything: the kernel need not wake the
  writer of a local socket before most of what filled it is gone.
* `Realtime`: the kernel answers and the thread goes on.
* `TcpServerSocket` alone assumes none: all its properties are safety.

### Findings

1. `RunsInLoopThread`: the header asks for `loopthread` to be called in the thread that
   created the object (`EventLoop.h` 39); `loop()` starts it on a new thread, and
   `runInLoop` on the constructing thread executes functors beside the loop.
2. `WritesDoNotWait`: the comment of `Socket::Accept` says an accepted socket is
   non-blocking; the call that would make it so is commented out (`SocketOps.cpp` 71),
   and the loop can wait in a write.
3. `HostIsChecked`: `onMessage` uses the result of `hostPtr_.lock()` without a test
   (`MyServer.cpp` 87); a message after the first client was destroyed uses a null
   pointer.
4. `RefusesOnlyAtMax`: on `ECONNRESET` the older server closes the descriptor and keeps its
   entry in the list (`TcpServerSocket.cpp` 727). Until something deletes that entry it counts
   as a connection, and the next client is refused with "Max interface reached" (line 218)
   although the maximum is not reached. A `Close` of the same number deletes it: that of the
   refused client itself if `accept` gave it this number (lines 219 and 148), or of a later
   connection; at the latest the end of the thread does.
5. `IgnoresCase`: "The string comparison is case insensitive", says the comment of
   `messageIsFilteredOut` (`logging.cpp` 31); `strcmp` (line 63) is not.

What the properties had to leave out because it does not hold, with no statement in the
repository to the contrary: `loopthread()` clears `quit_` and forgets a `quitLoop` made
before (`EventLoop.cpp` 79, a FIXME asks the question); a stop behind another message does
not end a child (`StopEndsChild` is about a stop at the head), and neither does one to a
child that hangs in its write to the parent; a message of the console may reach another
connection than the latest if that one was closed while it was being written
(`WritesReachLatest`); a `CTimeout` of more than 4.29 seconds expires early (`Fits`), and
where `time_t` has 32 bits its clock overflows (`ReadsClock`); a message that is filtered
out is still printed at the level `LOG_PRINT`; `TimerCallback::Stop` may write through a
pointer to a deleted flag; files of 8 bits per pixel, among them those the code writes, are
read past their rows, 1-bit rows that are not a multiple of 32 pixels are read shifted, and
rows are written without their padding.

## 4. What is proved

All theorems hold for every value of the constants that satisfies the assumptions.

`EventLoopProofs`, from `ThreadsAssumption` (owner and polling thread are two different
threads) and `ChannelsAssumption` (the wakeup channel is none of the others):

* `TypeCorrect`: `Spec => []TypeOK`, the types that the other proofs rest on.
* `WakeupIsNeverLost`, `QuitIsNeverLost`, `EventfdIsNeverReadEmpty`. `NoLostWakeup` says
  something only while the loop sleeps and is not inductive: when the loop goes to sleep
  nothing would be known. `WakeupInv` extends it over the turn. From the handlers to the
  swap a foreign functor may be without a wakeup, because `handleRead` may have emptied
  the eventfd, but the swap is still ahead and takes it; everywhere else a functor that
  is in the queue was put there after the swap, and its wakeup is in the eventfd or in
  the hands of its caller. The proof has one step per action.
* `TurnIsClosed`: `Spec => [][...]_vars` for `BatchIsClosed`.
* `LoopImplementsTaskQueue`: refinement with `queue <- functors \o pending`. It needs
  `FunctorsAreLocal` (the vector is empty when the swap happens), since otherwise the
  swap would drop functors.
* `FunctorsRunOnce`: `RunsOnce`, what the refinement is worth. Of the functors handed over
  so far, each is at one place of the queue or was executed once (`Once`), which each step
  of the task queue keeps (`SubmitOnce`, `InlineOnce`, `ExecuteOnce`) and therefore each of
  the loop.

`MyServerProofs`, from `ConstantsAssumption` (the clients and the descriptors are finite
sets, the limit is not zero):

* `CountStaysExact`, `ServedStayWithinLimit`, `EachIsCalledOnce`. None of the three is
  inductive, and each step needs the others: `connectEstablished` counts a connection up
  rightly only because it is still `kConnecting`, which `CalledOnce` says. The invariant
  speaks of the whole queue, `functors \o pending`: it holds at most one functor of each
  connection's life (`OneLife`), and each of them fits its connection's state (`QueueFits`).
  A close finds its connection up, so by `QueueFits` no functor of its life is queued and
  its removal may be. A client in the accept queue has no connection yet (`BacklogIsFresh`);
  a connection that is up is in the map (`Mapped`), so the end of `doPendingFunctors` destroys
  none that counts. That `accept` finds a client and that a write has a host is part of
  `Types`. The proof does not use what the socket buffers hold, nor that a descriptor is
  reused only once it is free.
* `ServerImplementsConnectionLife`, from the same invariant: `Mapped` gives that who goes down
  is in the map, `QueueFits` that who comes up has not been up before, and `CountIsExact`
  that the counter decides as the number of connections that are up would.

`PollerProofs`, from the same and `NoneAssumption` (`None` is no entry of the kernel's list).
It extends the invariant of `MyServerProofs` by six parts (`Inv2`), with lemmas about what
each function of `PollerOps` does to the record (`EnableNew`, `UpdateKnown`, `RemoveSilent`:
`OnlyFor` says what it leaves alone):

* `DescriptorsAlwaysMatch`: `DescriptorsMatch` is not inductive, because it says nothing of the
  entries of a descriptor that nobody has. `PollerMatches` does: no entry is without its
  connection, so that a descriptor that is taken again is found unknown, and the index of
  each channel tells what the next `updateChannel` will do.
* `NothingEverDangles`: a connection ends when no shared pointer names it, but the functor of
  `shutdown`, the poller and the kernel hold none. `Leaving` says that a connection that is
  down and still known to the poller has a functor to come that will see to it, and that
  functor holds it; so whoever ends has been forgotten (`UnreferencedIsForgotten`).
  `QueueLives` says that a functor of `shutdown` waits with one that holds its connection;
  `ActiveMatches` that the active channels are those of connections that exist.
* `ServerTypes`: the bound of the send buffers needs the whole invariant. `handleWrite` would
  overrun it if data ever waited in an output buffer for a client whose connection still
  stands (`Losses`).
* `MessagesComeWhileUp`: a read takes something only from the socket of an active channel,
  and a channel that is active is up, unless its own event has just closed it
  (`ActiveMatches`).

`BufferProofs`, from `BufferAssumption` (the sizes are naturals, data is a set of
finite sequences of bytes):

* `IndicesStayInOrder`: the prepend index, `readerIndex_`, `writerIndex_` and the size keep
  their order after any calls; this is inductive as it stands, given the precondition that
  each member asserts.
* `BufferImplementsByteQueue`: one lemma per member says what it does to the content
  (`AppendAppends`, `PrependPrepends`, `MakeSpaceKeepsContent`, `RetrieveTakesFirst`,
  `ReadFdAppends`, ...), and rests on `ContentBytes`, which gives the content byte by byte;
  `CallsRefine` puts them together.
* `BufferGrowsOnlyWhenFull`: `MakeSpace` resizes only when the free room at both ends is too
  small, `readFd` only by what its stack piece took; every other member keeps the length.

`IpcProofs`, from `IpcAssumption` (descriptors are a finite set of naturals, `None` is no
natural):

* `WritesAlwaysReachLatest`: `WritesReachLatest` is not inductive, because an accept makes a
  new connection the latest and must give it a number no other has, and because the write
  uses a number that was loaded steps before. The invariant adds that accepted connections
  have descriptors of their own (`FdsAreDistinct`), which are not those of the parent's own
  ends (`OwnIsDistinct`), that what waits in the queue has none and is there once
  (`QueueIsFresh`), that events are of known descriptors, and that the descriptor that
  `ipcFd` or the console holds is the one of the connection it was taken from for as long as
  that one has any (`LatestIsKnown`, `AimIsKnown`). `LowestFreeIsFree` shows that the
  kernel's choice exists and is free, by the well-foundedness of `<` on the naturals.
* `IpcReadsNeverWait`: an event that was handed out stays ready until it is handled, in a child
  also while the child waits in a write (`ReadsHaveData`).
  Everything outside the thread only adds (`NothingIsTaken`, used by the one lemma
  `ServerFrame` for all of its actions); an accept that reuses a number cannot meet an old
  event of it, because a close takes the event out of the batch first. For the children:
  each has a connection of its own (`ChildrenAreApart`), so only it takes its messages.

`TcpServerProofs`, from `ConstantsAssumption` (clients are of one class each, a server is
there for each class of clients, descriptors are a finite set of naturals):

* `ConnectionsStayListed`, `ConnectionsStayWithinLimit`, `EndedThreadsHaveNone`,
  `ServerTypesHold`, with either server or both in one process. `OpenHasSlot` needs that open
  connections have different descriptors, or the close of one could take the entry of
  another; that a client in an accept queue has none yet (`Queues`), or an admission could
  overwrite one; and `DeleteKeeps`, which says that `FdManager::Delete` takes out at most
  one entry and nothing but the descriptor it was given, from the definition of
  `RemoveFirst`. `WithinLimit` follows by counting: descriptors map open connections into
  the places of the list, one to one, and the list is never longer than its maximum,
  because `Accept` compares before `Insert` does.
* `OneServerNeverWaits`: under `OneServer`, the events of a thread are of listening sockets
  with someone in the queue and of connections that can be read (`BatchInv`). With both
  servers it depends on more: the end of one closes every descriptor in its lists, stale
  ones too, and may close a connection the other has an event for.

`NetworkProofs`, from the assumptions of `TcpServerProofs`:

* `NetworkUsesServers`: `NetworkSpec => Spec`. Every step of the composition is one of the two
  servers or leaves them alone, so the theorems above hold in it.
* `StoppedNetworkIsQuiet`: `Agreed` says, for each list of calls that a command may have left,
  which of the flags are set; `ThreadsInv` and `ListenerInv` that a thread exists only while
  its flag is set or its join is the next call. Then `EndClosesAll` gives that no connection
  is open.
* `NetworkNeverWaits`: `CallsDoNotWait` for both servers. An event of a connection that the
  other server closed is reachable, and harmless for a reason that takes four steps to see
  (`Orphaned`): only the concurrent server ends while the other one runs, so what it closed
  was the other one's only connection; and the other one admits nobody before it has handled
  that event, because its list, of one host, still has the number.

`SupportProofs`, from `TimerAssumption` (at least one timer), `TimeoutAssumption` (`Word`,
`LongWord` and the factor are positive, and `LongWord` is at least twice the longest duration
that `CTimeoutmS` can be given; `time_t` has one of the two widths), `LoggingAssumption` (the
separator is not a letter), `BmpAssumption` (widths and heights are positive) and `BmpBuild`
(`DWORD` has four bytes):

* `StoppedTimersStaySilent`: `Stop` writes only when it sees `nThread` above zero, and to the
  last flag only. The invariant says why both are enough: `nThread` is the number of
  threads that have not counted themselves off (`CountInv`, with cardinalities), so zero
  means that none is left to read its flag; and the only armed flag still to be read is
  the last one, or none once a stop has returned (`LoadedInv`).
* `TimeoutsAreOnTime`, `RestIsAlwaysLeft`: `TimeoutInv` ties the clock to the time that has
  passed, modulo `LongWord`, and bounds both below half of it. The rest is arithmetic with
  remainders: a remainder is unique, and a signed difference has the sign of the time left.
* `TagsAreFilteredByTheList`; `RawIsAlwaysFilled`, `PixelsAreReadRight`,
  `PixelsAreWrittenRight`. `strtok`, the offsets of header fields, the bits of a row and the
  rows of a file are recursive functions. For each of them the proof names a function that
  is not recursive (`TokensFrom`, `BitsUpTo`, `RawUpTo`), shows that it satisfies the
  equation of the definition, and that two functions which satisfy it are equal (two that
  differ would do so at a least argument, by the well-foundedness of `<` on the naturals).
  So no induction over data is needed, and the results hold for lists of any length and
  bitmaps of any size.

Only model-checked: liveness, which is out of the prover's reach (`ForeignRequestsTakeEffect`,
`OwnerRequestsTakeEffect`, `GoneClientIsReleased`, `RefusedClientIsReleased`,
`QueuedClientIsAnswered`, `CommandsReturn`, `StopEndsChild`, `SchedulerReturns`). Every other
property that a run finds to hold is a theorem.

## 5. What is not modelled

* The destructors of `EventLoop`, `TcpServer`, `Network` and `TcpServerSocket`: the loop is
  static, nothing deletes a server, and what happens after `main()` returns is left out.
  With them go `UnRegisterConfiguration`, `IPC::StopThread` and the count of concurrent
  servers, which have no caller.
* Address conversion, socket options, names of interfaces, the text of messages, memory (the
  leaked `Channel` and `Socket`), the epoll descriptors that a thread does not close.
* Members of `Buffer` that search, convert byte order or swap two buffers.
* `disableReading` and the write-complete and high-water-mark callbacks: no caller.
* Of the older server: the threads that send images and decoder data, whose bodies are
  under `#if 0` and whose starts are in comments; the devices of a forked child, whose loop is
  that of `ConcurrentThread`; a child whose `TryConnect` fails and which returns into the
  console. `FdManagerSet` has no caller.
* `Logging`: a NULL tag (every caller passes one), formatting, and the reuse of one `va_list`
  by several callbacks.
* `Bmp`: the values of pixels and colours; a build with `unsigned long` of eight bytes, in
  which the headers have another size than the file's; memory that cannot be had.
* `DataParser`, `UdpSocket`, `TcpClient*`, `Tools/src/timer.cpp`, `Tools/src/Ipc.cpp`: not
  built.

Hazards that no property covers are in `PROJECT.json` with the reason.

## 6. Plan

Done, in this order: `TaskQueue`, `EventLoop`, its proofs; `PollerOps`, `MyServer`,
`ConnectionLife`, their proofs; `ByteQueue`, `Buffer`, its proofs; `FdManager`,
`TcpServerSocket`, its proofs; `Network`; `Ipc`, its proofs; the libraries; the proofs about
timers, the poller, `Network` and the other libraries.

What could follow, most important first:

1. Proofs: the order in which functors run, as an action property of `TaskQueue` carried
   over to `EventLoop`; that a stop at the head ends its child, as the safety part of
   `StopEndsChild`.
2. The destruction of the older servers against their running threads, should the program
   come to destroy them.
