# qylib in TLA+

Models, model-checking runs and machine-checked proofs for qylib: the message
queue, message thread, thread object and task runner of `qytask/`; the sockets,
adapters, streams and codecs of `qynet/`; the pipes, connections, queries and
plugins of `qyipc/`; the signals of `include/`.

    tlc -workers 2 -config MessageQueue.cfg MCMessageQueue
    tlapm MessageQueueProofs.tla

`PROJECT.json` lists every run with its properties, the source lines behind each
definition (`map`), the hazards, and for each property a mutant of the model, an
operator next to the one it replaces, that the property catches. Mutated forms
stand directly before the definition they belong to; no specification uses them.

## 1. The system

qylib is a C++ library in three parts. `qytask/` has threads, message queues and
cooperative tasks; `qynet/` has sockets, socket adapters, streams and codecs;
`qyipc/` joins processes on Windows by named pipes, with an object model
(client, server, plugins) whose work is done by tasks. `include/` holds the
locks, the event and sigslot.

| component | state | operations | talks to | model |
|---|---|---|---|---|
| `QyMessageQueue` | ready queue, delay queue, kept peek, `mStop`, `mActive`, `mCrit` | post, get, peek, dispatch, clear, stop, start | its event, `QyMsgQueueManager`, handlers | `MessageQueue` |
| `QyMsgQueueManager` | list of active queues | add, remove, clear | queues, from a handler's destructor | `MessageQueue`, for one queue |
| `QyMessageThread` | a queue, list of sends, thread-local current thread | send, post, run, stop, clear | `QyThread`, the sender's `QyAutoThread` | `MessageThread` |
| `QyThread` (POSIX) | `mAlive`, `mDead`, hook event, `mStateCrit` | start, stop, wake, setNotAlive, run | one pthread, the user's function | `ThreadPosix` |
| `HQyEvent` | up or down | set, reset, wait | condition variable | in the modules that wait |
| `QyTaskRunner`, `QyTask` | tasks, next timeout, per task state, flags, timeout | startTask, runTasks, endTasks, pollTasks; wake, abort, error, run | the message queue | `TaskRunner` |
| IPC pipe | ring of 20 write buffers, read buffer | write, read, completion | completion port, engine | `Pipe` |
| completion port, engine, object, listen and program tasks | pipes, keys of connections and programs, statuses | connectToServer, createServer, close, closeAll, startupClient; attach, deatch, completions | the three threads of an object | `Connections` |
| query tasks, `IPCSynWait` | nested message loops, the answerer's queue | query, answer, time out | window's thread, tasks | `Queries` |
| plugin manager, tasks, window | plugins, DLL counts, data queues | start, stop, send, destroy, load, unload, quit check | window's and message thread, tasks | `Plugins` |
| `AsyncTCPSocket`, physical socket, dispatcher | in and out buffers, requested events, dispatcher list | send, process, flush, connect, close; wait loop | Winsock, signals | `Sockets` |
| buffered, sham-SSL, proxy and OpenSSL adapters | buffers, negotiation states | connect, send, recv, close, events | socket below, signals above | `Tunnel` |
| `SChannelAdapter` | three buffers, delayed events | the same | socket, SSPI, message queue | `SChannel` |
| byte buffer, streams | positions, contents | read, write, seek, reserve, flow | each other | `Streams` |
| `QyStreamRelay` | two buffers | circulate, events | two asynchronous streams | `Relay` |
| string codecs | none | encode, decode | utf8 | `Codecs` |
| sigslot | two lists that mirror each other | connect, disconnect, copy, destroy, emit | slots | `Signals` |

What is hard: a queue under one lock, a stop flag under none, a list of sends
under another, and a wake-up event that is reset twice per wait; messages
destroyed with handlers on other threads; a synchronous send that waits on an
object on the sender's stack; a thread object whose flags both sides write; tasks
that abort, delete and wake each other from inside their own handlers; events
that disable themselves before they are told, in a loop over a list that the
handlers change; handshakes in pieces, one inside the other; answers that cross
timeouts, and statuses that cross the start of the task that is to hear of them.

## 2. The modules

The first lines of each module say what its state and its actions stand for.
Members and methods keep their names.

| module | models |
|---|---|
| `Mailbox` | what a message queue promises: a message enters once and leaves one way |
| `MessageQueue`, `MCMessageQueue`, `MessageQueueProofs` | `QyMessageQueue`, which implements `Mailbox` |
| `MessageThread`, `MCMessageThread`, `MessageThreadProofs` | `QyMessageThread`, `QyAutoThread` |
| `ThreadPosix`, `ThreadPosixProofs` | `QyThreadPosix` |
| `TaskRunner`, `MCTaskRunner`, `TaskRunnerProofs` | `QyTaskRunner`, `QyTask` |
| `Pipe`, `MCPipe`, `PipeProofs` | one direction of a pair of `IPCPipeBase` |
| `Connections`, `Queries`, `Plugins`, composed by `Ipc`; `MCIpc`, `IpcProofs` | `IPCObject` with its tasks |
| `Sockets`, `MCSockets`, `SocketsProofs` | `AsyncTCPSocket` on `QySocketDispatcher` and its wait loop, both ends |
| `Tunnel`, `SChannel`, `Streams`, `Relay`, `Codecs`, `Signals`, gathered by `MCNet` | what is put around a socket |
| `SignalsProofs` | theorems about `Signals` |

`MCNet` and `MCIpc` check several modules in one run. Their parts share no state,
so a behaviour chooses one (`part`) and leaves the others where they begin; a
property of the run is the property of one part. In `Ipc` itself the steps of the three
parts interleave, and the theorems are about that specification: a behaviour of
`MCIpc` is one of `Ipc` in which the other parts stand still. `MCNet` extends `Signals`
and `MCIpc` extends `Ipc`, so that the properties of those runs are the definitions the
theorems of section 5 are about.

**MessageQueue.** The actors are posters, the thread that gets, one that clears
or destroys a handler, one that stops and starts. The thread that gets ends when get
returns false, or after a message once it is told to; start makes a new one. An action covers the code
between two points where another thread can run: `PostBegin` reads `mStop`,
`PostPush` pushes under `mCrit`, `PostWake` sets the event and unlocks; get is
`GetCall`, `GetLock`, `MoveDue`*, `PopPosted` or `QueueEmpty`, `NotStopped` or
`GetFalse`, then the wait and the *two* resets. `clear` rotates one message per
`ClearRotate` with the lock held. The clock is read before the lock, as in the
code, and may be stale when used.

**ThreadPosix.** The owner calls start and stop, one at a time; any thread may
call wake and setNotAlive at any time; each pthread is announced, calls the
function, evaluates its result under `mStateCrit`, ends. start's wait for the
announcement is a timed wait whose result is ignored, so it orders nothing. The
hook waits with `mStateCrit` held, as the code does.

**MessageThread.** Each system thread has a stack of calls under way: a client's
own, or handlers, each working through the sends `Calls` gives it. A send is
refused, runs the handler directly when the current thread is the target, or is
pushed, wakes the target, checks `ready`, waits and resets. `Creator` has constructed
a thread and has it as current; any thread that may stop another does so between two
sends, `StopSet`, `StopWake`, `StopThread`, `StopReturns`, and then has it as current too.
`QyThread` is reduced to its `mAlive`; stop's wait for the thread to end is bounded by
ten seconds in the code and may end at any time in the model.

**TaskRunner.** The actions are the steps of `runTasks` and, between two or inside
a task's `process`, calls of wake, error, abort, suspendTimeout, create and start
on any task. `process` may return any state the subclasses in
`qyipc/ipc-tasks.cc` return. `pending` says whether a message of `wakeTasks` is
queued. At the end of a pass `EndTasks` deletes what is done, then `DelTask` the stopped
children one by one. The use of a deleted parent in a child's destructor changes nothing
in the model; `ParentThere` says that it happens.

**Pipe.** `write` puts a packet into the slot `wq_count` and starts a write if none
is under way; when the slot is taken it reports a loss, after a `nextWrite` of
its own in a second step, because a completion may come between. WriteFile puts
the packet into the byte stream at once and its completion comes later.
`GetOverlappedResult` is exact with one write under way and says anything when
two share the `OVERLAPPED`. A read brings all bytes there are, its completion
splits them with the length `packetIntegrity` takes to be left, and reads again.

**Sockets.** Two sockets, each connected to a relay that joins them. `loop` is where
`wait` is: arming `WSAEventSelect`, waiting, then the pass over the dispatchers
with the index it keeps while handlers take dispatchers off the list. Each event
disables itself, then calls the socket, which sends partially, blocks, reads into
`mInBuf` and processes it. A length is `PktLenSize` digits of base `Radix` (two of
256 in the code). The owner acts on the loop's thread, also between two events of
one pass.

**Tunnel.** A state of the client is a record, a call goes down the layers and a
signal comes up, each layer an operator from state to state: the OpenSSL adapter,
below it the proxy or the sham-SSL adapter with its buffer, below it the socket.
The proxy answers with the replies the code tells apart, in pieces that end
anywhere, with what the server says stuck to the last. `startSSL` may come before
or after the connection; the certificate's name and chain may fail.

**SChannel.** The same for the adapter of Windows: it decrypts whole records out of
`inbuf`, keeps what it cannot send, posts itself a message for events it cannot
signal at once, and keeps a close back until all has been read. Each of the server's two
messages may be bad, and so may a record behind them; an error ends the call before
anything is flushed, and a token that was to be sent stays (`NothingForgotten` exempts the
state `ERROR`).

**Streams, Relay, Codecs.** Streams are records, calls operators that return a
result, what they moved and the next record; a memory stream and a file are called
alike and compared. The relay works between two streams that open late, block,
fail and close. A codec is a step that takes a unit and puts out a unit or stops;
`encode` and `decode` iterate it in a room of given length.

**Signals.** A signal's list of slots and an object's set of senders, copies and
destructors of both, and an emission that keeps the next slot before it calls one.

**Connections.** The message thread makes and destroys pipes (`msgs`, `onMessage`),
the completion thread hears of them (`port`, `onCompletionStatus`), the tasks are
told a status and run later (`ready`): `IPCListenConnectTask`,
`IPCCreateChildConnectTask`, `IPCExeTask`, whose destructors have the last word
(`Deleted`). `said` is the last the owner was told. Between two steps of a thread any
other may go on, and the owner may call. `addListen` looks (`addListen`) and then adds
(`Adds`), on the owner's or the completion thread. A task that finds nothing to do `dozes`
until `QyTask::run` sets `mBlocked` (`Blocks`); what wakes it in between wakes nobody.
`statuschanged_` is no atomic: a status the completion thread counts while the task is not
asleep may be lost (`Uncounted`).

**Queries.** The window's thread is in a stack of `loops`; each query has a task in
this process. The other process's queue and its `IPCListenQueryTask` are there
too. Answers name the command, not the query, as in the code. A query is told in two
steps, `begins` (`running_` is cleared) and `finished` (the message is posted, `synwait_`
cleared); its loop may return in between. WM_QUIT, one of the window's other messages,
ends the inmost loop (`Quit`), whose task still has the wait, and what it then writes
there may or may not be survived (`crashed`). A `GetMessage` that returns 0 is the same
step.

**Plugins.** Either the owner starts plugins in the other process (`Ours`) or the
other process asks this one to load them. Tasks run in any order, the window's
messages in theirs; the delayed check of the message thread may come late. Tasks doze as
in `Connections`; a packet that a dozing task takes is `missed` until it is called again.

## 3. The runs

| run | bounds | shows |
|---|---|---|
| `queue` | 2 posters, 3 messages (a disposal, one delayed), 2 handlers, a clear, one tick; get and peek, with wait 0 and without limit | type, `NoLostWakeup`, `NotEarly`, `FifoOrder`, `DestroyedNotHeld`, refinement of `Mailbox` |
| `foreign` | 2 posters, 2 messages, clear and destructor on another thread, get only, stop and start; fair | every accepted message leaves, unless a stop ends the thread: `Served` |
| `thread` | 3 pthreads, 3 polls, hooked or not; fair | `TrueMeansReclaimed`, `AtMostOneMoreCall`, `AskedEnds` |
| `heeded` | 1 pthread | an early stop is overwritten (finding) |
| `msgthread` | 1 client that has constructed 2 message threads, 5 sends of which two to the own thread, a post, a stop, starts, a clear; fair | `HandledOnce`, `InContext`, `NoLostReply`, `NoSleepOnSends`, `EverySendReturns` |
| `taskrunner` | 2 tasks with timeouts of 1 and 2 ticks, a child, 3 ticks | `NoDangling`, `NoForgottenTask`, `TimeoutArmed`, `NoCallbackAfterAbort` |
| `pipe` | 5 packets of 2 and 3 bytes with their header, 2 slots, reads of 8 bytes, either end closes; fair | `NothingLost`, `Delivered`, `CloseReported` |
| `sockets` | 2 sockets, lengths of 2 bits, a packet of 3 and one of 4 bytes (length written as 0), connections of 3 bytes, 2 sends, 4 connects, 2 closes | `Framed`, `Registered`, `DataIsHeard` |
| `partial` | the same with 2 connects; the loop fair | the rest of a packet is never sent (finding) |
| `net` | buffers of 2 and rounds of 4 bytes, 4 calls; a relay with buffers of 2 bytes, streams that block after 1, 4 bytes from both ends together; sources of up to 3 characters in rooms of 1, 4, 7, 64; 2 signals, 3 objects, 7 steps; 2 sends and 2 connections of an adapter, every cut of what comes | `BufferIsQueue`, `BytesPass`, `RelayMoves`, `RoundTrip`, `SignalsReach`, `WireInOrder`, `GotIsPayload`, `ConnectedMeansNegotiated`, `NothingForgotten`, `RecordsInOrder` |
| `ipc` | one connection and 4 calls with one program and 1 retry, or two connections and 3 calls; 2 queries of one command and another message or WM_QUIT; 3 plugins of one DLL: one started here, or two of the other process, and 4 calls, or all and 3 | `ConnectionsAgree`, `ExesTracked`, `QueriesAnswered`, `PluginsHeld`, `DataReaches` |
| `plugin` | the same | a started plugin is never asked for (finding) |

Why the bounds suffice: a lost wake-up needs one getter, one poster between its
push and its wake, and one other actor. Reordering by clear's rotation needs three
messages, of which one is cleared. stop's poll limit of 3 instead of 1000 bounds
only how often it looks. Three pthreads are two restarts. Five packets go round a
ring of two slots twice and once more; three fit one read, where the length
`packetIntegrity` takes to be left departs from the true one, and four overflow it.
Two bits of length give every packet up to the full buffer, and the full packet,
in a connection that holds less than a packet: every send is cut everywhere. Four
connects of two sockets are a close and a connection again of both, in the middle
of a pass. A socket adapter needs one reconnection to meet what the last
connection left. Three of an emission's objects are the one called, the next and
another. A second query in the loop of the first is the nesting; a third adds
another of the same. Two plugins of one DLL are the least that count references; the
third is one that the other process has. The parts of `MCIpc` begin with one
representative of what is alike (`Two`, `Asked`, `TheyStart`), and no cfg of it uses
symmetry. `ipc` has 2.6 million states.
The mutants are caught within these bounds, which shows that the cases occur.

The clock's wrap (`ClockMod`) is not reached. `queue` and `sockets` use the symmetry
of posters and of sockets; their properties are safety only. Deadlock is checked
where the system runs for ever (`queue`, `foreign`, `thread`, `msgthread`); the other
models end when their calls, packets, tasks or ticks are used up.

Some definitions are not properties of a run and keep their place in the modules:
`TypeOK` of `MessageThread`, `TaskRunner`, `Pipe` and `ThreadPosix`, which are proved;
`InputHasRoom` is a conjunct of `Framed`, `MemoryIsFile` and `TapHearsAll` of `BytesPass`.

Fairness: every thread that can take a step takes it eventually (weak fairness
per thread), as a preemptive scheduler does; the model's locks are free again by
their holder's own fair steps. The clock advances. Nobody has to post, stop, start,
clear, call wake, or wake up spuriously, and a user's function or handler returns.
A pipe moves the bytes it is given, the completion threads go on, and nobody has to
send or to close. In `partial` the owner goes on calling wait and nothing else is
fair. The other properties are safety and need none; `NothingForgotten`, `RelayMoves`,
`DataReaches` and `ConnectionsAgree` state, as safety, that in every state somebody is
still to act or there is nothing left to do.

## 4. The disagreements

Three runs end in a counterexample to what a comment says:

* `heeded`: `qythread_posix.cc:168-169` wants to prevent the race of an early stop; the
  announcement sets `mAlive` again.
* `partial`: `qyasynctcpsocket.cc:61` claims to have sent the whole packet; after a partial
  send nothing asks for the event that would flush the rest, and every later packet is dropped.
* `plugin`: `ipc-api.h:27` says a plugin starts when its connection stands; its task
  ends at `ipc-tasks.cc:603`, whose test every uri fails, and nobody is told.

Further configurations, run by hand, each end in a counterexample too:

| cfg, module | property | what happens |
|---|---|---|
| `MessageQueueDestroyed`, `MCMessageQueue` | `NoDispatchToDestroyed` | `qymessagequeue.h:99-101` lets handlers and queues be destroyed independently; a message between get and dispatch is missed |
| `MessageThreadContext`, `MCMessageThread` | `DirectInContext` | after a nested send a handler no longer knows its thread (`qymessagethread.cc:238`), sends to it and waits for itself |
| `MessageThreadPending`, `MCMessageThread` | `PendingSendsDelivered` | `qymessagequeue.h:97-99`: a send pushed between the two looks of a stopped get is left behind |
| `MessageQueuePending`, `MCMessageQueue` | `ReadyPostsDelivered` | the same lines: a post that has read `mStop` before the stop pushes after the last look of get, and the thread ends |
| `MessageThreadTarget`, `MCMessageThread` | `OnTarget` | `qymessagethread.cc:237-239`: the constructor (160-162) and stop (198) make a thread current where it does not run, and a send from there calls the handler there |
| `TaskRunnerParent`, `MCTaskRunner` | `ParentThere` | `qytaskrunner.cc:96,100`: the parent is deleted before its stopped children, whose destructor calls its `removeChild` (`qytask.cc:38-39`) |
| `TaskRunnerTimeout`, `MCTaskRunner` | `NextTimeoutIsSoonest` | `qytaskrunner.cc:168-169`: the next task to time out is compared with itself |
| `PipeOverlapped`, `MCPipe` | `OneWritePerOverlapped` | `ipc-pipe-base.cc:11`: a full ring starts a second write with the `OVERLAPPED` of the first |
| `TunnelEarly`, `MCNet` | `ConnectedMeansNegotiated` | startSSL on a socket that is connected to its proxy only: the tunnel's connect event meets the assertion of `qyOpenSSLAdapter.cc:405` |
| `NetUtf8`, `MCNet` | `Utf8LeavesRoom` | `qystringencode.h:18-19`: `utf8_encode` compares without the terminator, and `xml_decode` of a number ends outside its buffer |
| `IpcLostWake`, `MCIpc` | `NothingMissed` | `ipc-tasks.cc:799-815`: a packet that comes between a task's look at its queue and `mBlocked` (`qytask.cc:91`) wakes nobody (`qytask.cc:137`) |
| `IpcLostStatus`, `MCIpc` | `StatusesTold` | the same for a status (`ipc-tasks.cc:457-461`), or one that `processInit` overwrites: a connection stands and its owner is not told |
| `IpcTwoListeners`, `MCIpc` | `OneListener` | `ipc-object.cc:206-210`: two threads in `addListen` both find that nobody listens |
| `IpcWait`, `MCIpc` | `WaitThere` | `ipc-tasks.cc:895-898, 911-916`: WM_QUIT, or a loop that returns before quit has posted, leaves a task with a wait that is gone |

Where the code departs from what a property would say, and no document promises
it, the property states what remains and the history variable that excludes the
rest is named after it: `late` (the last status of a connection was missed by its
listening task: it came before `processInit` or as the task went to sleep, or was not
counted), `raced` (two calls of `addListen` have met, or the listening task ended in one),
`missed` (a packet came as its task went to sleep), `early` (a query that was over before
its loop began), `crashed` (a task has written to a wait that is gone), `stray` (an
unload of a plugin that is not loaded), `spoilt` (bytes dropped by the buffered reader), `torn` (events of an old
connection told to a new one), `clean` (framing broken by a 64K packet or by what
an earlier connection left). Each is set by the model's own steps.

## 5. The proofs

The theorems hold for every value of the constants that satisfies the named
assumptions of the modules, which TLC evaluates on the runs: actors, messages and
handlers are different things, sizes and lengths are positive numbers, every socket
has a peer. Each proof has an invariant that every step keeps (`IInv`; `Inv` for the
thread), one lemma per action, or per group of actions that disturb the same
conjuncts, and a last step that combines them. TLC checked these invariants on the
instances of section 3 too, except the type sets and `FlowInv` of the pipe, which range
over infinite sets.

Three hypotheses go beyond the modules' assumptions and stand in the theorems
that need them:

| hypothesis | says | why it may be assumed |
|---|---|---|
| `PeekIsPrivate` | where peek is used, nobody but the getter clears | the sources never combine the two; otherwise a kept message is purged while get hands it over, a data race |
| `NoWrap` | the clock does not reach `ClockMod` | 49 days; the wrap is hazard `qymessagequeue.cc:121` |
| `ChildrenUntimed` | a child of a task has no timeout of its own | the tasks that get one are the runner's (`ipc-plugin-mgr.cc:330`, `ipc-object.cc:599`) |

**MessageQueueProofs**: `TypeOK`, mutual exclusion of `mCrit`, `NoLostWakeup`, which
speaks of the getter in the wait; whether the step into the wait is safe depends on
what happened since the getter looked at the queues. `LockInv` ties the holder of
`mCrit` to where each actor is: a poster wakes with the lock held, so no push can
hide between the getter's look and its unlock. `AwakeInv` extends the statement to
the place between the unlock and the wait, where `mStop` is looked at, the one
place at which the work may already be there and the event must say so. On the same
invariant, `FifoOrder`, `NotEarly`, `DestroyedNotHeld`, and that the queue implements
`Mailbox`, step by step. `ApartInv`: a message is in one place
at a time. `OrderInv` keeps the order through a rotation, which splits the queue into a
part that has gone round and one that has not (`InFront`). `DueInv`: what is ready, kept
or handed over is due. `DestroyedInv`: a message for a destroyed handler is one that the
clear under way has selected and not come to yet.

**ThreadPosixProofs**: `TypeOK`, that no two pthreads run the object's function,
`TrueMeansReclaimed`, `AtMostOneMoreCall`. `DeadInv` says when `mDead` can be believed: not
between `pthread_create` and `mDead = false`, where it still has the value of the thread
before. `AskedInv` relates what has been asked of a thread to where it is and to `mAlive`.

**MessageThreadProofs**: `TypeOK`, `HandledOnce`, `InContext`, `NoLostReply`, `NoSleepOnSends`.
A send's flags say nothing without the stacks: `SendInv` counts how often the handler
has run by where the send is, `ListInv` keeps a listed send from being answered or
taken, `FrameInv` says of each stack that its bottom is the message its loop took and
what is above was called directly. `ContextInv`: the thread-local current thread is
unset, the own, one that this thread has constructed, or one that it has stopped, which
are the cases `InContext` names.

**TaskRunnerProofs**: `TypeOK`, `NoDangling`, `NoForgottenTask`, `TimeoutArmed`,
`NoCallbackAfterAbort`. `PointerInv` says that a task which was started stays in the list
as long as it lives, which is why the copy `runTasks` works on cannot name a deleted one;
`ScanInv` that with no message pending every task of the list is blocked or still to be
seen in the pass under way; `ForgetInv` what endTasks leaves. `NoDangling` needs, for
`mNextTimeoutTask`, that it is in the list; `ListsLive` is what holds without
`ChildrenUntimed`.

**PipeProofs**: `TypeOK`, `NothingLost`. `RingInv`: until there is trouble the ring holds one
run of packets from `wq_current` on, and a write is under way if and only if the run is
not empty. `FlowInv`: what was accepted is what the receiver has, what is in its buffer,
what is in the pipe, and the rest of the ring, in that order. A read takes what
`packetIntegrity` computes, so its lemmas relate the byte count of a sequence of packets
to the parts it is cut into. They are proved by the least counterexample of a set of
numbers (`LeastNat`), which needs no induction theorem.

**SocketsProofs**: `Registered`, `DataIsHeard`, `Framed`. Events are turned off before they are told and
on again by what the handler does, so at the wait the statement depends on all steps of
the pass. `Sound`: a socket that is connecting or connected asks for read, outside the
handler of its own read event. `Told`: while a read event is still to be told there is
something to read, so that the read will turn the event on again. `Armed`: in a wait the
mask of a socket holds what it asks for; `Joined` sockets come in pairs. `processInput`
and the weights of the digits are recursive functions; what they keep is proved by
stepping along their domains (`StepsExist`).
`Framed` needs all the places bytes can be in. `Carries`: the packets sent and not yet got,
each behind its length, are the bytes in `mInBuf`, under way and in the peer's `mOutBuf`, in
that order. `Settled`: outside `processInput` the input buffer holds no whole packet, so
there is room for the rest of one. `Idles`: without a connection both buffers are
empty, which is so while all sockets are `clean`. What
the receiver reads as a length is what the sender wrote (`Value` of `Digits`), for any number
of digits in any radix. The number of packets one `processInput` signals is not bounded, so
what it does is followed step by step (`ProcessSteps`). The proof also showed that
`InputHasRoom` must stand beside the condition on `clean`, not under it: it holds of
every buffer, whatever has come. TLC checked `FrameInv` on all states of the
run `sockets` before it was proved.

**SignalsProofs**: `SignalsReach`. `Mirror`: the two lists say the same, each object once.
`Reaches`: those an emission must still call are behind its cursor in the list and those
it has called are before it, through connections at the end and removals anywhere.

**IpcProofs**: `QueriesAnswered`, `PluginsHeld`, `DataReaches`, `ExesTracked`,
`ConnectionsAgree`, for any number of connections, programs, queries and plugins, and any
number of calls. A step of one part leaves the variables of the others, so each part has
its invariant.

* Queries (`QInv`). What is asked of the inmost loop must hold of a loop when those inside
  it have returned: `LoopInv` says that the loops are of different queries and that all but
  the inmost turn, `WaitInv` that a loop that still waits has a task that will tell it,
  `CodeInv` that one that does not has been given its code. `Turn` leaves several loops at
  once; `LoopsLeft` is what it leaves.
* Plugins (`PInv`). `HeldInv` counts the references of each DLL as the cardinality of those
  that use it, and says who will still look whether the program may quit. A packet moves
  from a task to the window and from there to its plugin: `OrderInv` keeps the three places
  in order for each plugin, which needs that one task at most takes its packets
  (`ServiceInv`); `DueInv` says that a packet that is due is in the window or with a task
  that is ready, or that has missed it.
* Connections (`CInv`). The statement speaks of moments at which all threads rest. In
  between, what agrees is what will: whether a pipe is there is read off the messages the
  message thread has yet to take (`Doomed`: the last thing it does for this connection is to
  destroy; `Clear`: nothing, and there is no pipe; `Pending`: it will make one). `Listened`
  relates the task, the key and what the owner was told: a task that is done leaves no
  pipe behind, one that is not has the pipe's status or has passed it on (`Current`), and
  a change it has not passed on makes it ready, or it is `late`. `AddsInv`: unless the
  connection is `raced`, one thread at most is in `addListen` for it, and if it has found
  that nobody listens, nobody does. `PortInv`: a pipe that was joined or has
  failed has its completion in the port. A program's task knows whether the process is
  there (`Tracked`), so that its destructor reports the right thing (`Untracked`).

The assumption is `IpcAssumption`: the value for "no connection" is not one, a program has
its connection, the plugins of this side are plugins, and there are finitely many plugins,
which are counted. TLC checked the queries', the plugins' and the connections' invariants on the
instances of the run `ipc` before they were proved.

Only model-checked: liveness (`Served`, `AskedEnds`, `EverySendReturns`, `Delivered`,
`CloseReported`), which is out of the prover's reach; what `Streams`, `Relay`, `Codecs` and
`SChannel` do, which are recursive over their data (an operator declared `RECURSIVE`, or
induction over what was written); and the properties of `Tunnel`, whose state is one record
that each layer transforms: a step unfolds into all layers at once.

## 6. Abstractions and what is not modelled

External parts are modelled from how the code uses them. Assumed of them:

* Winsock records an event again at `WSAEventSelect` when its condition holds (data
  there, space there), signals a blocked recv or send once, and a connection that
  ends is told after what has come. The relay joins two connections that are both under
  way; when one of them is closed, the other end learns of it only if they were joined.
* SSPI and OpenSSL exchange a hello each way; SSPI consumes whole messages of two
  bytes and reports what is left over; the engines check what they are asked to.
* A proxy and a server answer what they have been sent, in order, cut anywhere.
* An asynchronous stream signals the event of a call that blocked (`qystream.h`).
* Named pipes deliver bytes in order; a broken pipe completes its reads with an error.

Assumed of the users of the library:

* The owner of sockets acts on the loop's thread; the owner of an adapter reacts to a
  signal when the adapters have returned; one that closes a connection does not make
  it anew between CLOSED and the end of its listening task, nor does the peer ask for it
  (a call of `addListen` that has begun before may end then, and is `raced`).
* An object is connected to a signal once, and a slot does not remove the very next
  one (the emission's iterator would dangle). Signals are used by one thread.
* Writes at an index of a byte buffer come before anything is read from it: afterwards
  the code counts from the beginning of its block.
* The destructor of a queue runs when nobody else uses it. A thread object is
  started again only after stop has answered true (`qythread.h`).

Abstractions:

* An access to a destroyed stack object (`qymessagethread.cc:287`) has no effect.
  clear of sends selects one send per call; one thread clears at a time. Sends whose
  threads form a cycle wait for each other, and `EverySendReturns` exempts them
  (`Blocked`); one to the own thread is among the run's. `mCrit` is
  recursive in the code; no action of the model takes it twice.
* `MessageQueue.cfg` and `MessageQueueForeign.cfg` divide the uses of the queue: peek keeps a
  message in a member no lock protects, so a clear on another thread while peek is in
  use is a data race; the sources never do both.
* Children of tasks have no children and no timeout of their own; each task is
  started once. `pollTasks`, which nothing calls, may be called between two messages.
* A pipe is modelled in one direction, once connected; `Connections` has its making
  and its end. The bytes of a torn read are not interpreted: the properties speak of
  the time before a loss is reported or a read dropped (`lost`, `overrun`).
* In the `qyipc` models a task's `process` is one step, setting `mBlocked` the next, one
  task runs at a time, and any ready task may be the next (`TaskRunner` has the order).
  The task that answers queries (`ListenQuery`) runs when its queue is not empty: that it
  may miss a wake as the others do is not modelled. A message thread of the connections
  (`onMessage`) is in one step per message. Attaching a pipe and looking a completion up are
  single steps, so a completion that holds a pipe which `deatch` deletes
  (`iocp.cc:102`) is not there. The CLIENT_ and SERVER_ statuses, which differ in
  name only, are one set. In `Plugins` a task's `processInit` is merged with its first
  run, a task that is done is deleted at once, requests come from the other process,
  and changes of the connection count among `MaxCalls`.
* Packets, records, payloads and messages are numbers or short tokens; only their
  order, their length and where they are cut matter.

Not modelled: `QyThreadQueue` (unused; one lock, no step in between); threads and locks
on Windows (the other platform's twin of what is modelled); UDP and listening sockets,
options, name resolution, addresses and ping (nothing outlives a call); the dispatch
manager (a map whose calls notify); what a DLL does; delegates and the locking
policies of sigslot; OpenSSL's locking callbacks; directories, the logging stream,
wide strings and number conversions. `qyipc/ipc-tasks.cc` has lines no compiler takes
(239, 314); the model follows what they can only mean.

Size: about 3,450 lines of model, comments not counted, stand for about 6,450 of 20,014
lines of the implementation; the eight modules of proofs add 16,200.

## 7. The plan

Done: all modules above, and proofs for the message queue and its refinement, the
message thread, the thread object, the task runner, the pipe, the sockets, the signals,
and the IPC object's connections, programs, queries and plugins.

Next, in this order:

1. `WireInOrder` and `ConnectedMeansNegotiated` of `Tunnel`, layer by layer: a lemma for each
   operator on the state of a layer, then one for each call through all of them.
2. The sleep of the task that answers queries, and the lookup of a completion apart from
   its delivery (`iocp.cc:102`).
3. `Pipe` composed with `Connections`: several pipes on one port, both directions.
4. Listening sockets and UDP in the dispatcher's loop; the clock's wrap in
   `MessageQueue`.
