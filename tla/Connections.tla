---------------------------- MODULE Connections ----------------------------
(***************************************************************************)
(* The connections of an IPCObject (qyipc/ipc-object.cc): the message       *)
(* thread makes and destroys their pipes (iocp.cc, ipc-engine.cc), the      *)
(* completion thread hears of them, a listening task (ipc-tasks.cc) tells   *)
(* the object what has become of each, which tells its owner and keeps it   *)
(* in connHash_, and a task for each client process starts it and tells how *)
(* it ended.  The threads meet in queues only: the tasks see the status an  *)
(* engine handler has left, the pipes know nothing of the tasks.            *)
(***************************************************************************)
EXTENDS Integers, Sequences, SequencesExt, FiniteSets

CONSTANTS Conns, Exes,
          ConnOf,       \* the connection a client process is to use
          Nothing,
          Retries,      \* to start a process, 3 in the code
          MaxCalls      \* of the owner, and what the peers do

VARIABLES connHash,     \* what the object knows of a connection
          exeHash,      \* ... and of a client process
          pipes,        \* IOCP::pipes_
          msgs,         \* what the message thread has to do
          port,         \* the completions
          tasks,        \* IPCListenConnectTask, IPCCreateChildConnectTask, IPCExeTask
          said, exeSaid, \* the last the owner was told of each
          proc,         \* history: has a client process been started, has it said it quits
          late,         \* history: connections whose last status the listening task has missed
          adds,         \* the call of addListen that each thread is in
          raced,        \* history: connections that addListen has found in one state and left in another
          run_flag_, calls
vars == <<connHash, exeHash, pipes, msgs, port, tasks, said, exeSaid, proc, late, adds, raced, run_flag_, calls>>

NoKey == [in |-> FALSE, listen |-> FALSE, status |-> "nofind"]
NoExe == [in |-> FALSE, task |-> FALSE, status |-> "nofind"]
NoPipe == [type |-> "none", link |-> "none"]
Threads == {"owner", "completion"}
NoCall == [op |-> "none", c |-> Nothing, parent |-> Nothing, listens |-> FALSE]
NewTask(kind, c, e) ==
    [kind |-> kind, c |-> c, e |-> e, st |-> "init", status |-> "unk", changed |-> 0,
     ready |-> TRUE, dozes |-> FALSE, check |-> FALSE, recount |-> 0, quit_flag |-> "unk"]

Init ==
    /\ connHash = [c \in Conns |-> NoKey] /\ exeHash = [e \in Exes |-> NoExe]
    /\ pipes = [c \in Conns |-> NoPipe] /\ msgs = <<>> /\ port = <<>> /\ tasks = <<>>
    /\ said = [c \in Conns |-> "nothing"] /\ exeSaid = [e \in Exes |-> "nothing"]
    /\ proc = [e \in Exes |-> "none"] /\ late = {}
    /\ adds = [th \in Threads |-> NoCall] /\ raced = {} /\ run_flag_ = TRUE /\ calls = 0
----------------------------------------------------------------------------
(* The keys.                                                               *)

removeConnectKey(c) == connHash' = [connHash EXCEPT ![c] = NoKey]
startConnectKeyWithListen(c) ==
    [connHash EXCEPT ![c] = [in |-> TRUE, listen |-> TRUE, status |-> IF @.in THEN @.status ELSE "unk"]]
isConnectKeyWithListen(c) == connHash[c].listen
connectStatus(c) == connHash[c].status
setConnectKeyWithStatus(c, st) ==
    connHash' = [connHash EXCEPT ![c] = [in |-> TRUE, listen |-> @.listen, status |-> st]]
----------------------------------------------------------------------------
(* What the owner calls.  It connects no connection that it was told is     *)
(* closed before it is told that the listening task has ended.              *)

Ending(c) == \E i \in DOMAIN tasks : tasks[i].kind = "listen" /\ tasks[i].c = c /\ tasks[i].st = "done"

Asks(op, c) == msgs' = Append(msgs, [op |-> op, c |-> c])
Calls(th) == adds[th] # NoCall
\* addListen looks whether the connection is listened to ...
addListen(th, op, c, parent) ==
    /\ ~Calls(th) /\ ~Ending(c)
    /\ adds' = [adds EXCEPT ![th] = [op |-> op, c |-> c, parent |-> parent, listens |-> isConnectKeyWithListen(c)]]
    /\ raced' = IF \E o \in Threads \ {th} : adds[o].c = c THEN raced \union {c} ELSE raced
    /\ UNCHANGED <<connHash, exeHash, pipes, msgs, port, tasks, said, exeSaid, proc, late, run_flag_>>
connectToServer(th, c) == addListen(th, "client", c, Nothing)
createServer(c, parent) == addListen("owner", "server", c, parent)

\* ... and then, if it was not, starts a listening task.  The call goes on to ask
\* for the pipe, and tells a connected parent of its child.
Listens(c, listens, more) ==
    IF listens THEN UNCHANGED connHash /\ tasks' = tasks \o more
    ELSE /\ connHash' = startConnectKeyWithListen(c)
         /\ tasks' = Append(tasks, NewTask("listen", c, Nothing)) \o more
Adds(th) ==
    /\ Calls(th) /\ adds' = [adds EXCEPT ![th] = NoCall]
    /\ LET a == adds[th] IN
       /\ Listens(a.c, a.listens, IF a.parent # Nothing /\ connHash[a.parent].status = "connected"
                                  THEN <<NewTask("child", a.parent, Nothing)>> ELSE <<>>)
       /\ Asks(a.op, a.c)
       /\ raced' = IF a.listens /\ (~isConnectKeyWithListen(a.c) \/ Ending(a.c)) THEN raced \union {a.c} ELSE raced
    /\ UNCHANGED <<exeHash, pipes, port, said, exeSaid, proc, late, run_flag_>>

Asked == UNCHANGED <<connHash, exeHash, pipes, port, tasks, said, exeSaid, proc, late, adds, raced, run_flag_>>
close(c) == ~Calls("owner") /\ Asks("destroy", c) /\ Asked
closeAll == ~Calls("owner") /\ Asks("stop", Nothing) /\ Asked

\* startupClient
startupClient(e) ==
    /\ ~Calls("owner")
    /\ IF exeHash[e].task \/ exeHash[e].status = "ok" THEN UNCHANGED <<exeHash, tasks, proc>>
       ELSE /\ exeHash' = [exeHash EXCEPT ![e] = [in |-> TRUE, task |-> TRUE, status |-> IF @.in THEN @.status ELSE "unk"]]
            /\ tasks' = Append(tasks, NewTask("exe", ConnOf[e], e)) /\ proc' = [proc EXCEPT ![e] = "none"]
    /\ UNCHANGED <<connHash, pipes, msgs, port, said, exeSaid, late, adds, raced, run_flag_>>
----------------------------------------------------------------------------
(* The pipes.                                                              *)

Listening(c) == {i \in DOMAIN tasks : tasks[i].kind = "listen" /\ tasks[i].c = c}
\* How many of the statuses the listening task does not count: statuschanged_ is no
\* atomic, and unless the task sleeps the runner may use a count before its status
\* is there, or reset it.
Uncounted(c, sts) ==
    {n \in 0 .. Len(sts) :
         n > 0 => \E i \in Listening(c) : tasks[i].ready \/ tasks[i].dozes \/ Len(sts) > 1}
\* onStatus, of the engine and of the tasks: all handlers of the connection, under
\* the lock that the completion thread has in onConnectChild.  Of a task that is
\* about to sleep wake wakes nobody.
onEngineStatus(c, sts) ==
    /\ ~Calls("completion")
    /\ \E n \in Uncounted(c, sts) :
           /\ tasks' = [i \in DOMAIN tasks |->
                  IF tasks[i].c # c THEN tasks[i]
                  ELSE [tasks[i] EXCEPT !.status = Last(sts), !.changed = @ + Len(sts) - n,
                                        !.ready = @ \/ (tasks[i].st # "done" /\ ~tasks[i].dozes)]]
           /\ late' = IF n > 0 \/ \E i \in Listening(c) : tasks[i].dozes THEN late \union {c} ELSE late \ {c}
NoStatus == UNCHANGED <<tasks, late>>

\* attach: a client is connected or has failed when its create returns.
createClient(c) ==
    \/ pipes[c] = NoPipe /\ pipes' = [pipes EXCEPT ![c] = [type |-> "client", link |-> "up"]]
       /\ onEngineStatus(c, <<"connecting", "connected">>)
    \/ pipes[c] = NoPipe /\ UNCHANGED pipes /\ onEngineStatus(c, <<"connecting", "closed">>)
    \/ pipes[c] # NoPipe /\ UNCHANGED pipes /\ NoStatus
createPipe(c) ==
    \/ pipes[c] = NoPipe /\ pipes' = [pipes EXCEPT ![c] = [type |-> "server", link |-> "wait"]]
       /\ onEngineStatus(c, <<"connecting">>)
    \/ pipes[c] = NoPipe /\ UNCHANGED pipes /\ onEngineStatus(c, <<"closed">>)
    \/ pipes[c] # NoPipe /\ UNCHANGED pipes /\ NoStatus

\* deatch: what the pipe was doing is cancelled, its completion bears the
\* connection's name all the same.
deatch(c) ==
    /\ pipes' = [pipes EXCEPT ![c] = NoPipe] /\ NoStatus
    /\ port' = IF pipes[c].link \in {"wait", "up"} THEN Append(port, [c |-> c, what |-> "aborted"]) ELSE port

\* onMessage, on the message thread.
onMessage ==
    /\ msgs # <<>> /\ msgs' = Tail(msgs)
    /\ LET m == Head(msgs) IN
       \/ m.op = "client" /\ createClient(m.c) /\ UNCHANGED port
       \/ m.op = "server" /\ createPipe(m.c) /\ UNCHANGED port
       \/ m.op = "destroy" /\ deatch(m.c)
       \/ m.op = "stop" /\ port' = Append(port, [c |-> Nothing, what |-> "quit"]) /\ UNCHANGED pipes /\ NoStatus
    /\ UNCHANGED <<connHash, exeHash, said, exeSaid, proc, adds, raced, run_flag_>>

\* onCompletionStatus: by the name of the connection, whatever pipe it has now.
\* An error cancels what else the pipe is doing.
onCompletionStatus ==
    /\ run_flag_ /\ ~Calls("completion") /\ port # <<>>
    /\ LET d == Head(port)
           link == IF d.what = "quit" THEN "none" ELSE pipes[d.c].link
       IN  \/ /\ d.what = "quit" /\ run_flag_' = FALSE /\ port' = <<>> /\ UNCHANGED pipes /\ NoStatus
           \/ /\ d.what # "quit" /\ link = "none"
              /\ port' = Tail(port) /\ UNCHANGED <<pipes, run_flag_>> /\ NoStatus
           \/ /\ d.what = "conn" /\ link # "none" /\ onEngineStatus(d.c, <<"connected">>)
              /\ pipes' = [pipes EXCEPT ![d.c].link = "up"] /\ port' = Tail(port) /\ UNCHANGED run_flag_
           \/ /\ d.what \in {"down", "aborted"} /\ link # "none" /\ onEngineStatus(d.c, <<"closed">>)
              /\ pipes' = [pipes EXCEPT ![d.c].link = "down"]
              /\ port' = IF link \in {"wait", "up"} THEN Append(Tail(port), [c |-> d.c, what |-> "aborted"]) ELSE Tail(port)
              /\ UNCHANGED run_flag_
    /\ UNCHANGED <<connHash, exeHash, msgs, said, exeSaid, proc, adds, raced>>

\* The other end, and Windows: it connects, it breaks, a packet comes from it.
Links(c, from, to, what) ==
    /\ run_flag_ /\ pipes[c].link = from /\ pipes' = [pipes EXCEPT ![c].link = to]
    /\ port' = Append(port, [c |-> c, what |-> what])
    /\ UNCHANGED <<connHash, exeHash, msgs, tasks, said, exeSaid, proc, late, adds, raced, run_flag_>>
PeerConnects(c) == Links(c, "wait", "joined", "conn")
LinkFails(c) == Links(c, "up", "failing", "down")
Hears(c) == run_flag_ /\ ~Calls("completion") /\ pipes[c].link = "up"
\* kIPC_URI_CREATE_CHILDCONNECT: it is done on the completion thread.
onConnectChild(c, d) ==
    /\ Hears(c) /\ d # c /\ Listening(c) # {}
    /\ connectToServer("completion", d)
\* kIPC_URI_QUIT
onQuit(i) ==
    /\ tasks[i].kind = "exe" /\ Hears(tasks[i].c) /\ tasks[i].check
    /\ tasks' = [tasks EXCEPT ![i].quit_flag = "normal"] /\ proc' = [proc EXCEPT ![tasks[i].e] = "bye"]
    /\ UNCHANGED <<connHash, exeHash, pipes, msgs, port, said, exeSaid, late, adds, raced, run_flag_>>
----------------------------------------------------------------------------
(* The tasks.  The runner's order is TaskRunner's matter: any may be next.  *)

Keeps == UNCHANGED <<pipes, port, adds, raced, run_flag_>>
\* The runner's thread is in no other task.
Free == \A i \in DOMAIN tasks : ~tasks[i].dozes
Sets(i, t) == tasks' = [tasks EXCEPT ![i] = t]

\* processInit: the status as connHash_ has it.
processInit(i) ==
    /\ Free /\ tasks[i].st = "init"
    /\ Sets(i, [tasks[i] EXCEPT !.st = "start", !.status = connectStatus(tasks[i].c)])
    /\ late' = IF tasks[i].changed > 0 /\ tasks[i].status # connectStatus(tasks[i].c) THEN late \union {tasks[i].c} ELSE late
    /\ Keeps /\ UNCHANGED <<connHash, exeHash, msgs, said, exeSaid, proc>>

\* Mutant of onConnectStatus: the pipe of a connection that is closed is left there.
onConnectStatusKeepsPipe(c, st) ==
    /\ UNCHANGED msgs
    /\ IF st = "end" THEN removeConnectKey(c) ELSE setConnectKeyWithStatus(c, st)
    /\ said' = [said EXCEPT ![c] = st]
\* onConnectStatus, which the listening task signals.
onConnectStatus(c, st) ==
    /\ IF st = "closed" THEN Asks("destroy", c) ELSE UNCHANGED msgs
    /\ IF st = "end" THEN removeConnectKey(c) ELSE setConnectKeyWithStatus(c, st)
    /\ said' = [said EXCEPT ![c] = st]

\* QyTask::run: between finding nothing to do and mBlocked, and after it.
Sleeps(t) == [t EXCEPT !.ready = FALSE, !.dozes = TRUE]
Blocks(i) ==
    /\ tasks[i].dozes /\ Sets(i, [tasks[i] EXCEPT !.dozes = FALSE])
    /\ Keeps /\ UNCHANGED <<connHash, exeHash, msgs, said, exeSaid, proc, late>>

\* IPCListenConnectTask
ListenConnect(i) ==
    /\ Free /\ tasks[i].kind = "listen" /\ tasks[i].st = "start" /\ tasks[i].ready
    /\ LET t == tasks[i]
           u == [t EXCEPT !.changed = t.changed - 1]
       IN  \/ t.changed = 0 /\ Sets(i, Sleeps(t)) /\ UNCHANGED <<connHash, msgs, said>>
           \/ t.changed > 0 /\ t.status \in {"connecting", "connected"} /\ Sets(i, u) /\ onConnectStatus(t.c, t.status)
           \/ t.changed > 0 /\ t.status = "closed" /\ onConnectStatus(t.c, "closed")
              /\ Sets(i, [u EXCEPT !.st = "done", !.ready = FALSE])
           \/ t.changed > 0 /\ t.status \in {"unk", "nofind"} /\ Sets(i, u) /\ UNCHANGED <<connHash, msgs, said>>
    /\ Keeps /\ UNCHANGED <<exeHash, exeSaid, proc, late>>

\* IPCCreateChildConnectTask: sent or not, it is done.
CreateChildConnect(i) ==
    /\ Free /\ tasks[i].kind = "child" /\ tasks[i].st = "start"
    /\ Sets(i, [tasks[i] EXCEPT !.st = "done", !.ready = FALSE])
    /\ Keeps /\ UNCHANGED <<connHash, exeHash, msgs, said, exeSaid, proc, late>>

\* Mutant: a process has crashed unless it quit normally.
crashStatusUnlessNormal(t, st) == IF t.quit_flag # "normal" THEN "crash" ELSE st
crashStatus(t, st) == IF t.quit_flag = "crash" THEN "crash" ELSE st
\* onExeInstalled, which the task of a process signals.
onExeInstalled(e, st) ==
    /\ exeHash' = IF st = "task_end" THEN [exeHash EXCEPT ![e] = NoExe]
                  ELSE [exeHash EXCEPT ![e] = [in |-> TRUE, task |-> @.task, status |-> st]]
    /\ exeSaid' = [exeSaid EXCEPT ![e] = st]

\* IPCExeTask: it starts the process once there is a pipe for it.
Exe(i) ==
    /\ Free /\ tasks[i].kind = "exe" /\ tasks[i].st = "start" /\ tasks[i].ready
    /\ LET t == tasks[i]
           Waits == Sets(i, Sleeps(t)) /\ UNCHANGED <<exeHash, exeSaid, proc>>
           Ends(u, st) == Sets(i, [u EXCEPT !.st = "done", !.ready = FALSE]) /\ onExeInstalled(t.e, st)
           Runs == proc' = [proc EXCEPT ![t.e] = "runs"]
       IN  \/ t.check /\ t.status = "closed" /\ Ends(t, crashStatus(t, "quit")) /\ UNCHANGED proc
           \/ t.check /\ t.status # "closed" /\ Waits
           \/ ~t.check /\ t.status \notin {"connecting", "connected"} /\ Waits
           \/ /\ ~t.check /\ t.status \in {"connecting", "connected"}
              /\ \/ /\ Sets(i, Sleeps([t EXCEPT !.quit_flag = "crash", !.check = TRUE]))
                    /\ onExeInstalled(t.e, "ok") /\ Runs
                 \/ Ends([t EXCEPT !.quit_flag = "crash"], "ok") /\ Runs    \* it is there already
                 \/ t.recount < Retries /\ Sets(i, [t EXCEPT !.recount = @ + 1]) /\ UNCHANGED <<exeHash, exeSaid, proc>>
                 \/ t.recount = Retries /\ Ends(t, crashStatus(t, "install_fail")) /\ UNCHANGED proc
    /\ Keeps /\ UNCHANGED <<connHash, msgs, said, late>>

\* The runner deletes a task that is done; its destructor has the last word.
Deleted(i) ==
    /\ Free /\ tasks[i].st = "done" /\ tasks' = RemoveAt(tasks, i)
    /\ LET t == tasks[i] IN
       \/ t.kind = "listen" /\ onConnectStatus(t.c, "end") /\ UNCHANGED <<exeHash, exeSaid>>
       \/ t.kind = "exe" /\ onExeInstalled(t.e, crashStatus(t, "task_end")) /\ UNCHANGED <<connHash, msgs, said>>
       \/ t.kind = "child" /\ UNCHANGED <<connHash, msgs, said, exeHash, exeSaid>>
    /\ Keeps /\ UNCHANGED <<proc, late>>

Next ==
    \/ /\ calls < MaxCalls /\ calls' = calls + 1
       /\ \/ \E c \in Conns : connectToServer("owner", c) \/ close(c) \/ PeerConnects(c) \/ LinkFails(c)
          \/ \E c \in Conns, d \in Conns \union {Nothing} : createServer(c, d)
          \/ \E c, d \in Conns : onConnectChild(c, d)
          \/ \E e \in Exes : startupClient(e)
          \/ \E i \in DOMAIN tasks : onQuit(i)
          \/ closeAll
    \/ /\ UNCHANGED calls
       /\ \/ onMessage \/ onCompletionStatus
          \/ \E th \in Threads : Adds(th)
          \/ \E i \in DOMAIN tasks :
                 \/ processInit(i) \/ ListenConnect(i) \/ CreateChildConnect(i) \/ Exe(i)
                 \/ Blocks(i) \/ Deleted(i)
Spec == Init /\ [][Next]_vars
----------------------------------------------------------------------------
Quiet == /\ msgs = <<>> /\ port = <<>> /\ \A th \in Threads : ~Calls(th)
         /\ \A i \in DOMAIN tasks : tasks[i].st = "start" /\ ~tasks[i].ready /\ ~tasks[i].dozes

\* When all threads are at rest the object, its owner and the pipes agree: a
\* connection that has a pipe is listened to by one task and known as what the
\* pipe is, and one the owner was told is closed has neither a pipe nor a key.
\* Not so where the task has missed the last status (its wake came before mBlocked,
\* its count was lost, or processInit has overwritten it), nor where two threads
\* have called addListen at once, or the listening task has ended meanwhile.
ConnectionsAgree ==
    /\ \A c \in Conns \ raced :
           Cardinality(Listening(c)) <= 1 /\ (connHash[c].listen <=> Listening(c) # {})
    /\ Quiet /\ run_flag_ => \A c \in Conns \ (late \union raced) :
           /\ pipes[c] # NoPipe => said[c] = (IF pipes[c].link = "up" THEN "connected" ELSE "connecting")
           /\ connHash[c].listen => said[c] \in {"nothing", connHash[c].status}
           /\ said[c] # "closed" /\ (said[c] = "end" => pipes[c] = NoPipe /\ connHash[c] = NoKey)

\* When all is at rest the owner knows of each connection that stands, and need not be
\* told again.  The code breaks it: a status is lost that comes before processInit, or
\* as the listening task goes to sleep (IpcLostStatus.cfg).
StatusesTold ==
    Quiet /\ run_flag_ => \A c \in Conns \ raced : pipes[c].link = "up" => said[c] = "connected"
\* One task listens to a connection.  The code breaks it: the completion thread and the
\* owner may both find that none does (IpcTwoListeners.cfg).
OneListener == \A c \in Conns : Cardinality(Listening(c)) <= 1

\* There is one task for a client process.  When it ends, the process has said
\* that it quits, or was never there, and can be started again, or it has not, and
\* is reported and remembered as crashed.
ExesTracked ==
    \A e \in Exes : LET T == {i \in DOMAIN tasks : tasks[i].kind = "exe" /\ tasks[i].e = e} IN
        /\ Cardinality(T) <= 1 /\ (T # {} => exeHash[e].task)
        /\ T = {} => (proc[e] = "runs" <=> exeSaid[e] = "crash") /\ (exeSaid[e] = "crash" <=> exeHash[e] # NoExe)
=============================================================================
