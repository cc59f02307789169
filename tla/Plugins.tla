------------------------------ MODULE Plugins ------------------------------
(***************************************************************************)
(* The plugins of an IPCObject (qyipc/ipc-plugin-mgr.cc): those its owner   *)
(* starts in the other process, and those the other process asks it to      *)
(* load.  Tasks (ipc-tasks.cc) wait for the connection, send requests and   *)
(* take what comes from the pipe; the window's thread (ipc-msg-wnd.cc)      *)
(* changes the tables and tells the owner; the message thread looks whether *)
(* the process is still needed.                                             *)
(***************************************************************************)
EXTENDS Integers, Sequences, SequencesExt, FiniteSets

CONSTANTS Apps, Ours,   \* the plugins, and those that are started here
          File,         \* the DLL of each
          Nothing,
          MaxCalls      \* what the owner and the other process do

VARIABLES plugins_,     \* the plugins in the table
          dlls_,        \* the references to each DLL, 0 if it is not loaded
          tasks,        \* in the order of their creation
          status, key,  \* of the connection: what the handlers are told, what connHash_ has
          wnd,          \* the messages of the window
          checks,       \* the kIPC_MSGID_CHECKDLL of the message thread
          told, sent,   \* history: what the owner was told, the requests that were sent
          wanted,       \* history: the plugins started since they were last stopped
          quitTold, dealt, stray, \* history: see PluginsHeld
          due, delivered, \* history: see DataReaches
          calls
tables == <<plugins_, dlls_>>
link == <<status, key>>
seen == <<told, sent, wanted>>
held == <<quitTold, dealt, stray>>
data == <<due, delivered>>
vars == <<tables, tasks, link, wnd, checks, seen, held, data, calls>>

\* dozes: the task has found nothing to do, and run has yet to set mBlocked;
\* missed, a history: the last it took came in between, and it sleeps on.
NewTask(kind, a) ==
    [kind |-> kind, app |-> a, st |-> "init", status |-> "unk", ready |-> TRUE, dozes |-> FALSE, missed |-> FALSE,
     destroy_ |-> FALSE, queue_ |-> <<>>]

\* addListen has made the listening task of the connection.
Init ==
    /\ plugins_ = {} /\ dlls_ = [f \in {File[a] : a \in Apps} |-> 0] /\ tasks = <<NewTask("listen", Nothing)>>
    /\ status = "connecting" /\ key = "connecting" /\ wnd = <<>> /\ checks = 0
    /\ told = {} /\ sent = {} /\ wanted = {} /\ quitTold = FALSE /\ dealt = FALSE /\ stray = FALSE
    /\ due = {} /\ delivered = [a \in Apps |-> <<>>] /\ calls = 0
----------------------------------------------------------------------------
(* What the owner calls.                                                   *)

\* IPCListenPluginServiceTask::destroy: a mark, the task sleeps on.
Destroyed(as) ==
    [i \in DOMAIN tasks |-> IF tasks[i].kind = "service" /\ tasks[i].app \in as \cap plugins_
                            THEN [tasks[i] EXCEPT !.destroy_ = TRUE] ELSE tasks[i]]
NotDue(as) == due' = {d \in due : d[1] \notin as} /\ UNCHANGED delivered

start(a) ==
    /\ tasks' = Append(tasks, NewTask("wait", a)) /\ wanted' = wanted \union {a}
    /\ UNCHANGED <<tables, link, wnd, checks, told, sent, held, data>>
stop(a) ==
    /\ a \in plugins_ /\ plugins_' = plugins_ \ {a} /\ wanted' = wanted \ {a}
    /\ tasks' = Append(Destroyed({a}), NewTask("unload", a)) /\ NotDue({a})
    /\ UNCHANGED <<dlls_, link, wnd, checks, told, sent, held>>
send(a) ==
    /\ a \in plugins_ /\ tasks' = Append(tasks, NewTask("raw", a))
    /\ UNCHANGED <<tables, link, wnd, checks, seen, held, data>>
destroy ==
    /\ plugins_' = {} /\ tasks' = Destroyed(Apps) /\ NotDue(Apps) /\ wanted' = {}
    /\ dlls_' = [f \in DOMAIN dlls_ |->
           LET n == Cardinality({a \in plugins_ : File[a] = f}) IN IF n > dlls_[f] THEN 0 ELSE dlls_[f] - n]
    /\ dealt' = FALSE /\ UNCHANGED <<link, wnd, checks, told, sent, quitTold, stray>>
----------------------------------------------------------------------------
(* What comes from the pipe.                                               *)

\* wake, of a task t: it does nothing to one that is not blocked yet.
wake(t) == IF t.dozes THEN t ELSE [t EXCEPT !.ready = TRUE]
\* onEngineStatus of all tasks; the key follows when the connection's task has run.
onEngineStatus(st) ==
    /\ status # "closed" /\ status # st /\ status' = st
    /\ tasks' = [i \in DOMAIN tasks |-> wake([tasks[i] EXCEPT !.status = st])]
    /\ UNCHANGED <<tables, key, wnd, checks, seen, held, data>>
KeyFollows ==
    /\ key # status /\ key' = status
    /\ UNCHANGED <<tables, tasks, status, wnd, checks, seen, held, data>>

\* The first task of the kind that is for this app takes it.
push(t, x) == LET u == [t EXCEPT !.queue_ = Append(@, x)] IN [u EXCEPT !.missed = t.dozes]
TakenBy(i, x) == tasks' = [tasks EXCEPT ![i] = wake(push(@, x))]
Takers(kind, a) == {i \in DOMAIN tasks : tasks[i].kind = kind /\ tasks[i].app = a}
FirstOf(S) == CHOOSE i \in S : \A j \in S : i <= j
Request(uri, a) ==
    /\ status = "connected" /\ Takers("listen", Nothing) # {}
    /\ TakenBy(FirstOf(Takers("listen", Nothing)), <<uri, a>>)
    /\ UNCHANGED <<tables, link, wnd, checks, seen, held, data>>
Packet(a) ==
    /\ status = "connected" /\ Takers("service", a) # {}
    /\ LET i == FirstOf(Takers("service", a)) IN
       /\ TakenBy(i, calls)
       /\ due' = IF tasks[i].destroy_ THEN due ELSE due \union {<<a, calls>>}
    /\ UNCHANGED <<tables, link, wnd, checks, seen, held, delivered>>
----------------------------------------------------------------------------
(* The tasks.  The runner's order is TaskRunner's matter: any may be next.  *)

Posts(what, a, x) == wnd' = Append(wnd, [what |-> what, app |-> a, x |-> x])
Ends(i) == tasks' = RemoveAt(tasks, i)
\* One thread runs all tasks, one after the other.
Free == \A i \in DOMAIN tasks : ~tasks[i].dozes
Runs(i, kinds) == Free /\ tasks[i].kind \in kinds /\ tasks[i].ready
\* processInit, at the head of a task's first run: the status as connHash_ has it,
\* whatever onEngineStatus has left there.
Status(i) == IF tasks[i].st = "init" THEN key ELSE tasks[i].status
Started(i) == [tasks[i] EXCEPT !.st = "start", !.status = Status(i)]
Sleeps(i) == tasks' = [tasks EXCEPT ![i] = [Started(i) EXCEPT !.ready = FALSE, !.dozes = TRUE]]
Keeps == UNCHANGED <<tables, link, checks, told, wanted, held, data>>

\* QyTask::run, after a process that has answered BLOCKED.
Blocks(i) ==
    /\ tasks[i].dozes /\ tasks' = [tasks EXCEPT ![i].dozes = FALSE]
    /\ UNCHANGED <<wnd, sent>> /\ Keeps

\* IPCPluginWaitTask
PluginWait(i) ==
    /\ Runs(i, {"wait"})
    /\ \/ Status(i) = "connected" /\ Posts("status", tasks[i].app, "start_load") /\ Ends(i)
       \/ Status(i) = "closed" /\ Posts("status", tasks[i].app, "load_fail") /\ Ends(i)
       \/ Status(i) = "connecting" /\ Sleeps(i) /\ UNCHANGED wnd
    /\ UNCHANGED sent /\ Keeps
onTimeout(i) ==
    /\ Free /\ tasks[i].kind = "wait" /\ Posts("status", tasks[i].app, "load_fail") /\ Ends(i)
    /\ UNCHANGED sent /\ Keeps

\* IPCLoadPluginTask, IPCResponsePluginTask: the uri is one of the two.
LoadPlugin(i) ==
    /\ Runs(i, {"load", "unload"})
    /\ LET uri == tasks[i].kind IN
       CASE Status(i) = "closed" -> Ends(i) /\ UNCHANGED <<wnd, sent>>
         [] Status(i) = "connecting" -> Sleeps(i) /\ UNCHANGED <<wnd, sent>>
         [] Status(i) = "connected" /\ (uri # "load" \/ uri # "unload") -> Ends(i) /\ UNCHANGED <<wnd, sent>>
         [] OTHER -> \/ Ends(i) /\ sent' = sent \union {tasks[i].app} /\ UNCHANGED wnd
                     \/ Ends(i) /\ Posts("status", tasks[i].app, uri \o "_fail") /\ UNCHANGED sent
    /\ Keeps
ResponsePlugin(i) ==
    /\ Runs(i, {"load_res", "unload_res"})
    /\ LET uri == tasks[i].kind IN
       CASE Status(i) = "closed" -> Ends(i) /\ UNCHANGED sent
         [] Status(i) = "connecting" -> Sleeps(i) /\ UNCHANGED sent
         [] Status(i) = "connected" /\ (uri # "load_res" \/ uri # "unload_res") -> Ends(i) /\ UNCHANGED sent
         [] OTHER -> Ends(i) /\ sent' \in {sent, sent \union {tasks[i].app}}
    /\ UNCHANGED wnd /\ Keeps

\* IPCListenPluginTask: one request a run.
ListenPlugin(i) ==
    /\ Runs(i, {"listen"})
    /\ LET q == tasks[i].queue_ IN
       \/ Status(i) = "closed" /\ Ends(i) /\ UNCHANGED wnd
       \/ Status(i) = "connecting" /\ Sleeps(i) /\ UNCHANGED wnd
       \/ Status(i) = "connected" /\ q = <<>> /\ Sleeps(i) /\ UNCHANGED wnd
       \/ Status(i) = "connected" /\ q # <<>> /\ tasks' = [tasks EXCEPT ![i] = [Started(i) EXCEPT !.queue_ = Tail(q)]]
          /\ Posts("listen", Head(q)[2], Head(q)[1])
    /\ UNCHANGED sent /\ Keeps

\* Mutant of Taken: the task sleeps after each packet.
TakenOnce(i) == [tasks EXCEPT ![i] = [Started(i) EXCEPT !.queue_ = Tail(@), !.ready = FALSE]]
Taken(i) == [tasks EXCEPT ![i] = [Started(i) EXCEPT !.queue_ = Tail(@)]]
\* IPCListenPluginServiceTask: one packet a run.
ListenPluginService(i) ==
    /\ Runs(i, {"service"})
    /\ \/ tasks[i].destroy_ /\ Ends(i) /\ UNCHANGED wnd
       \/ ~tasks[i].destroy_ /\ tasks[i].queue_ = <<>> /\ Sleeps(i) /\ UNCHANGED wnd
       \/ ~tasks[i].destroy_ /\ tasks[i].queue_ # <<>> /\ tasks' = Taken(i)
          /\ Posts("data", tasks[i].app, Head(tasks[i].queue_))
    /\ UNCHANGED sent /\ Keeps
\* IPCPluginRawTask
PluginRaw(i) ==
    /\ Runs(i, {"raw"}) /\ IF Status(i) = "connecting" THEN Sleeps(i) ELSE Ends(i)
    /\ UNCHANGED <<wnd, sent>> /\ Keeps
----------------------------------------------------------------------------
(* The window's thread.                                                    *)

Gets(what) == wnd # <<>> /\ Head(wnd).what = what /\ wnd' = Tail(wnd)
App == Head(wnd).app
\* loadPlugin and start: the table and the task that takes the packets.
Enters(a, task) ==
    /\ plugins_' = plugins_ \union {a}
    /\ tasks' = tasks \o (IF a \in plugins_ THEN <<>> ELSE <<NewTask("service", a)>>) \o <<NewTask(task, a)>>
onPluginStatus ==
    /\ Gets("status") /\ told' = told \union {<<App, Head(wnd).x>>}
    /\ IF Head(wnd).x = "start_load" THEN Enters(App, "load") ELSE UNCHANGED <<plugins_, tasks>>
    /\ UNCHANGED <<dlls_, link, checks, sent, wanted, held, data>>
\* onPluginData: for a plugin that is still in the table.
onPluginData ==
    /\ Gets("data") /\ due' = due \ {<<App, Head(wnd).x>>}
    /\ delivered' = IF App \in plugins_ THEN [delivered EXCEPT ![App] = Append(@, Head(wnd).x)] ELSE delivered
    /\ UNCHANGED <<tables, tasks, link, checks, seen, held>>
onQuit ==
    /\ Gets("quit") /\ quitTold' = TRUE
    /\ UNCHANGED <<tables, tasks, link, checks, seen, dealt, stray, data>>

isNil(d) == \A f \in DOMAIN d : d[f] = 0
delayCheckDll == checks' = IF isNil(dlls_') THEN checks + 1 ELSE checks
\* Mutant of loadDll: a DLL that is loaded gets no second reference.
loadDllOnce(f) == dlls_' = [dlls_ EXCEPT ![f] = 1]
loadDll(f) == dlls_' = [dlls_ EXCEPT ![f] = @ + 1]
unLoadDll(f) == dlls_' = [dlls_ EXCEPT ![f] = IF @ > 0 THEN @ - 1 ELSE 0]
loadPlugin(a) ==
    \/ a \in plugins_ /\ UNCHANGED <<tables, checks, held>> /\ tasks' = Append(tasks, NewTask("load_res", a))
    \/ /\ a \notin plugins_ /\ loadDll(File[a]) /\ Enters(a, "load_res")
       /\ quitTold' = FALSE /\ dealt' = TRUE /\ UNCHANGED <<checks, stray>>
    \/ /\ a \notin plugins_ /\ dlls_[File[a]] = 0 /\ UNCHANGED tables
       /\ tasks' = Append(tasks, NewTask("load_res", a)) /\ delayCheckDll
       /\ dealt' = TRUE /\ UNCHANGED <<quitTold, stray>>
unLoadPlugin(a) ==
    /\ plugins_' = plugins_ \ {a} /\ tasks' = Append(Destroyed({a}), NewTask("unload_res", a))
    /\ unLoadDll(File[a]) /\ delayCheckDll
    /\ dealt' = TRUE /\ stray' = (stray \/ (a \notin plugins_ /\ dlls_[File[a]] > 0)) /\ UNCHANGED quitTold
dealPluginListen ==
    /\ Gets("listen")
    /\ \/ Head(wnd).x = "load" /\ loadPlugin(App) /\ UNCHANGED data
       \/ Head(wnd).x = "unload" /\ unLoadPlugin(App) /\ NotDue({App})
    /\ UNCHANGED <<link, seen>>

\* checkDll, on the message thread.
checkDll ==
    /\ checks > 0 /\ checks' = checks - 1
    /\ IF isNil(dlls_) THEN Posts("quit", Nothing, Nothing) ELSE UNCHANGED wnd
    /\ UNCHANGED <<tables, tasks, link, seen, held, data>>

Calls == calls < MaxCalls /\ calls' = calls + 1
Next ==
    \/ \E a \in Ours : Calls /\ (start(a) \/ stop(a) \/ send(a))
    \/ \E a \in Apps \ Ours, uri \in {"load", "unload"} : Calls /\ Request(uri, a)
    \/ \E a \in Apps : Calls /\ Packet(a)
    \/ Calls /\ (destroy \/ \E st \in {"connected", "closed"} : onEngineStatus(st))
    \/ UNCHANGED calls /\ KeyFollows
    \/ UNCHANGED calls /\ \E i \in DOMAIN tasks :
           \/ PluginWait(i) \/ onTimeout(i) \/ LoadPlugin(i) \/ ResponsePlugin(i)
           \/ ListenPlugin(i) \/ ListenPluginService(i) \/ PluginRaw(i) \/ Blocks(i)
    \/ UNCHANGED calls /\ (onPluginStatus \/ onPluginData \/ onQuit \/ dealPluginListen \/ checkDll)
Spec == Init /\ [][Next]_vars
----------------------------------------------------------------------------
Quiet == /\ wnd = <<>> /\ checks = 0 /\ key = status
         /\ \A i \in DOMAIN tasks : tasks[i].kind # "wait" /\ ~tasks[i].ready /\ ~tasks[i].dozes

\* A DLL is loaded as long as one of the plugins that use it is in the table, and
\* no longer, and when the last is gone the process is told to quit.  Not so when it
\* was asked to unload a plugin it did not have, which takes another's reference.
PluginsHeld ==
    /\ ~stray => \A f \in DOMAIN dlls_ : dlls_[f] = Cardinality({a \in plugins_ \ Ours : File[a] = f})
    /\ Quiet /\ dealt /\ isNil(dlls_) => quitTold

\* A plugin gets its packets in the order they came; every packet that its task
\* took, when all is at rest, unless it was removed meanwhile.  What is not
\* delivered then is in the queue of a task that was called while it went to sleep,
\* to be found when it is called again.
DataReaches ==
    /\ \A a \in Apps : \A i, j \in DOMAIN delivered[a] : i < j => delivered[a][i] < delivered[a][j]
    /\ Quiet => \A d \in due : \E i \in DOMAIN tasks :
           /\ tasks[i].kind = "service" /\ tasks[i].app = d[1] /\ ~tasks[i].destroy_
           /\ tasks[i].missed /\ \E j \in DOMAIN tasks[i].queue_ : tasks[i].queue_[j] = d[2]

\* What onEngineHandler takes, for which it calls wake (ipc-tasks.cc:799-801), is
\* delivered when all is at rest.  The code breaks it (IpcLostWake.cfg).
NothingMissed == Quiet => due = {}

\* "push plug to tasks, if connect is connected,then it start" (ipc-api.h:27): when
\* all is at rest on a connection that stands, a plugin that was started has been
\* asked for, or its owner knows that it has not.
StartedWhenConnected ==
    Quiet /\ status = "connected" =>
        \A a \in wanted : a \in sent \/ \E r \in {"load_fail", "unload_fail"} : <<a, r>> \in told
=============================================================================
