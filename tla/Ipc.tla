-------------------------------- MODULE Ipc --------------------------------
(***************************************************************************)
(* An IPCObject: its connections and client processes, its queries, and the *)
(* plugins of both sides.  Each part has tables, tasks and queues of its    *)
(* own, and its threads interleave with those of the others.                *)
(***************************************************************************)
EXTENDS Integers, Sequences, FiniteSets

CONSTANTS Conns, Exes, ConnOf, Nothing, Retries, ConnCalls,
          Queries, Command, Others,
          Apps, Ours, File, PluginCalls

\* Nothing is neither a connection nor a plugin; a client process has its connection.
ASSUME IpcAssumption ==
    /\ Nothing \notin Conns \union Apps
    /\ ConnOf \in [Exes -> Conns]
    /\ Ours \subseteq Apps /\ IsFiniteSet(Apps)

VARIABLES connHash, exeHash, pipes, msgs, port, tasks, said, exeSaid, proc, late, adds, raced, run_flag_, calls,
          task, blocked, done_, synwait_, telling, exec, running_, code_, loops, qwnd, up, reqs, answers, queue_,
          received, answered, early, crashed, others,
          plugins_, dlls_, ptasks, status, key, wnd, checks, told, sent, wanted, quitTold, dealt, stray,
          due, delivered, pcalls

ConnVars == <<connHash, exeHash, pipes, msgs, port, tasks, said, exeSaid, proc, late, adds, raced, run_flag_, calls>>
QueryVars == <<task, blocked, done_, synwait_, telling, exec, running_, code_, loops, qwnd, up, reqs, answers, queue_,
               received, answered, early, crashed, others>>
PluginVars == <<plugins_, dlls_, ptasks, status, key, wnd, checks, told, sent, wanted, quitTold, dealt, stray,
                due, delivered, pcalls>>
vars == <<ConnVars, QueryVars, PluginVars>>

C == INSTANCE Connections WITH MaxCalls <- ConnCalls
Q == INSTANCE Queries WITH wnd <- qwnd
P == INSTANCE Plugins WITH MaxCalls <- PluginCalls, tasks <- ptasks, calls <- pcalls

Init == C!Init /\ Q!Init /\ P!Init
Next == \/ C!Next /\ UNCHANGED <<QueryVars, PluginVars>>
        \/ Q!Next /\ UNCHANGED <<ConnVars, PluginVars>>
        \/ P!Next /\ UNCHANGED <<ConnVars, QueryVars>>
Spec == Init /\ [][Next]_vars
----------------------------------------------------------------------------
\* What the owner was told of a connection is what it is (Connections).
ConnectionsAgree == C!ConnectionsAgree
\* No status of a connection is lost on the way to its owner (Connections).
StatusesTold == C!StatusesTold
\* One task listens to a connection (Connections).
OneListener == C!OneListener
\* What the owner was told of a program is what became of it (Connections).
ExesTracked == C!ExesTracked
\* A query returns with its own answer (Queries).
QueriesAnswered == Q!QueriesAnswered
\* A query does not return before its task is through with it (Queries).
WaitThere == Q!WaitThere
\* A DLL is loaded while a plugin of it is (Plugins).
PluginsHeld == P!PluginsHeld
\* A plugin's data reaches it, or waits where a task will find it (Plugins).
DataReaches == P!DataReaches
\* What a task has taken is not left in its queue (Plugins).
NothingMissed == P!NothingMissed
\* A plugin that is started on a connection gets there (Plugins).
StartedWhenConnected == P!StartedWhenConnected
=============================================================================
