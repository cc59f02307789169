------------------------------- MODULE MCIpc -------------------------------
(***************************************************************************)
(* The parts of an IPCObject meet in queues only: a behaviour works with    *)
(* one of them.  The connections, one for long or two for a shorter time;   *)
(* the queries; the plugins, which share a DLL: those started here, those   *)
(* that the other process has loaded here, or both for a shorter time.      *)
(***************************************************************************)
EXTENDS Ipc

CONSTANTS Calls2, CallsBoth

VARIABLE part

MCConn == CHOOSE c \in Conns : TRUE
MCConnOf == [e \in Exes |-> MCConn]
MCQuery == CHOOSE q \in Queries : TRUE
MCCommand == [q \in Queries |-> "command"]
MCApp == CHOOSE a \in Apps \ Ours : TRUE
MCFile == [a \in Apps |-> "dll"]

\* One connection, with no parent.  What its listening task may miss is not combined
\* with a client process, nor with a second connection.
Alone == /\ \A c \in Conns \ {MCConn} : connHash[c] = C!NoKey /\ \A i \in DOMAIN msgs : msgs[i].c # c
         /\ \A th \in C!Threads : adds[th].c \in {MCConn, Nothing} /\ adds[th].parent = Nothing
\* Two connections, alike but for the first call, and no client process.
NoClient == \A e \in Exes : exeHash[e] = C!NoExe
One == Alone /\ (NoClient \/ late = {})
Two == (calls = 1 => Alone) /\ NoClient /\ late = {}
\* The queries are alike: one of them is the first.  The window has no other
\* messages when the connection is closed, or when a query is over before its loop.
Asked == /\ \A q \in Queries : task[q] # "none" => task[MCQuery] # "none"
         /\ (up /\ early = {}) \/ others = 0
\* No request of the other process; none of ours, and its plugins are alike.
Requests == UNION {{ptasks[i].queue_[j] : j \in DOMAIN ptasks[i].queue_} :
                          i \in {k \in DOMAIN ptasks : ptasks[k].kind = "listen"}}
WeStart == Requests = {}
TheyStart == /\ \A i \in DOMAIN ptasks : ptasks[i].app \notin Ours
             /\ pcalls = 2 => \A r \in Requests : r[2] = MCApp

MCInit == Init /\ part \in {"one", "two", "queries", "ours", "theirs", "both"}
MCNext ==
    /\ UNCHANGED part
    /\ \/ /\ UNCHANGED <<QueryVars, PluginVars>>
          /\ \/ part = "one" /\ C!Next /\ One'
             \/ part = "two" /\ C!Next /\ calls' <= Calls2 /\ Two'
       \/ part = "queries" /\ Q!Next /\ Asked' /\ UNCHANGED <<ConnVars, PluginVars>>
       \/ /\ UNCHANGED <<ConnVars, QueryVars>>
          /\ \/ part = "ours" /\ P!Next /\ WeStart'
             \/ part = "theirs" /\ P!Next /\ TheyStart'
             \/ part = "both" /\ P!Next /\ pcalls' <= CallsBoth
MCSpec == MCInit /\ [][MCNext]_<<part, vars>>
=============================================================================
