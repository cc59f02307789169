------------------------------ MODULE Queries ------------------------------
(***************************************************************************)
(* IPCObject::query (qyipc/ipc-object.cc): a task sends the query, the      *)
(* window's thread meanwhile turns its message loop until the task tells it *)
(* to quit (IPCSynWait), and may be asked to query again by what it         *)
(* dispatches; the other process answers one query after the other          *)
(* (IPCListenQueryTask, ipc-tasks.cc).                                      *)
(***************************************************************************)
EXTENDS Integers, Sequences, SequencesExt, FiniteSets

CONSTANTS Queries,
          Command,      \* what each query asks: the answer names it, not the query
          Others        \* bound of the other messages of the window

VARIABLES task,         \* IPCQueryTask: where it is
          blocked,      \* ... "dozes" from finding nothing to do until run sets mBlocked
          done_,
          synwait_,     \* ... does it still have to tell the loop?
          telling,      \* the tasks that do, and on which thread
          exec,         \* the loop of each query
          running_, code_,
          loops,        \* the loops the window's thread is in, the inmost last
          wnd,          \* the messages of the window
          up,           \* the connection
          reqs, answers, \* what is in the pipe
          queue_,       \* the queries the other process has yet to answer
          received, answered, \* history of the other process
          early,        \* history: queries that were over before their loop began
          crashed, others
asker == <<task, blocked, done_, synwait_, telling, exec, running_, code_, loops, wnd, early, crashed, others>>
answerer == <<queue_, received, answered>>
vars == <<asker, up, reqs, answers, answerer>>

Init ==
    /\ task = [q \in Queries |-> "none"] /\ exec = [q \in Queries |-> "none"]
    /\ blocked = [q \in Queries |-> "no"] /\ telling = {}
    /\ done_ = [q \in Queries |-> FALSE] /\ synwait_ = done_ /\ running_ = done_
    /\ code_ = [q \in Queries |-> "none"] /\ loops = <<>> /\ wnd = 0 /\ up = TRUE
    /\ reqs = <<>> /\ answers = <<>> /\ queue_ = <<>> /\ received = <<>> /\ answered = <<>>
    /\ early = {} /\ crashed = FALSE /\ others = 0
----------------------------------------------------------------------------
(* The window's thread.                                                    *)

Inmost == IF loops = <<>> THEN "none" ELSE exec[Last(loops)]
\* query: the task starts before the loop does.
query(q) ==
    /\ ~crashed /\ task[q] = "none" /\ Inmost \in {"none", "turns"}
    /\ task' = [task EXCEPT ![q] = "start"] /\ synwait_' = [synwait_ EXCEPT ![q] = TRUE]
    /\ exec' = [exec EXCEPT ![q] = "made"] /\ loops' = Append(loops, q)
    /\ UNCHANGED <<blocked, done_, telling, running_, code_, wnd, early, crashed, others, up, reqs, answers, answerer>>

Exec(q) ==
    /\ ~crashed /\ loops # <<>> /\ q = Last(loops) /\ exec[q] = "made"
    /\ exec' = [exec EXCEPT ![q] = "turns"] /\ running_' = [running_ EXCEPT ![q] = TRUE]
    /\ UNCHANGED <<task, blocked, done_, synwait_, telling, code_, loops, wnd, early, crashed, others, up, reqs, answers, answerer>>

\* Mutant of LoopsLeft: only the inmost loop looks whether it is to go on.
LoopsLeftInmost(l) == IF l = <<>> \/ running_[Last(l)] THEN Len(l) ELSE Len(l) - 1
\* A loop looks after each message, those whose dispatch has turned a loop too:
\* they go on up to the last that is to.
LoopsLeft(l) == CHOOSE n \in 0 .. Len(l) : /\ n > 0 => running_[l[n]]
                                          /\ \A k \in n + 1 .. Len(l) : ~running_[l[k]]
Returned(l, n) == {l[k] : k \in n + 1 .. Len(l)}
\* exec: one turn of the loop.
Turn ==
    /\ ~crashed /\ Inmost = "turns" /\ wnd > 0 /\ wnd' = wnd - 1
    /\ exec' = [q \in Queries |-> IF q \in Returned(loops, LoopsLeft(loops)) THEN "returned" ELSE exec[q]]
    /\ loops' = SubSeq(loops, 1, LoopsLeft(loops))
    /\ UNCHANGED <<task, blocked, done_, synwait_, telling, running_, code_, early, crashed, others, up, reqs, answers, answerer>>
\* exec: WM_QUIT, of the other messages of the window.  The inmost loop returns
\* without a code, its task not told; those around it look as ever.
Quit ==
    /\ ~crashed /\ Inmost = "turns" /\ others < Others /\ others' = others + 1
    /\ LET l == Front(loops) IN
       /\ loops' = SubSeq(l, 1, LoopsLeft(l))
       /\ exec' = [q \in Queries |-> IF q = Last(loops) THEN "quit"
                                     ELSE IF q \in Returned(l, LoopsLeft(l)) THEN "returned" ELSE exec[q]]
    /\ UNCHANGED <<task, blocked, done_, synwait_, telling, running_, code_, wnd, early, crashed, up, reqs, answers, answerer>>
OtherMessage ==
    /\ ~crashed /\ others < Others /\ others' = others + 1 /\ wnd' = wnd + 1
    /\ UNCHANGED <<task, blocked, done_, synwait_, telling, exec, running_, code_, loops, early, crashed, up, reqs, answers, answerer>>
----------------------------------------------------------------------------
(* The task, on the runner's thread, and the answer, on that of completions *)

\* finished begins: the result and IPCSynWait::quit, up to running_.  A wait whose
\* loop has returned is gone, and may or may not bear being written.
Dead(q) == exec[q] \in {"returned", "quit"}
begins(q, by, code) ==
    /\ telling' = telling \union {<<q, by>>}
    /\ IF Dead(q) THEN crashed' \in BOOLEAN /\ UNCHANGED <<code_, running_, early>>
       ELSE /\ code_' = [code_ EXCEPT ![q] = code] /\ running_' = [running_ EXCEPT ![q] = FALSE]
            /\ early' = (IF exec[q] = "made" THEN early \union {q} ELSE early) /\ UNCHANGED crashed
Finishes(q, by, code) ==
    IF synwait_[q] THEN begins(q, by, code)
    ELSE crashed' = TRUE /\ UNCHANGED <<code_, running_, telling, early>>
\* ... and ends: quit posts, through the wait, which its loop may have left by now,
\* and synwait_ is NULL.
finished(q, by) ==
    /\ ~crashed /\ <<q, by>> \in telling /\ telling' = telling \ {<<q, by>>}
    /\ synwait_' = [synwait_ EXCEPT ![q] = FALSE] /\ wnd' = wnd + 1
    /\ crashed' \in (IF Dead(q) THEN BOOLEAN ELSE {FALSE})
    /\ UNCHANGED <<task, exec, running_, code_, loops, early, others, up, reqs, answers, answerer>>
NotFinished == UNCHANGED <<code_, running_, telling, early, crashed>>
Goes(q, st) == task' = [task EXCEPT ![q] = st]
Kept == UNCHANGED <<synwait_, exec, loops, wnd, others, up, answerer>>
\* The runner's thread is in no other task.
Free == ~crashed /\ \A q \in Queries : blocked[q] # "dozes" /\ <<q, "task">> \notin telling

processStart(q) ==
    /\ Free /\ task[q] = "start"
    /\ \/ up /\ Goes(q, "response") /\ reqs' = Append(reqs, q) /\ NotFinished
       \/ Goes(q, "ended") /\ UNCHANGED reqs /\ Finishes(q, "task", "not sent")
    /\ UNCHANGED <<blocked, done_, answers>> /\ Kept
processResponse(q) ==
    /\ Free /\ task[q] = "response" /\ blocked[q] = "no"
    /\ IF done_[q] THEN Goes(q, "ended") /\ UNCHANGED blocked
       ELSE blocked' = [blocked EXCEPT ![q] = "dozes"] /\ UNCHANGED task
    /\ NotFinished /\ UNCHANGED <<done_, reqs, answers>> /\ Kept
\* QyTask::run, after a processResponse that has answered BLOCKED.
Blocks(q) ==
    /\ ~crashed /\ blocked[q] = "dozes" /\ blocked' = [blocked EXCEPT ![q] = "yes"]
    /\ NotFinished /\ UNCHANGED <<task, done_, reqs, answers>> /\ Kept
onTimeout(q) ==
    /\ Free /\ task[q] \in {"start", "response"} /\ Goes(q, "ended") /\ Finishes(q, "task", "timeout")
    /\ UNCHANGED <<blocked, done_, reqs, answers>> /\ Kept
\* The runner deletes a task that is over, and all of them when it is aborted.
Deleted(q) ==
    /\ Free
    /\ \/ task[q] = "ended" /\ NotFinished
       \/ task[q] \in {"start", "response"} /\ IF synwait_[q] THEN Finishes(q, "task", "fail") ELSE NotFinished
    /\ Goes(q, "gone") /\ UNCHANGED <<blocked, done_, reqs, answers>> /\ Kept
TaskTold(q) == finished(q, "task") /\ UNCHANGED <<blocked, done_>>

\* onEngineHandler: the first task that has asked this takes the answer.
Takers(cmd) == {q \in Queries : task[q] \in {"start", "response", "ended"} /\ Command[q] = cmd}
Answer ==
    /\ ~crashed /\ \A q \in Queries : <<q, "answer">> \notin telling
    /\ answers # <<>> /\ answers' = Tail(answers)
    /\ LET cmd == Head(answers) IN
       \/ Takers(cmd) = {} /\ NotFinished
       \/ \E q \in Takers(cmd) : Finishes(q, "answer", cmd)
    /\ UNCHANGED <<task, blocked, done_, reqs>> /\ Kept
\* After finished the task is done, and woken if it is blocked by now.
AnswerTold(q) ==
    /\ finished(q, "answer") /\ done_' = [done_ EXCEPT ![q] = TRUE]
    /\ blocked' = [blocked EXCEPT ![q] = IF @ = "yes" THEN "no" ELSE @]
----------------------------------------------------------------------------
(* The other process.                                                      *)

push ==
    /\ ~crashed /\ reqs # <<>> /\ reqs' = Tail(reqs)
    /\ queue_' = Append(queue_, Head(reqs)) /\ received' = Append(received, Head(reqs))
    /\ UNCHANGED <<asker, up, answers, answered>>
next(l) == Head(l)
\* IPCListenQueryTask::processStart: one answer a run, whether or not it can be sent.
ListenQuery ==
    /\ ~crashed /\ up /\ queue_ # <<>>
    /\ LET q == next(queue_) IN
       /\ queue_' = Tail(queue_) /\ answered' = Append(answered, q)
       /\ answers' = Append(answers, Command[q]) \/ UNCHANGED answers
    /\ UNCHANGED <<asker, up, reqs, received>>
\* The connection is closed: the task ends with what it has queued.
Close ==
    /\ ~crashed /\ up /\ up' = FALSE /\ reqs' = <<>> /\ answers' = <<>> /\ queue_' = <<>>
    /\ UNCHANGED <<asker, received, answered>>

Next ==
    \/ \E q \in Queries : \/ query(q) \/ Exec(q) \/ processStart(q) \/ processResponse(q)
                          \/ Blocks(q) \/ onTimeout(q) \/ Deleted(q) \/ TaskTold(q) \/ AnswerTold(q)
    \/ Turn \/ Quit \/ OtherMessage \/ Answer \/ push \/ ListenQuery \/ Close
Spec == Init /\ [][Next]_vars
----------------------------------------------------------------------------
\* A query that waits has somebody who will tell it, or is being told, or has a
\* message that lets it see that it was told, and ends with what it asked for or a
\* failure, unless WM_QUIT ended its loop.  The other process answers each query it
\* has received once, in order.  Not so for a query that was over before its loop
\* began, those whose loops are around that one, and once a task has used a wait
\* that is gone and did not survive it.
QueriesAnswered ==
    /\ ~crashed /\ Inmost = "turns" /\ Last(loops) \notin early /\ ~running_[Last(loops)] =>
           wnd > 0 \/ \E by \in {"task", "answer"} : <<Last(loops), by>> \in telling
    /\ \A q \in Queries :
           /\ exec[q] = "turns" /\ running_[q] /\ ~crashed /\ q \notin early => task[q] \in {"start", "response"}
           /\ exec[q] = "returned" => code_[q] \in {Command[q], "not sent", "timeout", "fail"}
    /\ up => received = answered \o queue_

\* A task does not write to a wait that its query has left (synwait_ is the address
\* of an object on the stack of IPCObject::query).  The code breaks it: on WM_QUIT,
\* and when the loop sees running_ before quit has posted (IpcWait.cfg).
WaitThere == \A q \in Queries : Dead(q) => ~synwait_[q]
=============================================================================
