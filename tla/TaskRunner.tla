----------------------------- MODULE TaskRunner -----------------------------
(***************************************************************************)
(* QyTaskRunner and its QyTasks (qytask/qytaskrunner.cc, qytask.cc):       *)
(* cooperative state machines run by one thread, which calls runTasks when *)
(* a message posted by wakeTasks arrives (qyipc/ipc-taskrunner.cc).  A     *)
(* task's handlers, which process calls, and the thread between two        *)
(* messages may call any public operation of any task; while a handler     *)
(* runs, rpc = "process".                                                  *)
(***************************************************************************)
EXTENDS Naturals, Sequences, FiniteSets

CONSTANTS
    Tasks,
    Parent,         \* the parent of each task: Runner, or a task of the runner
    Seconds,        \* mTimeoutSeconds, in ticks of the clock
    Suspenders,     \* the tasks whose handlers call suspendTimeout
    MaxClock,       \* bound of the clock
    Runner, None

ASSUME TaskAssumption ==
    /\ Runner \notin Tasks /\ None \notin Tasks
    /\ Parent \in [Tasks -> Tasks \cup {Runner}]
    /\ \A t \in Tasks : Parent[t] # Runner => Parent[Parent[t]] = Runner
    /\ Seconds \in [Tasks -> Nat]
    /\ Suspenders \subseteq Tasks
    /\ MaxClock \in Nat

VARIABLES
    life,                               \* is the object there?
    mState, mBlocked, mDone, mAborted, mError,
    mTimeout, mTimeoutSuspended,
    mTasks,                             \* the tasks given to startTask
    mDelTasks,                          \* the children to delete
    mNextTimeoutTask,
    pending,                            \* is a message of wakeTasks in the queue?
    rpc, runtask, it, did,              \* runTasks: where it is, its locals
    mBusy,                              \* the task whose process runs, or None
    timedOut,                           \* did that process begin with a timeout?
    now

flags   == <<mBlocked, mDone, mAborted, mError>>
timing  == <<mTimeout, mTimeoutSuspended, mNextTimeoutTask, now>>
lists   == <<life, mTasks, mDelTasks>>
running == <<rpc, runtask, it, did, mBusy, timedOut>>
vars    == <<mState, flags, timing, lists, running, pending>>

States == {"INIT", "START", "RESPONSE", "DONE", "ERROR"}

RangeOf(s) == {s[i] : i \in 1 .. Len(s)}

Live == {t \in Tasks : life[t] = "live"}

Init ==
    /\ life = [t \in Tasks |-> "none"]
    /\ mState = [t \in Tasks |-> "INIT"]
    /\ mBlocked = [t \in Tasks |-> FALSE]
    /\ mDone = [t \in Tasks |-> FALSE]
    /\ mAborted = [t \in Tasks |-> FALSE]
    /\ mError = [t \in Tasks |-> FALSE]
    /\ mTimeout = [t \in Tasks |-> 0]
    /\ mTimeoutSuspended = [t \in Tasks |-> FALSE]
    /\ mTasks = <<>> /\ mDelTasks = {}
    /\ mNextTimeoutTask = None
    /\ pending = FALSE
    /\ rpc = "idle" /\ runtask = <<>> /\ it = 1 /\ did = FALSE
    /\ mBusy = None /\ timedOut = FALSE
    /\ now = 1
----------------------------------------------------------------------------
(* Children, blocking, the timeout about to expire.                        *)

\* The runner's own tasks are its children too, but stop treats only the
\* children of another task (isChild2) as the runner's to delete.
Children(t) == {c \in Live : Parent[c] = t}

IsChild2(t) == Parent[t] # Runner

NeedRunAllChildren(t) ==
    ~mError[t] /\ ~mAborted[t] /\ \E c \in Children(t) : ~mDone[c]

\* Called by the message loop, or by a handler that process has called.
MayCall == rpc \in {"idle", "process"}

TimedOut(t) == Seconds[t] # 0 /\ mTimeout[t] # 0 /\ now > mTimeout[t]

\* recalcNextTimeout, given the timeouts and the unfinished tasks: of the
\* tasks with the closest timeout, the last in the list.
Recalc(ts, T, done, exclude) ==
    LET with == {i \in 1 .. Len(ts) :
                    T[ts[i]] > 0 /\ ~done[ts[i]] /\ ts[i] # exclude}
    IN  IF with = {} THEN None
        ELSE ts[CHOOSE i \in with : \A j \in with :
                    \/ T[ts[i]] < T[ts[j]]
                    \/ T[ts[i]] = T[ts[j]] /\ j <= i]

\* updateTaskTimeout of a task whose timeout may just have become T[t].
\* Mutant: the task keeps its place as the next one to time out.
UpdateTaskTimeoutNoRecalc(t, ts, T) ==
    IF T[t] # 0 /\ (mNextTimeoutTask = None \/ T[t] <= T[mNextTimeoutTask])
        THEN t ELSE mNextTimeoutTask

UpdateTaskTimeout(t, ts, T) ==
    IF T[t] # 0
        THEN IF mNextTimeoutTask = None \/ T[t] <= T[mNextTimeoutTask]
                THEN t ELSE mNextTimeoutTask
        ELSE IF t = mNextTimeoutTask THEN Recalc(ts, T, mDone, t)
                ELSE mNextTimeoutTask

\* resetTimeout in state s: the timeout it gives the task.
NewTimeout(t, s, suspended) ==
    IF Seconds[t] # 0 /\ s \in {"START", "RESPONSE"} /\ ~suspended
        THEN now + Seconds[t] ELSE 0

SetTimeout(t, value) ==
    LET T == [mTimeout EXCEPT ![t] = value]
    IN  /\ mTimeout' = T
        /\ mNextTimeoutTask' = UpdateTaskTimeout(t, mTasks, T)

\* t is done and stop is called: its children are aborted (the one whose
\* process runs is only marked), and the runner is to delete those of the
\* stopped tasks that are children.
Finish(t, aborted, error) ==
    LET kids    == {c \in Children(t) : ~mAborted[c] /\ ~mDone[c]}
        stopped == {t} \cup (kids \ {mBusy})
    IN  /\ mAborted' = [c \in Tasks |-> mAborted[c] \/ c \in kids \/ (c = t /\ aborted)]
        /\ mError'   = [c \in Tasks |-> mError[c] \/ c \in stopped \ {t} \/ (c = t /\ error)]
        /\ mDone'    = [c \in Tasks |-> mDone[c] \/ c \in stopped]
        /\ mBlocked' = [c \in Tasks |-> mBlocked[c] \/ c \in stopped]
        /\ mDelTasks' = mDelTasks \cup {c \in stopped : IsChild2(c)}
----------------------------------------------------------------------------
(* The operations of a task that others call.                              *)

\* The constructor and set_timeout_seconds.  A child is made by its parent.
Create(t) ==
    /\ MayCall
    /\ life[t] = "none"
    /\ IsChild2(t) => Parent[t] \in Live /\ ~mDone[Parent[t]]
    /\ life' = [life EXCEPT ![t] = "live"]
    /\ UNCHANGED <<mState, flags, timing, mTasks, mDelTasks, running, pending>>

\* start and startTask, once for each task of the runner.
\* Mutant: nobody is told.
StartNoWake(t) ==
    /\ MayCall
    /\ t \in Live /\ ~IsChild2(t)
    /\ t \notin RangeOf(mTasks)
    /\ mState[t] = "INIT"
    /\ mTasks' = Append(mTasks, t)
    /\ mNextTimeoutTask' = UpdateTaskTimeout(t, mTasks', mTimeout)
    /\ UNCHANGED <<mState, flags, mTimeout, mTimeoutSuspended, now,
                   life, mDelTasks, running, pending>>

Start(t) ==
    /\ MayCall
    /\ t \in Live /\ ~IsChild2(t)
    /\ t \notin RangeOf(mTasks)
    /\ mState[t] = "INIT"
    /\ mTasks' = Append(mTasks, t)
    /\ mNextTimeoutTask' = UpdateTaskTimeout(t, mTasks', mTimeout)
    /\ pending' = TRUE
    /\ UNCHANGED <<mState, flags, mTimeout, mTimeoutSuspended, now,
                   life, mDelTasks, running>>

Wake(t) ==
    /\ MayCall
    /\ t \in Live /\ ~mDone[t] /\ mBlocked[t]
    /\ mBlocked' = [mBlocked EXCEPT ![t] = FALSE]
    /\ pending' = TRUE
    /\ UNCHANGED <<mState, mDone, mAborted, mError, timing, lists, running>>

\* error: it wakes the task if the task is blocked.
Error(t) ==
    /\ MayCall
    /\ t \in Live /\ ~mDone[t] /\ ~mError[t]
    /\ mError' = [mError EXCEPT ![t] = TRUE]
    /\ mBlocked' = [mBlocked EXCEPT ![t] = FALSE]
    /\ pending' = (pending \/ mBlocked[t])
    /\ UNCHANGED <<mState, mDone, mAborted, timing, lists, running>>

\* abort of a task whose process does not run.
\* Mutant: as for a task whose process runs, but blocked.
AbortOnlyMarks(t) ==
    /\ MayCall
    /\ t \in Live /\ ~mAborted[t] /\ ~mDone[t]
    /\ t # mBusy
    /\ mAborted' = [mAborted EXCEPT ![t] = TRUE]
    /\ mBlocked' = [mBlocked EXCEPT ![t] = TRUE]
    /\ UNCHANGED <<mState, mDone, mError, timing, lists, running, pending>>

Abort(t) ==
    /\ MayCall
    /\ t \in Live /\ ~mAborted[t] /\ ~mDone[t]
    /\ t # mBusy
    /\ Finish(t, TRUE, TRUE)
    /\ UNCHANGED <<mState, timing, life, mTasks, running, pending>>

\* abort of the task whose process runs: run looks at mAborted afterwards.
AbortBusy(t) ==
    /\ t = mBusy
    /\ ~mAborted[t] /\ ~mDone[t]
    /\ mAborted' = [mAborted EXCEPT ![t] = TRUE]
    /\ UNCHANGED <<mState, mBlocked, mDone, mError, timing, lists, running, pending>>

\* suspendTimeout and resumeTimeout.
Suspend(t, suspended) ==
    /\ MayCall
    /\ t \in Live /\ t \in Suspenders
    /\ mTimeoutSuspended[t] # suspended
    /\ mTimeoutSuspended' = [mTimeoutSuspended EXCEPT ![t] = suspended]
    /\ SetTimeout(t, NewTimeout(t, mState[t], suspended))
    /\ UNCHANGED <<mState, flags, now, lists, running, pending>>

\* pollTasks.
Poll ==
    /\ rpc = "idle"
    /\ mNextTimeoutTask # None /\ TimedOut(mNextTimeoutTask)
    /\ mBlocked' = [mBlocked EXCEPT ![mNextTimeoutTask] = mDone[mNextTimeoutTask] /\ @]
    /\ pending' = TRUE
    /\ UNCHANGED <<mState, mDone, mAborted, mError, timing, lists, running>>
----------------------------------------------------------------------------
(* runTasks.                                                               *)

RunTasks ==
    /\ rpc = "idle" /\ pending
    /\ pending' \in BOOLEAN     \* was it the last message?
    /\ rpc' = "tasks"
    /\ runtask' = mTasks /\ it' = 1 /\ did' = FALSE
    /\ UNCHANGED <<mState, flags, timing, lists, mBusy, timedOut>>

Current == runtask[it]

AtTask == rpc = "tasks" /\ it <= Len(runtask)

NextTask ==
    /\ AtTask /\ mBlocked[Current]
    /\ it' = it + 1
    /\ UNCHANGED <<mState, flags, timing, lists, pending, rpc, runtask, did, mBusy, timedOut>>

LoopAgain ==
    /\ rpc = "tasks" /\ it > Len(runtask) /\ did
    /\ it' = 1 /\ did' = FALSE
    /\ UNCHANGED <<mState, flags, timing, lists, pending, rpc, runtask, mBusy, timedOut>>

\* The task that run is called for: the current one, or, inside its
\* runAllChildren, an unblocked child.
Runs(t) ==
    \/ AtTask /\ t = Current /\ ~mBlocked[t]
    \/ rpc = "children" /\ t \in Children(Current) /\ ~mBlocked[t]

\* Back from run: a child belongs to the loop of its parent.
After(t) == IF IsChild2(t) THEN "children" ELSE "tasks"

\* run of a task that is done: its children run first.
RunDone(t) ==
    /\ Runs(t) /\ mDone[t]
    /\ did' = TRUE
    /\ IF NeedRunAllChildren(t)
        THEN rpc' = "children" /\ UNCHANGED mBlocked
        ELSE rpc' = After(t) /\ mBlocked' = [mBlocked EXCEPT ![t] = TRUE]
    /\ UNCHANGED <<mState, mDone, mAborted, mError, timing, lists, pending,
                   runtask, it, mBusy, timedOut>>

\* runAllChildren finds every child blocked.
ChildrenPaused ==
    /\ rpc = "children"
    /\ \A c \in Children(Current) : mBlocked[c]
    /\ mBlocked' = [mBlocked EXCEPT ![Current] = TRUE]
    /\ rpc' = "tasks"
    /\ UNCHANGED <<mState, mDone, mAborted, mError, timing, lists, pending,
                   runtask, it, did, mBusy, timedOut>>

\* run of a task that error was called for.
RunError(t) ==
    /\ Runs(t) /\ ~mDone[t] /\ mError[t]
    /\ did' = TRUE
    /\ mState' = [mState EXCEPT ![t] = "ERROR"]
    /\ Finish(t, FALSE, TRUE)
    /\ rpc' = After(t)
    /\ UNCHANGED <<timing, life, mTasks, pending, runtask, it, mBusy, timedOut>>

\* run calls process, which begins with clearTimeout if the task timed out.
RunBegin(t) ==
    /\ Runs(t) /\ ~mDone[t] /\ ~mError[t]
    /\ did' = TRUE
    /\ rpc' = "process" /\ mBusy' = t
    /\ timedOut' = TimedOut(t)
    /\ IF TimedOut(t) THEN SetTimeout(t, 0)
                      ELSE UNCHANGED <<mTimeout, mNextTimeoutTask>>
    /\ UNCHANGED <<mState, flags, mTimeoutSuspended, now, lists, pending, runtask, it>>

\* What process may return: the default onTimeout answers DONE.
Outcomes(s) ==
    IF timedOut THEN {"DONE"}
    ELSE CASE s = "INIT"     -> {"START", "BLOCKED", "DONE", "ERROR"}
           [] s = "START"    -> {"START", "RESPONSE", "BLOCKED", "DONE", "ERROR"}
           [] s = "RESPONSE" -> {"BLOCKED", "DONE", "ERROR"}
           [] OTHER          -> {"BLOCKED"}

ProcessReturns(t) ==
    /\ rpc = "process" /\ t = mBusy
    /\ rpc' = After(t) /\ mBusy' = None /\ timedOut' = FALSE
    /\ UNCHANGED <<runtask, it, did>>

\* The task was aborted meanwhile: what process returned is ignored.
RunAborted(t) ==
    /\ ProcessReturns(t)
    /\ mAborted[t]
    /\ Finish(t, TRUE, FALSE)
    /\ UNCHANGED <<mState, timing, life, mTasks, pending>>

RunBlocked(t) ==
    /\ ProcessReturns(t)
    /\ ~mAborted[t]
    /\ "BLOCKED" \in Outcomes(mState[t])
    /\ mBlocked' = [mBlocked EXCEPT ![t] = TRUE]
    /\ UNCHANGED <<mState, mDone, mAborted, mError, timing, lists, pending>>

\* The task goes on to another state and runs again.
RunState(t, new) ==
    /\ ProcessReturns(t)
    /\ ~mAborted[t]
    /\ new \in Outcomes(mState[t])
    /\ mState' = [mState EXCEPT ![t] = new]
    /\ SetTimeout(t, NewTimeout(t, new, mTimeoutSuspended[t]))
    /\ mBlocked' = [mBlocked EXCEPT ![t] = FALSE]
    /\ UNCHANGED <<mDone, mAborted, mError, mTimeoutSuspended, now, lists, pending>>

\* The task is finished.  With children to run it stays unblocked, to be run
\* once more (RunDone).
RunFinished(t, new) ==
    /\ ProcessReturns(t)
    /\ ~mAborted[t]
    /\ new \in Outcomes(mState[t])
    /\ mState' = [mState EXCEPT ![t] = new]
    /\ SetTimeout(t, 0)
    /\ IF NeedRunAllChildren(t) /\ new = "DONE"
        THEN /\ mDone' = [mDone EXCEPT ![t] = TRUE]
             /\ mBlocked' = [mBlocked EXCEPT ![t] = FALSE]
             /\ UNCHANGED <<mAborted, mError, mDelTasks>>
        ELSE Finish(t, FALSE, new = "ERROR")
    /\ pending' = TRUE
    /\ UNCHANGED <<mTimeoutSuspended, now, life, mTasks>>

\* The loop is over: endTasks deletes the tasks that are done with all their
\* children and looks for the next timeout if it was one of theirs; after it
\* delTasks deletes, one by one, the children that were stopped.
Ended == {t \in RangeOf(mTasks) : mDone[t] /\ \A c \in Children(t) : mDone[c]}

\* What the list is without them: the other tasks, in their order.
Kept ==
    LET rest == RangeOf(mTasks) \ Ended
    IN  {s \in UNION {[1 .. n -> rest] : n \in 0 .. Len(mTasks)} :
            /\ RangeOf(s) = rest
            /\ \A i, j \in 1 .. Len(s), k, l \in 1 .. Len(mTasks) :
                  s[i] = mTasks[k] /\ s[j] = mTasks[l] => (i < j <=> k < l)}

\* Mutant: mNextTimeoutTask is left as it is.
NextAfterEndKept(kept) == mNextTimeoutTask

NextAfterEnd(kept) ==
    IF mNextTimeoutTask \in Ended THEN Recalc(kept, mTimeout, mDone, None)
    ELSE mNextTimeoutTask

EndTasks ==
    /\ rpc = "tasks" /\ it > Len(runtask) /\ ~did
    /\ mTasks' \in Kept
    /\ mNextTimeoutTask' = NextAfterEnd(mTasks')
    /\ life' = [t \in Tasks |-> IF t \in Ended THEN "deleted" ELSE life[t]]
    /\ rpc' = "delete" /\ runtask' = <<>> /\ it' = 1
    /\ UNCHANGED <<mState, flags, mTimeout, mTimeoutSuspended, now, mDelTasks,
                   did, mBusy, timedOut, pending>>

\* The child's destructor calls removeChild of the parent, which endTasks may
\* just have deleted (ParentThere): here the use of it changes nothing.
DelTask(c) ==
    /\ rpc = "delete" /\ c \in mDelTasks
    /\ life' = [life EXCEPT ![c] = "deleted"]
    /\ mDelTasks' = mDelTasks \ {c}
    /\ UNCHANGED <<mState, flags, timing, mTasks, running, pending>>

RunTasksReturns ==
    /\ rpc = "delete" /\ mDelTasks = {}
    /\ rpc' = "idle"
    /\ UNCHANGED <<mState, flags, timing, lists, runtask, it, did, mBusy, timedOut, pending>>

Tick ==
    /\ now < MaxClock
    /\ now' = now + 1
    /\ UNCHANGED <<mState, flags, mTimeout, mTimeoutSuspended, mNextTimeoutTask,
                   lists, running, pending>>
----------------------------------------------------------------------------
Called(t) ==
    \/ Create(t) \/ Start(t)
    \/ Wake(t) \/ Error(t)
    \/ Abort(t) \/ AbortBusy(t)
    \/ \E suspended \in BOOLEAN : Suspend(t, suspended)

RunStep(t) ==
    \/ RunDone(t) \/ RunError(t)
    \/ RunBegin(t)
    \/ RunAborted(t) \/ RunBlocked(t)
    \/ \E new \in {"START", "RESPONSE"} : RunState(t, new)
    \/ \E new \in {"DONE", "ERROR"} : RunFinished(t, new)

Next ==
    \/ \E t \in Tasks : Called(t) \/ RunStep(t)
    \/ RunTasks \/ NextTask \/ LoopAgain \/ ChildrenPaused
    \/ EndTasks \/ RunTasksReturns \/ \E c \in Tasks : DelTask(c)
    \/ Poll \/ Tick

Spec == Init /\ [][Next]_vars
----------------------------------------------------------------------------
\* The variables have the types the code relies on: the list holds no task
\* twice, an index into the copied list is at most one past its end, mBusy
\* names the task whose process runs and nothing outside of it, and a task
\* without a timeout to come has the timeout 0.
TypeOK ==
    /\ life \in [Tasks -> {"none", "live", "deleted"}]
    /\ mState \in [Tasks -> States]
    /\ mBlocked \in [Tasks -> BOOLEAN] /\ mDone \in [Tasks -> BOOLEAN]
    /\ mAborted \in [Tasks -> BOOLEAN] /\ mError \in [Tasks -> BOOLEAN]
    /\ mTimeout \in [Tasks -> Nat]
    /\ mTimeoutSuspended \in [Tasks -> BOOLEAN]
    /\ mTasks \in Seq(Tasks) /\ \A i, j \in 1 .. Len(mTasks) : mTasks[i] = mTasks[j] => i = j
    /\ mDelTasks \subseteq Tasks
    /\ mNextTimeoutTask \in Tasks \cup {None}
    /\ pending \in BOOLEAN
    /\ rpc \in {"idle", "tasks", "children", "process", "delete"}
    /\ runtask \in Seq(Tasks) /\ it \in 1 .. Len(runtask) + 1 /\ did \in BOOLEAN
    /\ mBusy \in Tasks \cup {None} /\ (mBusy # None <=> rpc = "process")
    /\ timedOut \in BOOLEAN
    /\ now \in Nat

\* The runner never keeps a pointer to a task it has deleted: neither in the
\* list, nor in the copy that runTasks walks, nor among the children to
\* delete, nor as the next task to time out (endTasks, qytaskrunner.cc:103).
\* Nor is a task left with a pointer to a deleted parent, but for the stopped
\* children that delTasks is about to delete after endTasks has deleted their
\* parent: what those do with it is ParentThere.
NoDangling ==
    /\ RangeOf(mTasks) \subseteq Live
    /\ RangeOf(runtask) \subseteq Live
    /\ mDelTasks \subseteq Live
    /\ mNextTimeoutTask # None => mNextTimeoutTask \in RangeOf(mTasks) /\ mNextTimeoutTask \in Live
    /\ \A t \in Live : IsChild2(t) /\ Parent[t] \notin Live
                        => rpc = "delete" /\ t \in mDelTasks

\* A task's destructor finds its parent, of which it calls removeChild
\* (qytask.cc:38-39).  The code breaks it (TaskRunnerParent.cfg): endTasks has
\* deleted the parent before delTasks comes to the child.
ParentThere ==
    [][\A t \in Tasks : IsChild2(t) /\ life[t] = "live" /\ life'[t] = "deleted"
                            => Parent[t] \in Live]_vars

\* When no message is on its way, runTasks has nothing to do: every task of
\* the list is blocked, and one that is done is there only because it, or a
\* child, was aborted, which wakes nobody, or because a child is not done.
NoForgottenTask ==
    rpc = "idle" /\ ~pending =>
        \A t \in RangeOf(mTasks) :
            /\ mBlocked[t]
            /\ mDone[t] => \/ mAborted[t]
                           \/ \E c \in Children(t) : mAborted[c] \/ ~mDone[c]

\* While an unfinished task has a timeout to come, mNextTimeoutTask names a
\* task with one: pollTasks has something to wait for (updateTaskTimeout,
\* qytaskrunner.cc:173).
TimeoutArmed ==
    (\E t \in RangeOf(mTasks) : ~mDone[t] /\ mTimeout[t] # 0)
        => mNextTimeoutTask # None /\ mTimeout[mNextTimeoutTask] # 0

\* The function "make[s] sure that the next timeout-able task hasn't changed"
\* (qytaskrunner.cc:168-169): no unfinished task times out before
\* mNextTimeoutTask.
NextTimeoutIsSoonest ==
    mNextTimeoutTask # None =>
        \A t \in RangeOf(mTasks) :
            ~mDone[t] /\ mTimeout[t] # 0 => mTimeout[mNextTimeoutTask] <= mTimeout[t]

\* After abort no handler of the task is called any more (qytask.h:51): one
\* that was running may return.
NoCallbackAfterAbort ==
    [][\A t \in Tasks : mAborted[t] /\ mBusy # t => mBusy' # t]_vars
=============================================================================
