----------------------------- MODULE ThreadPosix -----------------------------
(***************************************************************************)
(* QyThreadPosix (qytask/qythread_posix.cc): an object that runs a function *)
(* again and again on a pthread of its own.  The owner calls start and     *)
(* stop; other threads may call wake and setNotAlive at any time.          *)
(* mStateCrit is held for longer than a step only by a thread whose        *)
(* function asked to be hooked: it waits for mThreadHook inside.           *)
(***************************************************************************)
EXTENDS Naturals, FiniteSets

CONSTANTS
    Runs,           \* the pthreads start may create
    Results,        \* what the function may return
    MaxPolls,       \* how often stop looks at mDead (1000 in the code)
    Free

ASSUME ThreadAssumption ==
    /\ Free \notin Runs
    /\ Results \subseteq {"none", "exit", "hook"}
    /\ MaxPolls \in Nat

VARIABLES
    mAlive, mDead,      \* protected by mStateCrit
    mStateCrit,         \* Free, or the hooked run that holds it
    mThreadHook,        \* HQyEvent.state_: up?
    rpc, res,           \* each pthread: where it is, what its function returned
    opc, dead, polls,   \* the owner: where it is, locals of stop
    stopped,            \* history: the answer of the last stop, since start
    asked,              \* history: announced runs stop has asked to end
    late                \* history: calls begun since it was asked, counted up to 2

state     == <<mAlive, mDead, mStateCrit, mThreadHook>>
runVars   == <<rpc, res>>
ownerVars == <<opc, dead, polls, stopped>>
history   == <<asked, late>>
vars      == <<state, runVars, ownerVars, history>>

Init ==
    /\ mAlive = FALSE /\ mDead = TRUE
    /\ mStateCrit = Free
    /\ mThreadHook = FALSE
    /\ rpc = [r \in Runs |-> "none"]
    /\ res = [r \in Runs |-> "none"]
    /\ opc = "idle" /\ dead = FALSE /\ polls = 0
    /\ stopped = "new"
    /\ asked = {}
    /\ late = [r \in Runs |-> 0]
----------------------------------------------------------------------------
(* start.  An owner starts the thread when it is new or when stop has      *)
(* answered that the thread was reclaimed.                                 *)

MayStart == opc = "idle" /\ stopped \in {"new", "true"}

\* pthread_create: from here on the new thread runs.
StartCreate(r) ==
    /\ MayStart
    /\ rpc[r] = "none"
    /\ rpc' = [rpc EXCEPT ![r] = "alive"]
    /\ opc' = "markdead"
    /\ stopped' = "no"
    /\ UNCHANGED <<state, res, dead, polls, history>>

\* mDead = false, under mStateCrit, after the thread was created.  The wait
\* for mEvent that follows may return before run has set it: its 10 ms are
\* computed too small, and nothing depends on its result.
StartMark ==
    /\ opc = "markdead"
    /\ mStateCrit = Free
    /\ mDead' = FALSE
    /\ opc' = "idle"
    /\ UNCHANGED <<mAlive, mStateCrit, mThreadHook, runVars, dead, polls, stopped, history>>
----------------------------------------------------------------------------
(* stop, setNotAlive, wake.                                                *)

\* Of a run that has not announced itself yet stop asks nothing: it would undo
\* mAlive = false.
Announced(r) == rpc[r] \notin {"none", "alive", "gone"}

StopRequest ==
    /\ opc = "idle"
    /\ mStateCrit = Free
    /\ mAlive' = FALSE
    /\ mThreadHook' = TRUE
    /\ dead' = mDead
    /\ polls' = 0
    /\ opc' = IF mDead THEN "stopfn" ELSE "poll"
    /\ asked' = asked \cup {r \in Runs : Announced(r)}
    /\ UNCHANGED <<mDead, mStateCrit, runVars, stopped, late>>

StopPoll ==
    /\ opc = "poll"
    /\ mStateCrit = Free
    /\ polls < MaxPolls
    /\ dead' = mDead
    /\ polls' = polls + 1
    /\ opc' = IF mDead THEN "stopfn" ELSE "poll"
    /\ UNCHANGED <<state, runVars, stopped, history>>

StopGiveUp ==
    /\ opc = "poll"
    /\ polls = MaxPolls
    /\ opc' = "stopfn"
    /\ UNCHANGED <<state, runVars, dead, polls, stopped, history>>

\* mFunction(mThreadObject, kTStoped) on the owner's thread, then the answer.
StopReturn ==
    /\ opc = "stopfn"
    /\ opc' = "idle"
    /\ stopped' = IF stopped = "new" THEN stopped
                  ELSE IF dead THEN "true" ELSE "false"
    /\ dead' = FALSE
    /\ polls' = 0
    /\ UNCHANGED <<state, runVars, history>>

SetNotAlive ==
    /\ mStateCrit = Free
    /\ mAlive' = FALSE
    /\ UNCHANGED <<mDead, mStateCrit, mThreadHook, runVars, ownerVars, history>>

Wake ==
    /\ mStateCrit = Free
    /\ mThreadHook' = TRUE
    /\ UNCHANGED <<mAlive, mDead, mStateCrit, runVars, ownerVars, history>>
----------------------------------------------------------------------------
(* run, on the new thread.                                                 *)

RunAlive(r) ==
    /\ rpc[r] = "alive"
    /\ mStateCrit = Free
    /\ mAlive' = TRUE
    /\ rpc' = [rpc EXCEPT ![r] = "call"]
    /\ UNCHANGED <<mDead, mStateCrit, mThreadHook, res, ownerVars, history>>

\* mFunction(mThreadObject, kTRunning), without the critical section.
RunCall(r) ==
    /\ rpc[r] = "call"
    /\ rpc' = [rpc EXCEPT ![r] = "called"]
    /\ late' = [late EXCEPT ![r] = IF r \in asked /\ @ < 2 THEN @ + 1 ELSE @]
    /\ UNCHANGED <<state, res, ownerVars, asked>>

RunReturn(r, x) ==
    /\ rpc[r] = "called"
    /\ rpc' = [rpc EXCEPT ![r] = "result"]
    /\ res' = [res EXCEPT ![r] = x]
    /\ UNCHANGED <<state, ownerVars, history>>

\* alive = mAlive: go round again, or leave the loop.
Again(alive) == IF alive THEN "call" ELSE "finish"

RunExit(r) ==
    /\ rpc[r] = "result" /\ res[r] = "exit"
    /\ mStateCrit = Free
    /\ mAlive' = FALSE
    /\ rpc' = [rpc EXCEPT ![r] = "finish"]
    /\ res' = [res EXCEPT ![r] = "none"]
    /\ UNCHANGED <<mDead, mStateCrit, mThreadHook, ownerVars, history>>

\* Mutant: a local flag, never looked up again, decides whether to go on.
RunNoneStaleAlive(r) ==
    /\ rpc[r] = "result" /\ res[r] = "none"
    /\ mStateCrit = Free
    /\ rpc' = [rpc EXCEPT ![r] = Again(TRUE)]
    /\ UNCHANGED <<state, res, ownerVars, history>>

RunNone(r) ==
    /\ rpc[r] = "result" /\ res[r] = "none"
    /\ mStateCrit = Free
    /\ rpc' = [rpc EXCEPT ![r] = Again(mAlive)]
    /\ UNCHANGED <<state, res, ownerVars, history>>

\* kTResHook: wait for mThreadHook with mStateCrit held.
RunHook(r) ==
    /\ rpc[r] = "result" /\ res[r] = "hook"
    /\ mStateCrit = Free
    /\ mStateCrit' = r
    /\ rpc' = [rpc EXCEPT ![r] = "hooked"]
    /\ res' = [res EXCEPT ![r] = "none"]
    /\ UNCHANGED <<mAlive, mDead, mThreadHook, ownerVars, history>>

Unhook(r) ==
    /\ rpc[r] = "hooked"
    /\ mThreadHook' = FALSE
    /\ mStateCrit' = Free
    /\ rpc' = [rpc EXCEPT ![r] = Again(mAlive)]
    /\ UNCHANGED <<mAlive, mDead, res, ownerVars, history>>

\* The event was already up when the wait began ...
HookPassed(r) == mThreadHook /\ Unhook(r)
\* ... and if not, only pthread_cond_wait returning for no reason ends it:
\* wake and stop cannot get past mStateCrit to set the event.
HookSpurious(r) == ~mThreadHook /\ Unhook(r)

\* Mutant: the thread counts as dead as soon as its last call has returned.
RunFinishEarly(r) ==
    /\ rpc[r] = "called"
    /\ mStateCrit = Free
    /\ mDead' = TRUE
    /\ rpc' = rpc
    /\ UNCHANGED <<mAlive, mStateCrit, mThreadHook, res, ownerVars, history>>

RunFinish(r) ==
    /\ rpc[r] = "finish"
    /\ mStateCrit = Free
    /\ mDead' = TRUE
    /\ rpc' = [rpc EXCEPT ![r] = "gone"]
    /\ UNCHANGED <<mAlive, mStateCrit, mThreadHook, res, ownerVars, history>>
----------------------------------------------------------------------------
OwnerNext ==
    \/ \E r \in Runs : StartCreate(r)
    \/ StartMark \/ StopRequest \/ StopPoll \/ StopGiveUp \/ StopReturn

RunNext(r) ==
    \/ RunAlive(r) \/ RunCall(r)
    \/ \E x \in Results : RunReturn(r, x)
    \/ RunExit(r) \/ RunNone(r) \/ RunHook(r)
    \/ HookPassed(r) \/ HookSpurious(r)
    \/ RunFinish(r)

Next == OwnerNext \/ SetNotAlive \/ Wake \/ \E r \in Runs : RunNext(r)

Spec == Init /\ [][Next]_vars

(* The owner's calls and the threads go on; the function returns.  Nobody  *)
(* has to call start, stop, wake or setNotAlive, and condition variables   *)
(* need not wake up for no reason.                                         *)
Fairness ==
    /\ WF_vars(StartMark) /\ WF_vars(StopPoll)
    /\ WF_vars(StopGiveUp) /\ WF_vars(StopReturn)
    /\ \A r \in Runs :
         /\ WF_vars(RunAlive(r)) /\ WF_vars(RunCall(r))
         /\ WF_vars(\E x \in Results : RunReturn(r, x))
         /\ WF_vars(RunExit(r) \/ RunNone(r) \/ RunHook(r))
         /\ WF_vars(HookPassed(r))
         /\ WF_vars(RunFinish(r))

FairSpec == Spec /\ Fairness
----------------------------------------------------------------------------
(* Correctness.                                                            *)

Places == {"none", "alive", "call", "called", "result", "hooked", "finish", "gone"}
Live   == Places \ {"none", "gone"}

\* Every variable stays within its type.
TypeOK ==
    /\ mAlive \in BOOLEAN /\ mDead \in BOOLEAN /\ mThreadHook \in BOOLEAN
    /\ mStateCrit \in Runs \cup {Free}
    /\ rpc \in [Runs -> Places]
    /\ res \in [Runs -> {"none", "exit", "hook"}]
    /\ opc \in {"idle", "markdead", "poll", "stopfn"}
    /\ dead \in BOOLEAN
    /\ polls \in 0..MaxPolls
    /\ stopped \in {"new", "no", "true", "false"}
    /\ asked \subseteq Runs
    /\ late \in [Runs -> 0..2]

\* stop answers true only when the thread no longer uses the object: the owner
\* may delete it or start it again ("it is not safe to delete this class until
\* the spawned thread has been reclaimed", qythread.h).
TrueMeansReclaimed ==
    stopped = "true" => \A r \in Runs : rpc[r] \notin Live

\* There is never more than one thread in the object's function.
OneThread == \A r, s \in Runs : rpc[r] \in Live /\ rpc[s] \in Live => r = s

\* A thread that has announced itself calls its function at most once more
\* after stop has asked it to end, hooked or not.
AtMostOneMoreCall == \A r \in Runs : late[r] <= 1

\* A thread that has announced itself when stop asks it to end does end.
AskedEnds == \A r \in Runs : r \in asked ~> rpc[r] = "gone"

\* While stop waits for the thread to end, no one makes it alive again: start's
\* wait "prevents race condition if Stop() is called too quickly after start".
StopIsHeeded == opc = "poll" => ~mAlive
==============================================================================
