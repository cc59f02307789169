---------------------------- MODULE MessageQueue ----------------------------
(***************************************************************************)
(* QyMessageQueue (qytask/qymessagequeue.cc) with the wake-up event a      *)
(* QyMessageThread gives it (QyThreadWake over the POSIX HQyEvent): posting *)
(* threads, the thread whose run calls get again and again and ends when   *)
(* get returns false, a thread that clears messages or destroys a handler, *)
(* and a controller that stops and restarts the queue with its thread.     *)
(* One action per step between two points where another thread can run;    *)
(* mCrit is a lock.                                                        *)
(***************************************************************************)
EXTENDS Naturals, Sequences, FiniteSets

CONSTANTS
    Posters,        \* threads that post
    Msgs,           \* messages that may be posted, each at most once
    Disposals,      \* the messages whose id is MQID_DISPOSE
    Handlers,       \* message handlers
    HandlerOf,      \* the handler each message is for
    ClearSets,      \* what a call clear(handler, id) may select
    DelaysOf,       \* the delays a message may be posted with, Forever for post
    Waits,          \* finite timeouts given to get and peek
    ClockMod,       \* the clock is a counter modulo this (2^32 in the code)
    MaxClock,       \* bound on elapsed time
    MaxClears,      \* bound on the calls to clear
    UsePeek,        \* does the getter call peek?
    ForeignClear,   \* may another thread than the getter clear?
    Getter, Cleaner, Free, NoMsg, Forever

ASSUME ActorsAssumption ==
    /\ Getter \notin Posters /\ Cleaner \notin Posters /\ Free \notin Posters
    /\ Getter # Cleaner /\ Getter # Free /\ Cleaner # Free

ASSUME DataAssumption ==
    /\ NoMsg \notin Msgs
    /\ Disposals \subseteq Msgs
    /\ HandlerOf \in [Msgs -> Handlers]
    /\ ClearSets \subseteq SUBSET Msgs
    /\ UsePeek \in BOOLEAN
    /\ ForeignClear \in BOOLEAN

ASSUME ClockAssumption ==
    /\ DelaysOf \in [Msgs -> SUBSET (Nat \cup {Forever})]
    /\ Waits \subseteq Nat
    /\ Forever \notin Nat
    /\ ClockMod \in Nat \ {0}
    /\ MaxClock \in Nat
    /\ MaxClears \in Nat

VARIABLES
    mStop, mActive,
    mPeekKeep, mMsgPeek,
    mMsgQueue,          \* std::queue of ready messages
    mDelayMsgQueue,     \* the messages in the priority queue
    mMsTrigger,         \* their trigger times, clock values
    mCrit,              \* who holds the critical section
    event,              \* HQyEvent.state_ of the thread's wake-up event
    now,                \* elapsed real time
    ppc, post,          \* posters: where they are, and what they post
    gpc,                \* the getter: where it is
    call,               \* the locals of the get or peek under way
    msg,                \* the message got, until it is dispatched or kept
    cpc, selected, left,    \* the cleaner: where it is, its selection, loop count
    spc,                \* the controller
    clears,             \* calls to clear so far
    fresh,              \* history: messages no one has posted yet
    posted,             \* history: messages push_back'ed by post, in order
    due,                \* history: real time before which a delayed message is not due
    handed,             \* history: messages get returned, in order
    purged,             \* history: messages whose data the queue deleted
    destroyed           \* handlers whose destructor has run

flags     == <<mStop, mActive>>
peeked    == <<mPeekKeep, mMsgPeek>>
delayed   == <<mDelayMsgQueue, mMsTrigger>>
queueVars == <<flags, peeked, mMsgQueue, delayed, mCrit>>
postVars  == <<ppc, post, fresh, posted, due>>
getVars   == <<gpc, call, msg, handed>>
clearVars == <<cpc, selected, left, clears, destroyed>>
vars == <<queueVars, event, now, postVars, getVars, clearVars, spc, purged>>
----------------------------------------------------------------------------
Up   == "up"
Down == "down"

\* qytime_get(): a uint32 of milliseconds.
Clock(t) == t % ClockMod

\* What unsigned subtraction of two clock values gives.
Elapsed(later, earlier) == (later + ClockMod - earlier) % ClockMod

MsgsOf(s) == {s[i] : i \in 1..Len(s)}

\* Every message the queue is responsible for.
Held ==
    MsgsOf(mMsgQueue) \cup mDelayMsgQueue
        \cup (IF mPeekKeep THEN {mMsgPeek} ELSE {})
        \cup (IF gpc = "keep" THEN {msg} ELSE {})

\* The locals of get: its argument, when it began, its last clock reading,
\* and whether the wait it is about to make has a timeout.
NoCall == [op |-> "none", cmsWait |-> Forever, msStart |-> 0, msCurrent |-> 0,
           timed |-> FALSE]
NoPost == [msg |-> NoMsg, delay |-> Forever]

Init ==
    /\ mStop = FALSE /\ mActive = FALSE
    /\ mPeekKeep = FALSE /\ mMsgPeek = NoMsg
    /\ mMsgQueue = <<>>
    /\ mDelayMsgQueue = {}
    /\ mMsTrigger = [m \in Msgs |-> 0]
    /\ mCrit = Free
    /\ event = Down
    /\ now = 0
    /\ ppc = [p \in Posters |-> "idle"]
    /\ post = [p \in Posters |-> NoPost]
    /\ gpc = "idle"
    /\ call = NoCall
    /\ msg = NoMsg
    /\ cpc = "idle" /\ selected = {} /\ left = 0
    /\ spc = "idle"
    /\ clears = 0
    /\ fresh = Msgs
    /\ posted = <<>>
    /\ due = [m \in Msgs |-> 0]
    /\ handed = <<>>
    /\ purged = {}
    /\ destroyed = {}
----------------------------------------------------------------------------
(* Time passes.  A postDelayed under way keeps the clock from running past *)
(* the bound before its trigger.                                           *)
InFlightDelays == {post[p].delay : p \in {q \in Posters : ppc[q] = "push"}} \ {Forever}

Tick ==
    /\ now < MaxClock
    /\ \A d \in InFlightDelays : now + d < MaxClock
    /\ now' = now + 1
    /\ UNCHANGED <<queueVars, event, postVars, getVars, clearVars, spc, purged>>
----------------------------------------------------------------------------
(* post and postDelayed; delay = Forever stands for post.                  *)

\* mStop is read before the lock is taken; a stopped queue drops the call.
PostRefused(m) ==
    /\ m \in fresh
    /\ mStop
    /\ fresh' = fresh \ {m}
    /\ UNCHANGED <<queueVars, event, now, ppc, post, posted, due, getVars,
                   clearVars, spc, purged>>

PostBegin(p, m, d) ==
    /\ ppc[p] = "idle"
    /\ m \in fresh
    /\ HandlerOf[m] \notin destroyed
    /\ d # Forever => now + d <= MaxClock
    /\ ~mStop
    /\ ppc' = [ppc EXCEPT ![p] = "push"]
    /\ post' = [post EXCEPT ![p] = [msg |-> m, delay |-> d]]
    /\ fresh' = fresh \ {m}
    /\ UNCHANGED <<queueVars, event, now, posted, due, getVars, clearVars, spc, purged>>

\* Mutant: postDelayed does not register the queue with the manager.
EnsureActiveForPostOnly(d) == mActive' = (mActive \/ d = Forever)

\* ensureActive: the manager learns of the queue at the first post.
EnsureActive(d) == mActive' = TRUE

\* Under mCrit: ensureActive, then push on one of the two queues.
PostPush(p) ==
    LET m == post[p].msg
        d == post[p].delay
    IN /\ ppc[p] = "push"
       /\ mCrit = Free
       /\ mCrit' = p
       /\ EnsureActive(d)
       /\ \/ /\ d = Forever
             /\ mMsgQueue' = Append(mMsgQueue, m)
             /\ posted' = Append(posted, m)
             /\ UNCHANGED <<delayed, due>>
          \/ /\ d # Forever
             /\ mDelayMsgQueue' = mDelayMsgQueue \cup {m}
             /\ mMsTrigger' = [mMsTrigger EXCEPT ![m] = Clock(now + d)]
             /\ due' = [due EXCEPT ![m] = now + d]
             /\ UNCHANGED <<mMsgQueue, posted>>
       /\ ppc' = [ppc EXCEPT ![p] = "wake"]
       /\ post' = [post EXCEPT ![p] = NoPost]
       /\ UNCHANGED <<mStop, peeked, event, now, fresh, getVars, clearVars, spc, purged>>

\* wake() sets the event; then the locker goes out of scope.
PostWake(p) ==
    /\ ppc[p] = "wake"
    /\ event' = Up
    /\ mCrit' = Free
    /\ ppc' = [ppc EXCEPT ![p] = "idle"]
    /\ UNCHANGED <<flags, peeked, mMsgQueue, delayed, now, post, fresh, posted, due,
                   getVars, clearVars, spc, purged>>
----------------------------------------------------------------------------
(* QyMessageThread::stop and start: the queue's, and the QyThread's.       *)

\* Mutant: stop sets the flag and wakes nobody.
StopSetOnly ==
    /\ spc \in {"idle", "stopped"}
    /\ mStop' = TRUE
    /\ spc' = "thread"
    /\ UNCHANGED <<mActive, peeked, mMsgQueue, delayed, mCrit, event, now, postVars,
                   getVars, clearVars, purged>>

StopSet ==
    /\ spc \in {"idle", "stopped"}
    /\ mStop' = TRUE
    /\ spc' = "wake"
    /\ UNCHANGED <<mActive, peeked, mMsgQueue, delayed, mCrit, event, now, postVars,
                   getVars, clearVars, purged>>

StopWake ==
    /\ spc = "wake"
    /\ event' = Up
    /\ spc' = "thread"
    /\ UNCHANGED <<queueVars, now, postVars, getVars, clearVars, purged>>

\* Then QyThread::stop: mAlive is FALSE from here on, and run is not called again.
StopThread ==
    /\ spc = "thread"
    /\ spc' = "join"
    /\ UNCHANGED <<queueVars, event, now, postVars, getVars, clearVars, purged>>

\* It has seen the thread dead.
Stopped ==
    /\ spc = "join"
    /\ gpc = "ended"
    /\ spc' = "stopped"
    /\ UNCHANGED <<queueVars, event, now, postVars, getVars, clearVars, purged>>

\* The queue takes posts again, and a new thread calls run.
Start ==
    /\ spc = "stopped"
    /\ mStop' = FALSE
    /\ gpc' = "idle"
    /\ spc' = "idle"
    /\ UNCHANGED <<mActive, peeked, mMsgQueue, delayed, mCrit, event, now, postVars,
                   call, msg, handed, clearVars, purged>>
----------------------------------------------------------------------------
(* get and peek.                                                           *)

\* When clear is the getter's own call, the two do not overlap.
MayGet == ForeignClear \/ cpc = "idle"

\* A message kept by peek is returned first, without lock or wait.
GetKept ==
    /\ gpc = "idle" /\ MayGet
    /\ mPeekKeep
    /\ gpc' = "take"
    /\ UNCHANGED <<queueVars, event, now, postVars, call, msg, handed, clearVars, spc,
                   purged>>

\* Mutant: get hands the kept message over and forgets to take the flag down.
TakeKeptAgain ==
    /\ gpc = "take"
    /\ msg' = mMsgPeek
    /\ handed' = Append(handed, mMsgPeek)
    /\ gpc' = "dispatch"
    /\ UNCHANGED <<queueVars, event, now, postVars, call, clearVars, spc, purged>>

TakeKept ==
    /\ gpc = "take"
    /\ msg' = mMsgPeek
    /\ handed' = Append(handed, mMsgPeek)
    /\ mPeekKeep' = FALSE
    /\ gpc' = "dispatch"
    /\ UNCHANGED <<flags, mMsgPeek, mMsgQueue, delayed, mCrit, event, now, postVars,
                   call, clearVars, spc, purged>>

GetCall(op, w) ==
    /\ gpc = "idle" /\ MayGet
    /\ ~mPeekKeep
    /\ op = "peek" => UsePeek
    /\ call' = [op |-> op, cmsWait |-> w, msStart |-> Clock(now),
                msCurrent |-> Clock(now), timed |-> FALSE]
    /\ gpc' = "lock"
    /\ UNCHANGED <<queueVars, event, now, postVars, msg, handed, clearVars, spc, purged>>

GetLock ==
    /\ gpc = "lock"
    /\ mCrit = Free
    /\ mCrit' = Getter
    /\ gpc' = "due"
    /\ UNCHANGED <<flags, peeked, mMsgQueue, delayed, event, now, postVars, call, msg,
                   handed, clearVars, spc, purged>>

\* The top of the priority queue: a smallest trigger, ties in any order.
Top(m) ==
    /\ m \in mDelayMsgQueue
    /\ \A n \in mDelayMsgQueue : mMsTrigger[m] <= mMsTrigger[n]

\* Mutant: the comparison is one millisecond off.
TriggeredOffByOne(m) == ~(call.msCurrent + 1 < mMsTrigger[m])

Triggered(m) == ~(call.msCurrent < mMsTrigger[m])

MoveDue(m) ==
    /\ gpc = "due"
    /\ Top(m)
    /\ Triggered(m)
    /\ mMsgQueue' = Append(mMsgQueue, m)
    /\ mDelayMsgQueue' = mDelayMsgQueue \ {m}
    /\ mMsTrigger' = [mMsTrigger EXCEPT ![m] = 0]
    /\ UNCHANGED <<flags, peeked, mCrit, event, now, postVars, getVars, clearVars, spc,
                   purged>>

NoneDue ==
    /\ gpc = "due"
    /\ \A m \in mDelayMsgQueue : Top(m) => ~Triggered(m)
    /\ gpc' = "pop"
    /\ UNCHANGED <<queueVars, event, now, postVars, call, msg, handed, clearVars, spc,
                   purged>>

\* MQID_DISPOSE: its data is deleted here and the loop goes on.
Dispose ==
    /\ gpc = "pop"
    /\ mMsgQueue # <<>>
    /\ Head(mMsgQueue) \in Disposals
    /\ purged' = purged \cup {Head(mMsgQueue)}
    /\ mMsgQueue' = Tail(mMsgQueue)
    /\ UNCHANGED <<flags, peeked, delayed, mCrit, event, now, postVars, getVars,
                   clearVars, spc>>

PopPosted ==
    /\ gpc = "pop"
    /\ mMsgQueue # <<>>
    /\ Head(mMsgQueue) \notin Disposals
    /\ msg' = Head(mMsgQueue)
    /\ mMsgQueue' = Tail(mMsgQueue)
    /\ mCrit' = Free
    /\ call' = NoCall
    /\ \/ /\ call.op = "get"
          /\ handed' = Append(handed, Head(mMsgQueue))
          /\ gpc' = "dispatch"
       \/ /\ call.op = "peek"
          /\ gpc' = "keep"
          /\ UNCHANGED handed
    /\ UNCHANGED <<flags, peeked, delayed, event, now, postVars, clearVars, spc, purged>>

\* Mutant: peek raises the flag without storing the message.
KeepPeekFlagOnly ==
    /\ gpc = "keep"
    /\ mPeekKeep' = TRUE
    /\ msg' = NoMsg
    /\ gpc' = "idle"
    /\ UNCHANGED <<flags, mMsgPeek, mMsgQueue, delayed, mCrit, event, now, postVars,
                   call, handed, clearVars, spc, purged>>

\* peek: what get returned is kept, outside the critical section.
KeepPeek ==
    /\ gpc = "keep"
    /\ mMsgPeek' = msg
    /\ mPeekKeep' = TRUE
    /\ msg' = NoMsg
    /\ gpc' = "idle"
    /\ UNCHANGED <<flags, mMsgQueue, delayed, mCrit, event, now, postVars, call, handed,
                   clearVars, spc, purged>>

\* Mutant: the wait ignores the next delayed message.
WaitIsTimedByCallerOnly == call.cmsWait # Forever

\* The shorter of the delay wait and the asked wait.
WaitIsTimed == mDelayMsgQueue # {} \/ call.cmsWait # Forever

\* Nothing ready: leave the critical section knowing whether a delayed
\* message or the caller bounds the wait.
QueueEmpty ==
    /\ gpc = "pop"
    /\ mMsgQueue = <<>>
    /\ call' = [call EXCEPT !.timed = WaitIsTimed]
    /\ mCrit' = Free
    /\ gpc' = "stopcheck"
    /\ UNCHANGED <<flags, peeked, mMsgQueue, delayed, event, now, postVars, msg, handed,
                   clearVars, spc, purged>>

\* The call that run makes of get; the others are made by handlers.
CalledByRun == call.op = "get" /\ call.cmsWait = Forever

\* get and peek return false: run returns kTResExit, and the thread ends.
GetFalse ==
    /\ gpc = "stopcheck"
    /\ mStop
    /\ gpc' = IF CalledByRun THEN "ended" ELSE "idle"
    /\ call' = NoCall
    /\ UNCHANGED <<queueVars, event, now, postVars, msg, handed, clearVars, spc, purged>>

\* Mutant: QyThreadWake::wait resets the event first, and then waits.
NotStoppedThenReset ==
    /\ gpc = "stopcheck"
    /\ ~mStop
    /\ gpc' = "wait"
    /\ event' = Down
    /\ UNCHANGED <<queueVars, now, postVars, call, msg, handed, clearVars, spc, purged>>

NotStopped ==
    /\ gpc = "stopcheck"
    /\ ~mStop
    /\ gpc' = "wait"
    /\ UNCHANGED <<queueVars, event, now, postVars, call, msg, handed, clearVars, spc,
                   purged>>

\* qythread_waitEvent takes the event down whatever made it return.
WaitReturns ==
    /\ gpc = "wait"
    /\ event' = Down
    /\ gpc' = "reset"
    /\ UNCHANGED <<queueVars, now, postVars, call, msg, handed, clearVars, spc, purged>>

EventWait    == event = Up /\ WaitReturns
\* A timed wait may return long before its time: tv_nsec is computed too small.
WaitTimeout  == event = Down /\ call.timed /\ WaitReturns
\* pthread_cond_wait may return for no reason, and is not called again.
SpuriousWake == event = Down /\ ~call.timed /\ WaitReturns

\* QyThreadWake::wait resets the event once more after the wait.
ResetEvent ==
    /\ gpc = "reset"
    /\ event' = Down
    /\ gpc' = "clock"
    /\ UNCHANGED <<queueVars, now, postVars, call, msg, handed, clearVars, spc, purged>>

TimeIsUp ==
    call.cmsWait # Forever /\ Elapsed(Clock(now), call.msStart) >= call.cmsWait

ReadClock ==
    /\ gpc = "clock"
    /\ \/ TimeIsUp /\ gpc' = "idle" /\ call' = NoCall
       \/ ~TimeIsUp /\ gpc' = "lock" /\ call' = [call EXCEPT !.msCurrent = Clock(now)]
    /\ UNCHANGED <<queueVars, event, now, postVars, msg, handed, clearVars, spc, purged>>

\* dispatch: the handler runs without the critical section.  Then run is called
\* again, if QyThread's mAlive still says so.
Dispatch ==
    /\ gpc = "dispatch"
    /\ MayGet
    /\ msg' = NoMsg
    /\ gpc' = IF spc = "join" THEN "ended" ELSE "idle"
    /\ UNCHANGED <<queueVars, event, now, postVars, call, handed, clearVars, spc, purged>>

\* A handler that has called peek or get itself returns to a thread told to end.
HandlerReturns ==
    /\ gpc = "idle" /\ MayGet
    /\ UsePeek
    /\ spc = "join"
    /\ gpc' = "ended"
    /\ UNCHANGED <<queueVars, event, now, postVars, call, msg, handed, clearVars, spc,
                   purged>>
----------------------------------------------------------------------------
(* clear(handler, id), and ~QyMessageHandler, which has the manager clear  *)
(* every active queue of the handler's messages.                           *)

MayClear == ForeignClear \/ gpc \in {"idle", "dispatch", "ended"}

ClearCall(S) ==
    /\ cpc = "idle" /\ MayClear
    /\ clears < MaxClears
    /\ clears' = clears + 1
    /\ selected' = S
    /\ cpc' = "lock"
    /\ UNCHANGED <<queueVars, event, now, postVars, getVars, left, destroyed, spc, purged>>

\* No one posts to a handler that is being destroyed; the queue is in the
\* manager's list from the first post on.
DestroyHandler(h) ==
    /\ cpc = "idle" /\ MayClear
    /\ clears < MaxClears
    /\ \A p \in Posters : ppc[p] = "push" => HandlerOf[post[p].msg] # h
    /\ clears' = clears + 1
    /\ destroyed' = destroyed \cup {h}
    /\ \/ /\ mActive
          /\ selected' = {m \in Msgs : HandlerOf[m] = h}
          /\ cpc' = "lock"
       \/ ~mActive /\ UNCHANGED <<selected, cpc>>
    /\ UNCHANGED <<queueVars, event, now, postVars, getVars, left, spc, purged>>

\* Mutant: the loop is "while (--c != 0)".
RotationsOffByOne == IF mMsgQueue = <<>> THEN 0 ELSE Len(mMsgQueue) - 1

\* "size_t c = mMsgQueue.size(); while (c-- != 0)".
Rotations == Len(mMsgQueue)

\* Enter, drop the kept message if selected, note the length.
ClearEnter ==
    LET kept == mPeekKeep /\ mMsgPeek \in selected
    IN /\ cpc = "lock"
       /\ mCrit = Free
       /\ mCrit' = Cleaner
       /\ mPeekKeep' = (mPeekKeep /\ ~kept)
       /\ purged' = IF kept THEN purged \cup {mMsgPeek} ELSE purged
       /\ left' = Rotations
       /\ cpc' = "rotate"
       /\ UNCHANGED <<flags, mMsgPeek, mMsgQueue, delayed, event, now, postVars, getVars,
                      selected, clears, destroyed, spc>>

\* Each message goes through the front once: deleted, or back in at the end.
ClearRotate ==
    LET m == Head(mMsgQueue)
    IN /\ cpc = "rotate"
       /\ left # 0
       /\ left' = left - 1
       /\ IF m \in selected
          THEN /\ mMsgQueue' = Tail(mMsgQueue)
               /\ purged' = purged \cup {m}
          ELSE /\ mMsgQueue' = Append(Tail(mMsgQueue), m)
               /\ UNCHANGED purged
       /\ UNCHANGED <<flags, peeked, delayed, mCrit, event, now, postVars, getVars, cpc,
                      selected, clears, destroyed, spc>>

\* Mutant: only the handler's messages should go, and all delayed ones do.
KeptDelayedNone == {}

\* Mutant: clear forgets the priority queue.
KeptDelayedAll == mDelayMsgQueue

KeptDelayed == mDelayMsgQueue \ selected

\* The priority queue is emptied and refilled with what is kept.
ClearDelayed ==
    /\ cpc = "rotate"
    /\ left = 0
    /\ mDelayMsgQueue' = KeptDelayed
    /\ purged' = purged \cup (mDelayMsgQueue \cap selected)
    /\ mCrit' = Free
    /\ selected' = {}
    /\ cpc' = "idle"
    /\ UNCHANGED <<flags, peeked, mMsgQueue, mMsTrigger, event, now, postVars, getVars,
                   left, clears, destroyed, spc>>
----------------------------------------------------------------------------
PostNext ==
    \/ \E m \in Msgs : PostRefused(m)
    \/ \E p \in Posters, m \in Msgs : \E d \in DelaysOf[m] : PostBegin(p, m, d)
    \/ \E p \in Posters : PostPush(p) \/ PostWake(p)

GetNext ==
    \/ GetKept \/ TakeKept
    \/ \E op \in {"get", "peek"}, w \in Waits \cup {Forever} : GetCall(op, w)
    \/ GetLock
    \/ \E m \in Msgs : MoveDue(m)
    \/ NoneDue \/ Dispose \/ PopPosted \/ KeepPeek \/ QueueEmpty
    \/ GetFalse \/ NotStopped
    \/ EventWait \/ WaitTimeout \/ SpuriousWake
    \/ ResetEvent \/ ReadClock \/ Dispatch \/ HandlerReturns

ClearNext ==
    \/ \E S \in ClearSets : ClearCall(S)
    \/ \E h \in Handlers : DestroyHandler(h)
    \/ ClearEnter \/ ClearRotate \/ ClearDelayed

Next ==
    \/ Tick
    \/ PostNext
    \/ StopSet \/ StopWake \/ StopThread \/ Stopped \/ Start
    \/ GetNext
    \/ ClearNext

Spec == Init /\ [][Next]_vars

(* Threads that can take a step take it, time passes, and the thread that  *)
(* owns the queue calls get again and again until it ends.  Nothing        *)
(* obliges anyone to post, stop, restart or clear.                         *)
Fairness ==
    /\ WF_vars(Tick)
    /\ WF_vars(\E p \in Posters : PostPush(p) \/ PostWake(p))
    /\ WF_vars(StopWake \/ StopThread \/ Stopped)
    /\ WF_vars(GetKept \/ GetCall("get", Forever))
    /\ WF_vars(\/ TakeKept \/ GetLock \/ NoneDue \/ Dispose \/ PopPosted \/ KeepPeek
               \/ QueueEmpty \/ GetFalse \/ NotStopped \/ EventWait \/ WaitTimeout
               \/ ResetEvent \/ ReadClock \/ Dispatch \/ \E m \in Msgs : MoveDue(m))
    /\ WF_vars(ClearEnter \/ ClearRotate \/ ClearDelayed)

FairSpec == Spec /\ Fairness
----------------------------------------------------------------------------
(* Correctness.                                                            *)

Posting == [msg : Msgs \cup {NoMsg}, delay : Nat \cup {Forever}]

QueueTypeOK ==
    /\ mStop \in BOOLEAN /\ mActive \in BOOLEAN /\ mPeekKeep \in BOOLEAN
    /\ mMsgPeek \in Msgs \cup {NoMsg}
    /\ mPeekKeep \/ gpc = "take" => mMsgPeek \in Msgs
    /\ mMsgQueue \in Seq(Msgs)
    /\ mDelayMsgQueue \subseteq Msgs
    /\ mMsTrigger \in [Msgs -> Nat]
    /\ mCrit \in Posters \cup {Getter, Cleaner, Free}
    /\ event \in {Up, Down}
    /\ now \in Nat
    /\ spc \in {"idle", "wake", "thread", "join", "stopped"}

PostTypeOK ==
    /\ ppc \in [Posters -> {"idle", "push", "wake"}]
    /\ post \in [Posters -> Posting]
    /\ \A p \in Posters : ppc[p] = "push" => post[p].msg \in Msgs
    /\ fresh \subseteq Msgs
    /\ posted \in Seq(Msgs)
    /\ due \in [Msgs -> Nat]

GetTypeOK ==
    /\ gpc \in {"idle", "take", "lock", "due", "pop", "keep", "stopcheck", "wait",
                "reset", "clock", "dispatch", "ended"}
    /\ call \in [op : {"none", "get", "peek"}, cmsWait : Waits \cup {Forever},
                 msStart : Nat, msCurrent : Nat, timed : BOOLEAN]
    /\ gpc \in {"lock", "due", "pop", "stopcheck", "wait", "reset", "clock"}
          => call.op # "none"
    /\ msg \in Msgs \cup {NoMsg}
    /\ gpc \in {"keep", "dispatch"} => msg \in Msgs
    /\ handed \in Seq(Msgs)

ClearTypeOK ==
    /\ cpc \in {"idle", "lock", "rotate"}
    /\ selected \subseteq Msgs
    /\ left \in Nat
    /\ clears \in Nat
    /\ destroyed \subseteq Handlers
    /\ purged \subseteq Msgs

\* Every variable stays within its type, and the locals that hold a message do
\* where the code reads them.
TypeOK == QueueTypeOK /\ PostTypeOK /\ GetTypeOK /\ ClearTypeOK

\* Some thread is about to set the event.
WakeComing == spc = "wake" \/ \E p \in Posters : ppc[p] = "wake"

\* The getter never goes to sleep on work: once it has found the queues empty,
\* a message that appears, a delayed message it does not know it has to time
\* its wait for, or a stop, leaves the event up or a thread about to set it
\* (get, post and QyThreadWake::wait, which resets the event twice).
NoLostWakeup ==
    /\ gpc = "wait"
    /\ mMsgQueue # <<>> \/ (mDelayMsgQueue # {} /\ ~call.timed) \/ mStop
    => event = Up \/ WakeComing

\* A delayed message is neither ready nor handed over before its time, however
\* stale the clock reading get works with.
NotEarly ==
    \A m \in Msgs :
        (m \in MsgsOf(mMsgQueue) \/ \E i \in DOMAIN handed : handed[i] = m)
            => due[m] <= now

\* Messages given to post come out in the order they went in, through peek,
\* clear's rotation of the queue, delayed messages and restarts.
FifoOrder ==
    \A i, j \in DOMAIN posted, k, l \in DOMAIN handed :
        posted[i] = handed[k] /\ posted[j] = handed[l] /\ k < l => i < j

\* Once its destructor has returned, no message for the handler is left in the
\* queue: not in a queue the manager does not know, not kept by peek, not
\* among the delayed ones.
DestroyedNotHeld ==
    cpc = "idle" => \A m \in Held : HandlerOf[m] \notin destroyed

MB == INSTANCE Mailbox WITH outside <- fresh, box <- Held

\* The queue keeps the mailbox's promise: nothing is lost, duplicated, or
\* handed over after its data was deleted.
ImplementsMailbox == MB!Spec

\* Every message the queue accepts leaves it, unless a stop ends the thread
\* first: none is forgotten in a queue nobody wakes the getter for, and what an
\* ended thread has left is served by the next.  (That what is pending comes
\* before get returns false, as qymessagequeue.h:97-99 has it, is not so of a post
\* that has read mStop before the stop and pushes after get's last look.)
Served == \A m \in Msgs : (m \in Held) ~> (m \notin Held \/ gpc = "ended")

\* "any pending Sends and *ready* Posts [...] will be delivered before Get (or
\* Peek) returns false" (qymessagequeue.h).
ReadyPostsDelivered == gpc = "ended" => mMsgQueue = <<>>

\* No handler is called after its destructor has run: "we eliminate the race
\* condition when an QyMessageHandler and QyMessageQueue may be destroyed
\* independently of each other" (qymessagequeue.h).
NoDispatchToDestroyed ==
    gpc = "dispatch" => HandlerOf[msg] \notin destroyed
=============================================================================
