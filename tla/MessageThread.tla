---------------------------- MODULE MessageThread ----------------------------
(***************************************************************************)
(* QyMessageThread (qytask/qymessagethread.cc): send runs a handler on     *)
(* another thread and waits for it to return.  The sender waits on the     *)
(* event of a QyAutoThread on its stack, and that object changes what the  *)
(* sender's thread-local storage says the current thread is.               *)
(*                                                                         *)
(* Operating system threads are the message threads, which run get in a    *)
(* loop, and clients, which have constructed and started them and only     *)
(* send.  What a handler does is the sequence of sends Calls gives for its *)
(* message; both may stop other threads between two sends.  Posted         *)
(* messages are there when the run begins; their queue is the subject of   *)
(* MessageQueue, the QyThread that runs the loop that of ThreadPosix.      *)
(***************************************************************************)
EXTENDS Naturals, Sequences, SequencesExt

CONSTANTS
    Threads,        \* QyMessageThreads, each with its operating system thread
    Clients,        \* other threads
    Msgs,
    Target,         \* the thread each message is sent or posted to
    Calls,          \* the sends a client, or the handler of a message, makes
    Posted,         \* messages that are posted, in any order
    Creator,        \* the client that has constructed each thread
    MayStop,        \* who may stop which thread, each pair once
    Clearable,      \* sent messages a clear may select
    Nobody, AutoThread

Systems == Threads \cup Clients

ASSUME MessageThreadAssumption ==
    /\ Threads \cap Clients = {} /\ Msgs \cap Clients = {}
    /\ Nobody \notin Systems \cup Msgs /\ AutoThread \notin Systems /\ Nobody # AutoThread
    /\ "clear" \notin Threads \cup {Nobody}
    /\ Target \in [Msgs -> Threads]
    /\ DOMAIN Calls = Msgs \cup Clients
    /\ \A x \in DOMAIN Calls : Calls[x] \in Seq(Msgs \ Posted)
    /\ Posted \subseteq Msgs /\ Clearable \subseteq Msgs
    /\ Creator \in [Threads -> Clients]
    /\ MayStop \subseteq {w \in Systems \X Threads : w[1] # w[2]}

VARIABLES
    mStop,
    mAlive,             \* QyThread's flag: run is to be called again
    stopping, stopAt,   \* the thread each system thread is stopping; how far it is
    stopped,            \* history: who has stopped which thread
    mMsgSends, mHasSends,
    posts,          \* the posted messages still queued
    mCrit,              \* per message thread: Nobody, the thread, or "clear"
    event,              \* its wake-up event is up
    lpc,                \* where its loop is
    stack,              \* the calls under way on each system thread, innermost last
    tls,                \* the QyMessageThread each system thread says is current
    spc,                \* where each send is
    ready, reply,       \* the flag and the event the sender waits for
    clearing,           \* the send a clear has erased and not yet woken
    handled,            \* history: how often each message's handler has returned
    cleared             \* history: sends a clear has erased

stopVars == <<mStop, mAlive, stopping, stopAt, stopped>>
loopVars == <<lpc, event>>
sendVars == <<spc, ready, reply>>
history  == <<handled, cleared>>
vars == <<stopVars, mMsgSends, mHasSends, posts, mCrit, loopVars, stack, tls,
          sendVars, clearing, history>>

\* The constructor makes the first thread a client has constructed current there.
FirstCreated(o) ==
    IF \E t \in Threads : Creator[t] = o THEN {t \in Threads : Creator[t] = o} ELSE {Nobody}

Init ==
    /\ mStop = [t \in Threads |-> FALSE]
    /\ mAlive = [t \in Threads |-> TRUE]
    /\ stopping = [o \in Systems |-> Nobody]
    /\ stopAt = [o \in Systems |-> "idle"]
    /\ stopped = {}
    /\ mMsgSends = [t \in Threads |-> <<>>]
    /\ mHasSends = [t \in Threads |-> FALSE]
    /\ posts = Posted
    /\ mCrit = [t \in Threads |-> Nobody]
    /\ event = [t \in Threads |-> FALSE]
    /\ lpc = [t \in Threads |-> "prerun"]
    /\ stack = [o \in Systems |-> IF o \in Clients THEN <<[of |-> o, next |-> 1]>> ELSE <<>>]
    /\ tls \in [Systems -> Threads \cup {Nobody}]
    /\ \A o \in Systems : tls[o] \in FirstCreated(o)
    /\ spc = [m \in Msgs |-> "unsent"]
    /\ ready = [m \in Msgs |-> FALSE]
    /\ reply = [m \in Msgs |-> FALSE]
    /\ clearing = Nobody
    /\ handled = [m \in Msgs |-> 0]
    /\ cleared = {}
----------------------------------------------------------------------------
(* Calls on a system thread.                                               *)

Frame(m) == [of |-> m, next |-> 1]

\* The send the innermost call of o has come to, if any.
Current(o) ==
    IF stack[o] = <<>> THEN {}
    ELSE LET f == Last(stack[o])
         IN {Calls[f.of][i] : i \in {f.next} \cap DOMAIN Calls[f.of]}

Calling(o, m) == m \in Current(o)

\* The innermost call of o has made all its sends.
AtEnd(o) ==
    /\ stack[o] # <<>>
    /\ LET f == Last(stack[o]) IN f.next > Len(Calls[f.of])

\* The stack when the innermost call is done with its current send.
Advance(s) == [s EXCEPT ![Len(s)].next = @ + 1]
----------------------------------------------------------------------------
(* send.                                                                   *)

SendRefused(o, m) ==
    /\ Calling(o, m)
    /\ spc[m] = "unsent"
    /\ mStop[Target[m]]
    /\ spc' = [spc EXCEPT ![m] = "refused"]
    /\ stack' = [stack EXCEPT ![o] = Advance(@)]
    /\ UNCHANGED <<stopVars, mMsgSends, mHasSends, posts, mCrit, loopVars, tls,
                   ready, reply, clearing, history>>

\* Mutant: any current QyMessageThread will do.
IsCurrentSomewhere(o, t) == tls[o] # Nobody

IsCurrent(o, t) == tls[o] = t

\* In the right context the handler is called directly.
SendDirect(o, m) ==
    /\ Calling(o, m)
    /\ spc[m] = "unsent"
    /\ ~mStop[Target[m]]
    /\ IsCurrent(o, Target[m])
    /\ spc' = [spc EXCEPT ![m] = "direct"]
    /\ stack' = [stack EXCEPT ![o] = Append(@, Frame(m))]
    /\ UNCHANGED <<stopVars, mMsgSends, mHasSends, posts, mCrit, loopVars, tls,
                   ready, reply, clearing, history>>

\* Otherwise a QyAutoThread is built, and makes itself current.
SendBegin(o, m) ==
    /\ Calling(o, m)
    /\ spc[m] = "unsent"
    /\ ~mStop[Target[m]]
    /\ ~IsCurrent(o, Target[m])
    /\ spc' = [spc EXCEPT ![m] = "push"]
    /\ tls' = [tls EXCEPT ![o] = AutoThread]
    /\ UNCHANGED <<stopVars, mMsgSends, mHasSends, posts, mCrit, loopVars, stack,
                   ready, reply, clearing, history>>

SendPush(m) ==
    LET t == Target[m]
    IN /\ spc[m] = "push"
       /\ mCrit[t] = Nobody
       /\ mMsgSends' = [mMsgSends EXCEPT ![t] = Append(@, m)]
       /\ mHasSends' = [mHasSends EXCEPT ![t] = TRUE]
       /\ spc' = [spc EXCEPT ![m] = "wake"]
       /\ UNCHANGED <<stopVars, posts, mCrit, loopVars, stack, tls, ready, reply,
                      clearing, history>>

SendWake(m) ==
    /\ spc[m] = "wake"
    /\ event' = [event EXCEPT ![Target[m]] = TRUE]
    /\ spc' = [spc EXCEPT ![m] = "check"]
    /\ UNCHANGED <<stopVars, mMsgSends, mHasSends, posts, mCrit, lpc, stack, tls,
                   ready, reply, clearing, history>>

\* "while (!ready)": without a lock.
SendCheck(m) ==
    /\ spc[m] = "check"
    /\ ~ready[m]
    /\ spc' = [spc EXCEPT ![m] = "wait"]
    /\ UNCHANGED <<stopVars, mMsgSends, mHasSends, posts, mCrit, loopVars, stack,
                   tls, ready, reply, clearing, history>>

SendWaitReturns(m) ==
    /\ spc[m] = "wait"
    /\ reply' = [reply EXCEPT ![m] = FALSE]
    /\ spc' = [spc EXCEPT ![m] = "reset"]
    /\ UNCHANGED <<stopVars, mMsgSends, mHasSends, posts, mCrit, loopVars, stack,
                   tls, ready, clearing, history>>

SendWoken(m)    == reply[m] /\ SendWaitReturns(m)
SendSpurious(m) == ~reply[m] /\ SendWaitReturns(m)

\* Mutant: ready is looked at before the first wait only.
SendResetWaitAgain(m) ==
    /\ spc[m] = "reset"
    /\ reply' = [reply EXCEPT ![m] = FALSE]
    /\ spc' = [spc EXCEPT ![m] = "wait"]
    /\ UNCHANGED <<stopVars, mMsgSends, mHasSends, posts, mCrit, loopVars, stack,
                   tls, ready, clearing, history>>

\* QyThreadWake::wait resets the event a second time.
SendReset(m) ==
    /\ spc[m] = "reset"
    /\ reply' = [reply EXCEPT ![m] = FALSE]
    /\ spc' = [spc EXCEPT ![m] = "check"]
    /\ UNCHANGED <<stopVars, mMsgSends, mHasSends, posts, mCrit, loopVars, stack,
                   tls, ready, clearing, history>>

\* The QyAutoThread goes: its destructor leaves no current thread.
SendReturn(o, m) ==
    /\ Calling(o, m)
    /\ spc[m] = "check"
    /\ ready[m]
    /\ spc' = [spc EXCEPT ![m] = "returned"]
    /\ reply' = [reply EXCEPT ![m] = FALSE]
    /\ tls' = [tls EXCEPT ![o] = Nobody]
    /\ stack' = [stack EXCEPT ![o] = Advance(@)]
    /\ UNCHANGED <<stopVars, mMsgSends, mHasSends, posts, mCrit, loopVars, ready,
                   clearing, history>>
----------------------------------------------------------------------------
(* The loop of a message thread: preRun, get, onSendMessage, dispatch.     *)

PreRun(t) ==
    /\ lpc[t] = "prerun"
    /\ tls' = [tls EXCEPT ![t] = t]
    /\ lpc' = [lpc EXCEPT ![t] = "sends"]
    /\ UNCHANGED <<stopVars, mMsgSends, mHasSends, posts, mCrit, event, stack,
                   sendVars, clearing, history>>

\* Mutant: the first send is handled and stays in the list.
TakeSendLeaveIt(t) ==
    /\ \/ lpc[t] = "sends" /\ mCrit[t] = Nobody /\ mHasSends[t]
       \/ lpc[t] = "more"
    /\ mMsgSends[t] # <<>>
    /\ stack' = [stack EXCEPT ![t] = <<Frame(Head(mMsgSends[t]))>>]
    /\ mCrit' = [mCrit EXCEPT ![t] = Nobody]
    /\ lpc' = [lpc EXCEPT ![t] = "handling"]
    /\ UNCHANGED <<stopVars, mMsgSends, mHasSends, posts, event, tls, sendVars,
                   clearing, history>>

\* The first send is taken off the list, and its handler called without mCrit.
TakeSend(t) ==
    /\ \/ lpc[t] = "sends" /\ mCrit[t] = Nobody /\ mHasSends[t]
       \/ lpc[t] = "more"
    /\ mMsgSends[t] # <<>>
    /\ mMsgSends' = [mMsgSends EXCEPT ![t] = Tail(@)]
    /\ stack' = [stack EXCEPT ![t] = <<Frame(Head(mMsgSends[t]))>>]
    /\ mCrit' = [mCrit EXCEPT ![t] = Nobody]
    /\ lpc' = [lpc EXCEPT ![t] = "handling"]
    /\ UNCHANGED <<stopVars, mHasSends, posts, event, tls, sendVars, clearing,
                   history>>

\* Mutant: "if", where the code has "while (!mMsgSends.empty())".
NoMoreSendsAfterOne(t) ==
    /\ \/ lpc[t] = "sends" /\ mCrit[t] = Nobody /\ (mHasSends[t] => mMsgSends[t] = <<>>)
       \/ lpc[t] = "more"
    /\ mHasSends' = [mHasSends EXCEPT ![t] = FALSE]
    /\ mCrit' = [mCrit EXCEPT ![t] = Nobody]
    /\ lpc' = [lpc EXCEPT ![t] = "queue"]
    /\ UNCHANGED <<stopVars, mMsgSends, posts, event, stack, tls, sendVars,
                   clearing, history>>

NoMoreSends(t) ==
    /\ \/ lpc[t] = "sends" /\ mCrit[t] = Nobody /\ (mHasSends[t] => mMsgSends[t] = <<>>)
       \/ lpc[t] = "more" /\ mMsgSends[t] = <<>>
    /\ mHasSends' = [mHasSends EXCEPT ![t] = FALSE]
    /\ mCrit' = [mCrit EXCEPT ![t] = Nobody]
    /\ lpc' = [lpc EXCEPT ![t] = "queue"]
    /\ UNCHANGED <<stopVars, mMsgSends, posts, event, stack, tls, sendVars,
                   clearing, history>>

\* A handler called directly returns to the send that called it.
DirectReturns(o) ==
    /\ Len(stack[o]) > 1
    /\ AtEnd(o)
    /\ LET m == Last(stack[o]).of
       IN /\ handled' = [handled EXCEPT ![m] = @ + 1]
          /\ spc' = [spc EXCEPT ![m] = "returned"]
    /\ stack' = [stack EXCEPT ![o] = Advance(Front(@))]
    /\ UNCHANGED <<stopVars, mMsgSends, mHasSends, posts, mCrit, loopVars, tls,
                   ready, reply, clearing, cleared>>

\* "*msg.ready = true", with mCrit held again ...
Reply(t) ==
    /\ lpc[t] = "handling"
    /\ Len(stack[t]) = 1 /\ AtEnd(t)
    /\ mCrit[t] = Nobody
    /\ LET m == Head(stack[t]).of
       IN /\ ready' = [ready EXCEPT ![m] = TRUE]
          /\ handled' = [handled EXCEPT ![m] = @ + 1]
    /\ mCrit' = [mCrit EXCEPT ![t] = t]
    /\ lpc' = [lpc EXCEPT ![t] = "reply"]
    /\ UNCHANGED <<stopVars, mMsgSends, mHasSends, posts, event, stack, tls, spc,
                   reply, clearing, cleared>>

\* A sender that found ready set has returned, and its QyAutoThread with it:
\* the wake-up then goes to memory that is no longer an event.
Woken(m) == spc[m] # "returned"

\* ... then "msg.thread->wake()".
ReplyWake(t) ==
    /\ lpc[t] = "reply"
    /\ LET m == Head(stack[t]).of IN reply' = [reply EXCEPT ![m] = Woken(m)]
    /\ stack' = [stack EXCEPT ![t] = <<>>]
    /\ lpc' = [lpc EXCEPT ![t] = "more"]
    /\ UNCHANGED <<stopVars, mMsgSends, mHasSends, posts, mCrit, event, tls, spc,
                   ready, clearing, history>>

\* get returns a posted message, and run dispatches it.
TakePosted(t, m) ==
    /\ lpc[t] = "queue"
    /\ mCrit[t] = Nobody
    /\ m \in posts /\ Target[m] = t
    /\ posts' = posts \ {m}
    /\ stack' = [stack EXCEPT ![t] = <<Frame(m)>>]
    /\ lpc' = [lpc EXCEPT ![t] = "dispatch"]
    /\ UNCHANGED <<stopVars, mMsgSends, mHasSends, mCrit, event, tls, sendVars,
                   clearing, history>>

\* run returns to QyThread, which calls it again unless stop has told it not to.
DispatchReturns(t) ==
    /\ lpc[t] = "dispatch"
    /\ Len(stack[t]) = 1 /\ AtEnd(t)
    /\ handled' = [handled EXCEPT ![Head(stack[t]).of] = @ + 1]
    /\ stack' = [stack EXCEPT ![t] = <<>>]
    /\ lpc' = [lpc EXCEPT ![t] = IF mAlive[t] THEN "prerun" ELSE "exited"]
    /\ UNCHANGED <<stopVars, mMsgSends, mHasSends, posts, mCrit, event, tls,
                   sendVars, clearing, cleared>>

QueueEmpty(t) ==
    /\ lpc[t] = "queue"
    /\ mCrit[t] = Nobody
    /\ \A m \in posts : Target[m] # t
    /\ lpc' = [lpc EXCEPT ![t] = "stopcheck"]
    /\ UNCHANGED <<stopVars, mMsgSends, mHasSends, posts, mCrit, event, stack, tls,
                   sendVars, clearing, history>>

\* get returns false, and run ends the thread.
GetFalse(t) ==
    /\ lpc[t] = "stopcheck"
    /\ mStop[t]
    /\ lpc' = [lpc EXCEPT ![t] = "exited"]
    /\ mAlive' = [mAlive EXCEPT ![t] = FALSE]
    /\ UNCHANGED <<mStop, stopping, stopAt, stopped, mMsgSends, mHasSends, posts, mCrit, event,
                   stack, tls, sendVars, clearing, history>>

NotStopped(t) ==
    /\ lpc[t] = "stopcheck"
    /\ ~mStop[t]
    /\ lpc' = [lpc EXCEPT ![t] = "wait"]
    /\ UNCHANGED <<stopVars, mMsgSends, mHasSends, posts, mCrit, event, stack, tls,
                   sendVars, clearing, history>>

WaitReturns(t) ==
    /\ lpc[t] = "wait"
    /\ event' = [event EXCEPT ![t] = FALSE]
    /\ lpc' = [lpc EXCEPT ![t] = "reset"]
    /\ UNCHANGED <<stopVars, mMsgSends, mHasSends, posts, mCrit, stack, tls,
                   sendVars, clearing, history>>

LoopWoken(t)    == event[t] /\ WaitReturns(t)
LoopSpurious(t) == ~event[t] /\ WaitReturns(t)

ResetEvent(t) ==
    /\ lpc[t] = "reset"
    /\ event' = [event EXCEPT ![t] = FALSE]
    /\ lpc' = [lpc EXCEPT ![t] = "sends"]
    /\ UNCHANGED <<stopVars, mMsgSends, mHasSends, posts, mCrit, stack, tls,
                   sendVars, clearing, history>>
----------------------------------------------------------------------------
(* stop, start and clear.                                                  *)

\* o is in its own code, between two sends.
InOwnCode(o) ==
    /\ o \in Threads => lpc[o] \in {"handling", "dispatch"}
    /\ \A m \in Current(o) : spc[m] = "unsent"

StopSet(o, t) ==
    /\ <<o, t>> \in MayStop \ stopped
    /\ stopAt[o] = "idle" /\ InOwnCode(o)
    /\ mStop' = [mStop EXCEPT ![t] = TRUE]
    /\ stopping' = [stopping EXCEPT ![o] = t]
    /\ stopAt' = [stopAt EXCEPT ![o] = "wake"]
    /\ UNCHANGED <<mAlive, stopped, mMsgSends, mHasSends, posts, mCrit, loopVars, stack, tls,
                   sendVars, clearing, history>>

StopWake(o) ==
    /\ stopAt[o] = "wake"
    /\ event' = [event EXCEPT ![stopping[o]] = TRUE]
    /\ stopAt' = [stopAt EXCEPT ![o] = "thread"]
    /\ UNCHANGED <<mStop, mAlive, stopping, stopped, mMsgSends, mHasSends, posts, mCrit, lpc,
                   stack, tls, sendVars, clearing, history>>

\* It then stops the QyThread, which lets the call of run under way end ...
StopThread(o) ==
    /\ stopAt[o] = "thread"
    /\ mAlive' = [mAlive EXCEPT ![stopping[o]] = FALSE]
    /\ stopAt' = [stopAt EXCEPT ![o] = "join"]
    /\ UNCHANGED <<mStop, stopping, stopped, mMsgSends, mHasSends, posts, mCrit, loopVars,
                   stack, tls, sendVars, clearing, history>>

\* ... waits for that, ten seconds at most, and calls preRun with kTStoped on
\* the thread it is on.
StopReturns(o) ==
    /\ stopAt[o] = "join"
    /\ tls' = [tls EXCEPT ![o] = stopping[o]]
    /\ stopped' = stopped \cup {<<o, stopping[o]>>}
    /\ stopping' = [stopping EXCEPT ![o] = Nobody]
    /\ stopAt' = [stopAt EXCEPT ![o] = "idle"]
    /\ UNCHANGED <<mStop, mAlive, mMsgSends, mHasSends, posts, mCrit, loopVars, stack,
                   sendVars, clearing, history>>

\* A thread that has ended and that nobody is stopping is started again, as a new
\* system thread.
Start(t) ==
    /\ lpc[t] = "exited"
    /\ \A o \in Systems : stopping[o] # t
    /\ mStop' = [mStop EXCEPT ![t] = FALSE]
    /\ mAlive' = [mAlive EXCEPT ![t] = TRUE]
    /\ tls' = [tls EXCEPT ![t] = Nobody]
    /\ lpc' = [lpc EXCEPT ![t] = "prerun"]
    /\ UNCHANGED <<stopping, stopAt, stopped, mMsgSends, mHasSends, posts, mCrit, event,
                   stack, sendVars, clearing, history>>

\* clear erases a send under mCrit (one that selects several is several of
\* these), says it is ready ...
ClearSend(m) ==
    LET t == Target[m]
    IN /\ clearing = Nobody
       /\ mCrit[t] = Nobody
       /\ m \in Clearable
       /\ \E i \in DOMAIN mMsgSends[t] :
             /\ mMsgSends[t][i] = m
             /\ mMsgSends' = [mMsgSends EXCEPT ![t] = RemoveAt(@, i)]
       /\ ready' = [ready EXCEPT ![m] = TRUE]
       /\ mCrit' = [mCrit EXCEPT ![t] = "clear"]
       /\ clearing' = m
       /\ cleared' = cleared \cup {m}
       /\ UNCHANGED <<stopVars, mHasSends, posts, loopVars, stack, tls, spc, reply,
                      handled>>

\* ... and wakes the sender.
ClearWake ==
    /\ clearing # Nobody
    /\ reply' = [reply EXCEPT ![clearing] = Woken(clearing)]
    /\ mCrit' = [mCrit EXCEPT ![Target[clearing]] = Nobody]
    /\ clearing' = Nobody
    /\ UNCHANGED <<stopVars, mMsgSends, mHasSends, posts, loopVars, stack, tls,
                   spc, ready, history>>
----------------------------------------------------------------------------
\* What system thread o does while it sends.
SendStep(o) ==
    \/ \E m \in Current(o) :
         \/ SendRefused(o, m) \/ SendDirect(o, m) \/ SendBegin(o, m)
         \/ SendPush(m) \/ SendWake(m) \/ SendCheck(m) \/ SendWoken(m) \/ SendReset(m)
         \/ SendReturn(o, m)
    \/ DirectReturns(o)

\* What a message thread does in its loop.
LoopStep(t) ==
    \/ PreRun(t) \/ TakeSend(t) \/ NoMoreSends(t) \/ Reply(t) \/ ReplyWake(t)
    \/ \E m \in Posted : TakePosted(t, m)
    \/ DispatchReturns(t) \/ QueueEmpty(t) \/ GetFalse(t) \/ NotStopped(t)
    \/ LoopWoken(t) \/ ResetEvent(t)

\* A thread that is in stop does nothing else.
SystemStep(o) == stopAt[o] = "idle" /\ (SendStep(o) \/ (o \in Threads /\ LoopStep(o)))

StopStep(o) == StopWake(o) \/ StopThread(o) \/ StopReturns(o)

\* pthread_cond_wait may return for no reason.
Spurious == (\E m \in Msgs : SendSpurious(m)) \/ \E t \in Threads : LoopSpurious(t)

Next ==
    \/ \E o \in Systems : SystemStep(o)
    \/ Spurious
    \/ \E o \in Systems, t \in Threads : StopSet(o, t)
    \/ \E o \in Systems : StopStep(o)
    \/ \E t \in Threads : Start(t)
    \/ \E m \in Msgs : ClearSend(m)
    \/ ClearWake

Spec == Init /\ [][Next]_vars

(* Threads that can take a step take it, in a stop too; nobody has to stop *)
(* or start a thread, clear, or wake up for no reason.                     *)
Fairness ==
    /\ \A o \in Systems : WF_vars(SystemStep(o))
    /\ \A o \in {w[1] : w \in MayStop} : WF_vars(StopStep(o))
    /\ WF_vars(ClearWake)

FairSpec == Spec /\ Fairness
----------------------------------------------------------------------------
(* Correctness.                                                            *)

Busy == {"push", "wake", "check", "wait", "reset"}

Frames == [of : Msgs \cup Clients, next : Nat]

SendTypeOK ==
    /\ mMsgSends \in [Threads -> Seq(Msgs)]
    /\ mHasSends \in [Threads -> BOOLEAN]
    /\ posts \subseteq Posted
    /\ spc \in [Msgs -> Busy \cup {"unsent", "refused", "direct", "returned"}]
    /\ ready \in [Msgs -> BOOLEAN] /\ reply \in [Msgs -> BOOLEAN]
    /\ clearing \in Msgs \cup {Nobody}
    /\ handled \in [Msgs -> Nat] /\ cleared \subseteq Msgs

LoopTypeOK ==
    /\ mStop \in [Threads -> BOOLEAN]
    /\ mAlive \in [Threads -> BOOLEAN]
    /\ stopping \in [Systems -> Threads \cup {Nobody}]
    /\ stopAt \in [Systems -> {"idle", "wake", "thread", "join"}]
    /\ \A o \in Systems : IF stopAt[o] = "idle" THEN stopping[o] = Nobody
                         ELSE <<o, stopping[o]>> \in MayStop \ stopped
    /\ stopped \subseteq MayStop
    /\ mCrit \in [Threads -> Threads \cup {Nobody, "clear"}]
    /\ event \in [Threads -> BOOLEAN]
    /\ lpc \in [Threads -> {"prerun", "sends", "handling", "reply", "more", "queue",
                            "dispatch", "stopcheck", "wait", "reset", "exited"}]
    /\ stack \in [Systems -> Seq(Frames)]
    /\ tls \in [Systems -> Threads \cup {Nobody, AutoThread}]

\* The loop holds mCrit between a reply and the end of onSendMessage.
LoopCrit == \A t \in Threads : mCrit[t] = t <=> lpc[t] \in {"reply", "more"}

\* Every variable stays within its type, and mCrit has one owner at a time.
TypeOK == SendTypeOK /\ LoopTypeOK /\ LoopCrit

\* Like Win32's SendMessage, send returns when the handler has run, once; when
\* a clear took the send off the list, the handler has not run and never does.
HandledOnce ==
    \A m \in Msgs :
        /\ handled[m] <= 1
        /\ spc[m] = "returned" => (handled[m] = 1 <=> m \notin cleared)
        /\ m \in cleared => handled[m] = 0

\* A handler runs on the thread its message was sent or posted to, or is called
\* directly by a send from a thread that has constructed that thread or has stopped
\* it: the constructor and stop make it current there, and nothing undoes that.
InContext ==
    \A o \in Systems : \A i \in DOMAIN stack[o] :
        LET m == stack[o][i].of
        IN  m \in Msgs /\ Target[m] # o =>
                spc[m] = "direct" /\ (Creator[Target[m]] = o \/ <<o, Target[m]>> \in stopped)

\* A message thread does not sleep on a send or a stop: send wakes it after it
\* has left mCrit, and get looks at the sends and at the queue in two critical
\* sections, but the event is up or about to be.
NoSleepOnSends ==
    \A t \in Threads :
        /\ lpc[t] = "wait"
        /\ mMsgSends[t] # <<>> \/ mStop[t]
        => \/ event[t] \/ \E o \in Systems : stopping[o] = t /\ stopAt[o] = "wake"
           \/ \E m \in Msgs : Target[m] = t /\ spc[m] = "wake"

\* A sender does not sleep on an answer: ready is read without a lock and the
\* event is reset twice, but once ready is set the event is up or about to be.
NoLostReply ==
    \A m \in Msgs :
        spc[m] = "wait" /\ ready[m]
            => \/ reply[m] \/ clearing = m
               \/ \E t \in Threads : lpc[t] = "reply" /\ Head(stack[t]).of = m

\* The send m waits for a thread that has ended, or for one of several that wait
\* for each other, or for itself: until one is started again, or a clear helps.
Stuck(S) ==
    \A t \in S : \/ lpc[t] = "exited"
                \/ \E n \in Current(t) : spc[n] \in Busy /\ ~ready[n] /\ Target[n] \in S
Blocked(m) == ~ready[m] /\ \E S \in SUBSET Threads : Target[m] \in S /\ Stuck(S)

\* A send returns, unless it waits for a thread that has been stopped under it or
\* for a circle of handlers that send to each other, and it returns when the thread
\* is started again: there is no other way to be left waiting, with senders that
\* queue up, clears, and answers and wake-ups that are late.
EverySendReturns ==
    \A m \in Msgs \ Posted : spc[m] \in Busy ~> spc[m] \notin Busy \/ Blocked(m)

\* "If in the right context, call the handler directly": a message thread never
\* waits for itself.
DirectInContext ==
    \A t \in Threads, m \in Msgs :
        Calling(t, m) /\ Target[m] = t => spc[m] \notin Busy

\* "Sent messages are sent to the QyMessageHandler directly, in the context of
\* 'thread'" (qymessagethread.cc): every handler runs on its target's thread.
OnTarget ==
    \A o \in Systems : \A i \in DOMAIN stack[o] :
        stack[o][i].of \in Msgs => Target[stack[o][i].of] = o

\* "any pending Sends [...] will be delivered before Get (or Peek) returns
\* false" (qymessagequeue.h).
PendingSendsDelivered ==
    \A t \in Threads : lpc[t] = "exited" => mMsgSends[t] = <<>>
=============================================================================
