------------------------- MODULE MessageThreadProofs -------------------------
(***************************************************************************)
(* Theorems about MessageThread, for any threads, clients and handlers     *)
(* that send to one another.  A message is in one place of its way at a    *)
(* time: not sent, in its target's list, on top of its target's stack, or  *)
(* answered (SendInv, ListInv, FrameInv), or called directly, on one stack *)
(* (DirectInv); the thread-local current thread is the thread's own or one *)
(* that the system thread has constructed or stopped (ContextInv).         *)
(***************************************************************************)
EXTENDS MessageThread, SequenceTheorems, TLAPS

\* The sender is in the part of send from the push to its return.
Waiting == {"wake", "check", "wait", "reset"}

Before == {"unsent", "refused", "push", "direct"}

\* mCrit is the loop's from a reply to the next look at the sends, and clear's
\* from the erasing of a send to the wake-up of its sender.
CritInv ==
    /\ clearing # Nobody => mCrit[Target[clearing]] = "clear"
    /\ \A t \in Threads : mHasSends[t] \/ mMsgSends[t] = <<>>

\* The system thread o has constructed the thread t, or stopped it.
Home(o, t) == Creator[t] = o \/ <<o, t>> \in stopped

\* What the thread-local storage names is the thread itself or one it has been at
\* home in, a message is listed and taken by a loop at its target only, and called
\* directly there or at home.
ContextInv ==
    /\ \A o \in Systems : tls[o] \in {o, Nobody, AutoThread} \/ Home(o, tls[o])
    /\ \A t \in Threads : \A i \in 1..Len(mMsgSends[t]) : Target[mMsgSends[t][i]] = t
    /\ \A o \in Systems : \A i \in 1..Len(stack[o]) :
          stack[o][i].of \in Msgs =>
              Target[stack[o][i].of] = o \/ (i # 1 /\ Home(o, Target[stack[o][i].of]))

\* Below all the direct calls of a client is its own code, and of a message thread
\* the message its loop has taken, if it has.
ShapeInv ==
    /\ \A o \in Clients :
        /\ stack[o] # <<>> /\ stack[o][1].of = o
        /\ \A i \in 2..Len(stack[o]) : stack[o][i].of \in Msgs
    /\ \A t \in Threads :
        /\ stack[t] = <<>> <=> lpc[t] \notin {"handling", "reply", "dispatch"}
        /\ lpc[t] = "reply" => Len(stack[t]) = 1 /\ AtEnd(t)
        /\ \A i \in 1..Len(stack[t]) : stack[t][i].of \in Msgs

\* How far a message's handler is, by where its send is.
SendInv ==
    \A m \in Msgs :
        /\ m \in Posted => spc[m] = "unsent"
        /\ m \in posts => handled[m] = 0
        /\ m \in cleared => handled[m] = 0 /\ spc[m] \in Waiting \cup {"returned"}
        /\ handled[m] \in {0, 1}
        /\ spc[m] \in Before /\ m \notin Posted => handled[m] = 0
        /\ spc[m] \in Before => ~ready[m]
        /\ spc[m] \in Waiting =>
              IF ready[m] THEN m \notin cleared => handled[m] = 1
                          ELSE handled[m] = 0 /\ m \notin cleared
        /\ spc[m] = "returned" /\ m \notin cleared => handled[m] = 1

\* A listed send has neither been answered nor taken.
ListInv ==
    \A t \in Threads :
        /\ \A i \in 1..Len(mMsgSends[t]) :
              spc[mMsgSends[t][i]] \in Waiting /\ ~ready[mMsgSends[t][i]]
        /\ \A i, j \in 1..Len(mMsgSends[t]) : mMsgSends[t][i] = mMsgSends[t][j] => i = j

\* The message at the bottom of a thread's stack is the one its loop has taken.
FrameInv ==
    \A t \in Threads :
        LET m == stack[t][1].of
        IN /\ lpc[t] = "handling" =>
                 /\ spc[m] \in Waiting /\ ~ready[m]
                 /\ \A i \in 1..Len(mMsgSends[t]) : mMsgSends[t][i] # m
           /\ lpc[t] = "reply" => spc[m] \in Waiting \cup {"returned"} /\ ready[m]
           /\ lpc[t] = "dispatch" => m \in Posted \ posts /\ handled[m] = 0

\* Those above the bottom of any stack are each called directly, on one stack, once.
DirectInv ==
    /\ \A o \in Systems : \A i \in 2..Len(stack[o]) : spc[stack[o][i].of] = "direct"
    /\ \A o, p \in Systems : \A i \in 2..Len(stack[o]), j \in 2..Len(stack[p]) :
          stack[o][i].of = stack[p][j].of => o = p /\ i = j

\* NoSleepOnSends, from the last look at the sends on.
AwakeInv ==
    \A t \in Threads :
        /\ lpc[t] \in {"queue", "stopcheck", "wait"} /\ mMsgSends[t] # <<>>
              => event[t] \/ \E m \in Msgs : Target[m] = t /\ spc[m] = "wake"
        /\ lpc[t] = "wait" /\ mStop[t]
              => event[t] \/ \E o \in Systems : stopping[o] = t /\ stopAt[o] = "wake"

IInv ==
    TypeOK /\ CritInv /\ ContextInv /\ ShapeInv /\ SendInv /\ ListInv /\ FrameInv
        /\ DirectInv /\ NoLostReply /\ AwakeInv
----------------------------------------------------------------------------
(* Lemmas about stacks and lists.                                          *)

\* Moving the innermost call on changes no call's message.
LEMMA AdvanceFacts ==
  ASSUME NEW s \in Seq(Frames), s # <<>>
  PROVE  /\ Advance(s) \in Seq(Frames)
         /\ Len(Advance(s)) = Len(s)
         /\ \A i \in 1..Len(s) : Advance(s)[i].of = s[i].of
<1>1. Len(s) \in 1..Len(s) /\ s[Len(s)] \in Frames
  OBVIOUS
<1> DEFINE e == [s[Len(s)] EXCEPT !.next = @ + 1]
<1>2. e \in Frames /\ e.of = s[Len(s)].of
  BY SMTT(30), <1>1 DEF Frames
<1>3. Advance(s) = [s EXCEPT ![Len(s)] = e]
  BY DEF Advance
<1> HIDE DEF e
<1> QED BY <1>1, <1>2, <1>3, ExceptSeq

\* Returning from a call leaves the ones below it.
LEMMA FrontFacts ==
  ASSUME NEW S, NEW s \in Seq(S), s # <<>>
  PROVE  /\ Front(s) \in Seq(S)
         /\ Len(Front(s)) = Len(s) - 1
         /\ \A i \in 1..Len(Front(s)) : Front(s)[i] = s[i]
<1> DEFINE n == Len(s) - 1
<1>1. n \in Nat /\ \A i \in 1..n : s[i] \in S
  OBVIOUS
<1>2. Front(s) = SubSeq(s, 1, n)
  BY DEF Front
<1> HIDE DEF n
<1>3. /\ SubSeq(s, 1, n) \in Seq(S)
      /\ Len(SubSeq(s, 1, n)) = IF 1 <= n THEN n - 1 + 1 ELSE 0
      /\ \A i \in 1 .. n - 1 + 1 : SubSeq(s, 1, n)[i] = s[1 + i - 1]
  BY <1>1, SubSeqProperties
<1>4. Len(Front(s)) = n
  BY <1>1, <1>2, <1>3
<1>5. \A i \in 1..n : Front(s)[i] = s[i]
  BY <1>1, <1>2, <1>3
<1> QED BY <1>2, <1>3, <1>4, <1>5 DEF n

\* A call made on top of a stack leaves the ones below it.
LEMMA CallFacts ==
  ASSUME NEW s \in Seq(Frames), NEW m \in Msgs
  PROVE  /\ Frame(m) \in Frames /\ Frame(m).of = m
         /\ Append(s, Frame(m)) \in Seq(Frames)
         /\ Len(Append(s, Frame(m))) = Len(s) + 1
         /\ \A i \in 1..Len(s) : Append(s, Frame(m))[i] = s[i]
         /\ Append(s, Frame(m))[Len(s) + 1] = Frame(m)
<1>1. Frame(m) \in Frames /\ Frame(m).of = m
  BY DEF Frame, Frames
<1> QED BY <1>1, AppendProperties

\* A send erased from a list is the only one that goes.
LEMMA EraseFacts ==
  ASSUME NEW s \in Seq(Msgs), NEW k \in 1..Len(s)
  PROVE  /\ RemoveAt(s, k) \in Seq(Msgs)
         /\ Len(RemoveAt(s, k)) = Len(s) - 1
         /\ \A i \in 1..Len(RemoveAt(s, k)) :
               RemoveAt(s, k)[i] = s[IF i < k THEN i ELSE i + 1]
<1> DEFINE a == SubSeq(s, 1, k - 1)
           b == SubSeq(s, k + 1, Len(s))
<1>1. a \in Seq(Msgs) /\ Len(a) = k - 1 /\ \A i \in 1..Len(a) : a[i] = s[i]
  OBVIOUS
<1>2. b \in Seq(Msgs) /\ Len(b) = Len(s) - k /\ \A i \in 1..Len(b) : b[i] = s[k + i]
  OBVIOUS
<1>3. RemoveAt(s, k) = a \o b
  BY DEF RemoveAt
<1> HIDE DEF a, b
<1>4. /\ a \o b \in Seq(Msgs) /\ Len(a \o b) = Len(s) - 1
      /\ \A i \in 1..Len(a \o b) : (a \o b)[i] = IF i <= Len(a) THEN a[i] ELSE b[i - Len(a)]
  <2>1. /\ a \o b \in Seq(Msgs) /\ Len(a \o b) = Len(a) + Len(b)
        /\ \A i \in 1..Len(a) + Len(b) :
              (a \o b)[i] = IF i <= Len(a) THEN a[i] ELSE b[i - Len(a)]
    BY <1>1, <1>2, ConcatProperties
  <2>2. Len(a) + Len(b) = Len(s) - 1
    BY <1>1, <1>2
  <2> QED BY <2>1, <2>2
<1>5. ASSUME NEW i \in 1..Len(a \o b) PROVE (a \o b)[i] = s[IF i < k THEN i ELSE i + 1]
  BY <1>1, <1>2, <1>4, <1>5
<1> QED BY <1>3, <1>4, <1>5

\* The send a call has come to is a message that is sent, not posted.
LEMMA CurrentFacts ==
  ASSUME TypeOK, NEW o \in Systems, NEW m \in Current(o)
  PROVE  m \in Msgs /\ m \notin Posted /\ stack[o] # <<>> /\ ~AtEnd(o)
<1>1. stack[o] # <<>> /\ stack[o] \in Seq(Frames)
  BY DEF Current, TypeOK, LoopTypeOK
<1>2. Last(stack[o]) \in Frames
  BY <1>1 DEF Last
<1> DEFINE f == Last(stack[o])
<1>3. f.of \in DOMAIN Calls /\ f.next \in Nat
  BY <1>2, MessageThreadAssumption DEF Frames
<1>4. f.next \in DOMAIN Calls[f.of] /\ m = Calls[f.of][f.next]
  BY <1>1 DEF Current
<1>5. Calls[f.of] \in Seq(Msgs \ Posted)
  BY <1>3, MessageThreadAssumption
<1>6. f.next <= Len(Calls[f.of]) /\ m \in Msgs \ Posted
  BY <1>3, <1>4, <1>5
<1> QED BY <1>1, <1>3, <1>5, <1>6 DEF AtEnd
----------------------------------------------------------------------------
(* Steps.                                                                   *)

\* A sender finds out what becomes of its send, and changes only that.
SenderStep(m) == SendWake(m) \/ SendCheck(m) \/ SendWaitReturns(m) \/ SendReset(m)

\* The loop goes on without taking a message or answering one.
QuietLoop(t) ==
    PreRun(t) \/ NoMoreSends(t) \/ QueueEmpty(t) \/ GetFalse(t) \/ NotStopped(t)
        \/ WaitReturns(t) \/ ResetEvent(t)

\* Somebody stops a thread, or starts it again.
ControlStep ==
    \/ \E o \in Systems, t \in Threads : StopSet(o, t)
    \/ \E o \in Systems : StopStep(o)
    \/ \E t \in Threads : Start(t)

\* Every step is one of these, and only messages that are not posted are sent.
LEMMA NextCases ==
  ASSUME TypeOK, [Next]_vars
  PROVE  \/ \E o \in Systems, m \in Msgs \ Posted :
               SendRefused(o, m) \/ SendDirect(o, m) \/ SendBegin(o, m) \/ SendReturn(o, m)
         \/ \E m \in Msgs \ Posted : SendPush(m)
         \/ \E m \in Msgs : SenderStep(m)
         \/ \E o \in Systems : DirectReturns(o)
         \/ \E t \in Threads : QuietLoop(t)
         \/ \E t \in Threads : TakeSend(t) \/ Reply(t) \/ ReplyWake(t) \/ DispatchReturns(t)
         \/ \E t \in Threads, m \in Posted : TakePosted(t, m)
         \/ ControlStep
         \/ \E m \in Msgs : ClearSend(m)
         \/ ClearWake
         \/ UNCHANGED vars
<1>1. ASSUME NEW o \in Systems, NEW m \in Current(o),
             \/ SendRefused(o, m) \/ SendDirect(o, m) \/ SendBegin(o, m)
             \/ SendPush(m) \/ SendWake(m) \/ SendCheck(m) \/ SendWoken(m) \/ SendReset(m)
             \/ SendReturn(o, m)
      PROVE  \/ \E p \in Systems, n \in Msgs \ Posted :
                  SendRefused(p, n) \/ SendDirect(p, n) \/ SendBegin(p, n) \/ SendReturn(p, n)
             \/ \E n \in Msgs \ Posted : SendPush(n)
             \/ \E n \in Msgs : SenderStep(n)
  <2>1. m \in Msgs \ Posted
    BY CurrentFacts
  <2> QED BY <1>1, <2>1 DEF SenderStep, SendWoken
<1>2. ASSUME NEW t \in Threads, LoopStep(t)
      PROVE  \/ QuietLoop(t) \/ TakeSend(t) \/ Reply(t) \/ ReplyWake(t) \/ DispatchReturns(t)
             \/ \E m \in Posted : TakePosted(t, m)
  BY <1>2 DEF LoopStep, QuietLoop, LoopWoken
<1>3. CASE Spurious
  BY <1>3 DEF Spurious, SenderStep, SendSpurious, QuietLoop, LoopSpurious
<1>4. CASE \E o \in Systems : SystemStep(o)
  BY <1>1, <1>2, <1>4 DEF SystemStep, SendStep
<1>5. CASE ControlStep \/ (\E m \in Msgs : ClearSend(m)) \/ ClearWake \/ UNCHANGED vars
  BY <1>5
<1> QED BY <1>3, <1>4, <1>5 DEF Next, ControlStep

\* The invariant holds at the start.
LEMMA InitIInv == Init => IInv
<1> SUFFICES ASSUME Init PROVE IInv
  OBVIOUS
<1> USE MessageThreadAssumption DEF Init
<1>1. stack \in [Systems -> Seq(Frames)]
  <2>1. ASSUME NEW o \in Clients PROVE <<[of |-> o, next |-> 1]>> \in Seq(Frames)
    <3>1. [of |-> o, next |-> 1] \in Frames
      BY DEF Frames
    <3> QED BY <3>1
  <2> QED BY <2>1
<1>2. TypeOK
  <2>1. SendTypeOK
    BY DEF SendTypeOK, Busy
  <2>2. LoopTypeOK
    BY <1>1 DEF LoopTypeOK
  <2>3. LoopCrit
    <3>1. ASSUME NEW t \in Threads PROVE mCrit[t] # t /\ lpc[t] = "prerun"
      BY DEF Systems
    <3> QED BY <3>1 DEF LoopCrit
  <2> QED BY <2>1, <2>2, <2>3 DEF TypeOK
<1>3. CritInv
  BY DEF CritInv
<1>4. ContextInv
  <2>1. ASSUME NEW o \in Systems, NEW i \in 1..Len(stack[o]) PROVE stack[o][i].of \notin Msgs
    BY <2>1, MessageThreadAssumption
  <2>2. ASSUME NEW o \in Systems PROVE tls[o] = Nobody \/ Home(o, tls[o])
    BY DEF FirstCreated, Home
  <2> QED BY <2>1, <2>2 DEF ContextInv
<1>5. ShapeInv
  BY DEF ShapeInv, Systems
<1>6. SendInv
  BY DEF SendInv, Before, Waiting
<1>7. ListInv /\ FrameInv
  BY DEF ListInv, FrameInv, Systems
<1>9. DirectInv
  <2>1. \A o \in Systems : 2..Len(stack[o]) = {}
    OBVIOUS
  <2> QED BY <2>1 DEF DirectInv
<1>8. NoLostReply /\ AwakeInv
  BY DEF NoLostReply, AwakeInv
<1> QED BY <1>2, <1>3, <1>4, <1>5, <1>6, <1>7, <1>8, <1>9 DEF IInv

\* A send that is refused or returns changes no call's message.
LEMMA MovedOn ==
  ASSUME TypeOK, NEW o \in Systems, NEW m, SendRefused(o, m) \/ SendReturn(o, m)
  PROVE  /\ stack' \in [Systems -> Seq(Frames)]
         /\ \A p \in Systems : Len(stack'[p]) = Len(stack[p])
         /\ \A p \in Systems : \A i \in 1..Len(stack[p]) : stack'[p][i].of = stack[p][i].of
<1>1. /\ stack \in [Systems -> Seq(Frames)] /\ stack[o] # <<>>
      /\ stack' = [stack EXCEPT ![o] = Advance(stack[o])]
  BY DEF SendRefused, SendReturn, Calling, Current, TypeOK, LoopTypeOK
<1> QED BY <1>1, AdvanceFacts

\* A send is direct on its target's own thread or at home, where it is the innermost
\* call.
LEMMA CalledDirectly ==
  ASSUME IInv, NEW o \in Systems, NEW m \in Msgs \ Posted, SendDirect(o, m)
  PROVE  /\ stack' \in [Systems -> Seq(Frames)]
         /\ o = Target[m] \/ Home(o, Target[m])
         /\ o \in Threads => lpc[o] \in {"handling", "dispatch"}
         /\ Len(stack[o]) \in Nat \ {0} /\ Len(stack'[o]) = Len(stack[o]) + 1
         /\ \A i \in 1..Len(stack[o]) : stack'[o][i] = stack[o][i]
         /\ stack'[o][Len(stack[o]) + 1].of = m
         /\ \A p \in Systems \ {o} : stack'[p] = stack[p]
<1>1. /\ stack \in [Systems -> Seq(Frames)] /\ m \in Current(o)
      /\ stack' = [stack EXCEPT ![o] = Append(stack[o], Frame(m))]
      /\ lpc \in [Threads -> {"prerun", "sends", "handling", "reply", "more", "queue",
                            "dispatch", "stopcheck", "wait", "reset", "exited"}]
  BY DEF SendDirect, Calling, IInv, TypeOK, LoopTypeOK
<1>2. stack[o] # <<>> /\ ~AtEnd(o)
  BY <1>1, CurrentFacts DEF IInv
<1>3. o = Target[m] \/ Home(o, Target[m])
  <2>1. Target[m] \in Threads /\ Nobody \notin Systems /\ AutoThread \notin Systems
    BY MessageThreadAssumption
  <2>2. tls[o] = Target[m] /\ (tls[o] \in {o, Nobody, AutoThread} \/ Home(o, tls[o]))
    BY DEF SendDirect, IsCurrent, IInv, ContextInv
  <2> QED BY <2>1, <2>2 DEF Systems
<1>4. o \in Threads => lpc[o] \in {"handling", "dispatch"}
  BY <1>1, <1>2 DEF IInv, ShapeInv
<1>5. stack'[o] = Append(stack[o], Frame(m)) /\ stack[o] \in Seq(Frames)
  BY <1>1
<1>6. Frame(m).of = m
  BY DEF Frame
<1> QED BY <1>1, <1>2, <1>3, <1>4, <1>5, <1>6, CallFacts

\* A direct call that returns was the innermost of several.
LEMMA ReturnedDirectly ==
  ASSUME IInv, NEW o \in Systems, DirectReturns(o)
  PROVE  /\ stack' \in [Systems -> Seq(Frames)]
         /\ o \in Threads => lpc[o] \in {"handling", "dispatch"}
         /\ Len(stack[o]) \in Nat /\ Len(stack[o]) > 1 /\ Len(stack'[o]) = Len(stack[o]) - 1
         /\ \A i \in 1..Len(stack[o]) - 1 : stack'[o][i].of = stack[o][i].of
         /\ Last(stack[o]) = stack[o][Len(stack[o])] /\ Last(stack[o]).of \in Msgs
         /\ \A p \in Systems \ {o} : stack'[p] = stack[p]
<1> DEFINE s == stack[o]
<1>1. /\ stack \in [Systems -> Seq(Frames)]
      /\ stack' = [stack EXCEPT ![o] = Advance(Front(s))]
      /\ s \in Seq(Frames) /\ Len(s) \in Nat /\ Len(s) > 1 /\ s # <<>>
      /\ lpc \in [Threads -> {"prerun", "sends", "handling", "reply", "more", "queue",
                            "dispatch", "stopcheck", "wait", "reset", "exited"}]
  <2>1. stack \in [Systems -> Seq(Frames)] /\ Len(s) > 1
    BY DEF DirectReturns, IInv, TypeOK, LoopTypeOK
  <2>2. s \in Seq(Frames)
    BY <2>1
  <2>3. Len(s) \in Nat /\ Len(s) > 1 /\ s # <<>>
    <3>1. Len(s) \in Nat
      BY <2>2
    <3>2. Len(s) # 0
      BY <2>1, <3>1
    <3>3. s # <<>>
      BY <3>2, EmptySeq
    <3> QED BY <2>1, <3>1, <3>3
  <2>4. lpc \in [Threads -> {"prerun", "sends", "handling", "reply", "more", "queue",
                            "dispatch", "stopcheck", "wait", "reset", "exited"}]
    BY DEF IInv, TypeOK, LoopTypeOK
  <2>5. stack' = [stack EXCEPT ![o] = Advance(Front(s))]
    BY DEF DirectReturns
  <2> QED BY <2>1, <2>2, <2>3, <2>4, <2>5
<1>2. \A i \in 2..Len(s) : s[i].of \in Msgs
  <2>1. CASE o \in Threads
    BY <1>1, <2>1 DEF IInv, ShapeInv
  <2>2. CASE o \in Clients
    BY <2>2 DEF IInv, ShapeInv
  <2> QED BY <2>1, <2>2 DEF Systems
<1>3. o \in Threads => lpc[o] \in {"handling", "dispatch"}
  BY <1>1 DEF IInv, ShapeInv
<1>4. Last(s) = s[Len(s)] /\ Last(s).of \in Msgs
  <2>1. Len(s) \in 2..Len(s)
    BY <1>1
  <2> QED BY <1>2, <2>1 DEF Last
<1>5. /\ Front(s) \in Seq(Frames) /\ Front(s) # <<>> /\ Len(Front(s)) = Len(s) - 1
      /\ \A i \in 1..Len(s) - 1 : Front(s)[i] = s[i]
  <2>1. /\ Front(s) \in Seq(Frames) /\ Len(Front(s)) = Len(s) - 1
        /\ \A i \in 1..Len(Front(s)) : Front(s)[i] = s[i]
    BY <1>1, FrontFacts
  <2> QED BY <1>1, <2>1
<1>6. /\ Advance(Front(s)) \in Seq(Frames) /\ Len(Advance(Front(s))) = Len(s) - 1
      /\ \A i \in 1..Len(s) - 1 : Advance(Front(s))[i].of = s[i].of
  <2>1. /\ Advance(Front(s)) \in Seq(Frames) /\ Len(Advance(Front(s))) = Len(Front(s))
        /\ \A i \in 1..Len(Front(s)) : Advance(Front(s))[i].of = Front(s)[i].of
    BY <1>5, AdvanceFacts
  <2> QED BY <1>5, <2>1
<1>7. stack'[o] = Advance(Front(s)) /\ \A p \in Systems \ {o} : stack'[p] = stack[p]
  BY <1>1
<1> HIDE DEF s
<1>8. stack' \in [Systems -> Seq(Frames)]
  BY <1>1, <1>6
<1>9. Len(stack'[o]) = Len(s) - 1 /\ \A i \in 1..Len(s) - 1 : stack'[o][i].of = s[i].of
  BY <1>6, <1>7
<1> QED BY <1>1, <1>2, <1>3, <1>4, <1>7, <1>8, <1>9 DEF s

\* The loop takes the first send, and the others move up.
LEMMA Taken ==
  ASSUME IInv, NEW t \in Threads, TakeSend(t)
  PROVE  /\ mMsgSends' \in [Threads -> Seq(Msgs)] /\ stack' \in [Systems -> Seq(Frames)]
         /\ 1 \in 1..Len(mMsgSends[t]) /\ mMsgSends[t][1] \in Msgs
         /\ Len(stack'[t]) = 1 /\ stack'[t][1].of = mMsgSends[t][1]
         /\ Len(mMsgSends'[t]) = Len(mMsgSends[t]) - 1
         /\ \A i \in 1..Len(mMsgSends'[t]) :
               i + 1 \in 1..Len(mMsgSends[t]) /\ mMsgSends'[t][i] = mMsgSends[t][i + 1]
         /\ \A u \in Threads \ {t} : mMsgSends'[u] = mMsgSends[u]
         /\ \A p \in Systems \ {t} : stack'[p] = stack[p]
<1> DEFINE s == mMsgSends[t]
<1>1. /\ mMsgSends \in [Threads -> Seq(Msgs)] /\ stack \in [Systems -> Seq(Frames)]
      /\ s \in Seq(Msgs) /\ s # <<>> /\ t \in Systems
      /\ mMsgSends' = [mMsgSends EXCEPT ![t] = Tail(s)]
      /\ stack' = [stack EXCEPT ![t] = <<Frame(Head(s))>>]
  BY DEF TakeSend, IInv, TypeOK, SendTypeOK, LoopTypeOK, Systems
<1>2. mMsgSends'[t] = Tail(s) /\ stack'[t] = <<Frame(Head(s))>>
  BY <1>1
<1> HIDE DEF s
<1>3. /\ 1 \in 1..Len(s) /\ Head(s) = s[1] /\ s[1] \in Msgs
      /\ Tail(s) \in Seq(Msgs) /\ Len(Tail(s)) = Len(s) - 1
      /\ \A i \in 1..Len(Tail(s)) : i + 1 \in 1..Len(s) /\ Tail(s)[i] = s[i + 1]
  BY <1>1
<1>4. Frame(s[1]) \in Frames /\ Frame(s[1]).of = s[1]
  BY <1>3 DEF Frame, Frames
<1>5. mMsgSends' \in [Threads -> Seq(Msgs)] /\ stack' \in [Systems -> Seq(Frames)]
  BY <1>1, <1>3, <1>4
<1>6. \A u \in Threads \ {t} : mMsgSends'[u] = mMsgSends[u]
  BY <1>1
<1>7. \A p \in Systems \ {t} : stack'[p] = stack[p]
  BY <1>1
<1>8. Len(stack'[t]) = 1 /\ stack'[t][1].of = s[1]
  BY <1>2, <1>3, <1>4
<1> QED BY <1>2, <1>3, <1>5, <1>6, <1>7, <1>8 DEF s

\* clear takes one send out of its target's list.
LEMMA Erased ==
  ASSUME TypeOK, NEW m \in Msgs, ClearSend(m)
  PROVE  /\ mMsgSends' \in [Threads -> Seq(Msgs)]
         /\ Target[m] \in Threads
         /\ \E k \in 1..Len(mMsgSends[Target[m]]) :
               /\ mMsgSends[Target[m]][k] = m
               /\ \A i \in 1..Len(mMsgSends'[Target[m]]) :
                     LET j == IF i < k THEN i ELSE i + 1
                     IN j \in 1..Len(mMsgSends[Target[m]])
                        /\ mMsgSends'[Target[m]][i] = mMsgSends[Target[m]][j]
         /\ \A u \in Threads \ {Target[m]} : mMsgSends'[u] = mMsgSends[u]
<1> DEFINE t == Target[m]  s == mMsgSends[t]
<1>1. t \in Threads /\ mMsgSends \in [Threads -> Seq(Msgs)]
  BY MessageThreadAssumption DEF TypeOK, SendTypeOK
<1>2. s \in Seq(Msgs) /\ DOMAIN s = 1..Len(s)
  BY <1>1
<1>3. \E k \in DOMAIN s : s[k] = m /\ mMsgSends' = [mMsgSends EXCEPT ![t] = RemoveAt(s, k)]
  BY DEF ClearSend
<1> HIDE DEF s, t
<1>4. PICK k \in 1..Len(s) : s[k] = m /\ mMsgSends' = [mMsgSends EXCEPT ![t] = RemoveAt(s, k)]
  BY <1>2, <1>3
<1>5. /\ RemoveAt(s, k) \in Seq(Msgs) /\ Len(RemoveAt(s, k)) = Len(s) - 1
      /\ \A i \in 1..Len(RemoveAt(s, k)) : RemoveAt(s, k)[i] = s[IF i < k THEN i ELSE i + 1]
  BY <1>2, EraseFacts
<1>6. /\ mMsgSends' \in [Threads -> Seq(Msgs)] /\ mMsgSends'[t] = RemoveAt(s, k)
      /\ \A u \in Threads \ {t} : mMsgSends'[u] = mMsgSends[u]
  BY <1>1, <1>4, <1>5
<1>7. ASSUME NEW i \in 1..Len(mMsgSends'[t])
      PROVE  LET j == IF i < k THEN i ELSE i + 1
             IN j \in 1..Len(s) /\ mMsgSends'[t][i] = s[j]
  BY <1>2, <1>5, <1>6
<1> QED BY <1>1, <1>4, <1>6, <1>7 DEF s, t

\* Who stops or starts a thread changes neither calls nor lists.
LEMMA Controlled ==
  ASSUME TypeOK, ControlStep
  PROVE  /\ UNCHANGED <<mMsgSends, mHasSends, posts, mCrit, stack, spc, ready, reply, clearing,
                        handled, cleared>>
         /\ \A t \in Threads : lpc'[t] = lpc[t] \/ (lpc[t] = "exited" /\ lpc'[t] = "prerun")
         /\ stopped \subseteq stopped'
<1> USE DEF stopVars, loopVars, sendVars, history
<1>1. lpc \in [Threads -> {"prerun", "sends", "handling", "reply", "more", "queue",
                            "dispatch", "stopcheck", "wait", "reset", "exited"}]
  BY DEF TypeOK, LoopTypeOK
<1>2. CASE \E o \in Systems, t \in Threads : StopSet(o, t)
  BY <1>2 DEF StopSet
<1>3. CASE \E o \in Systems : StopStep(o)
  BY <1>3 DEF StopStep, StopWake, StopThread, StopReturns
<1>4. CASE \E t \in Threads : Start(t)
  BY <1>1, <1>4 DEF Start
<1> QED BY <1>2, <1>3, <1>4 DEF ControlStep

\* Every step keeps the types.
LEMMA TypeStep == ASSUME IInv, [Next]_vars PROVE TypeOK'
<1> USE DEF stopVars, loopVars, sendVars, history
<1>a. /\ Nobody \notin Threads \cup Msgs /\ "clear" \notin Threads
      /\ Target \in [Msgs -> Threads] /\ Posted \subseteq Msgs
      /\ Threads \subseteq Systems /\ Clients \subseteq Systems
  BY MessageThreadAssumption DEF Systems
<1>t. SendTypeOK /\ LoopTypeOK /\ LoopCrit
  BY DEF IInv, TypeOK
<1>1. ASSUME NEW o \in Systems, NEW m \in Msgs \ Posted, SendRefused(o, m) PROVE TypeOK'
  <2>1. stack' \in [Systems -> Seq(Frames)]
    BY <1>1, MovedOn DEF IInv
  <2>7. SendTypeOK'
    BY <1>1, <1>a, <1>t, <2>1 DEF SendRefused, SendTypeOK, Busy
  <2>8. LoopTypeOK'
    BY <1>1, <1>a, <1>t, <2>1 DEF SendRefused, LoopTypeOK
  <2>9. LoopCrit'
    BY <1>1, <1>a, <1>t, <2>1 DEF SendRefused, LoopTypeOK, LoopCrit
  <2> QED BY <2>7, <2>8, <2>9 DEF TypeOK
<1>2. ASSUME NEW o \in Systems, NEW m \in Msgs \ Posted, SendReturn(o, m) PROVE TypeOK'
  <2>1. stack' \in [Systems -> Seq(Frames)]
    BY <1>2, MovedOn DEF IInv
  <2>7. SendTypeOK'
    BY <1>2, <1>a, <1>t, <2>1 DEF SendReturn, SendTypeOK, Busy
  <2>8. LoopTypeOK'
    BY <1>2, <1>a, <1>t, <2>1 DEF SendReturn, LoopTypeOK
  <2>9. LoopCrit'
    BY <1>2, <1>a, <1>t, <2>1 DEF SendReturn, LoopTypeOK, LoopCrit
  <2> QED BY <2>7, <2>8, <2>9 DEF TypeOK
<1>3. ASSUME NEW o \in Systems, NEW m \in Msgs \ Posted, SendDirect(o, m) PROVE TypeOK'
  <2>1. stack' \in [Systems -> Seq(Frames)]
    BY <1>3, CalledDirectly
  <2>7. SendTypeOK'
    BY <1>3, <1>a, <1>t, <2>1 DEF SendDirect, SendTypeOK, Busy
  <2>8. LoopTypeOK'
    BY <1>3, <1>a, <1>t, <2>1 DEF SendDirect, LoopTypeOK
  <2>9. LoopCrit'
    BY <1>3, <1>a, <1>t, <2>1 DEF SendDirect, LoopTypeOK, LoopCrit
  <2> QED BY <2>7, <2>8, <2>9 DEF TypeOK
<1>4. ASSUME NEW o \in Systems, NEW m \in Msgs \ Posted, SendBegin(o, m) PROVE TypeOK'
  <2>7. SendTypeOK'
    BY <1>4, <1>a, <1>t DEF SendBegin, SendTypeOK, Busy
  <2>8. LoopTypeOK'
    BY <1>4, <1>a, <1>t DEF SendBegin, LoopTypeOK
  <2>9. LoopCrit'
    BY <1>4, <1>a, <1>t DEF SendBegin, LoopTypeOK, LoopCrit
  <2> QED BY <2>7, <2>8, <2>9 DEF TypeOK
<1>5. ASSUME NEW m \in Msgs, SendPush(m) PROVE TypeOK'
  <2>7. SendTypeOK'
    BY <1>5, <1>a, <1>t DEF SendPush, SendTypeOK, Busy
  <2>8. LoopTypeOK'
    BY <1>5, <1>a, <1>t DEF SendPush, LoopTypeOK
  <2>9. LoopCrit'
    BY <1>5, <1>a, <1>t DEF SendPush, LoopTypeOK, LoopCrit
  <2> QED BY <2>7, <2>8, <2>9 DEF TypeOK
<1>6. ASSUME NEW m \in Msgs, SenderStep(m) PROVE TypeOK'
  <2>7. SendTypeOK'
    <3>1. CASE SendWake(m)
      BY <3>1, <1>a, <1>t DEF SendWake, SendTypeOK, Busy
    <3>2. CASE SendCheck(m)
      BY <3>2, <1>a, <1>t DEF SendCheck, SendTypeOK, Busy
    <3>3. CASE SendWaitReturns(m)
      BY <3>3, <1>a, <1>t DEF SendWaitReturns, SendTypeOK, Busy
    <3>4. CASE SendReset(m)
      BY <3>4, <1>a, <1>t DEF SendReset, SendTypeOK, Busy
    <3> QED BY <1>6, <3>1, <3>2, <3>3, <3>4 DEF SenderStep
  <2>8. LoopTypeOK'
    BY <1>6, <1>a, <1>t DEF SenderStep, SendWake, SendCheck, SendWaitReturns, SendReset, LoopTypeOK
  <2>9. LoopCrit'
    BY <1>6, <1>a, <1>t DEF SenderStep, SendWake, SendCheck, SendWaitReturns, SendReset,
       LoopTypeOK, LoopCrit
  <2> QED BY <2>7, <2>8, <2>9 DEF TypeOK
<1>7. ASSUME NEW o \in Systems, DirectReturns(o) PROVE TypeOK'
  <2>1. /\ stack' \in [Systems -> Seq(Frames)]
        /\ Last(stack[o]).of \in Msgs
    BY <1>7, ReturnedDirectly
  <2>7. SendTypeOK'
    BY SMTT(30), <1>7, <1>a, <1>t, <2>1 DEF DirectReturns, SendTypeOK, Busy
  <2>8. LoopTypeOK'
    BY <1>7, <1>a, <1>t, <2>1 DEF DirectReturns, LoopTypeOK
  <2>9. LoopCrit'
    BY <1>7, <1>a, <1>t, <2>1 DEF DirectReturns, LoopTypeOK, LoopCrit
  <2> QED BY <2>7, <2>8, <2>9 DEF TypeOK
<1>8. ASSUME NEW t \in Threads, PreRun(t) PROVE TypeOK'
  <2>7. SendTypeOK'
    BY <1>8, <1>a, <1>t DEF PreRun, SendTypeOK, Busy
  <2>8. LoopTypeOK'
    BY <1>8, <1>a, <1>t DEF PreRun, LoopTypeOK
  <2>9. LoopCrit'
    BY <1>8, <1>a, <1>t DEF PreRun, LoopTypeOK, LoopCrit
  <2> QED BY <2>7, <2>8, <2>9 DEF TypeOK
<1>9. ASSUME NEW t \in Threads, NoMoreSends(t) PROVE TypeOK'
  <2>7. SendTypeOK'
    BY <1>9, <1>a, <1>t DEF NoMoreSends, SendTypeOK, Busy
  <2>8. LoopTypeOK'
    BY <1>9, <1>a, <1>t DEF NoMoreSends, LoopTypeOK
  <2>9. LoopCrit'
    BY <1>9, <1>a, <1>t DEF NoMoreSends, LoopTypeOK, LoopCrit
  <2> QED BY <2>7, <2>8, <2>9 DEF TypeOK
<1>10. ASSUME NEW t \in Threads, QueueEmpty(t) PROVE TypeOK'
  <2>7. SendTypeOK'
    BY <1>10, <1>a, <1>t DEF QueueEmpty, SendTypeOK, Busy
  <2>8. LoopTypeOK'
    BY <1>10, <1>a, <1>t DEF QueueEmpty, LoopTypeOK
  <2>9. LoopCrit'
    BY <1>10, <1>a, <1>t DEF QueueEmpty, LoopTypeOK, LoopCrit
  <2> QED BY <2>7, <2>8, <2>9 DEF TypeOK
<1>11. ASSUME NEW t \in Threads, GetFalse(t) PROVE TypeOK'
  <2>7. SendTypeOK'
    BY <1>11, <1>a, <1>t DEF GetFalse, SendTypeOK, Busy
  <2>8. LoopTypeOK'
    BY <1>11, <1>a, <1>t DEF GetFalse, LoopTypeOK
  <2>9. LoopCrit'
    BY <1>11, <1>a, <1>t DEF GetFalse, LoopTypeOK, LoopCrit
  <2> QED BY <2>7, <2>8, <2>9 DEF TypeOK
<1>12. ASSUME NEW t \in Threads, NotStopped(t) PROVE TypeOK'
  <2>7. SendTypeOK'
    BY <1>12, <1>a, <1>t DEF NotStopped, SendTypeOK, Busy
  <2>8. LoopTypeOK'
    BY <1>12, <1>a, <1>t DEF NotStopped, LoopTypeOK
  <2>9. LoopCrit'
    BY <1>12, <1>a, <1>t DEF NotStopped, LoopTypeOK, LoopCrit
  <2> QED BY <2>7, <2>8, <2>9 DEF TypeOK
<1>13. ASSUME NEW t \in Threads, WaitReturns(t) PROVE TypeOK'
  <2>7. SendTypeOK'
    BY <1>13, <1>a, <1>t DEF WaitReturns, SendTypeOK, Busy
  <2>8. LoopTypeOK'
    BY <1>13, <1>a, <1>t DEF WaitReturns, LoopTypeOK
  <2>9. LoopCrit'
    BY <1>13, <1>a, <1>t DEF WaitReturns, LoopTypeOK, LoopCrit
  <2> QED BY <2>7, <2>8, <2>9 DEF TypeOK
<1>14. ASSUME NEW t \in Threads, ResetEvent(t) PROVE TypeOK'
  <2>7. SendTypeOK'
    BY <1>14, <1>a, <1>t DEF ResetEvent, SendTypeOK, Busy
  <2>8. LoopTypeOK'
    BY <1>14, <1>a, <1>t DEF ResetEvent, LoopTypeOK
  <2>9. LoopCrit'
    BY <1>14, <1>a, <1>t DEF ResetEvent, LoopTypeOK, LoopCrit
  <2> QED BY <2>7, <2>8, <2>9 DEF TypeOK
<1>15. ASSUME NEW t \in Threads, TakeSend(t) PROVE TypeOK'
  <2>1. mMsgSends' \in [Threads -> Seq(Msgs)] /\ stack' \in [Systems -> Seq(Frames)]
    BY <1>15, Taken
  <2>7. SendTypeOK'
    BY <1>15, <1>a, <1>t, <2>1 DEF TakeSend, SendTypeOK, Busy
  <2>8. LoopTypeOK'
    BY <1>15, <1>a, <1>t, <2>1 DEF TakeSend, LoopTypeOK
  <2>9. LoopCrit'
    BY <1>15, <1>a, <1>t, <2>1 DEF TakeSend, LoopTypeOK, LoopCrit
  <2> QED BY <2>7, <2>8, <2>9 DEF TypeOK
<1>16. ASSUME NEW t \in Threads, Reply(t) PROVE TypeOK'
  <2>1. stack[t] # <<>> /\ stack[t] \in Seq(Frames)
    BY <1>16, <1>a, <1>t DEF Reply, LoopTypeOK, IInv, ShapeInv
  <2>2. Head(stack[t]).of \in Msgs
    BY <2>1 DEF IInv, ShapeInv
  <2>7. SendTypeOK'
    BY <1>16, <1>a, <1>t, <2>2 DEF Reply, SendTypeOK, Busy
  <2>8. LoopTypeOK'
    BY <1>16, <1>a, <1>t, <2>2 DEF Reply, LoopTypeOK
  <2>9. LoopCrit'
    BY <1>16, <1>a, <1>t, <2>2 DEF Reply, LoopTypeOK, LoopCrit
  <2> QED BY <2>7, <2>8, <2>9 DEF TypeOK
<1>17. ASSUME NEW t \in Threads, ReplyWake(t) PROVE TypeOK'
  <2>1. stack[t] # <<>> /\ stack[t] \in Seq(Frames)
    BY <1>17, <1>a, <1>t DEF ReplyWake, LoopTypeOK, IInv, ShapeInv
  <2>2. Head(stack[t]).of \in Msgs
    BY <2>1 DEF IInv, ShapeInv
  <2>7. SendTypeOK'
    BY <1>17, <1>a, <1>t, <2>2 DEF ReplyWake, Woken, SendTypeOK, Busy
  <2>8. LoopTypeOK'
    BY <1>17, <1>a, <1>t, <2>2 DEF ReplyWake, Woken, LoopTypeOK
  <2>9. LoopCrit'
    BY <1>17, <1>a, <1>t, <2>2 DEF ReplyWake, Woken, LoopTypeOK, LoopCrit
  <2> QED BY <2>7, <2>8, <2>9 DEF TypeOK
<1>18. ASSUME NEW t \in Threads, DispatchReturns(t) PROVE TypeOK'
  <2>1. stack[t] # <<>> /\ stack[t] \in Seq(Frames)
    BY <1>18, <1>a, <1>t DEF DispatchReturns, LoopTypeOK, IInv, ShapeInv
  <2>2. Head(stack[t]).of \in Msgs
    BY <2>1 DEF IInv, ShapeInv
  <2>7. SendTypeOK'
    BY <1>18, <1>a, <1>t, <2>2 DEF DispatchReturns, SendTypeOK, Busy
  <2>8. LoopTypeOK'
    BY <1>18, <1>a, <1>t, <2>2 DEF DispatchReturns, LoopTypeOK
  <2>9. LoopCrit'
    BY <1>18, <1>a, <1>t, <2>2 DEF DispatchReturns, LoopTypeOK, LoopCrit
  <2> QED BY <2>7, <2>8, <2>9 DEF TypeOK
<1>19. ASSUME NEW t \in Threads, NEW m \in Posted, TakePosted(t, m) PROVE TypeOK'
  <2>1. <<Frame(m)>> \in Seq(Frames)
    BY <1>a DEF Frame, Frames
  <2>7. SendTypeOK'
    BY <1>19, <1>a, <1>t, <2>1 DEF TakePosted, SendTypeOK, Busy
  <2>8. LoopTypeOK'
    BY <1>19, <1>a, <1>t, <2>1 DEF TakePosted, LoopTypeOK
  <2>9. LoopCrit'
    BY <1>19, <1>a, <1>t, <2>1 DEF TakePosted, LoopTypeOK, LoopCrit
  <2> QED BY <2>7, <2>8, <2>9 DEF TypeOK
<1>20. CASE ControlStep
  <2>1. ASSUME NEW o \in Systems, NEW t \in Threads, StopSet(o, t) PROVE TypeOK'
    <3>1. SendTypeOK' /\ LoopCrit'
      BY <2>1, <1>t DEF StopSet, SendTypeOK, LoopCrit, Busy
    <3>2. LoopTypeOK'
      BY <2>1, <1>a, <1>t DEF StopSet, LoopTypeOK
    <3> QED BY <3>1, <3>2 DEF TypeOK
  <2>2. ASSUME NEW o \in Systems, StopStep(o) PROVE TypeOK'
    <3>1. SendTypeOK' /\ LoopCrit'
      BY <2>2, <1>t DEF StopStep, StopWake, StopThread, StopReturns, SendTypeOK, LoopCrit, Busy
    <3>2. LoopTypeOK'
      <4>1. CASE StopWake(o)
        BY <4>1, <1>a, <1>t DEF StopWake, LoopTypeOK
      <4>2. CASE StopThread(o)
        BY <4>2, <1>a, <1>t DEF StopThread, LoopTypeOK
      <4>3. CASE StopReturns(o)
        <5>2. <<o, stopping[o]>> \in MayStop
          BY <4>3, <1>t DEF StopReturns, LoopTypeOK
        <5>0. <<o, stopping[o]>> \in Systems \X Threads
          BY ONLY <5>2, MessageThreadAssumption
        <5>1. stopping[o] \in Threads /\ o \in Systems
          BY <5>0
        <5>3. /\ tls' \in [Systems -> Threads \cup {Nobody, AutoThread}]
              /\ stopping' \in [Systems -> Threads \cup {Nobody}]
              /\ stopAt' \in [Systems -> {"idle", "wake", "thread", "join"}]
              /\ stopped' \subseteq MayStop
          BY <4>3, <5>1, <5>2, <1>t DEF StopReturns, LoopTypeOK
        <5>4. \A p \in Systems \ {o} : /\ stopping'[p] = stopping[p] /\ stopAt'[p] = stopAt[p]
                                       /\ <<p, stopping[p]>> \notin {<<o, stopping[o]>>}
          BY <4>3, <5>1, <1>t DEF StopReturns, LoopTypeOK
        <5>5. stopping'[o] = Nobody /\ stopAt'[o] = "idle"
          BY <4>3, <5>1, <1>t DEF StopReturns, LoopTypeOK
        <5>6. ASSUME NEW p \in Systems
              PROVE  IF stopAt'[p] = "idle" THEN stopping'[p] = Nobody
                     ELSE <<p, stopping'[p]>> \in MayStop \ stopped'
          BY <4>3, <5>4, <5>5, <1>t DEF StopReturns, LoopTypeOK
        <5> QED BY <4>3, <5>3, <5>6, <1>t DEF StopReturns, LoopTypeOK
      <4> QED BY <2>2, <4>1, <4>2, <4>3 DEF StopStep
    <3> QED BY <3>1, <3>2 DEF TypeOK
  <2>3. ASSUME NEW t \in Threads, Start(t) PROVE TypeOK'
    <3>1. SendTypeOK'
      BY <2>3, <1>t DEF Start, SendTypeOK, Busy
    <3>2. LoopTypeOK'
      BY <2>3, <1>a, <1>t DEF Start, LoopTypeOK
    <3>3. LoopCrit'
      BY <2>3, <1>a, <1>t DEF Start, LoopTypeOK, LoopCrit
    <3> QED BY <3>1, <3>2, <3>3 DEF TypeOK
  <2> QED BY <1>20, <2>1, <2>2, <2>3 DEF ControlStep
<1>21. CASE ClearWake
  <2>1. clearing \in Msgs /\ mCrit[Target[clearing]] = "clear"
    BY <1>21, <1>t DEF ClearWake, IInv, CritInv, SendTypeOK
  <2>7. SendTypeOK'
    BY <1>21, <1>a, <1>t, <2>1 DEF ClearWake, Woken, SendTypeOK, Busy
  <2>8. LoopTypeOK'
    BY <1>21, <1>a, <1>t, <2>1 DEF ClearWake, Woken, LoopTypeOK
  <2>9. LoopCrit'
    BY <1>21, <1>a, <1>t, <2>1 DEF ClearWake, Woken, LoopTypeOK, LoopCrit
  <2> QED BY <2>7, <2>8, <2>9 DEF TypeOK
<1>22. ASSUME NEW m \in Msgs, ClearSend(m) PROVE TypeOK'
  <2>1. mMsgSends' \in [Threads -> Seq(Msgs)]
    BY <1>22, Erased DEF IInv
  <2>7. SendTypeOK'
    BY <1>22, <1>a, <1>t, <2>1 DEF ClearSend, SendTypeOK, Busy
  <2>8. LoopTypeOK'
    BY <1>22, <1>a, <1>t, <2>1 DEF ClearSend, LoopTypeOK
  <2>9. LoopCrit'
    BY <1>22, <1>a, <1>t, <2>1 DEF ClearSend, LoopTypeOK, LoopCrit
  <2> QED BY <2>7, <2>8, <2>9 DEF TypeOK
<1>23. CASE UNCHANGED vars
  BY <1>23, <1>t DEF vars, TypeOK, SendTypeOK, LoopTypeOK, LoopCrit
<1> QED BY <1>1, <1>2, <1>3, <1>4, <1>5, <1>6, <1>7, <1>8, <1>9, <1>10, <1>11, <1>12,
        <1>13, <1>14, <1>15, <1>16, <1>17, <1>18, <1>19, <1>20, <1>21, <1>22, <1>23,
        <1>a, <1>t, NextCases
        DEF TypeOK, QuietLoop

\* The flag of the list, and mCrit during a clear.
LEMMA CritStep == ASSUME IInv, [Next]_vars PROVE CritInv'
<1> USE DEF stopVars, loopVars, sendVars, history
<1>a. /\ Nobody \notin Threads \cup Msgs /\ "clear" \notin Threads \cup {Nobody}
      /\ Target \in [Msgs -> Threads] /\ Posted \subseteq Msgs
  BY MessageThreadAssumption DEF Systems
<1>t. /\ mMsgSends \in [Threads -> Seq(Msgs)] /\ mHasSends \in [Threads -> BOOLEAN]
      /\ mCrit \in [Threads -> Threads \cup {Nobody, "clear"}]
      /\ clearing \in Msgs \cup {Nobody} /\ LoopCrit /\ CritInv
  BY DEF IInv, TypeOK, SendTypeOK, LoopTypeOK
<1>1. ASSUME NEW o \in Systems, NEW m \in Msgs \ Posted,
             SendRefused(o, m) \/ SendDirect(o, m) \/ SendBegin(o, m) \/ SendReturn(o, m)
      PROVE  CritInv'
  BY <1>1, <1>t DEF SendRefused, SendDirect, SendBegin, SendReturn, CritInv
<1>2. ASSUME NEW m \in Msgs \ Posted, SendPush(m) PROVE CritInv'
  BY <1>2, <1>a, <1>t DEF SendPush, CritInv
<1>3. ASSUME NEW m \in Msgs, SenderStep(m) PROVE CritInv'
  BY <1>3, <1>t DEF SenderStep, SendWake, SendCheck, SendWaitReturns, SendReset, CritInv
<1>4. CASE ControlStep \/ (\E o \in Systems : DirectReturns(o)) \/ UNCHANGED vars
  BY <1>4, <1>t, Controlled DEF DirectReturns, CritInv, vars, IInv
<1>5. ASSUME NEW t \in Threads, PreRun(t) \/ QueueEmpty(t) \/ GetFalse(t) \/ NotStopped(t)
                \/ WaitReturns(t) \/ ResetEvent(t) \/ ReplyWake(t) \/ DispatchReturns(t)
      PROVE  CritInv'
  BY <1>5, <1>t DEF PreRun, QueueEmpty, GetFalse, NotStopped, WaitReturns, ResetEvent, ReplyWake,
     DispatchReturns, CritInv
<1>6. ASSUME NEW t \in Threads, NoMoreSends(t) PROVE CritInv'
  BY <1>6, <1>a, <1>t DEF NoMoreSends, CritInv, LoopCrit
<1>7. ASSUME NEW t \in Threads, TakeSend(t) PROVE CritInv'
  BY <1>7, <1>a, <1>t DEF TakeSend, CritInv, LoopCrit
<1>8. ASSUME NEW t \in Threads, Reply(t) PROVE CritInv'
  BY <1>8, <1>a, <1>t DEF Reply, CritInv
<1>9. ASSUME NEW t \in Threads, NEW m \in Posted, TakePosted(t, m) PROVE CritInv'
  BY <1>9, <1>t DEF TakePosted, CritInv
<1>10. ASSUME NEW m \in Msgs, ClearSend(m) PROVE CritInv'
  <2>1. mHasSends[Target[m]]
    BY <1>10, <1>a, <1>t DEF ClearSend, CritInv
  <2> QED BY <1>10, <2>1, <1>a, <1>t DEF ClearSend, CritInv
<1>11. CASE ClearWake
  BY <1>11, <1>a, <1>t DEF ClearWake, CritInv
<1> QED BY <1>1, <1>2, <1>3, <1>4, <1>5, <1>6, <1>7, <1>8, <1>9, <1>10, <1>11, NextCases
        DEF IInv, QuietLoop

\* A thread's context, and whose sends and calls it has.
LEMMA ContextStep == ASSUME IInv, [Next]_vars PROVE ContextInv'
<1> USE DEF stopVars, loopVars, sendVars, history
<1>a. /\ Threads \subseteq Systems /\ Target \in [Msgs -> Threads] /\ Posted \subseteq Msgs
      /\ Nobody \notin Systems /\ AutoThread \notin Systems /\ Nobody # AutoThread
  BY MessageThreadAssumption DEF Systems
<1>t. /\ mMsgSends \in [Threads -> Seq(Msgs)] /\ stack \in [Systems -> Seq(Frames)]
      /\ tls \in [Systems -> Threads \cup {Nobody, AutoThread}]
      /\ ContextInv /\ TypeOK
  BY DEF IInv, TypeOK, SendTypeOK, LoopTypeOK
\* Who is at home stays there, and the call of m by o is in the right place.
<1> DEFINE Near(h, o, t) == t \in {o, Nobody, AutoThread} \/ Creator[t] = o \/ <<o, t>> \in h
           Place(h, o, i, m) ==
               m \in Msgs => Target[m] = o
                              \/ (i # 1 /\ (Creator[Target[m]] = o \/ <<o, Target[m]>> \in h))
<1>h. ASSUME stopped \subseteq stopped'
      PROVE  /\ \A o, t : Near(stopped, o, t) => Near(stopped', o, t)
             /\ \A o, i, m : Place(stopped, o, i, m) => Place(stopped', o, i, m)
  BY <1>h
<1>p. \A o \in Systems : \A i \in 1..Len(stack[o]) : Place(stopped, o, i, stack[o][i].of)
  BY <1>t DEF ContextInv, Home
<1>q. \A o \in Systems : Near(stopped, o, tls[o])
  BY <1>t DEF ContextInv, Home
<1>r. \A t \in Threads : \A i \in 1..Len(mMsgSends[t]) : Target[mMsgSends[t][i]] = t
  BY <1>t DEF ContextInv
<1>s. ASSUME \A o \in Systems : \A i \in 1..Len(stack'[o]) : Place(stopped', o, i, stack'[o][i].of),
             \A o \in Systems : Near(stopped', o, tls'[o]),
             \A t \in Threads : \A i \in 1..Len(mMsgSends'[t]) : Target[mMsgSends'[t][i]] = t
      PROVE  ContextInv'
  BY <1>s DEF ContextInv, Home
<1>b. \A h, o, t : t \in {o, Nobody, AutoThread} => Near(h, o, t)
  OBVIOUS
<1> HIDE DEF Place, Near
<1>1. ASSUME NEW o \in Systems, NEW m \in Msgs \ Posted,
             SendRefused(o, m) \/ SendReturn(o, m)
      PROVE  ContextInv'
  <2>1. /\ mMsgSends' = mMsgSends /\ stopped' = stopped
        /\ \A p \in Systems : tls'[p] = tls[p] \/ tls'[p] = Nobody
    BY <1>1, <1>t DEF SendRefused, SendReturn
  <2>2. /\ \A p \in Systems : Len(stack'[p]) = Len(stack[p])
        /\ \A p \in Systems : \A i \in 1..Len(stack[p]) : stack'[p][i].of = stack[p][i].of
    BY <1>1, <1>t, MovedOn
  <2>3. \A p \in Systems : \A i \in 1..Len(stack'[p]) : Place(stopped', p, i, stack'[p][i].of)
    BY <1>h, <1>p, <2>1, <2>2
  <2>4. \A p \in Systems : Near(stopped', p, tls'[p])
    BY <1>b, <1>h, <1>q, <2>1
  <2> QED BY <1>r, <1>s, <2>1, <2>3, <2>4
<1>2. ASSUME NEW o \in Systems, NEW m \in Msgs \ Posted, SendDirect(o, m) PROVE ContextInv'
  <2>1. /\ o = Target[m] \/ Home(o, Target[m])
        /\ Len(stack[o]) \in Nat \ {0}
        /\ Len(stack'[o]) = Len(stack[o]) + 1 /\ stack'[o][Len(stack[o]) + 1].of = m
        /\ \A i \in 1..Len(stack[o]) : stack'[o][i] = stack[o][i]
        /\ \A p \in Systems \ {o} : stack'[p] = stack[p]
    BY <1>2, CalledDirectly
  <2>2. UNCHANGED <<mMsgSends, stopped, tls>>
    BY <1>2 DEF SendDirect
  <2>3. ASSUME NEW i \in 1..Len(stack'[o]) PROVE Place(stopped, o, i, stack'[o][i].of)
    <3>1. CASE i \in 1..Len(stack[o])
      BY <1>p, <2>1, <3>1
    <3>2. CASE i = Len(stack[o]) + 1
      BY <2>1, <3>2 DEF Place, Home
    <3> QED BY <2>1, <3>1, <3>2
  <2>4. \A p \in Systems : \A i \in 1..Len(stack'[p]) : Place(stopped', p, i, stack'[p][i].of)
    BY <1>h, <1>p, <2>1, <2>2, <2>3
  <2>5. \A p \in Systems : Near(stopped', p, tls'[p])
    BY <1>h, <1>q, <2>2
  <2> QED BY <1>r, <1>s, <2>2, <2>4, <2>5
<1>3. ASSUME NEW o \in Systems, DirectReturns(o) PROVE ContextInv'
  <2>1. /\ Len(stack[o]) \in Nat /\ Len(stack[o]) > 1 /\ Len(stack'[o]) = Len(stack[o]) - 1
        /\ \A i \in 1..Len(stack[o]) - 1 : stack'[o][i].of = stack[o][i].of
        /\ \A p \in Systems \ {o} : stack'[p] = stack[p]
    BY <1>3, ReturnedDirectly
  <2>2. UNCHANGED <<mMsgSends, stopped, tls>>
    BY <1>3 DEF DirectReturns
  <2>3. \A i \in 1..Len(stack'[o]) : i \in 1..Len(stack[o]) /\ stack'[o][i].of = stack[o][i].of
    BY <2>1
  <2>4. \A p \in Systems : \A i \in 1..Len(stack'[p]) : Place(stopped', p, i, stack'[p][i].of)
    BY <1>h, <1>p, <2>1, <2>2, <2>3
  <2>5. \A p \in Systems : Near(stopped', p, tls'[p])
    BY <1>h, <1>q, <2>2
  <2> QED BY <1>r, <1>s, <2>2, <2>4, <2>5
\* A step that makes nobody a current thread but the thread itself, or one at home,
\* and calls nothing.
<1>k. ASSUME UNCHANGED <<mMsgSends, stack>>, stopped \subseteq stopped',
             \A p \in Systems : tls'[p] = tls[p] \/ Near(stopped', p, tls'[p])
      PROVE  ContextInv'
  <2>1. \A p \in Systems : \A i \in 1..Len(stack'[p]) : Place(stopped', p, i, stack'[p][i].of)
    BY <1>h, <1>p, <1>k
  <2>2. \A p \in Systems : Near(stopped', p, tls'[p])
    BY <1>h, <1>q, <1>k
  <2> QED BY <1>k, <1>r, <1>s, <2>1, <2>2
<1>4. ASSUME NEW o \in Systems, NEW m \in Msgs \ Posted, SendBegin(o, m) PROVE ContextInv'
  BY <1>4, <1>b, <1>k, <1>t DEF SendBegin
<1>5. ASSUME NEW m \in Msgs \ Posted, SendPush(m) PROVE ContextInv'
  <2>1. \A t \in Threads : \A i \in 1..Len(mMsgSends'[t]) : Target[mMsgSends'[t][i]] = t
    BY <1>5, <1>a, <1>r, <1>t DEF SendPush
  <2>2. UNCHANGED <<stack, stopped, tls>>
    BY <1>5 DEF SendPush
  <2>3. \A p \in Systems : \A i \in 1..Len(stack'[p]) : Place(stopped', p, i, stack'[p][i].of)
    BY <1>h, <1>p, <2>2
  <2>4. \A p \in Systems : Near(stopped', p, tls'[p])
    BY <1>h, <1>q, <2>2
  <2> QED BY <1>s, <2>1, <2>3, <2>4
<1>6. ASSUME NEW m \in Msgs, SenderStep(m) PROVE ContextInv'
  BY <1>6, <1>k DEF SenderStep, SendWake, SendCheck, SendWaitReturns, SendReset
<1>7. ASSUME NEW t \in Threads, QuietLoop(t) \/ Reply(t) PROVE ContextInv'
  <2>1. UNCHANGED <<mMsgSends, stack, stopped>> /\ (tls' = tls \/ tls' = [tls EXCEPT ![t] = t])
    BY <1>7 DEF QuietLoop, PreRun, NoMoreSends, QueueEmpty, GetFalse, NotStopped, WaitReturns,
       ResetEvent, Reply
  <2>2. \A p \in Systems : tls'[p] = tls[p] \/ tls'[p] = p
    BY <1>a, <1>t, <2>1
  <2> QED BY <1>b, <1>k, <2>1, <2>2
<1>9. ASSUME NEW t \in Threads, ReplyWake(t) \/ DispatchReturns(t) PROVE ContextInv'
  <2>1. stack'[t] = <<>> /\ \A p \in Systems \ {t} : stack'[p] = stack[p]
    BY <1>9, <1>a, <1>t DEF ReplyWake, DispatchReturns
  <2>2. UNCHANGED <<mMsgSends, stopped, tls>>
    BY <1>9 DEF ReplyWake, DispatchReturns
  <2>3. \A p \in Systems : \A i \in 1..Len(stack'[p]) : Place(stopped', p, i, stack'[p][i].of)
    BY <1>h, <1>p, <2>1, <2>2
  <2>4. \A p \in Systems : Near(stopped', p, tls'[p])
    BY <1>h, <1>q, <2>2
  <2> QED BY <1>r, <1>s, <2>2, <2>3, <2>4
<1>10. ASSUME NEW t \in Threads, TakeSend(t) PROVE ContextInv'
  <2>1. /\ \A i \in 1..Len(stack'[t]) : Target[stack'[t][i].of] = t
        /\ \A i \in 1..Len(mMsgSends'[t]) : Target[mMsgSends'[t][i]] = t
    <3>1. /\ 1 \in 1..Len(mMsgSends[t]) /\ Len(stack'[t]) = 1
          /\ stack'[t][1].of = mMsgSends[t][1]
          /\ \A i \in 1..Len(mMsgSends'[t]) :
                i + 1 \in 1..Len(mMsgSends[t]) /\ mMsgSends'[t][i] = mMsgSends[t][i + 1]
      BY <1>10, Taken
    <3>2. Target[mMsgSends[t][1]] = t
      BY <1>r, <3>1
    <3>3. \A i \in 1..Len(stack'[t]) : Target[stack'[t][i].of] = t
      BY <3>1, <3>2
    <3>4. \A i \in 1..Len(mMsgSends'[t]) : Target[mMsgSends'[t][i]] = t
      BY <1>r, <3>1
    <3> QED BY <3>3, <3>4
  <2>3. /\ \A p \in Systems \ {t} : stack'[p] = stack[p]
        /\ \A u \in Threads \ {t} : mMsgSends'[u] = mMsgSends[u]
        /\ UNCHANGED <<tls, stopped>>
    BY <1>10, Taken DEF TakeSend
  <2>4. \A p \in Systems : \A i \in 1..Len(stack'[p]) : Place(stopped', p, i, stack'[p][i].of)
    <3>1. \A i \in 1..Len(stack'[t]) : Place(stopped', t, i, stack'[t][i].of)
      BY <2>1 DEF Place
    <3>2. \A p \in Systems \ {t} : \A i \in 1..Len(stack'[p]) :
              Place(stopped', p, i, stack'[p][i].of)
      BY <1>p, <2>3
    <3> QED BY <3>1, <3>2
  <2>5. \A p \in Systems : Near(stopped', p, tls'[p])
    BY <1>h, <1>q, <2>3
  <2>6. \A u \in Threads : \A i \in 1..Len(mMsgSends'[u]) : Target[mMsgSends'[u][i]] = u
    BY <1>r, <2>1, <2>3
  <2> QED BY <1>s, <2>4, <2>5, <2>6
<1>11. ASSUME NEW t \in Threads, NEW m \in Posted, TakePosted(t, m) PROVE ContextInv'
  <2>1. stack'[t] = <<Frame(m)>> /\ Target[m] = t
    BY <1>11, <1>a, <1>t DEF TakePosted
  <2>2. \A p \in Systems \ {t} : stack'[p] = stack[p]
    BY <1>11, <1>t DEF TakePosted
  <2>3. \A i \in 1..Len(stack'[t]) : Target[stack'[t][i].of] = t
    BY <2>1 DEF Frame
  <2>4. UNCHANGED <<mMsgSends, stopped, tls>>
    BY <1>11 DEF TakePosted
  <2>5. \A p \in Systems : \A i \in 1..Len(stack'[p]) : Place(stopped', p, i, stack'[p][i].of)
    BY <1>a, <1>h, <1>p, <2>2, <2>3, <2>4 DEF Place
  <2>6. \A p \in Systems : Near(stopped', p, tls'[p])
    BY <1>h, <1>q, <2>4
  <2> QED BY <1>r, <1>s, <2>4, <2>5, <2>6
<1>12. ASSUME NEW m \in Msgs, ClearSend(m) PROVE ContextInv'
  <2>1. PICK k \in 1..Len(mMsgSends[Target[m]]) :
           \A i \in 1..Len(mMsgSends'[Target[m]]) :
               LET j == IF i < k THEN i ELSE i + 1
               IN  j \in 1..Len(mMsgSends[Target[m]])
                   /\ mMsgSends'[Target[m]][i] = mMsgSends[Target[m]][j]
    BY <1>12, <1>t, Erased
  <2>2. \A i \in 1..Len(mMsgSends'[Target[m]]) : \E j \in 1..Len(mMsgSends[Target[m]]) :
            mMsgSends'[Target[m]][i] = mMsgSends[Target[m]][j]
    BY <2>1
  <2>3. \A i \in 1..Len(mMsgSends'[Target[m]]) : Target[mMsgSends'[Target[m]][i]] = Target[m]
    BY <1>a, <1>r, <2>2
  <2>4. \A t \in Threads \ {Target[m]} : mMsgSends'[t] = mMsgSends[t]
    BY <1>12, <1>t, Erased
  <2>5. UNCHANGED <<stack, stopped, tls>>
    BY <1>12 DEF ClearSend
  <2>6. \A p \in Systems : \A i \in 1..Len(stack'[p]) : Place(stopped', p, i, stack'[p][i].of)
    BY <1>h, <1>p, <2>5
  <2>7. \A p \in Systems : Near(stopped', p, tls'[p])
    BY <1>h, <1>q, <2>5
  <2>8. \A u \in Threads : \A i \in 1..Len(mMsgSends'[u]) : Target[mMsgSends'[u][i]] = u
    BY <1>r, <2>3, <2>4
  <2> QED BY <1>s, <2>6, <2>7, <2>8
<1>13. CASE ControlStep \/ ClearWake \/ UNCHANGED vars
  <2>1. UNCHANGED <<mMsgSends, stack>> /\ stopped \subseteq stopped'
    BY <1>13, <1>t, Controlled DEF ClearWake, vars
  <2>2. ASSUME NEW o \in Systems, StopReturns(o)
        PROVE  \A p \in Systems : tls'[p] = tls[p] \/ Near(stopped', p, tls'[p])
    BY <2>2, <1>t DEF StopReturns, Near
  <2>3. ASSUME NEW t \in Threads, Start(t)
        PROVE  \A p \in Systems : tls'[p] = tls[p] \/ tls'[p] = Nobody
    BY <2>3, <1>a, <1>t DEF Start
  <2>4. \/ tls' = tls \/ (\E o \in Systems : StopReturns(o)) \/ \E t \in Threads : Start(t)
    BY <1>13 DEF ControlStep, StopSet, StopStep, StopWake, StopThread, ClearWake, vars
  <2>5. \A p \in Systems : tls'[p] = tls[p] \/ Near(stopped', p, tls'[p])
    BY <1>b, <2>2, <2>3, <2>4
  <2> QED BY <1>k, <2>1, <2>5
<1> QED BY <1>1, <1>2, <1>3, <1>4, <1>5, <1>6, <1>7, <1>9, <1>10, <1>11, <1>12, <1>13,
        <1>t, NextCases

\* Which stacks are empty, and what is at their bottom.
LEMMA ShapeStep == ASSUME IInv, [Next]_vars PROVE ShapeInv'
<1> USE DEF stopVars, loopVars, sendVars, history
<1>a. /\ Threads \subseteq Systems /\ Clients \subseteq Systems /\ Threads \cap Clients = {}
      /\ Posted \subseteq Msgs
  BY MessageThreadAssumption DEF Systems
<1>t. /\ stack \in [Systems -> Seq(Frames)]
      /\ lpc \in [Threads -> {"prerun", "sends", "handling", "reply", "more", "queue",
                            "dispatch", "stopcheck", "wait", "reset", "exited"}]
      /\ ShapeInv /\ TypeOK
  BY DEF IInv, TypeOK, LoopTypeOK
\* It is kept by a step that leaves the bottom of each stack and puts only messages
\* above it.
<1>k. ASSUME \A p \in Systems : /\ stack'[p] # <<>> <=> stack[p] # <<>>
                                /\ stack[p] # <<>> => stack'[p][1].of = stack[p][1].of
                                /\ \A i \in 2..Len(stack'[p]) : stack'[p][i].of \in Msgs,
             \A t \in Threads : lpc[t] = "reply" => stack'[t] = stack[t],
             lpc' = lpc, stack' \in [Systems -> Seq(Frames)]
      PROVE  ShapeInv'
  <2>1. ASSUME NEW c \in Clients PROVE stack'[c] # <<>> /\ stack'[c][1].of = c
    BY <1>a, <1>k, <1>t DEF ShapeInv
  <2>2. ASSUME NEW t \in Threads, NEW i \in 1..Len(stack'[t]) PROVE stack'[t][i].of \in Msgs
    <3>1. CASE i = 1
      <4>1. stack'[t] # <<>>
        BY <1>a, <1>k
      <4>2. stack[t] # <<>> /\ 1 \in 1..Len(stack[t])
        BY <1>a, <1>k, <1>t, <4>1
      <4> QED BY <1>a, <1>k, <1>t, <3>1, <4>2 DEF ShapeInv
    <3>2. CASE i \in 2..Len(stack'[t])
      BY <1>a, <1>k, <3>2
    <3>3. stack'[t] \in Seq(Frames)
      BY <1>a, <1>k
    <3> QED BY <3>1, <3>2, <3>3
  <2>3. ASSUME NEW t \in Threads, lpc[t] = "reply" PROVE Len(stack'[t]) = 1 /\ AtEnd(t)'
    BY <1>k, <1>t, <2>3 DEF ShapeInv, AtEnd
  <2> QED BY <1>a, <1>k, <1>t, <2>1, <2>2, <2>3 DEF ShapeInv
\* It is kept by a step of the loop of t that begins or ends a call.
<1>n. ASSUME NEW t \in Threads,
             \A p \in Systems \ {t} : stack'[p] = stack[p],
             \A u \in Threads \ {t} : lpc'[u] = lpc[u],
             stack'[t] = <<>> <=> lpc'[t] \notin {"handling", "reply", "dispatch"},
             lpc'[t] # "reply", \A i \in 1..Len(stack'[t]) : stack'[t][i].of \in Msgs
      PROVE  ShapeInv'
  <2>1. \A c \in Clients : stack'[c] = stack[c]
    BY <1>a, <1>n
  <2>2. \A u \in Threads \ {t} : stack'[u] = stack[u]
    BY <1>a, <1>n
  <2>3. ASSUME NEW c \in Clients
        PROVE  /\ stack'[c] # <<>> /\ stack'[c][1].of = c
               /\ \A i \in 2..Len(stack'[c]) : stack'[c][i].of \in Msgs
    BY <1>t, <2>1 DEF ShapeInv
  <2>4. ASSUME NEW u \in Threads
        PROVE  /\ stack'[u] = <<>> <=> lpc'[u] \notin {"handling", "reply", "dispatch"}
               /\ lpc'[u] = "reply" => Len(stack'[u]) = 1 /\ AtEnd(u)'
               /\ \A i \in 1..Len(stack'[u]) : stack'[u][i].of \in Msgs
    <3>1. CASE u = t
      BY <1>n, <3>1
    <3>2. CASE u # t
      BY <1>n, <1>t, <2>2, <3>2 DEF ShapeInv, AtEnd
    <3> QED BY <3>1, <3>2
  <2> QED BY <2>3, <2>4 DEF ShapeInv
\* Every call above the bottom is a message's.
<1>m. \A p \in Systems : \A i \in 2..Len(stack[p]) : stack[p][i].of \in Msgs
  <2>1. ASSUME NEW p \in Systems, NEW i \in 2..Len(stack[p]) PROVE stack[p][i].of \in Msgs
    <3>1. CASE p \in Threads
      <4>1. i \in 1..Len(stack[p])
        BY <1>t
      <4> QED BY <1>t, <3>1, <4>1 DEF ShapeInv
    <3>2. CASE p \in Clients
      BY <1>t, <3>2 DEF ShapeInv
    <3> QED BY <3>1, <3>2 DEF Systems
  <2> QED BY <2>1
<1>1. ASSUME NEW o \in Systems, NEW m \in Msgs \ Posted,
             SendRefused(o, m) \/ SendReturn(o, m)
      PROVE  ShapeInv'
  <2>1. m \in Current(o) /\ lpc' = lpc /\ \A p \in Systems \ {o} : stack'[p] = stack[p]
    BY <1>1, <1>t DEF SendRefused, SendReturn, Calling
  <2>2. ~AtEnd(o) /\ stack[o] # <<>>
    BY <2>1, <1>t, CurrentFacts
  <2>3. /\ stack' \in [Systems -> Seq(Frames)]
        /\ \A p \in Systems : /\ Len(stack'[p]) = Len(stack[p])
                              /\ \A i \in 1..Len(stack[p]) : stack'[p][i].of = stack[p][i].of
    BY <1>1, <1>t, MovedOn
  <2>4. ASSUME NEW p \in Systems
        PROVE  /\ stack'[p] # <<>> <=> stack[p] # <<>>
               /\ stack[p] # <<>> => stack'[p][1].of = stack[p][1].of
               /\ \A i \in 2..Len(stack'[p]) : stack'[p][i].of \in Msgs
    <3>1. stack[p] \in Seq(Frames) /\ stack'[p] \in Seq(Frames)
      BY <1>t, <2>3
    <3>2. stack'[p] # <<>> <=> stack[p] # <<>>
      BY <2>3, <3>1
    <3>3. stack[p] # <<>> => 1 \in 1..Len(stack[p])
      BY <3>1
    <3>4. \A i \in 2..Len(stack'[p]) : i \in 1..Len(stack[p]) /\ i \in 2..Len(stack[p])
      BY <2>3, <3>1
    <3> QED BY <1>m, <2>3, <3>2, <3>3, <3>4
  <2>5. \A t \in Threads : lpc[t] = "reply" => stack'[t] = stack[t]
    BY <1>a, <1>t, <2>1, <2>2 DEF ShapeInv
  <2> QED BY <1>k, <2>1, <2>3, <2>4, <2>5
<1>2. ASSUME NEW o \in Systems, NEW m \in Msgs \ Posted, SendDirect(o, m) PROVE ShapeInv'
  <2>1. /\ o \in Threads => lpc[o] \in {"handling", "dispatch"}
        /\ stack' \in [Systems -> Seq(Frames)]
        /\ Len(stack[o]) \in Nat \ {0} /\ Len(stack'[o]) = Len(stack[o]) + 1
        /\ \A i \in 1..Len(stack[o]) : stack'[o][i] = stack[o][i]
        /\ stack'[o][Len(stack[o]) + 1].of = m
        /\ \A p \in Systems \ {o} : stack'[p] = stack[p]
    BY <1>2, CalledDirectly
  <2>2. \A i \in 2..Len(stack'[o]) : stack'[o][i].of \in Msgs
    BY <1>m, <2>1
  <2>3. stack'[o] # <<>> /\ stack[o] # <<>> /\ stack'[o][1].of = stack[o][1].of
    BY <2>1
  <2>4. \A t \in Threads : lpc[t] = "reply" => stack'[t] = stack[t]
    BY <1>a, <2>1
  <2>5. lpc' = lpc
    BY <1>2 DEF SendDirect
  <2> QED BY <1>k, <1>m, <2>1, <2>2, <2>3, <2>4, <2>5
<1>3. ASSUME NEW o \in Systems, DirectReturns(o) PROVE ShapeInv'
  <2>1. /\ o \in Threads => lpc[o] \in {"handling", "dispatch"}
        /\ stack' \in [Systems -> Seq(Frames)]
        /\ Len(stack[o]) \in Nat /\ Len(stack[o]) > 1 /\ Len(stack'[o]) = Len(stack[o]) - 1
        /\ \A i \in 1..Len(stack[o]) - 1 : stack'[o][i].of = stack[o][i].of
        /\ \A p \in Systems \ {o} : stack'[p] = stack[p]
    BY <1>3, ReturnedDirectly
  <2>2. \A i \in 2..Len(stack'[o]) : stack'[o][i].of \in Msgs
    BY <1>m, <2>1
  <2>3. stack'[o] # <<>> /\ stack[o] # <<>> /\ stack'[o][1].of = stack[o][1].of
    BY <2>1
  <2>4. \A t \in Threads : lpc[t] = "reply" => stack'[t] = stack[t]
    BY <1>a, <2>1
  <2>5. lpc' = lpc
    BY <1>3 DEF DirectReturns
  <2> QED BY <1>k, <1>m, <2>1, <2>2, <2>3, <2>4, <2>5
<1>4. ASSUME NEW m \in Msgs, SendPush(m) \/ SenderStep(m) \/ ClearSend(m) PROVE ShapeInv'
  BY <1>4, <1>t DEF SendPush, SenderStep, SendWake, SendCheck, SendWaitReturns, SendReset,
     ClearSend, ShapeInv, AtEnd
<1>5. CASE \/ \E o \in Systems, m \in Msgs : SendBegin(o, m)
           \/ ControlStep \/ ClearWake \/ UNCHANGED vars
  <2>1. stack' = stack
    BY <1>5, <1>t, Controlled DEF SendBegin, ClearWake, vars
  <2>2. \A t \in Threads : lpc'[t] = lpc[t] \/ (lpc[t] = "exited" /\ lpc'[t] = "prerun")
    BY <1>5, <1>t, Controlled DEF SendBegin, ClearWake, vars
  <2> QED BY <1>t, <2>1, <2>2 DEF ShapeInv, AtEnd
<1>6. ASSUME NEW t \in Threads, QuietLoop(t) PROVE ShapeInv'
  <2>1. /\ lpc[t] \notin {"handling", "reply", "dispatch"}
        /\ lpc'[t] \notin {"handling", "reply", "dispatch"}
        /\ \A u \in Threads \ {t} : lpc'[u] = lpc[u]
        /\ stack' = stack
    BY <1>6, <1>t DEF QuietLoop, PreRun, NoMoreSends, QueueEmpty, GetFalse, NotStopped,
       WaitReturns, ResetEvent
  <2> QED BY <1>a, <1>t, <2>1 DEF ShapeInv, AtEnd
<1>7. ASSUME NEW t \in Threads, TakeSend(t) PROVE ShapeInv'
  <2>1. /\ Len(stack'[t]) = 1 /\ stack'[t][1].of \in Msgs
        /\ \A p \in Systems \ {t} : stack'[p] = stack[p]
    BY <1>7, Taken
  <2>2. lpc'[t] = "handling" /\ \A u \in Threads \ {t} : lpc'[u] = lpc[u]
    BY <1>7, <1>t DEF TakeSend
  <2>3. stack'[t] # <<>> /\ \A i \in 1..Len(stack'[t]) : stack'[t][i].of \in Msgs
    BY <2>1
  <2> QED BY <1>n, <2>1, <2>2, <2>3
<1>8. ASSUME NEW t \in Threads, NEW m \in Posted, TakePosted(t, m) PROVE ShapeInv'
  <2>1. stack'[t] = <<Frame(m)>>
    BY <1>8, <1>a, <1>t DEF TakePosted
  <2>2. Len(stack'[t]) = 1 /\ stack'[t][1].of \in Msgs
    BY <2>1, <1>a DEF Frame
  <2>4. \A p \in Systems \ {t} : stack'[p] = stack[p]
    BY <1>8, <1>t DEF TakePosted
  <2>3. lpc'[t] = "dispatch" /\ \A u \in Threads \ {t} : lpc'[u] = lpc[u]
    BY <1>8, <1>t DEF TakePosted
  <2> QED BY <1>a, <1>t, <2>2, <2>3, <2>4 DEF ShapeInv, AtEnd
<1>9. ASSUME NEW t \in Threads, Reply(t) PROVE ShapeInv'
  BY <1>9, <1>a, <1>t DEF Reply, ShapeInv, AtEnd
<1>10. ASSUME NEW t \in Threads, ReplyWake(t) \/ DispatchReturns(t) PROVE ShapeInv'
  <2>1. stack'[t] = <<>> /\ \A p \in Systems \ {t} : stack'[p] = stack[p]
    BY <1>10, <1>a, <1>t DEF ReplyWake, DispatchReturns
  <2>2. /\ lpc'[t] \notin {"handling", "reply", "dispatch"}
        /\ \A u \in Threads \ {t} : lpc'[u] = lpc[u]
    BY <1>10, <1>t DEF ReplyWake, DispatchReturns
  <2>3. \A i \in 1..Len(stack'[t]) : stack'[t][i].of \in Msgs
    BY <2>1
  <2> QED BY <1>n, <2>1, <2>2, <2>3
<1> QED BY <1>1, <1>2, <1>3, <1>4, <1>5, <1>6, <1>7, <1>8, <1>9, <1>10, <1>t, NextCases

\* The message at the bottom of a stack is its head.
LEMMA HeadFacts ==
  ASSUME TypeOK, ShapeInv, NEW t \in Threads, lpc[t] \in {"handling", "reply", "dispatch"}
  PROVE  Head(stack[t]) = stack[t][1] /\ 1 \in 1..Len(stack[t]) /\ stack[t][1].of \in Msgs
<1>1. stack[t] \in Seq(Frames) /\ stack[t] # <<>>
  BY DEF TypeOK, LoopTypeOK, ShapeInv, Systems
<1>2. Head(stack[t]) = stack[t][1] /\ 1 \in 1..Len(stack[t])
  BY <1>1
<1> QED BY <1>2 DEF ShapeInv

\* How far each message is.
LEMMA SendStepInv == ASSUME IInv, [Next]_vars PROVE SendInv'
<1> USE DEF stopVars, loopVars, sendVars, history, Before, Waiting
<1>a. Target \in [Msgs -> Threads] /\ Posted \subseteq Msgs
  BY MessageThreadAssumption
<1>t. /\ spc \in [Msgs -> Busy \cup {"unsent", "refused", "direct", "returned"}]
      /\ ready \in [Msgs -> BOOLEAN] /\ handled \in [Msgs -> Nat] /\ cleared \subseteq Msgs
      /\ posts \subseteq Posted
      /\ SendInv /\ TypeOK /\ ShapeInv
  BY DEF IInv, TypeOK, SendTypeOK
<1>1. ASSUME NEW o \in Systems, NEW m \in Msgs \ Posted,
             SendRefused(o, m) \/ SendDirect(o, m) \/ SendBegin(o, m)
      PROVE  SendInv'
  BY <1>1, <1>t DEF SendRefused, SendDirect, SendBegin, SendInv
<1>2. ASSUME NEW o \in Systems, NEW m \in Msgs \ Posted, SendReturn(o, m) PROVE SendInv'
  BY <1>2, <1>t DEF SendReturn, SendInv
<1>3. ASSUME NEW m \in Msgs \ Posted, SendPush(m) PROVE SendInv'
  BY <1>3, <1>t DEF SendPush, SendInv
<1>4. ASSUME NEW m \in Msgs, SenderStep(m) PROVE SendInv'
  BY <1>4, <1>t DEF SenderStep, SendWake, SendCheck, SendWaitReturns, SendReset, SendInv
<1>5. ASSUME NEW o \in Systems, DirectReturns(o) PROVE SendInv'
  <2> DEFINE m == Last(stack[o]).of
  <2>1. /\ Len(stack[o]) \in 2..Len(stack[o]) /\ m \in Msgs
        /\ m = stack[o][Len(stack[o])].of
    BY <1>5, ReturnedDirectly
  <2>2. spc[m] = "direct"
    BY <2>1 DEF IInv, DirectInv
  <2>3. /\ handled' = [handled EXCEPT ![m] = @ + 1] /\ spc' = [spc EXCEPT ![m] = "returned"]
        /\ UNCHANGED <<posts, ready, cleared>>
    BY <1>5 DEF DirectReturns
  <2>4. m \in Msgs
    BY <2>1
  <2> HIDE DEF m
  <2> QED BY <1>t, <2>2, <2>3, <2>4 DEF SendInv
<1>6. ASSUME NEW t \in Threads, Reply(t) PROVE SendInv'
  <2> DEFINE m == Head(stack[t]).of
  <2>1. m = stack[t][1].of /\ m \in Msgs /\ spc[m] \in Waiting /\ ~ready[m]
    BY <1>6, <1>t, HeadFacts DEF Reply, IInv, FrameInv
  <2>2. /\ ready' = [ready EXCEPT ![m] = TRUE] /\ handled' = [handled EXCEPT ![m] = @ + 1]
        /\ UNCHANGED <<posts, spc, cleared>>
    BY <1>6 DEF Reply
  <2> HIDE DEF m
  <2> QED BY <1>t, <2>1, <2>2 DEF SendInv
<1>7. ASSUME NEW t \in Threads, DispatchReturns(t) PROVE SendInv'
  <2> DEFINE m == Head(stack[t]).of
  <2>1. m = stack[t][1].of /\ m \in Posted \ posts /\ handled[m] = 0
    BY <1>7, <1>t, HeadFacts DEF DispatchReturns, IInv, FrameInv
  <2>2. /\ handled' = [handled EXCEPT ![m] = @ + 1]
        /\ UNCHANGED <<posts, spc, ready, cleared>>
    BY <1>7 DEF DispatchReturns
  <2> HIDE DEF m
  <2> QED BY <1>a, <1>t, <2>1, <2>2 DEF SendInv
<1>8. ASSUME NEW t \in Threads,
             QuietLoop(t) \/ TakeSend(t) \/ ReplyWake(t) \/ \E m \in Posted : TakePosted(t, m)
      PROVE  SendInv'
  <2>1. UNCHANGED <<spc, ready, handled, cleared>> /\ posts' \subseteq posts
    BY <1>8 DEF QuietLoop, PreRun, NoMoreSends, QueueEmpty, GetFalse, NotStopped, WaitReturns,
       ResetEvent, TakeSend, ReplyWake, TakePosted
  <2> QED BY <1>t, <2>1 DEF SendInv
<1>9. ASSUME NEW m \in Msgs, ClearSend(m) PROVE SendInv'
  <2>1. spc[m] \in Waiting /\ ~ready[m]
    <3>1. PICK k \in 1..Len(mMsgSends[Target[m]]) : mMsgSends[Target[m]][k] = m
      BY <1>9, <1>t, Erased
    <3> QED BY <1>a, <3>1 DEF IInv, ListInv
  <2> QED BY <1>9, <1>t, <2>1 DEF ClearSend, SendInv
<1>10. CASE ControlStep \/ ClearWake \/ UNCHANGED vars
  BY <1>10, <1>t, Controlled DEF ClearWake, vars, SendInv
<1> QED BY <1>1, <1>2, <1>3, <1>4, <1>5, <1>6, <1>7, <1>8, <1>9, <1>10, <1>t, NextCases

\* What is in the lists.
LEMMA ListStep == ASSUME IInv, [Next]_vars PROVE ListInv'
<1> USE DEF stopVars, loopVars, sendVars, history, Waiting
<1>a. Target \in [Msgs -> Threads] /\ Posted \subseteq Msgs
  BY MessageThreadAssumption
<1>t. /\ spc \in [Msgs -> Busy \cup {"unsent", "refused", "direct", "returned"}]
      /\ ready \in [Msgs -> BOOLEAN] /\ mMsgSends \in [Threads -> Seq(Msgs)]
      /\ ListInv /\ TypeOK /\ ShapeInv
  BY DEF IInv, TypeOK, SendTypeOK
<1>d. \A t \in Threads : \A i \in 1..Len(mMsgSends[t]) :
          mMsgSends[t][i] \in Msgs /\ Target[mMsgSends[t][i]] = t
  BY <1>t DEF IInv, ContextInv
\* A step that keeps the lists, and leaves the sends in them unanswered, keeps ListInv.
<1>k. ASSUME mMsgSends' = mMsgSends,
             \A m \in Msgs : spc[m] \in Waiting /\ ~ready[m] =>
                spc'[m] \in Waiting /\ ~ready'[m]
      PROVE  ListInv'
  BY <1>k, <1>d, <1>t DEF ListInv
<1>1. ASSUME NEW o \in Systems, NEW m \in Msgs \ Posted,
             SendRefused(o, m) \/ SendDirect(o, m) \/ SendBegin(o, m) \/ SendReturn(o, m)
      PROVE  ListInv'
  BY <1>1, <1>k, <1>t DEF SendRefused, SendDirect, SendBegin, SendReturn
<1>2. ASSUME NEW m \in Msgs, SenderStep(m) PROVE ListInv'
  BY <1>2, <1>k, <1>t DEF SenderStep, SendWake, SendCheck, SendWaitReturns, SendReset
<1>3. ASSUME NEW o \in Systems, DirectReturns(o) PROVE ListInv'
  <2> DEFINE m == Last(stack[o]).of
  <2>1. /\ Len(stack[o]) \in 2..Len(stack[o])
        /\ m = stack[o][Len(stack[o])].of
    BY <1>3, ReturnedDirectly
  <2>2. spc[m] = "direct"
    BY <2>1 DEF IInv, DirectInv
  <2> HIDE DEF m
  <2>3. spc' = [spc EXCEPT ![m] = "returned"] /\ UNCHANGED <<mMsgSends, ready>>
    BY <1>3 DEF DirectReturns, m
  <2> QED BY <1>k, <1>t, <2>2, <2>3
<1>4. ASSUME NEW m \in Msgs \ Posted, SendPush(m) PROVE ListInv'
  <2> DEFINE s == mMsgSends[Target[m]]
  <2>1. s \in Seq(Msgs) /\ spc[m] = "push" /\ ~ready[m]
    BY <1>4, <1>a, <1>t DEF SendPush, IInv, SendInv, Before
  <2>2. /\ spc' = [spc EXCEPT ![m] = "wake"] /\ ready' = ready
        /\ mMsgSends' = [mMsgSends EXCEPT ![Target[m]] = Append(s, m)]
    BY <1>4 DEF SendPush
  <2>3. \A i \in 1..Len(s) : s[i] # m /\ spc[s[i]] \in Waiting /\ ~ready[s[i]]
    BY <1>a, <1>t, <2>1 DEF ListInv
  <2>4. \A i, j \in 1..Len(s) : s[i] = s[j] => i = j
    BY <1>a, <1>t DEF ListInv
  <2>5. mMsgSends'[Target[m]] = Append(s, m)
    BY <1>a, <1>t, <2>2
  <2> HIDE DEF s
  <2>6. \A i \in 1..Len(Append(s, m)) :
            Append(s, m)[i] = m \/ (i \in 1..Len(s) /\ Append(s, m)[i] = s[i])
    BY <2>1
  <2>7. \A i, j \in 1..Len(Append(s, m)) : Append(s, m)[i] = Append(s, m)[j] => i = j
    BY <2>1, <2>3, <2>4
  <2>8. \A i \in 1..Len(Append(s, m)) :
            spc'[Append(s, m)[i]] \in Waiting /\ ~ready'[Append(s, m)[i]]
    BY <1>t, <2>1, <2>2, <2>3, <2>6
  <2>9. ASSUME NEW t \in Threads \ {Target[m]}
        PROVE  /\ mMsgSends'[t] = mMsgSends[t]
               /\ \A i \in 1..Len(mMsgSends[t]) :
                     spc'[mMsgSends[t][i]] \in Waiting /\ ~ready'[mMsgSends[t][i]]
    BY <1>d, <1>t, <2>1, <2>2 DEF ListInv
  <2> QED BY <1>t, <2>5, <2>7, <2>8, <2>9 DEF ListInv
<1>5. ASSUME NEW t \in Threads, Reply(t) PROVE ListInv'
  <2> DEFINE m == Head(stack[t]).of
  <2>1. m = stack[t][1].of /\ m \in Msgs /\ 1 \in 1..Len(stack[t]) /\ t \in Systems
    BY <1>5, <1>t, HeadFacts DEF Reply, Systems
  <2>2. Target[m] = t /\ \A i \in 1..Len(mMsgSends[t]) : mMsgSends[t][i] # m
    BY <1>5, <2>1 DEF Reply, IInv, FrameInv, ContextInv
  <2>3. ready' = [ready EXCEPT ![m] = TRUE] /\ UNCHANGED <<mMsgSends, spc>>
    BY <1>5 DEF Reply
  <2> HIDE DEF m
  <2>4. \A u \in Threads : \A i \in 1..Len(mMsgSends[u]) : mMsgSends[u][i] # m
    BY <1>d, <2>2
  <2> QED BY <1>d, <1>t, <2>3, <2>4 DEF ListInv
<1>6. ASSUME NEW t \in Threads, TakeSend(t) PROVE ListInv'
  <2>1. spc' = spc /\ ready' = ready
    BY <1>6 DEF TakeSend
  <2>2. /\ \A i \in 1..Len(mMsgSends'[t]) :
              i + 1 \in 1..Len(mMsgSends[t]) /\ mMsgSends'[t][i] = mMsgSends[t][i + 1]
        /\ \A u \in Threads \ {t} : mMsgSends'[u] = mMsgSends[u]
    BY <1>6, Taken
  <2>3. ASSUME NEW i \in 1..Len(mMsgSends'[t]), NEW j \in 1..Len(mMsgSends'[t]),
               mMsgSends'[t][i] = mMsgSends'[t][j]
        PROVE  i = j
    <3>1. \A k, l \in 1..Len(mMsgSends[t]) : mMsgSends[t][k] = mMsgSends[t][l] => k = l
      BY <1>t DEF ListInv
    <3>2. i + 1 = j + 1
      BY <2>2, <2>3, <3>1
    <3> QED BY <3>2
  <2>4. \A i \in 1..Len(mMsgSends'[t]) :
            spc[mMsgSends'[t][i]] \in Waiting /\ ~ready[mMsgSends'[t][i]]
    <3>1. \A k \in 1..Len(mMsgSends[t]) :
              spc[mMsgSends[t][k]] \in Waiting /\ ~ready[mMsgSends[t][k]]
      BY <1>t DEF ListInv
    <3> QED BY <2>2, <3>1
  <2> QED BY SMTT(30), <1>t, <2>1, <2>2, <2>3, <2>4 DEF ListInv
<1>7. ASSUME NEW t \in Threads,
             QuietLoop(t) \/ ReplyWake(t) \/ DispatchReturns(t)
                \/ \E m \in Posted : TakePosted(t, m)
      PROVE  ListInv'
  <2>1. UNCHANGED <<mMsgSends, spc, ready>>
    BY <1>7 DEF QuietLoop, PreRun, NoMoreSends, QueueEmpty, GetFalse, NotStopped, WaitReturns,
       ResetEvent, ReplyWake, DispatchReturns, TakePosted
  <2> QED BY <1>k, <2>1
<1>8. ASSUME NEW m \in Msgs, ClearSend(m) PROVE ListInv'
  <2> DEFINE t == Target[m]  s == mMsgSends[t]
  <2>1. PICK k \in 1..Len(s) :
          /\ s[k] = m
          /\ \A i \in 1..Len(mMsgSends'[t]) :
                LET j == IF i < k THEN i ELSE i + 1
                IN j \in 1..Len(s) /\ mMsgSends'[t][i] = s[j]
    BY <1>8, <1>t, Erased
  <2>2. t \in Threads /\ \A u \in Threads \ {t} : mMsgSends'[u] = mMsgSends[u]
    BY <1>8, <1>t, Erased
  <2>3. /\ \A i, j \in 1..Len(s) : s[i] = s[j] => i = j
        /\ \A i \in 1..Len(s) : s[i] \in Msgs /\ spc[s[i]] \in Waiting /\ ~ready[s[i]]
    BY <1>d, <1>t, <2>2 DEF ListInv
  <2>4. spc' = spc /\ ready' = [ready EXCEPT ![m] = TRUE]
    BY <1>8 DEF ClearSend
  <2>5. \A u \in Threads \ {t} : \A i \in 1..Len(mMsgSends[u]) :
            mMsgSends[u][i] # m /\ mMsgSends[u][i] \in Msgs
    BY <1>d
  <2> HIDE DEF s, t
  <2>6. \A i \in 1..Len(mMsgSends'[t]) :
            /\ mMsgSends'[t][i] # m
            /\ \E j \in 1..Len(s) : mMsgSends'[t][i] = s[j]
    BY <2>1, <2>3
  <2>7. ASSUME NEW i \in 1..Len(mMsgSends'[t]), NEW j \in 1..Len(mMsgSends'[t]),
               mMsgSends'[t][i] = mMsgSends'[t][j]
        PROVE  i = j
    <3>1. (IF i < k THEN i ELSE i + 1) = (IF j < k THEN j ELSE j + 1)
      BY SMTT(30), <2>1, <2>3, <2>7
    <3> QED BY <3>1
  <2>8. \A i \in 1..Len(mMsgSends'[t]) :
            spc'[mMsgSends'[t][i]] \in Waiting /\ ~ready'[mMsgSends'[t][i]]
    BY <1>t, <2>3, <2>4, <2>6
  <2>9. \A u \in Threads \ {t} : \A i \in 1..Len(mMsgSends[u]) :
            spc'[mMsgSends[u][i]] \in Waiting /\ ~ready'[mMsgSends[u][i]]
    BY <1>t, <2>4, <2>5 DEF ListInv
  <2> QED BY <1>t, <2>2, <2>7, <2>8, <2>9 DEF ListInv
<1>9. CASE ControlStep \/ ClearWake \/ UNCHANGED vars
  BY <1>9, <1>k, <1>t, Controlled DEF ClearWake, vars
<1> QED BY <1>1, <1>2, <1>3, <1>4, <1>5, <1>6, <1>7, <1>8, <1>9, <1>t, NextCases

\* What is at the bottom of the stacks of the message threads.
LEMMA FrameStep == ASSUME IInv, [Next]_vars PROVE FrameInv'
<1> USE DEF stopVars, loopVars, sendVars, history, Waiting
<1>a. Target \in [Msgs -> Threads] /\ Posted \subseteq Msgs /\ Threads \subseteq Systems
  BY MessageThreadAssumption DEF Systems
<1>t. /\ spc \in [Msgs -> Busy \cup {"unsent", "refused", "direct", "returned"}]
      /\ ready \in [Msgs -> BOOLEAN] /\ handled \in [Msgs -> Nat]
      /\ stack \in [Systems -> Seq(Frames)]
      /\ mMsgSends \in [Threads -> Seq(Msgs)]
      /\ lpc \in [Threads -> {"prerun", "sends", "handling", "reply", "more", "queue",
                            "dispatch", "stopcheck", "wait", "reset", "exited"}]
      /\ FrameInv /\ TypeOK /\ ShapeInv
  BY DEF IInv, TypeOK, SendTypeOK, LoopTypeOK
<1>h. \A t \in Threads : lpc[t] \in {"handling", "reply", "dispatch"} => 1 \in 1..Len(stack[t])
  BY <1>t, HeadFacts
\* The message at the bottom is a message for that thread.
<1>d. \A t \in Threads : lpc[t] \in {"handling", "reply", "dispatch"} =>
          stack[t][1].of \in Msgs /\ Target[stack[t][1].of] = t
  BY <1>a, <1>h, <1>t DEF IInv, ContextInv, ShapeInv
\* What FrameInv says of the thread t.
<1> DEFINE F(t) ==
       LET m == stack[t][1].of
       IN /\ lpc[t] = "handling" =>
                /\ spc[m] \in Waiting /\ ~ready[m]
                /\ \A i \in 1..Len(mMsgSends[t]) : mMsgSends[t][i] # m
          /\ lpc[t] = "reply" => spc[m] \in Waiting \cup {"returned"} /\ ready[m]
          /\ lpc[t] = "dispatch" => m \in Posted \ posts /\ handled[m] = 0
<1>f. \A t \in Threads : F(t)
  BY <1>t DEF FrameInv
<1>g. (\A t \in Threads : F(t)') => FrameInv'
  BY DEF FrameInv
\* A thread keeps it when nothing of its own changes but a message of another thread.
<1>o. ASSUME NEW t \in Threads, NEW m \in Msgs, Target[m] # t,
             lpc'[t] = lpc[t], stack'[t] = stack[t], mMsgSends'[t] = mMsgSends[t],
             posts' \subseteq posts,
             \A n \in Msgs \ {m} : /\ spc'[n] = spc[n] /\ ready'[n] = ready[n]
                                   /\ handled'[n] = handled[n]
      PROVE  F(t)'
  <2>1. lpc[t] \in {"handling", "reply", "dispatch"} => stack[t][1].of \in Msgs \ {m}
    BY <1>d, <1>o
  <2> QED BY <1>o, <1>f, <2>1
\* A send that is at the bottom of no stack changes, and no list has more sends.
<1>k. ASSUME NEW m \in Msgs,
             /\ spc[m] # "returned"
             /\ spc[m] \in Waiting => spc'[m] \in Waiting \/ (ready[m] /\ spc'[m] = "returned"),
             \A n \in Msgs \ {m} : spc'[n] = spc[n],
             UNCHANGED <<lpc, posts, ready>>, \A n \in Posted : handled'[n] = handled[n],
             \A t \in Threads : 1 \in 1..Len(stack[t]) => stack'[t][1].of = stack[t][1].of,
             \A t \in Threads : mMsgSends'[t] = mMsgSends[t]
                \/ (spc[m] \notin Waiting /\ mMsgSends'[t] = Append(mMsgSends[t], m))
      PROVE  FrameInv'
  <2>1. ASSUME NEW t \in Threads PROVE F(t)'
    <3>2. ASSUME lpc[t] = "handling"
          PROVE  \A i \in 1..Len(mMsgSends'[t]) : mMsgSends'[t][i] # stack[t][1].of
      <4>1. \A i \in 1..Len(mMsgSends[t]) : mMsgSends[t][i] # stack[t][1].of
        BY <1>f, <3>2
      <4>2. CASE mMsgSends'[t] = mMsgSends[t]
        BY <4>1, <4>2
      <4>3. CASE spc[m] \notin Waiting /\ mMsgSends'[t] = Append(mMsgSends[t], m)
        <5>1. stack[t][1].of # m
          BY <1>f, <3>2, <4>3
        <5>2. mMsgSends[t] \in Seq(Msgs)
          BY <1>t
        <5> QED BY <4>1, <4>3, <5>1, <5>2
      <4> QED BY <1>k, <4>2, <4>3
    <3>3. lpc[t] \in {"handling", "reply", "dispatch"} =>
              stack'[t][1].of = stack[t][1].of /\ stack[t][1].of \in Msgs
      BY <1>d, <1>h, <1>k
    <3> QED BY <1>f, <1>k, <3>2, <3>3
  <2> QED BY <1>g, <2>1
<1>1. ASSUME NEW o \in Systems, NEW m \in Msgs \ Posted,
             SendRefused(o, m) \/ SendReturn(o, m)
      PROVE  FrameInv'
  <2>1. \A t \in Threads : 1 \in 1..Len(stack[t]) => stack'[t][1].of = stack[t][1].of
    BY <1>1, <1>a, <1>t, MovedOn
  <2>2. /\ spc[m] # "returned"
        /\ spc[m] \in Waiting => ready[m] /\ spc'[m] = "returned"
        /\ \A n \in Msgs \ {m} : spc'[n] = spc[n]
        /\ UNCHANGED <<lpc, posts, ready, handled, mMsgSends>>
    BY <1>1, <1>t DEF SendRefused, SendReturn
  <2> QED BY <1>k, <2>1, <2>2
<1>2. ASSUME NEW m \in Msgs \ Posted,
             SendPush(m) \/ SenderStep(m) \/ \E o \in Systems : SendBegin(o, m)
      PROVE  FrameInv'
  <2>1. /\ spc[m] # "returned"
        /\ spc[m] \in Waiting => spc'[m] \in Waiting
        /\ \A n \in Msgs \ {m} : spc'[n] = spc[n]
        /\ UNCHANGED <<lpc, posts, ready, handled, stack>>
    BY <1>2, <1>t DEF SendPush, SenderStep, SendWake, SendCheck, SendWaitReturns, SendReset,
       SendBegin
  <2>2. \A t \in Threads : mMsgSends'[t] = mMsgSends[t]
            \/ (spc[m] \notin Waiting /\ mMsgSends'[t] = Append(mMsgSends[t], m))
    BY SMTT(30), <1>2, <1>a, <1>t DEF SendPush, SenderStep, SendWake, SendCheck, SendWaitReturns, SendReset,
       SendBegin
  <2> QED BY <1>k, <2>1, <2>2
<1>3. ASSUME NEW o \in Systems, NEW m \in Msgs \ Posted, SendDirect(o, m) PROVE FrameInv'
  <2>1. /\ Len(stack[o]) \in Nat \ {0}
        /\ \A i \in 1..Len(stack[o]) : stack'[o][i] = stack[o][i]
        /\ \A p \in Systems \ {o} : stack'[p] = stack[p]
    BY <1>3, CalledDirectly
  <2>2. /\ spc[m] = "unsent" /\ \A n \in Msgs \ {m} : spc'[n] = spc[n]
        /\ UNCHANGED <<lpc, posts, ready, handled, mMsgSends>>
    BY <1>3, <1>t DEF SendDirect
  <2>3. \A t \in Threads : 1 \in 1..Len(stack[t]) => stack'[t][1].of = stack[t][1].of
    BY <1>a, <2>1
  <2> QED BY <1>k, <2>2, <2>3
<1>4. ASSUME NEW o \in Systems, DirectReturns(o) PROVE FrameInv'
  <2> DEFINE m == Last(stack[o]).of
  <2>1. /\ Len(stack[o]) \in Nat /\ Len(stack[o]) > 1
        /\ \A i \in 1..Len(stack[o]) - 1 : stack'[o][i].of = stack[o][i].of
        /\ m = stack[o][Len(stack[o])].of /\ m \in Msgs
        /\ \A p \in Systems \ {o} : stack'[p] = stack[p]
    BY <1>4, ReturnedDirectly
  <2>2. /\ spc' = [spc EXCEPT ![m] = "returned"] /\ handled' = [handled EXCEPT ![m] = @ + 1]
        /\ UNCHANGED <<lpc, posts, ready, mMsgSends>>
    BY <1>4 DEF DirectReturns
  <2> HIDE DEF m
  <2>3. Len(stack[o]) \in 2..Len(stack[o])
    BY <2>1
  <2>4. spc[m] = "direct"
    BY <2>1, <2>3 DEF IInv, DirectInv
  <2>5. m \notin Posted
    BY <2>1, <2>4 DEF IInv, SendInv
  <2>6. /\ \A n \in Msgs \ {m} : spc'[n] = spc[n]
        /\ \A n \in Posted : handled'[n] = handled[n]
    BY <1>a, <1>t, <2>2, <2>5
  <2>7. \A t \in Threads : 1 \in 1..Len(stack[t]) => stack'[t][1].of = stack[t][1].of
    BY <1>a, <2>1
  <2> QED BY <1>k, <2>1, <2>2, <2>4, <2>6, <2>7
<1>5. ASSUME NEW t \in Threads, QuietLoop(t) PROVE FrameInv'
  <2>1. /\ lpc[t] \notin {"handling", "reply", "dispatch"}
        /\ lpc'[t] \notin {"handling", "reply", "dispatch"}
        /\ \A u \in Threads \ {t} : lpc'[u] = lpc[u]
        /\ UNCHANGED <<stack, mMsgSends, posts, spc, ready, handled>>
    BY <1>5, <1>t DEF QuietLoop, PreRun, NoMoreSends, QueueEmpty, GetFalse, NotStopped,
       WaitReturns, ResetEvent
  <2>2. ASSUME NEW u \in Threads PROVE F(u)'
    BY <1>f, <2>1
  <2> QED BY <1>g, <2>2
<1>6. ASSUME NEW t \in Threads, TakeSend(t) PROVE FrameInv'
  <2>1. /\ 1 \in 1..Len(mMsgSends[t]) /\ mMsgSends[t][1] \in Msgs
        /\ Len(stack'[t]) = 1 /\ stack'[t][1].of = mMsgSends[t][1]
        /\ \A i \in 1..Len(mMsgSends'[t]) :
              i + 1 \in 1..Len(mMsgSends[t]) /\ mMsgSends'[t][i] = mMsgSends[t][i + 1]
        /\ \A u \in Threads \ {t} : mMsgSends'[u] = mMsgSends[u]
        /\ \A p \in Systems \ {t} : stack'[p] = stack[p]
    BY <1>6, Taken
  <2>2. /\ lpc'[t] = "handling" /\ \A u \in Threads \ {t} : lpc'[u] = lpc[u]
        /\ UNCHANGED <<posts, spc, ready, handled>>
    BY <1>6, <1>t DEF TakeSend
  <2>3. F(t)'
    <3>1. /\ \A i, j \in 1..Len(mMsgSends[t]) : mMsgSends[t][i] = mMsgSends[t][j] => i = j
          /\ spc[mMsgSends[t][1]] \in Waiting /\ ~ready[mMsgSends[t][1]]
      BY <2>1 DEF IInv, ListInv
    <3>2. \A i \in 1..Len(mMsgSends'[t]) : mMsgSends'[t][i] # mMsgSends[t][1]
      BY <2>1, <3>1
    <3> QED BY <2>1, <2>2, <3>1, <3>2
  <2>4. ASSUME NEW u \in Threads \ {t} PROVE F(u)'
    BY SMTT(30), <1>a, <1>f, <2>1, <2>2
  <2> QED BY <1>g, <2>3, <2>4
<1>7. ASSUME NEW t \in Threads, Reply(t) PROVE FrameInv'
  <2> DEFINE m == Head(stack[t]).of
  <2>1. m = stack[t][1].of /\ m \in Msgs /\ lpc[t] = "handling"
    BY <1>7, <1>t, HeadFacts DEF Reply
  <2>2. Target[m] = t /\ spc[m] \in Waiting
    BY <1>d, <1>f, <1>h, <2>1
  <2>3. /\ ready' = [ready EXCEPT ![m] = TRUE] /\ handled' = [handled EXCEPT ![m] = @ + 1]
        /\ lpc'[t] = "reply" /\ \A u \in Threads \ {t} : lpc'[u] = lpc[u]
        /\ UNCHANGED <<stack, mMsgSends, posts, spc>>
    BY <1>7, <1>t DEF Reply
  <2> HIDE DEF m
  <2>4. F(t)'
    BY <1>t, <2>1, <2>2, <2>3
  <2>5. \A n \in Msgs \ {m} : ready'[n] = ready[n] /\ handled'[n] = handled[n]
    BY <1>t, <2>3
  <2>6. ASSUME NEW u \in Threads \ {t} PROVE F(u)'
    <3>1. /\ Target[m] # u /\ lpc'[u] = lpc[u] /\ stack'[u] = stack[u]
          /\ mMsgSends'[u] = mMsgSends[u] /\ posts' \subseteq posts
      BY <2>2, <2>3
    <3>2. \A n \in Msgs \ {m} : /\ spc'[n] = spc[n] /\ ready'[n] = ready[n]
                                /\ handled'[n] = handled[n]
      BY <2>3, <2>5
    <3> QED BY <1>o, <2>1, <3>1, <3>2
  <2> QED BY <1>g, <2>4, <2>6
<1>8. ASSUME NEW t \in Threads, ReplyWake(t) \/ DispatchReturns(t) PROVE FrameInv'
  <2> DEFINE m == Head(stack[t]).of
  <2>1. m = stack[t][1].of /\ m \in Msgs /\ lpc[t] \in {"reply", "dispatch"}
    BY <1>8, <1>t, HeadFacts DEF ReplyWake, DispatchReturns
  <2>2. Target[m] = t
    BY <1>d, <1>h, <2>1
  <2>3. /\ handled' = handled \/ handled' = [handled EXCEPT ![m] = @ + 1]
        /\ lpc'[t] \notin {"handling", "reply", "dispatch"}
        /\ \A u \in Threads \ {t} : lpc'[u] = lpc[u]
        /\ UNCHANGED <<mMsgSends, posts, spc, ready>>
    BY <1>8, <1>t DEF ReplyWake, DispatchReturns
  <2>4. stack'[t] = <<>> /\ \A p \in Systems \ {t} : stack'[p] = stack[p]
    BY <1>8, <1>a, <1>t DEF ReplyWake, DispatchReturns
  <2> HIDE DEF m
  <2>5. F(t)'
    BY <2>3, <2>4
  <2>6. \A n \in Msgs \ {m} : handled'[n] = handled[n]
    BY <1>t, <2>3
  <2>7. ASSUME NEW u \in Threads \ {t} PROVE F(u)'
    BY <1>a, <1>o, <2>1, <2>2, <2>3, <2>4, <2>6
  <2> QED BY <1>g, <2>5, <2>7
<1>9. ASSUME NEW t \in Threads, NEW m \in Posted, TakePosted(t, m) PROVE FrameInv'
  <2>1. stack'[t] = <<Frame(m)>> /\ \A p \in Systems \ {t} : stack'[p] = stack[p]
    BY <1>9, <1>a, <1>t DEF TakePosted
  <2>2. stack'[t][1].of = m
    BY <2>1 DEF Frame
  <2>3. /\ lpc'[t] = "dispatch" /\ \A u \in Threads \ {t} : lpc'[u] = lpc[u]
        /\ m \in posts /\ posts' = posts \ {m}
        /\ UNCHANGED <<mMsgSends, spc, ready, handled>>
    BY <1>9, <1>t DEF TakePosted
  <2>4. F(t)'
    BY <1>a, <2>2, <2>3 DEF IInv, SendInv
  <2>5. ASSUME NEW u \in Threads \ {t} PROVE F(u)'
    BY <1>a, <1>f, <2>1, <2>3
  <2> QED BY <1>g, <2>4, <2>5
<1>10. ASSUME NEW m \in Msgs, ClearSend(m) PROVE FrameInv'
  <2> DEFINE t == Target[m]
  <2>1. PICK k \in 1..Len(mMsgSends[t]) :
          /\ mMsgSends[t][k] = m
          /\ \A i \in 1..Len(mMsgSends'[t]) :
                LET j == IF i < k THEN i ELSE i + 1
                IN j \in 1..Len(mMsgSends[t]) /\ mMsgSends'[t][i] = mMsgSends[t][j]
    BY <1>10, <1>t, Erased
  <2>2. t \in Threads /\ \A u \in Threads \ {t} : mMsgSends'[u] = mMsgSends[u]
    BY <1>10, <1>t, Erased
  <2>3. ready' = [ready EXCEPT ![m] = TRUE] /\ UNCHANGED <<lpc, stack, posts, spc, handled>>
    BY <1>10 DEF ClearSend
  <2> HIDE DEF t
  <2>4. F(t)'
    <3>1. lpc[t] = "handling" =>
            /\ stack[t][1].of \in Msgs \ {m}
            /\ \A i \in 1..Len(mMsgSends'[t]) : mMsgSends'[t][i] # stack[t][1].of
      <4>1. SUFFICES ASSUME lpc[t] = "handling"
                     PROVE  /\ stack[t][1].of \in Msgs \ {m}
                            /\ \A i \in 1..Len(mMsgSends'[t]) :
                                  mMsgSends'[t][i] # stack[t][1].of
        OBVIOUS
      <4>2. /\ 1 \in 1..Len(stack[t]) /\ stack[t][1].of \in Msgs
            /\ \A j \in 1..Len(mMsgSends[t]) : mMsgSends[t][j] # stack[t][1].of
        BY <4>1, <1>d, <1>f, <1>h, <2>2
      <4>3. \A i \in 1..Len(mMsgSends'[t]) : \E j \in 1..Len(mMsgSends[t]) :
               mMsgSends'[t][i] = mMsgSends[t][j]
        BY <2>1
      <4> QED BY <2>1, <4>2, <4>3
    <3>2. \A n \in Msgs : ready[n] => ready'[n]
      BY <1>t, <2>3
    <3>3. lpc[t] = "reply" => stack[t][1].of \in Msgs
      BY <1>d, <1>h, <2>2
    <3>4. lpc[t] = "handling" => ~ready'[stack[t][1].of]
      BY <1>f, <1>t, <2>2, <2>3, <3>1
    <3> QED BY <1>f, <2>2, <2>3, <3>1, <3>2, <3>3, <3>4
  <2>5. \A n \in Msgs \ {m} : ready'[n] = ready[n]
    BY <1>t, <2>3
  <2>6. ASSUME NEW u \in Threads \ {t} PROVE F(u)'
    <3>1. /\ Target[m] # u /\ lpc'[u] = lpc[u] /\ stack'[u] = stack[u]
          /\ mMsgSends'[u] = mMsgSends[u] /\ posts' \subseteq posts
          /\ \A n \in Msgs \ {m} : spc'[n] = spc[n] /\ handled'[n] = handled[n]
      BY <2>2, <2>3 DEF t
    <3> QED BY <1>o, <2>5, <3>1
  <2> QED BY <1>g, <2>4, <2>6
<1>11. CASE ControlStep \/ ClearWake \/ UNCHANGED vars
  <2>1. UNCHANGED <<stack, mMsgSends, posts, spc, ready, handled>>
    BY <1>11, <1>t, Controlled DEF ClearWake, vars
  <2>2. \A t \in Threads : lpc'[t] = lpc[t] \/ lpc'[t] \notin {"handling", "reply", "dispatch"}
    BY <1>11, <1>t, Controlled DEF ClearWake, vars
  <2> QED BY <1>t, <2>1, <2>2 DEF FrameInv
<1>12. ASSUME NEW m \in Posted, SenderStep(m) PROVE FrameInv'
  BY <1>12, <1>a DEF SenderStep, SendWake, SendCheck, SendWaitReturns, SendReset, IInv, SendInv
<1> QED BY <1>1, <1>2, <1>3, <1>4, <1>5, <1>6, <1>7, <1>8, <1>9, <1>10, <1>11, <1>12, <1>t,
        NextCases

\* What is above the bottom of the stacks.
LEMMA DirectStep == ASSUME IInv, [Next]_vars PROVE DirectInv'
<1> USE DEF stopVars, loopVars, sendVars, history
<1>a. Posted \subseteq Msgs /\ Threads \subseteq Systems
  BY MessageThreadAssumption DEF Systems
<1>t. /\ spc \in [Msgs -> Busy \cup {"unsent", "refused", "direct", "returned"}]
      /\ stack \in [Systems -> Seq(Frames)]
      /\ DirectInv /\ TypeOK
  BY DEF IInv, TypeOK, SendTypeOK, LoopTypeOK
\* A call above the bottom of a stack is a direct call of a message, ...
<1>d. \A o \in Systems : \A i \in 2..Len(stack[o]) :
          stack[o][i].of \in Msgs /\ spc[stack[o][i].of] = "direct"
  <2>1. ASSUME NEW o \in Systems, NEW i \in 2..Len(stack[o]) PROVE stack[o][i].of \in Msgs
    <3>1. CASE o \in Threads
      <4>1. i \in 1..Len(stack[o])
        BY <1>t
      <4> QED BY <3>1, <4>1 DEF IInv, ShapeInv
    <3>2. CASE o \in Clients
      BY <3>2 DEF IInv, ShapeInv
    <3> QED BY <3>1, <3>2 DEF Systems
  <2> QED BY <1>t, <2>1 DEF DirectInv
\* ... and of another one than the others.
<1>u. \A o, p \in Systems : \A i \in 2..Len(stack[o]), j \in 2..Len(stack[p]) :
          stack[o][i].of = stack[p][j].of => o = p /\ i = j
  BY <1>t DEF DirectInv
\* It is kept by a step that calls nobody directly.
<1>k. ASSUME \A n \in Msgs : spc[n] = "direct" => spc'[n] = "direct",
             \A p \in Systems : \A i \in 2..Len(stack'[p]) :
                i \in 2..Len(stack[p]) /\ stack'[p][i].of = stack[p][i].of
      PROVE  DirectInv'
  <2>1. \A p \in Systems : \A i \in 2..Len(stack'[p]) : spc'[stack'[p][i].of] = "direct"
    BY <1>d, <1>k
  <2>2. \A o, p \in Systems : \A i \in 2..Len(stack'[o]), j \in 2..Len(stack'[p]) :
            stack'[o][i].of = stack'[p][j].of => o = p /\ i = j
    BY <1>u, <1>k
  <2> QED BY <2>1, <2>2 DEF DirectInv
<1>1. ASSUME NEW o \in Systems, NEW m \in Msgs \ Posted,
             SendRefused(o, m) \/ SendReturn(o, m)
      PROVE  DirectInv'
  <2>1. \A p \in Systems : Len(stack'[p]) = Len(stack[p])
            /\ \A i \in 1..Len(stack[p]) : stack'[p][i].of = stack[p][i].of
    BY <1>1, <1>t, MovedOn
  <2>2. \A p \in Systems : \A i \in 2..Len(stack'[p]) :
            i \in 2..Len(stack[p]) /\ stack'[p][i].of = stack[p][i].of
    <3>1. ASSUME NEW p \in Systems, NEW i \in 2..Len(stack'[p])
          PROVE  i \in 2..Len(stack[p]) /\ stack'[p][i].of = stack[p][i].of
      <4>1. i \in 2..Len(stack[p]) /\ stack[p] \in Seq(Frames)
        BY <1>t, <2>1
      <4>2. i \in 1..Len(stack[p])
        BY <4>1
      <4> QED BY <2>1, <4>1, <4>2
    <3> QED BY <3>1
  <2>3. \A n \in Msgs : spc[n] = "direct" => spc'[n] = "direct"
    BY <1>1, <1>t DEF SendRefused, SendReturn
  <2> QED BY <1>k, <2>2, <2>3
<1>2. ASSUME NEW m \in Msgs,
             SendPush(m) \/ SenderStep(m) \/ \E o \in Systems : SendBegin(o, m)
      PROVE  DirectInv'
  <2>1. stack' = stack /\ \A n \in Msgs : spc[n] = "direct" => spc'[n] = "direct"
    BY <1>2, <1>t DEF SendPush, SenderStep, SendWake, SendCheck, SendWaitReturns, SendReset,
       SendBegin
  <2> QED BY <1>k, <2>1
<1>3. ASSUME NEW o \in Systems, NEW m \in Msgs \ Posted, SendDirect(o, m) PROVE DirectInv'
  <2>1. /\ Len(stack[o]) \in Nat \ {0} /\ Len(stack'[o]) = Len(stack[o]) + 1
        /\ \A i \in 1..Len(stack[o]) : stack'[o][i] = stack[o][i]
        /\ stack'[o][Len(stack[o]) + 1].of = m
        /\ \A p \in Systems \ {o} : stack'[p] = stack[p]
    BY <1>3, CalledDirectly
  <2>2. spc[m] = "unsent" /\ spc'[m] = "direct" /\ \A n \in Msgs \ {m} : spc'[n] = spc[n]
    BY <1>3, <1>t DEF SendDirect
  <2>3. \A p \in Systems : \A i \in 2..Len(stack[p]) : stack[p][i].of \in Msgs \ {m}
    BY <1>d, <2>2
  <2>4. ASSUME NEW p \in Systems, NEW i \in 2..Len(stack'[p])
        PROVE  \/ p = o /\ i = Len(stack[o]) + 1 /\ stack'[p][i].of = m
               \/ i \in 2..Len(stack[p]) /\ stack'[p][i].of = stack[p][i].of
    <3>1. CASE p = o
      BY <2>1, <3>1
    <3>2. CASE p # o
      BY <2>1, <3>2
    <3> QED BY <3>1, <3>2
  <2>5. \A p \in Systems : \A i \in 2..Len(stack'[p]) : spc'[stack'[p][i].of] = "direct"
    BY <1>d, <2>2, <2>3, <2>4
  <2>6. ASSUME NEW q \in Systems, NEW p \in Systems,
               NEW i \in 2..Len(stack'[q]), NEW j \in 2..Len(stack'[p]),
               stack'[q][i].of = stack'[p][j].of
        PROVE  q = p /\ i = j
    <3>1. CASE i \in 2..Len(stack[q]) /\ stack'[q][i].of = stack[q][i].of
      <4>1. stack'[p][j].of # m
        BY <2>3, <2>6, <3>1
      <4>2. j \in 2..Len(stack[p]) /\ stack'[p][j].of = stack[p][j].of
        BY <2>4, <4>1
      <4>3. stack[q][i].of = stack[p][j].of
        BY <2>6, <3>1, <4>2
      <4>4. i \in 2..Len(stack[q])
        BY <3>1
      <4> QED BY ONLY <1>u, <4>2, <4>3, <4>4, q \in Systems, p \in Systems
    <3>2. CASE q = o /\ i = Len(stack[o]) + 1 /\ stack'[q][i].of = m
      <4>1. ~(j \in 2..Len(stack[p]) /\ stack'[p][j].of = stack[p][j].of)
        BY <2>3, <2>6, <3>2
      <4>2. p = o /\ j = Len(stack[o]) + 1
        BY <2>4, <4>1
      <4> QED BY <3>2, <4>2
    <3> QED BY <2>4, <3>1, <3>2
  <2> QED BY <2>5, <2>6 DEF DirectInv
<1>4. ASSUME NEW o \in Systems, DirectReturns(o) PROVE DirectInv'
  <2> DEFINE m == Last(stack[o]).of
  <2>1. /\ Len(stack[o]) \in Nat /\ Len(stack[o]) > 1 /\ Len(stack'[o]) = Len(stack[o]) - 1
        /\ \A i \in 1..Len(stack[o]) - 1 : stack'[o][i].of = stack[o][i].of
        /\ m = stack[o][Len(stack[o])].of /\ m \in Msgs
        /\ \A p \in Systems \ {o} : stack'[p] = stack[p]
    BY <1>4, ReturnedDirectly
  <2>2. spc' = [spc EXCEPT ![m] = "returned"]
    BY <1>4 DEF DirectReturns
  <2> HIDE DEF m
  <2>3. ASSUME NEW p \in Systems, NEW i \in 2..Len(stack'[p])
        PROVE  /\ i \in 2..Len(stack[p]) /\ stack'[p][i].of = stack[p][i].of
               /\ p = o => i # Len(stack[o])
    <3>1. CASE p = o
      BY <2>1, <3>1
    <3>2. CASE p # o
      BY <2>1, <3>2
    <3> QED BY <3>1, <3>2
  <2>4. Len(stack[o]) \in 2..Len(stack[o])
    BY <2>1
  <2>5. ASSUME NEW p \in Systems, NEW i \in 2..Len(stack'[p])
        PROVE  stack'[p][i].of \in Msgs \ {m}
    <3>1. stack[p][i].of \in Msgs
      BY <1>d, <2>3
    <3>2. stack[p][i].of # stack[o][Len(stack[o])].of
      <4>1. i \in 2..Len(stack[p]) /\ ~(p = o /\ i = Len(stack[o]))
        BY <2>3
      <4> QED BY <1>u, <2>4, <4>1
    <3> QED BY <2>1, <2>3, <3>1, <3>2
  <2>6. \A p \in Systems : \A i \in 2..Len(stack'[p]) : spc'[stack'[p][i].of] = "direct"
    BY <1>d, <1>t, <2>2, <2>3, <2>5
  <2>7. \A q, p \in Systems : \A i \in 2..Len(stack'[q]), j \in 2..Len(stack'[p]) :
            stack'[q][i].of = stack'[p][j].of => q = p /\ i = j
    BY <1>u, <2>3
  <2> QED BY <2>6, <2>7 DEF DirectInv
<1>5. ASSUME NEW t \in Threads,
             TakeSend(t) \/ ReplyWake(t) \/ DispatchReturns(t)
                \/ \E m \in Posted : TakePosted(t, m)
      PROVE  DirectInv'
  <2>1. \A p \in Systems \ {t} : stack'[p] = stack[p]
    BY <1>5, <1>t DEF TakeSend, ReplyWake, DispatchReturns, TakePosted
  <2>2. 2..Len(stack'[t]) = {}
    <3>2. Len(stack'[t]) \in {0, 1}
      <4>1. CASE TakeSend(t)
        BY <4>1, Taken
      <4>2. CASE ReplyWake(t) \/ DispatchReturns(t)
        BY <4>2, <1>a, <1>t DEF ReplyWake, DispatchReturns
      <4>3. CASE \E m \in Posted : TakePosted(t, m)
        BY <4>3, <1>a, <1>t DEF TakePosted
      <4> QED BY <1>5, <4>1, <4>2, <4>3
    <3>3. ASSUME NEW n \in {0, 1} PROVE 2..n = {}
      OBVIOUS
    <3> QED BY <3>2, <3>3
  <2>3. spc' = spc
    BY <1>5 DEF TakeSend, ReplyWake, DispatchReturns, TakePosted
  <2> QED BY <1>a, <1>k, <2>1, <2>2, <2>3
<1>6. ASSUME NEW t \in Threads, QuietLoop(t) \/ Reply(t) PROVE DirectInv'
  <2>1. UNCHANGED <<stack, spc>>
    BY <1>6 DEF QuietLoop, PreRun, NoMoreSends, QueueEmpty, GetFalse, NotStopped, WaitReturns,
       ResetEvent, Reply
  <2> QED BY <1>k, <2>1
<1>7. CASE ControlStep \/ (\E m \in Msgs : ClearSend(m)) \/ ClearWake \/ UNCHANGED vars
  <2>1. UNCHANGED <<stack, spc>>
    BY <1>7, <1>t, Controlled DEF ClearSend, ClearWake, vars
  <2> QED BY <1>k, <2>1
<1> QED BY <1>1, <1>2, <1>3, <1>4, <1>5, <1>6, <1>7, <1>t, NextCases

\* No sender sleeps on an answer: the steps that set ready wake it later.
LEMMA ReplyStep == ASSUME IInv, [Next]_vars PROVE NoLostReply'
<1> USE DEF stopVars, loopVars, sendVars, history
<1>a. Threads \subseteq Systems /\ Nobody \notin Msgs
  BY MessageThreadAssumption DEF Systems
<1>t. /\ spc \in [Msgs -> Busy \cup {"unsent", "refused", "direct", "returned"}]
      /\ ready \in [Msgs -> BOOLEAN] /\ reply \in [Msgs -> BOOLEAN]
      /\ stack \in [Systems -> Seq(Frames)]
      /\ lpc \in [Threads -> {"prerun", "sends", "handling", "reply", "more", "queue",
                            "dispatch", "stopcheck", "wait", "reset", "exited"}]
      /\ NoLostReply /\ TypeOK /\ ShapeInv
  BY DEF IInv, TypeOK, SendTypeOK, LoopTypeOK
\* It is kept by a step that makes no sender wait on a ready answer and keeps the
\* answers that are on their way.
<1>k. ASSUME \A m \in Msgs : spc'[m] = "wait" /\ ready'[m] =>
                 spc[m] = "wait" /\ ready[m] /\ reply'[m] = reply[m],
             clearing' = clearing,
             \A t \in Threads : lpc[t] = "reply" => lpc'[t] = "reply" /\ stack'[t] = stack[t]
      PROVE  NoLostReply'
  <2>1. ASSUME NEW m \in Msgs, spc'[m] = "wait", ready'[m]
        PROVE  \/ reply'[m] \/ clearing' = m
               \/ \E t \in Threads : lpc'[t] = "reply" /\ Head(stack'[t]).of = m
    <3>1. \/ reply[m] \/ clearing = m
          \/ \E t \in Threads : lpc[t] = "reply" /\ Head(stack[t]).of = m
      BY <1>k, <1>t, <2>1 DEF NoLostReply
    <3> QED BY <1>k, <2>1, <3>1
  <2> QED BY <2>1 DEF NoLostReply
<1>1. ASSUME NEW o \in Systems, NEW m \in Msgs \ Posted,
             SendRefused(o, m) \/ SendReturn(o, m)
      PROVE  NoLostReply'
  <2>1. ~AtEnd(o)
    BY <1>1, <1>t, CurrentFacts DEF SendRefused, SendReturn, Calling
  <2>2. \A t \in Threads : lpc[t] = "reply" => stack'[t] = stack[t]
    BY <1>1, <1>a, <1>t, <2>1 DEF SendRefused, SendReturn, ShapeInv
  <2>3. /\ \A n \in Msgs : spc'[n] = "wait" => spc[n] = "wait" /\ reply'[n] = reply[n]
        /\ ready' = ready /\ clearing' = clearing /\ lpc' = lpc
    BY <1>1, <1>t DEF SendRefused, SendReturn
  <2> QED BY <1>k, <2>2, <2>3
<1>2. ASSUME NEW o \in Systems, NEW m \in Msgs \ Posted, SendDirect(o, m) PROVE NoLostReply'
  <2>1. (o \in Threads => lpc[o] # "reply") /\ \A p \in Systems \ {o} : stack'[p] = stack[p]
    BY <1>2, CalledDirectly
  <2>2. /\ \A n \in Msgs : spc'[n] = "wait" => spc[n] = "wait"
        /\ UNCHANGED <<ready, reply, clearing, lpc>>
    BY <1>2, <1>t DEF SendDirect
  <2> QED BY <1>k, <1>a, <2>1, <2>2
<1>3. ASSUME NEW o \in Systems, DirectReturns(o) PROVE NoLostReply'
  <2>1. (o \in Threads => lpc[o] # "reply") /\ \A p \in Systems \ {o} : stack'[p] = stack[p]
    BY <1>3, ReturnedDirectly
  <2>2. /\ \A n \in Msgs : spc'[n] = "wait" => spc[n] = "wait"
        /\ UNCHANGED <<ready, reply, clearing, lpc>>
    BY <1>3, <1>t DEF DirectReturns
  <2> QED BY <1>k, <1>a, <2>1, <2>2
<1>4. ASSUME NEW m \in Msgs, SendPush(m) \/ SenderStep(m) \/ \E o \in Systems : SendBegin(o, m)
      PROVE  NoLostReply'
  <2>1. /\ \A n \in Msgs : spc'[n] = "wait" /\ ready'[n] =>
              spc[n] = "wait" /\ ready[n] /\ reply'[n] = reply[n]
        /\ UNCHANGED <<clearing, lpc, stack>>
    BY <1>4, <1>t DEF SendPush, SenderStep, SendWake, SendCheck, SendWaitReturns, SendReset,
       SendBegin
  <2> QED BY <1>k, <2>1
<1>5. ASSUME NEW t \in Threads,
             QuietLoop(t) \/ TakeSend(t) \/ DispatchReturns(t)
                \/ \E m \in Posted : TakePosted(t, m)
      PROVE  NoLostReply'
  <2>1. UNCHANGED <<spc, ready, reply, clearing>> /\ lpc[t] # "reply"
    BY <1>5 DEF QuietLoop, PreRun, NoMoreSends, QueueEmpty, GetFalse, NotStopped, WaitReturns,
       ResetEvent, TakeSend, DispatchReturns, TakePosted
  <2>2. \A u \in Threads \ {t} : lpc'[u] = lpc[u] /\ stack'[u] = stack[u]
    BY <1>5, <1>a, <1>t DEF QuietLoop, PreRun, NoMoreSends, QueueEmpty, GetFalse, NotStopped,
       WaitReturns, ResetEvent, TakeSend, DispatchReturns, TakePosted
  <2> QED BY <1>k, <2>1, <2>2
<1>6. ASSUME NEW t \in Threads, Reply(t) PROVE NoLostReply'
  <2> DEFINE m == Head(stack[t]).of
  <2>1. /\ ready' = [ready EXCEPT ![m] = TRUE] /\ lpc'[t] = "reply" /\ lpc[t] # "reply"
        /\ \A u \in Threads \ {t} : lpc'[u] = lpc[u]
        /\ UNCHANGED <<spc, reply, clearing, stack>>
    BY <1>6, <1>t DEF Reply
  <2>2. Head(stack'[t]).of = m
    BY <2>1
  <2> HIDE DEF m
  <2>3. ASSUME NEW n \in Msgs, spc'[n] = "wait", ready'[n]
        PROVE  \/ reply'[n] \/ clearing' = n
               \/ \E u \in Threads : lpc'[u] = "reply" /\ Head(stack'[u]).of = n
    <3>1. CASE n = m
      BY <2>1, <2>2, <3>1
    <3>2. CASE n # m
      BY <1>t, <2>1, <2>3, <3>2 DEF NoLostReply
    <3> QED BY <3>1, <3>2
  <2> QED BY <2>3 DEF NoLostReply
<1>7. ASSUME NEW t \in Threads, ReplyWake(t) PROVE NoLostReply'
  <2> DEFINE m == Head(stack[t]).of
  <2>1. /\ reply' = [reply EXCEPT ![m] = spc[m] # "returned"]
        /\ UNCHANGED <<spc, ready, clearing>>
    BY <1>7 DEF ReplyWake, Woken
  <2>2. \A u \in Threads \ {t} : lpc'[u] = lpc[u] /\ stack'[u] = stack[u]
    BY <1>7, <1>a, <1>t DEF ReplyWake
  <2>3. \A n \in Msgs : spc[n] = "wait" => reply'[n] = (reply[n] \/ n = m)
    BY <1>t, <2>1
  <2>4. ASSUME NEW n \in Msgs, spc'[n] = "wait", ready'[n]
        PROVE  \/ reply'[n] \/ clearing' = n
               \/ \E u \in Threads : lpc'[u] = "reply" /\ Head(stack'[u]).of = n
    <3>1. CASE n = m
      BY <2>1, <2>3, <2>4, <3>1
    <3>2. CASE n # m
      BY <1>t, <2>1, <2>2, <2>3, <2>4, <3>2 DEF NoLostReply
    <3> QED BY <3>1, <3>2
  <2> QED BY <2>4 DEF NoLostReply
<1>8. ASSUME NEW m \in Msgs, ClearSend(m) PROVE NoLostReply'
  <2>1. /\ ready' = [ready EXCEPT ![m] = TRUE] /\ clearing = Nobody /\ clearing' = m
        /\ UNCHANGED <<spc, reply, lpc, stack>>
    BY <1>8 DEF ClearSend
  <2> QED BY <1>a, <1>t, <2>1 DEF NoLostReply
<1>9. CASE ClearWake
  <2>1. /\ reply' = [reply EXCEPT ![clearing] = spc[clearing] # "returned"]
        /\ UNCHANGED <<spc, ready, lpc, stack>>
    BY <1>9 DEF ClearWake, Woken
  <2> QED BY <1>t, <2>1 DEF NoLostReply
<1>10. CASE ControlStep \/ UNCHANGED vars
  <2>1. /\ UNCHANGED <<spc, ready, reply, clearing, stack>>
        /\ \A t \in Threads : lpc[t] = "reply" => lpc'[t] = "reply"
    BY <1>10, <1>t, Controlled DEF vars
  <2> QED BY <1>k, <2>1
<1> QED BY <1>1, <1>2, <1>3, <1>4, <1>5, <1>6, <1>7, <1>8, <1>9, <1>10, <1>t, NextCases

\* No message thread sleeps on a send or a stop.
LEMMA AwakeStep == ASSUME IInv, [Next]_vars PROVE AwakeInv'
<1> USE DEF stopVars, loopVars, sendVars, history
<1>a. Target \in [Msgs -> Threads] /\ Nobody \notin Threads /\ Posted \subseteq Msgs
  BY MessageThreadAssumption DEF Systems
<1>t. /\ spc \in [Msgs -> Busy \cup {"unsent", "refused", "direct", "returned"}]
      /\ mMsgSends \in [Threads -> Seq(Msgs)] /\ mHasSends \in [Threads -> BOOLEAN]
      /\ mStop \in [Threads -> BOOLEAN] /\ stopping \in [Systems -> Threads \cup {Nobody}]
      /\ stopAt \in [Systems -> {"idle", "wake", "thread", "join"}]
      /\ \A o \in Systems : stopAt[o] # "idle" => stopping[o] \in Threads
      /\ event \in [Threads -> BOOLEAN]
      /\ lpc \in [Threads -> {"prerun", "sends", "handling", "reply", "more", "queue",
                            "dispatch", "stopcheck", "wait", "reset", "exited"}]
      /\ AwakeInv /\ TypeOK
  <2>1. \A o \in Systems : stopAt[o] # "idle" => <<o, stopping[o]>> \in Systems \X Threads
    BY MessageThreadAssumption DEF IInv, TypeOK, LoopTypeOK
  <2> QED BY <2>1 DEF IInv, TypeOK, SendTypeOK, LoopTypeOK
\* A wake-up for t is about to come from a send, or from a stop.
<1> DEFINE FromSend(w, u) == \E m \in Msgs : Target[m] = u /\ w[m] = "wake"
           FromStop(d, w, u) == \E o \in Systems : d[o] = u /\ w[o] = "wake"
<1>f. \A u \in Threads :
        /\ lpc[u] \in {"queue", "stopcheck", "wait"} /\ mMsgSends[u] # <<>>
              => event[u] \/ FromSend(spc, u)
        /\ lpc[u] = "wait" /\ mStop[u] => event[u] \/ FromStop(stopping, stopAt, u)
  BY <1>t DEF AwakeInv
<1>g. ASSUME \A u \in Threads :
               /\ lpc'[u] \in {"queue", "stopcheck", "wait"} /\ mMsgSends'[u] # <<>>
                     => event'[u] \/ FromSend(spc', u)
               /\ lpc'[u] = "wait" /\ mStop'[u] => event'[u] \/ FromStop(stopping', stopAt', u)
      PROVE  AwakeInv'
  BY <1>g DEF AwakeInv
\* It is kept by a step that changes neither a list nor a loop, an event or a stop,
\* nor the sends that are about to set an event.
<1>k. ASSUME UNCHANGED <<mMsgSends, mStop, stopping, stopAt, event, lpc>>,
             \A m \in Msgs : spc[m] = "wake" => spc'[m] = "wake"
      PROVE  AwakeInv'
  BY <1>k, <1>t DEF AwakeInv
\* It is kept by a step of the loop of t that leaves t where it does not sleep.
<1>l. ASSUME NEW t \in Threads,
             \/ lpc'[t] \notin {"queue", "stopcheck", "wait"}
             \/ mMsgSends[t] = <<>> /\ lpc'[t] = "queue",
             \A u \in Threads : mMsgSends'[u] # <<>> => mMsgSends[u] # <<>>,
             \A u \in Threads \ {t} : lpc'[u] = lpc[u] /\ event'[u] = event[u],
             UNCHANGED <<mStop, stopping, stopAt, spc>>
      PROVE  AwakeInv'
  <2>1. ASSUME NEW u \in Threads \ {t}
        PROVE  /\ lpc'[u] \in {"queue", "stopcheck", "wait"} /\ mMsgSends'[u] # <<>>
                     => event'[u] \/ \E m \in Msgs : Target[m] = u /\ spc'[m] = "wake"
               /\ lpc'[u] = "wait" /\ mStop'[u] => event'[u] \/ \E o \in Systems : stopping'[o] = u /\ stopAt'[o] = "wake"
    BY <1>l, <1>t DEF AwakeInv
  <2>2. /\ lpc'[t] \in {"queue", "stopcheck", "wait"} => mMsgSends'[t] = <<>>
        /\ lpc'[t] # "wait"
    BY <1>l
  <2> QED BY <2>1, <2>2 DEF AwakeInv
<1>1. ASSUME NEW o \in Systems, NEW m \in Msgs \ Posted,
             SendRefused(o, m) \/ SendDirect(o, m) \/ SendBegin(o, m) \/ SendReturn(o, m)
      PROVE  AwakeInv'
  BY <1>1, <1>k, <1>t DEF SendRefused, SendDirect, SendBegin, SendReturn
<1>2. ASSUME NEW m \in Msgs, SendCheck(m) \/ SendWaitReturns(m) \/ SendReset(m) PROVE AwakeInv'
  BY <1>2, <1>k, <1>t DEF SendCheck, SendWaitReturns, SendReset
<1>3. ASSUME NEW o \in Systems, DirectReturns(o) PROVE AwakeInv'
  <2> DEFINE m == Last(stack[o]).of
  <2>1. /\ Len(stack[o]) \in 2..Len(stack[o])
        /\ m = stack[o][Len(stack[o])].of
    BY <1>3, ReturnedDirectly
  <2>2. spc[m] = "direct"
    BY <2>1 DEF IInv, DirectInv
  <2> HIDE DEF m
  <2>3. /\ spc' = [spc EXCEPT ![m] = "returned"]
        /\ UNCHANGED <<mMsgSends, mStop, stopping, stopAt, event, lpc>>
    BY <1>3 DEF DirectReturns, m
  <2> QED BY <1>k, <1>t, <2>2, <2>3
<1>4. ASSUME NEW m \in Msgs, SendWake(m) PROVE AwakeInv'
  BY <1>4, <1>a, <1>t DEF SendWake, AwakeInv
<1>5. ASSUME NEW m \in Msgs \ Posted, SendPush(m) PROVE AwakeInv'
  <2>1. /\ spc'[m] = "wake" /\ \A n \in Msgs : spc[n] = "wake" => spc'[n] = "wake"
        /\ \A t \in Threads : t # Target[m] => mMsgSends'[t] = mMsgSends[t]
        /\ UNCHANGED <<mStop, stopping, stopAt, event, lpc>>
    BY <1>5, <1>a, <1>t DEF SendPush
  <2>2. ASSUME NEW t \in Threads, lpc'[t] \in {"queue", "stopcheck", "wait"}, mMsgSends'[t] # <<>>
        PROVE  event'[t] \/ \E n \in Msgs : Target[n] = t /\ spc'[n] = "wake"
    <3>1. CASE t = Target[m]
      BY <2>1, <3>1
    <3>2. CASE t # Target[m]
      BY <1>t, <2>1, <2>2, <3>2 DEF AwakeInv
    <3> QED BY <3>1, <3>2
  <2>3. \A t \in Threads : lpc'[t] = "wait" /\ mStop'[t] =>
            event'[t] \/ \E o \in Systems : stopping'[o] = t /\ stopAt'[o] = "wake"
    BY <1>t, <2>1 DEF AwakeInv
  <2> QED BY <2>2, <2>3 DEF AwakeInv
<1>6. ASSUME NEW t \in Threads, NoMoreSends(t) PROVE AwakeInv'
  <2>1. /\ mMsgSends[t] = <<>> /\ lpc'[t] = "queue"
        /\ \A u \in Threads \ {t} : lpc'[u] = lpc[u]
        /\ UNCHANGED <<mMsgSends, mStop, stopping, stopAt, event, spc>>
    BY <1>6, <1>t DEF NoMoreSends, IInv, CritInv
  <2> QED BY <1>l, <2>1
<1>7. ASSUME NEW t \in Threads,
             PreRun(t) \/ GetFalse(t) \/ WaitReturns(t) \/ ResetEvent(t) \/ Reply(t)
                \/ ReplyWake(t) \/ DispatchReturns(t)
                \/ \E m \in Posted : TakePosted(t, m)
      PROVE  AwakeInv'
  <2>1. /\ lpc'[t] \notin {"queue", "stopcheck", "wait"}
        /\ \A u \in Threads \ {t} : lpc'[u] = lpc[u] /\ event'[u] = event[u]
        /\ UNCHANGED <<mMsgSends, mStop, stopping, stopAt, spc>>
    BY <1>7, <1>t DEF PreRun, GetFalse, WaitReturns, ResetEvent, Reply, ReplyWake,
       DispatchReturns, TakePosted
  <2> QED BY <1>l, <2>1
<1>8. ASSUME NEW t \in Threads, QueueEmpty(t) \/ NotStopped(t) PROVE AwakeInv'
  <2>1. /\ lpc[t] \in {"queue", "stopcheck"} /\ lpc'[t] \in {"stopcheck", "wait"}
        /\ lpc'[t] = "wait" => ~mStop[t]
        /\ \A u \in Threads \ {t} : lpc'[u] = lpc[u]
        /\ UNCHANGED <<mMsgSends, mStop, stopping, stopAt, event, spc>>
    BY <1>8, <1>t DEF QueueEmpty, NotStopped
  <2> HIDE DEF FromSend, FromStop
  <2> QED BY <1>f, <1>g, <2>1
<1>9. ASSUME NEW t \in Threads, TakeSend(t) PROVE AwakeInv'
  <2>1. /\ lpc'[t] = "handling"
        /\ \A u \in Threads \ {t} : lpc'[u] = lpc[u]
        /\ \A u \in Threads : mMsgSends'[u] # <<>> => mMsgSends[u] # <<>>
        /\ UNCHANGED <<mStop, stopping, stopAt, event, spc>>
    BY <1>9, <1>t DEF TakeSend
  <2> QED BY <1>l, <2>1
<1>10. CASE ControlStep
\* The wake-up of a stop is on its way, or the event is up already.
  <2>1. ASSUME NEW o \in Systems, NEW t \in Threads, StopSet(o, t) PROVE AwakeInv'
    <3>1. /\ stopping'[o] = t /\ stopAt'[o] = "wake" /\ stopAt[o] = "idle"
          /\ \A p \in Systems \ {o} : stopping'[p] = stopping[p] /\ stopAt'[p] = stopAt[p]
          /\ \A u \in Threads \ {t} : mStop'[u] = mStop[u]
          /\ UNCHANGED <<mMsgSends, event, lpc, spc>>
      BY <2>1, <1>t DEF StopSet
    <3>2. \A u \in Threads \ {t} :
             FromStop(stopping, stopAt, u) => FromStop(stopping', stopAt', u)
      BY <3>1
    <3>3. FromStop(stopping', stopAt', t)
      BY <3>1
    <3> HIDE DEF FromSend, FromStop
    <3> QED BY <1>f, <1>g, <3>1, <3>2, <3>3
  <2>2. ASSUME NEW o \in Systems, StopWake(o) PROVE AwakeInv'
    <3>1. /\ stopping[o] \in Threads /\ event'[stopping[o]]
          /\ \A u \in Threads \ {stopping[o]} : event'[u] = event[u]
          /\ \A p \in Systems \ {o} : stopAt'[p] = stopAt[p]
          /\ UNCHANGED <<mMsgSends, mStop, stopping, lpc, spc>>
      BY <2>2, <1>t DEF StopWake
    <3>2. \A u \in Threads \ {stopping[o]} :
             FromStop(stopping, stopAt, u) => FromStop(stopping', stopAt', u)
      BY <3>1
    <3> HIDE DEF FromSend, FromStop
    <3> QED BY <1>f, <1>g, <3>1, <3>2
  <2>3. ASSUME NEW o \in Systems, StopThread(o) \/ StopReturns(o) PROVE AwakeInv'
    <3>1. /\ stopAt[o] # "wake"
          /\ \A p \in Systems \ {o} : stopping'[p] = stopping[p] /\ stopAt'[p] = stopAt[p]
          /\ UNCHANGED <<mMsgSends, mStop, event, lpc, spc>>
      BY <2>3, <1>t DEF StopThread, StopReturns
    <3> QED BY <1>t, <3>1 DEF AwakeInv
  <2>4. ASSUME NEW t \in Threads, Start(t) PROVE AwakeInv'
    <3>1. /\ lpc'[t] = "prerun"
          /\ \A u \in Threads \ {t} : mStop'[u] = mStop[u] /\ lpc'[u] = lpc[u]
          /\ UNCHANGED <<mMsgSends, event, stopping, stopAt, spc>>
      BY <2>4, <1>t DEF Start
    <3> HIDE DEF FromSend, FromStop
    <3> QED BY <1>f, <1>g, <3>1
  <2> QED BY <1>10, <2>1, <2>2, <2>3, <2>4 DEF ControlStep, StopStep
<1>11. ASSUME NEW m \in Msgs, ClearSend(m) PROVE AwakeInv'
  <2>1. /\ \A t \in Threads : mMsgSends'[t] # <<>> => mMsgSends[t] # <<>>
        /\ UNCHANGED <<mStop, stopping, stopAt, event, lpc, spc>>
    <3>1. PICK k \in 1..Len(mMsgSends[Target[m]]) : mMsgSends[Target[m]][k] = m
      BY <1>11, <1>t, Erased
    <3>2. mMsgSends[Target[m]] # <<>>
      BY <1>a, <1>t, <3>1
    <3>3. \A u \in Threads \ {Target[m]} : mMsgSends'[u] = mMsgSends[u]
      BY <1>11, <1>t, Erased
    <3> QED BY <1>11, <3>2, <3>3 DEF ClearSend
  <2> QED BY <1>t, <2>1 DEF AwakeInv
<1>12. CASE ClearWake \/ UNCHANGED vars
  BY <1>12, <1>k DEF ClearWake, vars
<1> QED BY <1>1, <1>2, <1>3, <1>4, <1>5, <1>6, <1>7, <1>8, <1>9, <1>10, <1>11, <1>12, <1>t,
        NextCases DEF QuietLoop, SenderStep
----------------------------------------------------------------------------
(* Theorems.                                                                *)

\* The invariant is inductive.
THEOREM Invariant == Spec => []IInv
<1>1. IInv /\ [Next]_vars => IInv'
  BY TypeStep, CritStep, ContextStep, ShapeStep, SendStepInv, ListStep, FrameStep, DirectStep,
     ReplyStep, AwakeStep DEF IInv
<1> QED BY InitIInv, <1>1, PTL DEF Spec

\* Every variable stays within its type, and the loop holds mCrit from a reply to
\* its next look at the sends and at no other time, whatever the handlers send.
THEOREM Types == Spec => []TypeOK
<1>1. IInv => TypeOK
  BY DEF IInv
<1> QED BY Invariant, <1>1, PTL

\* send returns when the handler has run, once, or when a clear has taken the
\* message off the list, and then it never runs: the taking of sends by onSendMessage,
\* direct calls at any depth, clear and the unlocked look at ready do not lose,
\* double or revive a call.
THEOREM SendsHandledOnce == Spec => []HandledOnce
<1>1. IInv => HandledOnce
  BY DEF IInv, SendInv, HandledOnce, Waiting
<1> QED BY Invariant, <1>1, PTL

\* A handler runs on the thread its message was sent or posted to, or is called
\* directly by a send on a system thread that has constructed that thread or stopped
\* it: those are the only ways it is current there, however the QyAutoThreads of
\* nested sends and the stops and starts of threads have changed what is current.
THEOREM HandlersInContext == Spec => []InContext
<1>1. IInv => InContext
  <2> SUFFICES ASSUME IInv PROVE InContext
    OBVIOUS
  <2>1. \A o \in Systems : DOMAIN stack[o] = 1..Len(stack[o])
    BY DEF IInv, TypeOK, LoopTypeOK
  <2>2. ASSUME NEW o \in Systems, NEW i \in 1..Len(stack[o]), stack[o][i].of \in Msgs,
               Target[stack[o][i].of] # o
        PROVE  spc[stack[o][i].of] = "direct" /\ Home(o, Target[stack[o][i].of])
    <3>1. i # 1 /\ Home(o, Target[stack[o][i].of])
      BY <2>2 DEF IInv, ContextInv
    <3>2. i \in 2..Len(stack[o])
      BY <2>2, <3>1
    <3> QED BY <3>1, <3>2 DEF IInv, DirectInv
  <2> QED BY <2>1, <2>2 DEF InContext, Home
<1> QED BY Invariant, <1>1, PTL

\* A sender does not sleep on an answer: send looks at ready without a lock and
\* resets the event twice, and no wake-up gets lost in between.
THEOREM NoReplyLost == Spec => []NoLostReply
<1>1. IInv => NoLostReply
  BY DEF IInv
<1> QED BY Invariant, <1>1, PTL

\* A message thread does not sleep on a send or a stop: get looks at the sends and
\* the stop flag in different critical sections, and resets the event after the wait.
THEOREM ThreadsAwake == Spec => []NoSleepOnSends
<1>1. IInv => NoSleepOnSends
  BY DEF IInv, AwakeInv, NoSleepOnSends
<1> QED BY Invariant, <1>1, PTL
=============================================================================
