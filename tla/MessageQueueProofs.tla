------------------------- MODULE MessageQueueProofs -------------------------
(***************************************************************************)
(* Theorems about MessageQueue, for any number of posters, messages,       *)
(* handlers and delays.  The getter's wake-up protocol is safe because of  *)
(* an inductive invariant: the critical section has one owner, which is    *)
(* where that owner's program counter says (LockInv), and from the moment  *)
(* the getter leaves the critical section with both queues empty, whoever  *)
(* gives it something to do has set the event or is about to (AwakeInv).   *)
(* The second part, on that invariant: the queue implements Mailbox, hands *)
(* nothing over early, keeps the order of post, and holds nothing for a    *)
(* handler whose destructor has returned.                                  *)
(***************************************************************************)
EXTENDS MessageQueue, TLAPS, SequenceTheorems

\* The owner of mCrit is between the lock and the unlock of its own code, clear
\* never goes through more messages than there are, and a stop that has returned
\* has seen the thread end.
LockInv ==
    /\ mCrit = Getter <=> gpc \in {"due", "pop"}
    /\ mCrit = Cleaner <=> cpc = "rotate"
    /\ \A p \in Posters : mCrit = p <=> ppc[p] = "wake"
    /\ cpc = "rotate" => left <= Len(mMsgQueue)
    /\ spc = "stopped" => gpc = "ended"

\* NoLostWakeup, from the moment the queues were found empty on.
AwakeInv ==
    /\ /\ gpc \in {"stopcheck", "wait"}
       /\ mMsgQueue # <<>> \/ (mDelayMsgQueue # {} /\ ~call.timed)
       => event = Up \/ WakeComing
    /\ gpc = "wait" /\ mStop => event = Up \/ WakeComing

IInv == TypeOK /\ LockInv /\ AwakeInv
----------------------------------------------------------------------------
\* A clock reading is a natural number.
LEMMA ClockNat == \A t \in Nat : Clock(t) \in Nat
  BY ClockAssumption DEF Clock

\* The invariant holds of a new queue.
LEMMA InitIInv == Init => IInv
<1> SUFFICES ASSUME Init PROVE IInv
  OBVIOUS
<1>1. QueueTypeOK
  <2>1. mMsTrigger \in [Msgs -> Nat] /\ mMsgQueue \in Seq(Msgs)
    BY DEF Init
  <2>2. ~mPeekKeep /\ mMsgPeek = NoMsg /\ gpc = "idle"
    BY DEF Init
  <2> QED BY <2>1, <2>2 DEF Init, QueueTypeOK, Up, Down
<1>2. PostTypeOK
  <2>1. post \in [Posters -> Posting]
    BY DEF Init, NoPost, Posting
  <2> QED BY <2>1 DEF Init, PostTypeOK
<1>3. GetTypeOK
  <2>1. NoCall \in [op : {"none", "get", "peek"}, cmsWait : Waits \cup {Forever},
                    msStart : Nat, msCurrent : Nat, timed : BOOLEAN]
    BY DEF NoCall
  <2> QED BY <2>1 DEF Init, GetTypeOK
<1>4. ClearTypeOK
  BY DEF Init, ClearTypeOK
<1>5. LockInv
  BY ActorsAssumption DEF Init, LockInv
<1>6. AwakeInv
  BY DEF Init, AwakeInv
<1> QED BY <1>1, <1>2, <1>3, <1>4, <1>5, <1>6 DEF IInv, TypeOK

\* Frames of the actions, for the parts of TypeOK they leave alone.
\* What the posters own, when no poster moves.
LEMMA PostFrame == PostTypeOK /\ UNCHANGED postVars => PostTypeOK'
  BY DEF PostTypeOK, postVars
\* What a clear under way owns, when it does not move.
LEMMA ClearFrame ==
  ClearTypeOK /\ UNCHANGED <<clearVars, purged>> => ClearTypeOK'
  BY DEF ClearTypeOK, clearVars
\* What a get under way owns, when it does not move.
LEMMA GetFrame == GetTypeOK /\ UNCHANGED getVars => GetTypeOK'
  BY DEF GetTypeOK, getVars
\* The queue itself, when nothing touches it.
LEMMA QueueFrame ==
  QueueTypeOK /\ UNCHANGED <<queueVars, event, now, gpc, spc>> => QueueTypeOK'
  BY DEF QueueTypeOK, queueVars, flags, peeked, delayed
----------------------------------------------------------------------------
(* Steps.  Every action keeps the invariant, one part of it at a time.     *)

\* A step of a posting thread.
LEMMA PostStep ==
  ASSUME IInv, PostNext
  PROVE  IInv'
<1> USE DEF IInv, TypeOK, queueVars, flags, peeked, delayed, postVars, getVars,
        clearVars
<1>1. ASSUME NEW m \in Msgs, PostRefused(m) PROVE IInv'
  <2>1. QueueTypeOK'
    BY <1>1, QueueFrame DEF PostRefused
  <2>2. PostTypeOK'
    BY <1>1 DEF PostRefused, PostTypeOK
  <2>3. GetTypeOK'
    BY <1>1, GetFrame DEF PostRefused
  <2>4. ClearTypeOK'
    BY <1>1, ClearFrame DEF PostRefused
  <2>5. LockInv'
    BY <1>1 DEF PostRefused, LockInv
  <2>6. AwakeInv'
    BY <1>1 DEF PostRefused, AwakeInv, WakeComing
  <2> QED BY <2>1, <2>2, <2>3, <2>4, <2>5, <2>6
<1>2. ASSUME NEW p \in Posters, NEW m \in Msgs, NEW d \in DelaysOf[m], PostBegin(p, m, d) PROVE IInv'
  <2>1. QueueTypeOK'
    BY <1>2, QueueFrame DEF PostBegin
  <2>2. PostTypeOK'
    BY <1>2, ClockAssumption DEF PostBegin, PostTypeOK, Posting
  <2>3. GetTypeOK'
    BY <1>2, GetFrame DEF PostBegin
  <2>4. ClearTypeOK'
    BY <1>2, ClearFrame DEF PostBegin
  <2>5. LockInv'
    BY <1>2 DEF PostBegin, LockInv, PostTypeOK
  <2>6. AwakeInv'
    BY <1>2 DEF PostBegin, AwakeInv, WakeComing, PostTypeOK
  <2> QED BY <2>1, <2>2, <2>3, <2>4, <2>5, <2>6
<1>3. ASSUME NEW p \in Posters, PostPush(p) PROVE IInv'
  <2> DEFINE m == post[p].msg
             d == post[p].delay
  <2>0. m \in Msgs /\ d \in Nat \cup {Forever}
    BY <1>3 DEF PostPush, PostTypeOK, Posting
  <2>d. ASSUME d # Forever PROVE now + d \in Nat
    <3>1. now \in Nat
      BY DEF QueueTypeOK
    <3> HIDE DEF m, d
    <3> QED BY <2>0, <2>d, <3>1
  <2>1. QueueTypeOK'
    <3>1. CASE d = Forever
      <4>1. Append(mMsgQueue, m) \in Seq(Msgs)
        BY <2>0 DEF QueueTypeOK
      <4>2. mMsgQueue' \in Seq(Msgs) /\ UNCHANGED delayed
        BY <1>3, <3>1, <4>1 DEF PostPush
      <4>3. mActive' = TRUE /\ mCrit' = p /\ UNCHANGED <<mStop, peeked, event, now, gpc, spc>>
        BY <1>3 DEF PostPush, EnsureActive
      <4>4. mMsTrigger' = mMsTrigger /\ mDelayMsgQueue' = mDelayMsgQueue
        BY <4>2
      <4> HIDE DEF m, d
      <4> QED BY <4>2, <4>3, <4>4 DEF QueueTypeOK
    <3>2. CASE d # Forever
      <4>1. Clock(now + d) \in Nat
        BY <2>d, <3>2, ClockNat
      <4>2. /\ mMsTrigger' = [mMsTrigger EXCEPT ![m] = Clock(now + d)]
            /\ mDelayMsgQueue' = mDelayMsgQueue \cup {m}
            /\ mMsgQueue' = mMsgQueue
        BY <1>3, <3>2 DEF PostPush
      <4>3. mMsTrigger' \in [Msgs -> Nat] /\ mDelayMsgQueue' \subseteq Msgs
        BY <2>0, <4>1, <4>2 DEF QueueTypeOK
      <4> QED BY <1>3, <4>2, <4>3 DEF PostPush, QueueTypeOK, EnsureActive
    <3> QED BY <3>1, <3>2
  <2>2. PostTypeOK'
    <3>1. post' \in [Posters -> Posting]
      BY <1>3 DEF PostPush, PostTypeOK, Posting, NoPost
    <3>2. ppc' = [ppc EXCEPT ![p] = "wake"]
          /\ post' = [post EXCEPT ![p] = NoPost] /\ fresh' = fresh
      BY <1>3 DEF PostPush
    <3>3. /\ ppc' \in [Posters -> {"idle", "push", "wake"}]
          /\ \A q \in Posters : ppc'[q] = "push" => post'[q].msg \in Msgs
      BY <3>2 DEF PostTypeOK
    <3>4. posted' \in Seq(Msgs) /\ due' \in [Msgs -> Nat]
      <4>1. CASE d = Forever
        <5>1. posted \in Seq(Msgs) /\ due \in [Msgs -> Nat]
          BY DEF PostTypeOK
        <5>2. posted' = Append(posted, m) /\ due' = due
          BY <1>3, <4>1 DEF PostPush
        <5> HIDE DEF m, d
        <5> QED BY <2>0, <5>1, <5>2
      <4>2. CASE d # Forever
        <5>1. now + d \in Nat
          BY <2>d, <4>2
        <5>2. due' = [due EXCEPT ![m] = now + d] /\ posted' = posted
          BY <1>3, <4>2 DEF PostPush
        <5>3. posted \in Seq(Msgs) /\ due \in [Msgs -> Nat]
          BY DEF PostTypeOK
        <5> HIDE DEF m, d
        <5> QED BY <2>0, <5>1, <5>2, <5>3
      <4> QED BY <4>1, <4>2
    <3> HIDE DEF m, d
    <3> QED BY <3>1, <3>2, <3>3, <3>4 DEF PostTypeOK
  <2>3. GetTypeOK'
    BY <1>3, GetFrame DEF PostPush
  <2>4. ClearTypeOK'
    BY <1>3, ClearFrame DEF PostPush
  <2>5. LockInv'
    BY <1>3, ActorsAssumption DEF PostPush, LockInv, PostTypeOK, QueueTypeOK
  <2>6. AwakeInv'
    BY <1>3 DEF PostPush, AwakeInv, WakeComing, PostTypeOK
  <2> QED BY <2>1, <2>2, <2>3, <2>4, <2>5, <2>6
<1>4. ASSUME NEW p \in Posters, PostWake(p) PROVE IInv'
  <2>1. QueueTypeOK'
    BY <1>4 DEF PostWake, QueueTypeOK, Up, Down
  <2>2. PostTypeOK'
    BY <1>4 DEF PostWake, PostTypeOK
  <2>3. GetTypeOK'
    BY <1>4, GetFrame DEF PostWake
  <2>4. ClearTypeOK'
    BY <1>4, ClearFrame DEF PostWake
  <2>5. LockInv'
    BY <1>4, ActorsAssumption DEF PostWake, LockInv, PostTypeOK
  <2>6. AwakeInv'
    BY <1>4 DEF PostWake, AwakeInv, WakeComing
  <2> QED BY <2>1, <2>2, <2>3, <2>4, <2>5, <2>6
<1> QED BY <1>1, <1>2, <1>3, <1>4 DEF PostNext

\* The clock, stop and start.
LEMMA ControlStep ==
  ASSUME IInv, Tick \/ StopSet \/ StopWake \/ StopThread \/ Stopped \/ Start
  PROVE  IInv'
<1> USE DEF IInv, TypeOK, queueVars, flags, peeked, delayed, postVars, getVars,
        clearVars
<1>1. ASSUME Tick PROVE IInv'
  <2>1. QueueTypeOK'
    BY <1>1 DEF Tick, QueueTypeOK
  <2>2. PostTypeOK'
    BY <1>1, PostFrame DEF Tick
  <2>3. GetTypeOK'
    BY <1>1, GetFrame DEF Tick
  <2>4. ClearTypeOK'
    BY <1>1, ClearFrame DEF Tick
  <2>5. LockInv'
    BY <1>1 DEF Tick, LockInv
  <2>6. AwakeInv'
    BY <1>1 DEF Tick, AwakeInv, WakeComing
  <2> QED BY <2>1, <2>2, <2>3, <2>4, <2>5, <2>6
<1>2. ASSUME StopSet PROVE IInv'
  <2>1. QueueTypeOK'
    BY <1>2 DEF StopSet, QueueTypeOK
  <2>2. PostTypeOK'
    BY <1>2, PostFrame DEF StopSet
  <2>3. GetTypeOK'
    BY <1>2, GetFrame DEF StopSet
  <2>4. ClearTypeOK'
    BY <1>2, ClearFrame DEF StopSet
  <2>5. LockInv'
    BY <1>2 DEF StopSet, LockInv
  <2>6. AwakeInv'
    BY <1>2 DEF StopSet, AwakeInv, WakeComing
  <2> QED BY <2>1, <2>2, <2>3, <2>4, <2>5, <2>6
<1>3. ASSUME StopWake PROVE IInv'
  <2>1. QueueTypeOK'
    BY <1>3 DEF StopWake, QueueTypeOK, Up, Down
  <2>2. PostTypeOK'
    BY <1>3, PostFrame DEF StopWake
  <2>3. GetTypeOK'
    BY <1>3, GetFrame DEF StopWake
  <2>4. ClearTypeOK'
    BY <1>3, ClearFrame DEF StopWake
  <2>5. LockInv'
    BY <1>3 DEF StopWake, LockInv
  <2>6. AwakeInv'
    BY <1>3 DEF StopWake, AwakeInv, WakeComing
  <2> QED BY <2>1, <2>2, <2>3, <2>4, <2>5, <2>6
<1>4. ASSUME Start PROVE IInv'
  <2>1. QueueTypeOK'
    BY <1>4 DEF Start, QueueTypeOK
  <2>2. PostTypeOK'
    BY <1>4, PostFrame DEF Start
  <2>3. GetTypeOK'
    BY <1>4 DEF Start, GetTypeOK
  <2>4. ClearTypeOK'
    BY <1>4, ClearFrame DEF Start
  <2>5. LockInv'
    BY <1>4 DEF Start, LockInv
  <2>6. AwakeInv'
    BY <1>4 DEF Start, AwakeInv, WakeComing
  <2> QED BY <2>1, <2>2, <2>3, <2>4, <2>5, <2>6
<1>5. ASSUME StopThread PROVE IInv'
  <2>1. QueueTypeOK'
    BY <1>5 DEF StopThread, QueueTypeOK
  <2>2. PostTypeOK'
    BY <1>5, PostFrame DEF StopThread
  <2>3. GetTypeOK'
    BY <1>5, GetFrame DEF StopThread
  <2>4. ClearTypeOK'
    BY <1>5, ClearFrame DEF StopThread
  <2>5. LockInv'
    BY <1>5 DEF StopThread, LockInv
  <2>6. AwakeInv'
    BY <1>5 DEF StopThread, AwakeInv, WakeComing
  <2> QED BY <2>1, <2>2, <2>3, <2>4, <2>5, <2>6
<1>6. ASSUME Stopped PROVE IInv'
  <2>1. QueueTypeOK'
    BY <1>6 DEF Stopped, QueueTypeOK
  <2>2. PostTypeOK'
    BY <1>6, PostFrame DEF Stopped
  <2>3. GetTypeOK'
    BY <1>6, GetFrame DEF Stopped
  <2>4. ClearTypeOK'
    BY <1>6, ClearFrame DEF Stopped
  <2>5. LockInv'
    BY <1>6 DEF Stopped, LockInv
  <2>6. AwakeInv'
    BY <1>6 DEF Stopped, AwakeInv, WakeComing
  <2> QED BY <2>1, <2>2, <2>3, <2>4, <2>5, <2>6
<1> QED BY <1>1, <1>2, <1>3, <1>4, <1>5, <1>6

\* A step of get or peek.
LEMMA GetStep ==
  ASSUME IInv, GetNext
  PROVE  IInv'
<1> USE DEF IInv, TypeOK, queueVars, flags, peeked, delayed, postVars, getVars,
        clearVars
<1>1. ASSUME GetKept PROVE IInv'
  <2>1. QueueTypeOK'
    BY <1>1 DEF GetKept, QueueTypeOK
  <2>2. PostTypeOK'
    BY <1>1, PostFrame DEF GetKept
  <2>3. GetTypeOK'
    BY <1>1 DEF GetKept, GetTypeOK
  <2>4. ClearTypeOK'
    BY <1>1, ClearFrame DEF GetKept
  <2>5. LockInv'
    BY <1>1 DEF GetKept, LockInv
  <2>6. AwakeInv'
    BY <1>1 DEF GetKept, AwakeInv, WakeComing
  <2> QED BY <2>1, <2>2, <2>3, <2>4, <2>5, <2>6
<1>2. ASSUME TakeKept PROVE IInv'
  <2>1. QueueTypeOK'
    BY <1>2 DEF TakeKept, QueueTypeOK
  <2>2. PostTypeOK'
    BY <1>2, PostFrame DEF TakeKept
  <2>3. GetTypeOK'
    BY <1>2 DEF TakeKept, GetTypeOK, QueueTypeOK
  <2>4. ClearTypeOK'
    BY <1>2, ClearFrame DEF TakeKept
  <2>5. LockInv'
    BY <1>2 DEF TakeKept, LockInv
  <2>6. AwakeInv'
    BY <1>2 DEF TakeKept, AwakeInv, WakeComing
  <2> QED BY <2>1, <2>2, <2>3, <2>4, <2>5, <2>6
<1>3. ASSUME NEW op \in {"get", "peek"}, NEW w \in Waits \cup {Forever}, GetCall(op, w) PROVE IInv'
  <2>1. QueueTypeOK'
    BY <1>3 DEF GetCall, QueueTypeOK
  <2>2. PostTypeOK'
    BY <1>3, PostFrame DEF GetCall
  <2>3. GetTypeOK'
    BY <1>3, ClockNat DEF GetCall, GetTypeOK, QueueTypeOK
  <2>4. ClearTypeOK'
    BY <1>3, ClearFrame DEF GetCall
  <2>5. LockInv'
    BY <1>3 DEF GetCall, LockInv
  <2>6. AwakeInv'
    BY <1>3 DEF GetCall, AwakeInv, WakeComing
  <2> QED BY <2>1, <2>2, <2>3, <2>4, <2>5, <2>6
<1>4. ASSUME GetLock PROVE IInv'
  <2>1. QueueTypeOK'
    BY <1>4 DEF GetLock, QueueTypeOK
  <2>2. PostTypeOK'
    BY <1>4, PostFrame DEF GetLock
  <2>3. GetTypeOK'
    BY <1>4 DEF GetLock, GetTypeOK
  <2>4. ClearTypeOK'
    BY <1>4, ClearFrame DEF GetLock
  <2>5. LockInv'
    BY <1>4, ActorsAssumption DEF GetLock, LockInv
  <2>6. AwakeInv'
    BY <1>4 DEF GetLock, AwakeInv, WakeComing
  <2> QED BY <2>1, <2>2, <2>3, <2>4, <2>5, <2>6
<1>5. ASSUME NEW m \in Msgs, MoveDue(m) PROVE IInv'
  <2>1. QueueTypeOK'
    BY <1>5 DEF MoveDue, QueueTypeOK, Top
  <2>2. PostTypeOK'
    BY <1>5, PostFrame DEF MoveDue
  <2>3. GetTypeOK'
    BY <1>5, GetFrame DEF MoveDue
  <2>4. ClearTypeOK'
    BY <1>5, ClearFrame DEF MoveDue
  <2>5. LockInv'
    BY <1>5, ActorsAssumption DEF MoveDue, LockInv, QueueTypeOK
  <2>6. AwakeInv'
    BY <1>5 DEF MoveDue, AwakeInv, WakeComing
  <2> QED BY <2>1, <2>2, <2>3, <2>4, <2>5, <2>6
<1>6. ASSUME NoneDue PROVE IInv'
  <2>1. QueueTypeOK'
    BY <1>6 DEF NoneDue, QueueTypeOK
  <2>2. PostTypeOK'
    BY <1>6, PostFrame DEF NoneDue
  <2>3. GetTypeOK'
    BY <1>6 DEF NoneDue, GetTypeOK, LockInv
  <2>4. ClearTypeOK'
    BY <1>6, ClearFrame DEF NoneDue
  <2>5. LockInv'
    BY <1>6 DEF NoneDue, LockInv
  <2>6. AwakeInv'
    BY <1>6 DEF NoneDue, AwakeInv, WakeComing
  <2> QED BY <2>1, <2>2, <2>3, <2>4, <2>5, <2>6
<1>7. ASSUME Dispose PROVE IInv'
  <2>1. QueueTypeOK'
    BY <1>7 DEF Dispose, QueueTypeOK
  <2>2. PostTypeOK'
    BY <1>7, PostFrame DEF Dispose
  <2>3. GetTypeOK'
    BY <1>7, GetFrame DEF Dispose
  <2>4. ClearTypeOK'
    BY <1>7 DEF Dispose, ClearTypeOK, QueueTypeOK
  <2>5. LockInv'
    BY <1>7, ActorsAssumption DEF Dispose, LockInv
  <2>6. AwakeInv'
    BY <1>7 DEF Dispose, AwakeInv, WakeComing
  <2> QED BY <2>1, <2>2, <2>3, <2>4, <2>5, <2>6
<1>8. ASSUME PopPosted PROVE IInv'
  <2>1. QueueTypeOK'
    BY <1>8 DEF PopPosted, QueueTypeOK
  <2>2. PostTypeOK'
    BY <1>8, PostFrame DEF PopPosted
  <2>3. GetTypeOK'
    <3>1. Head(mMsgQueue) \in Msgs
      BY <1>8 DEF PopPosted, QueueTypeOK
    <3>2. NoCall \in [op : {"none", "get", "peek"}, cmsWait : Waits \cup {Forever},
                      msStart : Nat, msCurrent : Nat, timed : BOOLEAN]
      BY DEF NoCall
    <3>3. handed' \in Seq(Msgs)
      <4>1. handed \in Seq(Msgs)
        BY DEF GetTypeOK
      <4>2. Append(handed, Head(mMsgQueue)) \in Seq(Msgs)
        BY <3>1, <4>1
      <4>3. handed' = Append(handed, Head(mMsgQueue)) \/ handed' = handed
        BY <1>8 DEF PopPosted
      <4> QED BY <4>1, <4>2, <4>3
    <3>4. call' = NoCall /\ msg' \in Msgs /\ gpc' \in {"dispatch", "keep"}
      BY <1>8, <3>1 DEF PopPosted
    <3> QED BY <3>2, <3>3, <3>4 DEF GetTypeOK
  <2>4. ClearTypeOK'
    BY <1>8, ClearFrame DEF PopPosted
  <2>5. LockInv'
    BY <1>8, ActorsAssumption DEF PopPosted, LockInv
  <2>6. AwakeInv'
    BY <1>8 DEF PopPosted, AwakeInv, WakeComing
  <2> QED BY <2>1, <2>2, <2>3, <2>4, <2>5, <2>6
<1>9. ASSUME KeepPeek PROVE IInv'
  <2>1. QueueTypeOK'
    BY <1>9 DEF KeepPeek, QueueTypeOK, GetTypeOK
  <2>2. PostTypeOK'
    BY <1>9, PostFrame DEF KeepPeek
  <2>3. GetTypeOK'
    BY <1>9 DEF KeepPeek, GetTypeOK
  <2>4. ClearTypeOK'
    BY <1>9, ClearFrame DEF KeepPeek
  <2>5. LockInv'
    BY <1>9 DEF KeepPeek, LockInv
  <2>6. AwakeInv'
    BY <1>9 DEF KeepPeek, AwakeInv, WakeComing
  <2> QED BY <2>1, <2>2, <2>3, <2>4, <2>5, <2>6
<1>10. ASSUME QueueEmpty PROVE IInv'
  <2>1. QueueTypeOK'
    BY <1>10 DEF QueueEmpty, QueueTypeOK
  <2>2. PostTypeOK'
    BY <1>10, PostFrame DEF QueueEmpty
  <2>3. GetTypeOK'
    BY <1>10 DEF QueueEmpty, GetTypeOK, WaitIsTimed
  <2>4. ClearTypeOK'
    BY <1>10, ClearFrame DEF QueueEmpty
  <2>5. LockInv'
    BY <1>10, ActorsAssumption DEF QueueEmpty, LockInv
  <2>6. AwakeInv'
    BY <1>10 DEF QueueEmpty, AwakeInv, WakeComing, WaitIsTimed, GetTypeOK
  <2> QED BY <2>1, <2>2, <2>3, <2>4, <2>5, <2>6
<1>11. ASSUME GetFalse PROVE IInv'
  <2>1. QueueTypeOK'
    BY <1>11 DEF GetFalse, QueueTypeOK
  <2>2. PostTypeOK'
    BY <1>11, PostFrame DEF GetFalse
  <2>3. GetTypeOK'
    BY <1>11 DEF GetFalse, GetTypeOK, NoCall, CalledByRun
  <2>4. ClearTypeOK'
    BY <1>11, ClearFrame DEF GetFalse
  <2>5. LockInv'
    BY <1>11 DEF GetFalse, LockInv
  <2>6. AwakeInv'
    BY <1>11 DEF GetFalse, AwakeInv, WakeComing
  <2> QED BY <2>1, <2>2, <2>3, <2>4, <2>5, <2>6
<1>12. ASSUME NotStopped PROVE IInv'
  <2>1. QueueTypeOK'
    BY <1>12 DEF NotStopped, QueueTypeOK
  <2>2. PostTypeOK'
    BY <1>12, PostFrame DEF NotStopped
  <2>3. GetTypeOK'
    BY <1>12 DEF NotStopped, GetTypeOK
  <2>4. ClearTypeOK'
    BY <1>12, ClearFrame DEF NotStopped
  <2>5. LockInv'
    BY <1>12 DEF NotStopped, LockInv
  <2>6. AwakeInv'
    BY <1>12 DEF NotStopped, AwakeInv, WakeComing
  <2> QED BY <2>1, <2>2, <2>3, <2>4, <2>5, <2>6
<1>13. ASSUME EventWait PROVE IInv'
  <2>1. QueueTypeOK'
    BY <1>13 DEF EventWait, QueueTypeOK, WaitReturns, Up, Down
  <2>2. PostTypeOK'
    BY <1>13, PostFrame DEF EventWait, WaitReturns
  <2>3. GetTypeOK'
    BY <1>13 DEF EventWait, GetTypeOK, WaitReturns
  <2>4. ClearTypeOK'
    BY <1>13, ClearFrame DEF EventWait, WaitReturns
  <2>5. LockInv'
    BY <1>13 DEF EventWait, LockInv, WaitReturns
  <2>6. AwakeInv'
    BY <1>13 DEF EventWait, AwakeInv, WakeComing, WaitReturns
  <2> QED BY <2>1, <2>2, <2>3, <2>4, <2>5, <2>6
<1>14. ASSUME WaitTimeout PROVE IInv'
  <2>1. QueueTypeOK'
    BY <1>14 DEF WaitTimeout, QueueTypeOK, WaitReturns, Up, Down
  <2>2. PostTypeOK'
    BY <1>14, PostFrame DEF WaitTimeout, WaitReturns
  <2>3. GetTypeOK'
    BY <1>14 DEF WaitTimeout, GetTypeOK, WaitReturns
  <2>4. ClearTypeOK'
    BY <1>14, ClearFrame DEF WaitTimeout, WaitReturns
  <2>5. LockInv'
    BY <1>14 DEF WaitTimeout, LockInv, WaitReturns
  <2>6. AwakeInv'
    BY <1>14 DEF WaitTimeout, AwakeInv, WakeComing, WaitReturns
  <2> QED BY <2>1, <2>2, <2>3, <2>4, <2>5, <2>6
<1>15. ASSUME SpuriousWake PROVE IInv'
  <2>1. QueueTypeOK'
    BY <1>15 DEF SpuriousWake, QueueTypeOK, WaitReturns, Up, Down
  <2>2. PostTypeOK'
    BY <1>15, PostFrame DEF SpuriousWake, WaitReturns
  <2>3. GetTypeOK'
    BY <1>15 DEF SpuriousWake, GetTypeOK, WaitReturns
  <2>4. ClearTypeOK'
    BY <1>15, ClearFrame DEF SpuriousWake, WaitReturns
  <2>5. LockInv'
    BY <1>15 DEF SpuriousWake, LockInv, WaitReturns
  <2>6. AwakeInv'
    BY <1>15 DEF SpuriousWake, AwakeInv, WakeComing, WaitReturns
  <2> QED BY <2>1, <2>2, <2>3, <2>4, <2>5, <2>6
<1>16. ASSUME ResetEvent PROVE IInv'
  <2>1. QueueTypeOK'
    BY <1>16 DEF ResetEvent, QueueTypeOK, Up, Down
  <2>2. PostTypeOK'
    BY <1>16, PostFrame DEF ResetEvent
  <2>3. GetTypeOK'
    BY <1>16 DEF ResetEvent, GetTypeOK
  <2>4. ClearTypeOK'
    BY <1>16, ClearFrame DEF ResetEvent
  <2>5. LockInv'
    BY <1>16 DEF ResetEvent, LockInv
  <2>6. AwakeInv'
    BY <1>16 DEF ResetEvent, AwakeInv, WakeComing
  <2> QED BY <2>1, <2>2, <2>3, <2>4, <2>5, <2>6
<1>17. ASSUME ReadClock PROVE IInv'
  <2>1. QueueTypeOK'
    BY <1>17 DEF ReadClock, QueueTypeOK
  <2>2. PostTypeOK'
    BY <1>17, PostFrame DEF ReadClock
  <2>3. GetTypeOK'
    <3>1. Clock(now) \in Nat
      BY ClockNat DEF QueueTypeOK
    <3>2. NoCall \in [op : {"none", "get", "peek"}, cmsWait : Waits \cup {Forever},
                      msStart : Nat, msCurrent : Nat, timed : BOOLEAN]
      BY DEF NoCall
    <3>3. CASE TimeIsUp
      BY <1>17, <3>2, <3>3 DEF ReadClock, GetTypeOK
    <3>4. CASE ~TimeIsUp
      BY <1>17, <3>1, <3>4 DEF ReadClock, GetTypeOK
    <3> QED BY <3>3, <3>4
  <2>4. ClearTypeOK'
    BY <1>17, ClearFrame DEF ReadClock
  <2>5. LockInv'
    BY <1>17 DEF ReadClock, LockInv
  <2>6. AwakeInv'
    BY <1>17 DEF ReadClock, AwakeInv, WakeComing
  <2> QED BY <2>1, <2>2, <2>3, <2>4, <2>5, <2>6
<1>18. ASSUME Dispatch PROVE IInv'
  <2>1. QueueTypeOK'
    BY <1>18 DEF Dispatch, QueueTypeOK
  <2>2. PostTypeOK'
    BY <1>18, PostFrame DEF Dispatch
  <2>3. GetTypeOK'
    BY <1>18 DEF Dispatch, GetTypeOK
  <2>4. ClearTypeOK'
    BY <1>18, ClearFrame DEF Dispatch
  <2>5. LockInv'
    BY <1>18 DEF Dispatch, LockInv
  <2>6. AwakeInv'
    BY <1>18 DEF Dispatch, AwakeInv, WakeComing
  <2> QED BY <2>1, <2>2, <2>3, <2>4, <2>5, <2>6
<1>19. ASSUME HandlerReturns PROVE IInv'
  <2>1. QueueTypeOK'
    BY <1>19 DEF HandlerReturns, QueueTypeOK
  <2>2. PostTypeOK'
    BY <1>19, PostFrame DEF HandlerReturns
  <2>3. GetTypeOK'
    BY <1>19 DEF HandlerReturns, GetTypeOK
  <2>4. ClearTypeOK'
    BY <1>19, ClearFrame DEF HandlerReturns
  <2>5. LockInv'
    BY <1>19 DEF HandlerReturns, LockInv
  <2>6. AwakeInv'
    BY <1>19 DEF HandlerReturns, AwakeInv, WakeComing
  <2> QED BY <2>1, <2>2, <2>3, <2>4, <2>5, <2>6
<1> QED BY <1>1, <1>2, <1>3, <1>4, <1>5, <1>6, <1>7, <1>8, <1>9, <1>10, <1>11, <1>12, <1>13,
           <1>14, <1>15, <1>16, <1>17, <1>18, <1>19 DEF GetNext

\* A step of clear or of a handler's destructor.
LEMMA ClearStep ==
  ASSUME IInv, ClearNext
  PROVE  IInv'
<1> USE DEF IInv, TypeOK, queueVars, flags, peeked, delayed, postVars, getVars,
        clearVars
<1>1. ASSUME NEW S \in ClearSets, ClearCall(S) PROVE IInv'
  <2>1. QueueTypeOK'
    BY <1>1, QueueFrame DEF ClearCall
  <2>2. PostTypeOK'
    BY <1>1, PostFrame DEF ClearCall
  <2>3. GetTypeOK'
    BY <1>1, GetFrame DEF ClearCall
  <2>4. ClearTypeOK'
    BY <1>1, DataAssumption DEF ClearCall, ClearTypeOK
  <2>5. LockInv'
    BY <1>1 DEF ClearCall, LockInv
  <2>6. AwakeInv'
    BY <1>1 DEF ClearCall, AwakeInv, WakeComing
  <2> QED BY <2>1, <2>2, <2>3, <2>4, <2>5, <2>6
<1>2. ASSUME NEW h \in Handlers, DestroyHandler(h) PROVE IInv'
  <2>1. QueueTypeOK'
    BY <1>2, QueueFrame DEF DestroyHandler
  <2>2. PostTypeOK'
    BY <1>2, PostFrame DEF DestroyHandler
  <2>3. GetTypeOK'
    BY <1>2, GetFrame DEF DestroyHandler
  <2>4. ClearTypeOK'
    BY <1>2 DEF DestroyHandler, ClearTypeOK
  <2>5. LockInv'
    BY <1>2 DEF DestroyHandler, LockInv
  <2>6. AwakeInv'
    BY <1>2 DEF DestroyHandler, AwakeInv, WakeComing
  <2> QED BY <2>1, <2>2, <2>3, <2>4, <2>5, <2>6
<1>3. ASSUME ClearEnter PROVE IInv'
  <2>1. QueueTypeOK'
    BY <1>3 DEF ClearEnter, QueueTypeOK
  <2>2. PostTypeOK'
    BY <1>3, PostFrame DEF ClearEnter
  <2>3. GetTypeOK'
    BY <1>3, GetFrame DEF ClearEnter
  <2>4. ClearTypeOK'
    BY <1>3 DEF ClearEnter, ClearTypeOK, QueueTypeOK, Rotations
  <2>5. LockInv'
    BY <1>3, ActorsAssumption DEF ClearEnter, LockInv, Rotations, QueueTypeOK
  <2>6. AwakeInv'
    BY <1>3 DEF ClearEnter, AwakeInv, WakeComing
  <2> QED BY <2>1, <2>2, <2>3, <2>4, <2>5, <2>6
<1>4. ASSUME ClearRotate PROVE IInv'
  <2>1. QueueTypeOK'
    <3>1. mMsgQueue # <<>> /\ mMsgQueue \in Seq(Msgs)
      BY <1>4 DEF ClearRotate, QueueTypeOK, LockInv, ClearTypeOK
    <3>2. Head(mMsgQueue) \in Msgs /\ Tail(mMsgQueue) \in Seq(Msgs)
      BY <3>1
    <3>3. Append(Tail(mMsgQueue), Head(mMsgQueue)) \in Seq(Msgs)
      BY <3>2
    <3>4. mMsgQueue' \in Seq(Msgs)
      BY <1>4, <3>2, <3>3 DEF ClearRotate
    <3> QED BY <1>4, <3>4 DEF ClearRotate, QueueTypeOK
  <2>2. PostTypeOK'
    BY <1>4, PostFrame DEF ClearRotate
  <2>3. GetTypeOK'
    BY <1>4, GetFrame DEF ClearRotate
  <2>4. ClearTypeOK'
    BY <1>4 DEF ClearRotate, ClearTypeOK, LockInv, QueueTypeOK
  <2>5. LockInv'
    BY <1>4 DEF ClearRotate, LockInv, QueueTypeOK, ClearTypeOK
  <2>6. AwakeInv'
    BY <1>4 DEF ClearRotate, AwakeInv, WakeComing, LockInv, QueueTypeOK, ClearTypeOK
  <2> QED BY <2>1, <2>2, <2>3, <2>4, <2>5, <2>6
<1>5. ASSUME ClearDelayed PROVE IInv'
  <2>1. QueueTypeOK'
    BY <1>5 DEF ClearDelayed, QueueTypeOK, KeptDelayed
  <2>2. PostTypeOK'
    BY <1>5, PostFrame DEF ClearDelayed
  <2>3. GetTypeOK'
    BY <1>5, GetFrame DEF ClearDelayed
  <2>4. ClearTypeOK'
    BY <1>5 DEF ClearDelayed, ClearTypeOK, QueueTypeOK
  <2>5. LockInv'
    BY <1>5, ActorsAssumption DEF ClearDelayed, LockInv
  <2>6. AwakeInv'
    BY <1>5 DEF ClearDelayed, AwakeInv, WakeComing, KeptDelayed
  <2> QED BY <2>1, <2>2, <2>3, <2>4, <2>5, <2>6
<1> QED BY <1>1, <1>2, <1>3, <1>4, <1>5 DEF ClearNext

\* A step that changes nothing.
LEMMA StutterStep == IInv /\ UNCHANGED vars => IInv'
<1> SUFFICES ASSUME IInv, UNCHANGED vars PROVE IInv'
  OBVIOUS
<1>1. TypeOK'
  BY QueueFrame, PostFrame, GetFrame, ClearFrame DEF IInv, TypeOK, vars, getVars
<1>2. LockInv' /\ AwakeInv'
  BY DEF IInv, LockInv, AwakeInv, WakeComing, vars, queueVars, flags, peeked, delayed,
         postVars, getVars, clearVars
<1> QED BY <1>1, <1>2 DEF IInv

\* Every reachable state of the queue and its threads satisfies the invariant.
THEOREM Inductive == Spec => []IInv
<1>1. IInv /\ [Next]_vars => IInv'
  BY PostStep, ControlStep, GetStep, ClearStep, StutterStep DEF Next
<1> QED BY InitIInv, <1>1, PTL DEF Spec

\* Every variable stays within its type; a message a local or the queue's front
\* is read for is there.
THEOREM TypeCorrect == Spec => []TypeOK
BY Inductive, PTL DEF IInv

\* mCrit is held by one thread at a time, the one between its lock and unlock.
THEOREM MutualExclusion == Spec => []LockInv
BY Inductive, PTL DEF IInv

\* The getter never sleeps on a message, on a trigger time it has not been told
\* of, or on a stop, unless the event is up or about to be set.
THEOREM NeverSleepsOnWork == Spec => []NoLostWakeup
<1>1. IInv => NoLostWakeup
  BY DEF IInv, AwakeInv, NoLostWakeup
<1> QED BY Inductive, <1>1, PTL
-----------------------------------------------------------------------------
(* The queue as a mailbox.                                                   *)


\* peek is used only where clear is the getter's own call.  With a foreign
\* clear, a kept message can be purged while get is handing it over.
PeekIsPrivate == ~(UsePeek /\ ForeignClear)

\* The clock counter does not come round.
NoWrap == MaxClock < ClockMod

Ready == MsgsOf(mMsgQueue)
HandedOver == MsgsOf(handed)

\* What get holds between the queue and its caller: the message peek stored,
\* also while get takes it, and the message peek is about to store.
Kept == (IF mPeekKeep \/ gpc = "take" THEN {mMsgPeek} ELSE {})
            \cup (IF gpc = "keep" THEN {msg} ELSE {})

\* Every message that has got past the lock of post.
Seen == Ready \cup mDelayMsgQueue \cup Kept \cup HandedOver \cup purged
            \cup MsgsOf(posted)

\* A message is kept between two calls of get only, and only where peek is
\* used; the getter's own clear does not overlap get; left counts only during
\* a rotation.
PeekInv ==
    /\ mPeekKeep => UsePeek /\ gpc \in {"idle", "take", "ended"}
    /\ gpc \in {"keep", "take"} => UsePeek
    /\ gpc \in {"lock", "due", "pop", "stopcheck", "wait", "reset", "clock"} /\ call.op = "peek"
          => UsePeek
    /\ ForeignClear \/ cpc = "idle" \/ gpc \in {"idle", "dispatch", "ended"}
    /\ cpc # "rotate" => left = 0

\* A message nobody has posted, or that a post has not pushed yet, is nowhere;
\* no two posts under way are of the same message.
EntryInv ==
    /\ fresh \cap Seen = {}
    /\ \A p \in Posters : ppc[p] = "push" => post[p].msg \notin fresh \cup Seen
    /\ \A p, q \in Posters :
          ppc[p] = "push" /\ ppc[q] = "push" /\ post[p].msg = post[q].msg => p = q

\* A message is in one place: once in the queue of ready messages, or delayed,
\* or kept, or gone one way.
ApartInv ==
    /\ \A i, j \in 1..Len(mMsgQueue) : mMsgQueue[i] = mMsgQueue[j] => i = j
    /\ Ready \cap mDelayMsgQueue = {}
    /\ Kept \cap (Ready \cup mDelayMsgQueue) = {}
    /\ (Ready \cup mDelayMsgQueue \cup Kept) \cap (HandedOver \cup purged) = {}
    /\ gpc = "take" => mPeekKeep

\* The order of post holds among the messages handed over, then the kept one,
\* then the queue, where a rotation has the positions up to left still in front.
InFront(a, b) == IF b <= left THEN a > left \/ a < b ELSE left < a /\ a < b

OrderInv ==
    /\ mDelayMsgQueue \cap MsgsOf(posted) = {}
    /\ \A i, j \in DOMAIN posted :
        /\ \A a, b \in DOMAIN mMsgQueue :
              posted[i] = mMsgQueue[a] /\ posted[j] = mMsgQueue[b] /\ InFront(a, b) => i < j
        /\ posted[i] \in Kept /\ posted[j] \in Ready => i < j
        /\ posted[i] \in HandedOver /\ posted[j] \in Ready \cup Kept => i < j
        /\ \A k, l \in DOMAIN handed :
              posted[i] = handed[k] /\ posted[j] = handed[l] /\ k < l => i < j

\* What is ready, kept or handed over is due; a trigger is the due time, and
\* get's clock reading is not ahead of the clock.
DueInv ==
    /\ now <= MaxClock
    /\ \A p \in Posters :
          ppc[p] = "push" => /\ due[post[p].msg] = 0
                             /\ post[p].delay # Forever => now + post[p].delay <= MaxClock
    /\ \A m \in fresh : due[m] = 0
    /\ \A m \in Ready \cup Kept \cup HandedOver : due[m] <= now
    /\ \A m \in mDelayMsgQueue : mMsTrigger[m] = due[m]
    /\ call.msCurrent <= now

\* A message for a destroyed handler is one that the clear under way selected
\* and has not come to yet.
DestroyedInv ==
    /\ \A p \in Posters : ppc[p] = "push" => HandlerOf[post[p].msg] \notin destroyed
    /\ ~mActive => Ready = {} /\ mDelayMsgQueue = {} /\ Kept = {}
    /\ \A i \in 1..Len(mMsgQueue) : HandlerOf[mMsgQueue[i]] \in destroyed =>
          mMsgQueue[i] \in selected /\ cpc # "idle" /\ (cpc = "rotate" => i <= left)
    /\ \A m \in mDelayMsgQueue :
          HandlerOf[m] \in destroyed => m \in selected /\ cpc # "idle"
    /\ \A m \in Kept : HandlerOf[m] \in destroyed => m \in selected /\ cpc = "lock"
----------------------------------------------------------------------------
(* Lemmas about the operators the invariants are made of.                   *)

\* The messages of a sequence are messages.
LEMMA MsgsOfType == ASSUME NEW s \in Seq(Msgs) PROVE MsgsOf(s) \subseteq Msgs
  BY DEF MsgsOf

\* A message added at the end is the only one added.
LEMMA MsgsOfAppend ==
  ASSUME NEW s \in Seq(Msgs), NEW m \in Msgs
  PROVE  MsgsOf(Append(s, m)) = MsgsOf(s) \cup {m}
  BY DEF MsgsOf

\* Taking the head off takes one occurrence off.
LEMMA MsgsOfTail ==
  ASSUME NEW s \in Seq(Msgs), s # <<>>
  PROVE  MsgsOf(s) = {Head(s)} \cup MsgsOf(Tail(s))
<1>1. Head(s) \in MsgsOf(s)
  BY DEF MsgsOf
<1>2. ASSUME NEW i \in 1..Len(Tail(s)) PROVE Tail(s)[i] \in MsgsOf(s)
  BY <1>2 DEF MsgsOf
<1>3. ASSUME NEW i \in 1..Len(s) PROVE s[i] = Head(s) \/ s[i] \in MsgsOf(Tail(s))
  <2>1. CASE i # 1
    <3>1. i - 1 \in 1..Len(Tail(s)) /\ Tail(s)[i - 1] = s[i]
      BY <2>1
    <3> QED BY <3>1 DEF MsgsOf
  <2> QED BY <2>1
<1> QED BY <1>1, <1>2, <1>3 DEF MsgsOf

\* With no message twice in the queue, the head is not in the rest.
LEMMA HeadNotInTail ==
  ASSUME NEW s \in Seq(Msgs), s # <<>>, \A i, j \in 1..Len(s) : s[i] = s[j] => i = j
  PROVE  /\ Head(s) \notin MsgsOf(Tail(s))
         /\ \A i, j \in 1..Len(Tail(s)) : Tail(s)[i] = Tail(s)[j] => i = j
<1>1. \A i \in 1..Len(Tail(s)) : i + 1 \in 1..Len(s) /\ Tail(s)[i] = s[i + 1]
  OBVIOUS
<1>2. Head(s) \notin MsgsOf(Tail(s))
  BY <1>1 DEF MsgsOf
<1>3. ASSUME NEW i \in 1..Len(Tail(s)), NEW j \in 1..Len(Tail(s)), Tail(s)[i] = Tail(s)[j]
      PROVE  i = j
  BY <1>1, <1>3
<1> QED BY <1>2, <1>3
----------------------------------------------------------------------------
(* Steps that move no message.                                              *)

Quiet ==
    /\ UNCHANGED <<mMsgQueue, mDelayMsgQueue, mMsTrigger, fresh, post, posted, due, handed,
                   purged, left>>
    /\ Kept' = Kept
    /\ \A p \in Posters : ppc'[p] = "push" => ppc[p] = "push"

\* The steps between the lock and the queues: taking and leaving the lock, waiting,
\* reading the clock, calling and dispatching.
QuietGet ==
    \/ GetKept
    \/ \E op \in {"get", "peek"}, w \in Waits \cup {Forever} : GetCall(op, w)
    \/ GetLock \/ NoneDue \/ QueueEmpty \/ GetFalse \/ NotStopped
    \/ EventWait \/ WaitTimeout \/ SpuriousWake \/ ResetEvent \/ ReadClock \/ Dispatch
    \/ HandlerReturns

QuietOther ==
    \/ Tick \/ StopSet \/ StopWake \/ StopThread \/ Stopped \/ Start
    \/ \E p \in Posters : PostWake(p)
    \/ \E S \in ClearSets : ClearCall(S)
    \/ \E h \in Handlers : DestroyHandler(h)
    \/ UNCHANGED vars

\* These steps move no message.
LEMMA QuietSteps ==
  ASSUME IInv, PeekInv, QuietGet \/ QuietOther
  PROVE  Quiet
<1> USE DEF queueVars, flags, peeked, delayed, postVars, getVars, clearVars
<1>1. CASE QuietGet
  BY <1>1 DEF QuietGet, Quiet, Kept, PeekInv, GetKept, GetCall, GetLock, NoneDue, QueueEmpty,
     GetFalse, NotStopped, EventWait, WaitTimeout, SpuriousWake, WaitReturns, ResetEvent,
     ReadClock, Dispatch, HandlerReturns
<1>2. CASE QuietOther
  BY <1>2 DEF QuietOther, Quiet, Kept, IInv, TypeOK, PostTypeOK, LockInv, Tick, StopSet, StopWake,
     StopThread, Stopped, Start, PostWake, ClearCall, DestroyHandler, vars
<1> QED BY <1>1, <1>2

\* Every step is one of those, or moves a message.
LEMMA NextCases ==
  [Next]_vars =>
    \/ QuietGet \/ QuietOther
    \/ \E m \in Msgs : PostRefused(m)
    \/ \E p \in Posters, m \in Msgs : \E d \in DelaysOf[m] : PostBegin(p, m, d)
    \/ \E p \in Posters : PostPush(p)
    \/ \E m \in Msgs : MoveDue(m)
    \/ TakeKept \/ Dispose \/ PopPosted \/ KeepPeek
    \/ ClearEnter \/ ClearRotate \/ ClearDelayed
  BY DEF Next, PostNext, GetNext, ClearNext, QuietGet, QuietOther
----------------------------------------------------------------------------
(* Peek.                                                                   *)

\* The locals of a get under way, and the messages that are kept, stay where
\* only peek and the getter's own clear can put them.
LEMMA PeekStep ==
  ASSUME IInv, PeekInv, [Next]_vars
  PROVE  PeekInv'
<1> USE DEF queueVars, flags, peeked, delayed, postVars, getVars, clearVars
<1>1. CASE QuietGet
  <2>1. ASSUME QueueEmpty PROVE PeekInv'
    BY <2>1 DEF QueueEmpty, PeekInv, IInv, TypeOK, GetTypeOK
  <2>2. ASSUME ReadClock PROVE PeekInv'
    BY <2>2 DEF ReadClock, PeekInv, IInv, TypeOK, GetTypeOK
  <2>3. ASSUME NEW op \in {"get", "peek"}, NEW w \in Waits \cup {Forever}, GetCall(op, w)
        PROVE  PeekInv'
    BY <2>3 DEF GetCall, PeekInv, MayGet
  <2>4. ASSUME GetKept \/ GetLock \/ NoneDue \/ GetFalse PROVE PeekInv'
    BY <2>4 DEF GetKept, GetLock, NoneDue, GetFalse, PeekInv, MayGet
  <2>5. ASSUME NotStopped \/ EventWait \/ WaitTimeout \/ SpuriousWake \/ ResetEvent \/ Dispatch
               \/ HandlerReturns
        PROVE  PeekInv'
    BY <2>5 DEF NotStopped, EventWait, WaitTimeout, SpuriousWake, WaitReturns, ResetEvent,
       Dispatch, HandlerReturns, MayGet, PeekInv
  <2> QED BY <1>1, <2>1, <2>2, <2>3, <2>4, <2>5 DEF QuietGet
<1>2. CASE QuietOther
  BY <1>2 DEF QuietOther, PeekInv, IInv, LockInv, Tick, StopSet, StopWake, StopThread, Stopped, Start, PostWake,
       ClearCall,     DestroyHandler, MayClear, vars
<1>3. CASE \/ \E m \in Msgs : PostRefused(m)
           \/ \E p \in Posters, m \in Msgs : \E d \in DelaysOf[m] : PostBegin(p, m, d)
           \/ \E p \in Posters : PostPush(p)
  BY <1>3 DEF PeekInv, PostRefused, PostBegin, PostPush
<1>4. CASE (\E m \in Msgs : MoveDue(m)) \/ TakeKept \/ Dispose
  BY <1>4 DEF PeekInv, MoveDue, TakeKept, Dispose
<1>5. CASE PopPosted \/ KeepPeek
  BY <1>5 DEF PeekInv, PopPosted, KeepPeek
<1>6. CASE ClearEnter \/ ClearRotate \/ ClearDelayed
  BY <1>6 DEF PeekInv, ClearEnter, ClearRotate, ClearDelayed, IInv, TypeOK, QueueTypeOK
<1> QED BY <1>1, <1>2, <1>3, <1>4, <1>5, <1>6, NextCases
----------------------------------------------------------------------------
(* Entering.                                                               *)

\* Inside the queue, messages only move on: from the queue to the getter, and from
\* there or from anywhere to their end.
LEMMA LeaveSteps ==
  ASSUME IInv, PeekInv,
         \/ TakeKept \/ Dispose \/ PopPosted \/ KeepPeek
         \/ ClearEnter \/ ClearRotate \/ ClearDelayed
  PROVE  /\ Ready' \cup Kept' \cup HandedOver' \subseteq Ready \cup Kept \cup HandedOver
         /\ mDelayMsgQueue' \subseteq mDelayMsgQueue
         /\ purged' \subseteq purged \cup Ready \cup Kept \cup mDelayMsgQueue
         /\ posted' = posted
<1> USE DEF queueVars, flags, peeked, delayed, postVars, getVars, clearVars
<1>t. /\ mMsgQueue \in Seq(Msgs) /\ handed \in Seq(Msgs)
      /\ mPeekKeep \/ gpc = "take" => mMsgPeek \in Msgs
      /\ gpc = "keep" => msg \in Msgs
  BY DEF IInv, TypeOK, QueueTypeOK, GetTypeOK
<1>1. CASE TakeKept
  <2>1. HandedOver' = HandedOver \cup {mMsgPeek}
    BY <1>1, <1>t, MsgsOfAppend DEF TakeKept, HandedOver
  <2> QED BY <1>1, <2>1 DEF TakeKept, Kept, Ready
<1>2. CASE Dispose
  <2>1. Ready = {Head(mMsgQueue)} \cup Ready'
    BY <1>2, <1>t, MsgsOfTail DEF Dispose, Ready
  <2> QED BY <1>2, <2>1 DEF Dispose, Kept, HandedOver
<1>3. CASE PopPosted
  <2>1. Ready = {Head(mMsgQueue)} \cup Ready' /\ Head(mMsgQueue) \in Msgs
    BY <1>3, <1>t, MsgsOfTail DEF PopPosted, Ready
  <2>2. HandedOver' \subseteq HandedOver \cup {Head(mMsgQueue)}
    BY <1>3, <1>t, <2>1, MsgsOfAppend DEF PopPosted, HandedOver
  <2>3. Kept' \subseteq Kept \cup {Head(mMsgQueue)}
    BY <1>3 DEF PopPosted, Kept
  <2> QED BY <1>3, <2>1, <2>2, <2>3 DEF PopPosted
<1>4. CASE KeepPeek
  BY <1>4 DEF KeepPeek, Kept, Ready, HandedOver
<1>5. CASE ClearEnter
  BY <1>5 DEF ClearEnter, Kept, Ready, HandedOver
<1>6. CASE ClearRotate
  <2>1. mMsgQueue # <<>>
    BY <1>6 DEF ClearRotate, IInv, LockInv, TypeOK, ClearTypeOK
  <2>2. /\ Ready = {Head(mMsgQueue)} \cup MsgsOf(Tail(mMsgQueue))
        /\ Head(mMsgQueue) \in Msgs /\ Tail(mMsgQueue) \in Seq(Msgs)
    BY <1>t, <2>1, MsgsOfTail DEF Ready
  <2>3. /\ Ready' \subseteq Ready
        /\ purged' \subseteq purged \cup {Head(mMsgQueue)}
    BY <1>6, <2>2, MsgsOfAppend DEF ClearRotate, Ready
  <2> QED BY <1>6, <2>2, <2>3 DEF ClearRotate, Kept, HandedOver
<1>7. CASE ClearDelayed
  BY <1>7 DEF ClearDelayed, KeptDelayed, Kept, Ready, HandedOver
<1> QED BY <1>1, <1>2, <1>3, <1>4, <1>5, <1>6, <1>7

\* Nothing but a push is new to the queue.
LEMMA SeenSteps ==
  ASSUME IInv, PeekInv, [Next]_vars
  PROVE  \/ Seen' \subseteq Seen
         \/ \E p \in Posters : PostPush(p) /\ Seen' = Seen \cup {post[p].msg}
<1> USE DEF queueVars, flags, peeked, delayed, postVars, getVars, clearVars
<1>t. /\ mMsgQueue \in Seq(Msgs) /\ handed \in Seq(Msgs) /\ posted \in Seq(Msgs)
      /\ mPeekKeep \/ gpc = "take" => mMsgPeek \in Msgs
      /\ gpc = "keep" => msg \in Msgs
  BY DEF IInv, TypeOK, QueueTypeOK, GetTypeOK, PostTypeOK
<1>1. CASE QuietGet \/ QuietOther
  BY <1>1, QuietSteps DEF Quiet, Seen, Ready, HandedOver, MsgsOf
<1>2. ASSUME NEW p \in Posters, PostPush(p) PROVE Seen' = Seen \cup {post[p].msg}
  <2>1. post[p].msg \in Msgs
    BY <1>2 DEF PostPush, IInv, TypeOK, PostTypeOK
  <2>2. Kept' = Kept /\ HandedOver' = HandedOver /\ purged' = purged
    BY <1>2 DEF PostPush, Kept, HandedOver, MsgsOf
  <2>3. CASE post[p].delay = Forever
    <3>1. /\ mMsgQueue' = Append(mMsgQueue, post[p].msg)
          /\ posted' = Append(posted, post[p].msg)
          /\ mDelayMsgQueue' = mDelayMsgQueue
      BY <1>2, <2>3 DEF PostPush
    <3>2. /\ Ready' = Ready \cup {post[p].msg}
          /\ MsgsOf(posted') = MsgsOf(posted) \cup {post[p].msg}
      BY <1>t, <2>1, <3>1, MsgsOfAppend DEF Ready
    <3> QED BY <2>2, <3>1, <3>2 DEF Seen
  <2>4. CASE post[p].delay # Forever
    <3>1. /\ mMsgQueue' = mMsgQueue /\ posted' = posted
          /\ mDelayMsgQueue' = mDelayMsgQueue \cup {post[p].msg}
      BY <1>2, <2>4 DEF PostPush
    <3> QED BY <2>2, <3>1 DEF Seen, Ready
  <2> QED BY <2>3, <2>4
<1>3. ASSUME NEW m \in Msgs, MoveDue(m) PROVE Seen' \subseteq Seen
  <2>1. Ready' = Ready \cup {m} /\ m \in mDelayMsgQueue
    BY <1>3, <1>t, MsgsOfAppend DEF MoveDue, Ready, Top
  <2> QED BY <1>3, <2>1 DEF MoveDue, Seen, Kept, HandedOver
<1>4. CASE TakeKept \/ Dispose \/ PopPosted \/ KeepPeek \/ ClearEnter \/ ClearRotate \/ ClearDelayed
  BY <1>4, LeaveSteps DEF Seen
<1>5. CASE \/ \E m \in Msgs : PostRefused(m)
           \/ \E p \in Posters, m \in Msgs : \E d \in DelaysOf[m] : PostBegin(p, m, d)
  BY <1>5 DEF PostRefused, PostBegin, Seen, Kept, Ready, HandedOver
<1> QED BY <1>1, <1>2, <1>3, <1>4, <1>5, NextCases

\* A message is new to the queue until it is pushed.
LEMMA EntryStep ==
  ASSUME IInv, PeekInv, EntryInv, [Next]_vars
  PROVE  EntryInv'
<1> USE DEF queueVars, flags, peeked, delayed, postVars, getVars, clearVars
<1>1. ASSUME NEW p \in Posters, PostPush(p) PROVE EntryInv'
  <2>1. CASE Seen' = Seen \cup {post[p].msg}
    BY <1>1, <2>1 DEF PostPush, EntryInv, IInv, TypeOK, PostTypeOK
  <2>2. CASE Seen' \subseteq Seen
    BY <1>1, <2>2 DEF PostPush, EntryInv, IInv, TypeOK, PostTypeOK
  <2>3. ASSUME NEW q \in Posters, PostPush(q), Seen' = Seen \cup {post[q].msg}
        PROVE  EntryInv'
    <3>1. q = p
      BY <1>1, <2>3, ActorsAssumption DEF PostPush
    <3> QED BY <2>1, <2>3, <3>1
  <2> QED BY <2>2, <2>3, SeenSteps
<1>2. ASSUME NEW p \in Posters, NEW m \in Msgs, NEW d \in DelaysOf[m], PostBegin(p, m, d)
      PROVE  EntryInv'
  <2>1. Seen' = Seen
    BY <1>2 DEF PostBegin, Seen, Ready, Kept, HandedOver
  <2>2. /\ ppc' = [ppc EXCEPT ![p] = "push"] /\ m \in fresh /\ fresh' = fresh \ {m}
        /\ post'[p].msg = m /\ \A q \in Posters : q # p => post'[q] = post[q]
    BY <1>2 DEF PostBegin, IInv, TypeOK, PostTypeOK
  <2> QED BY <2>1, <2>2 DEF EntryInv, IInv, TypeOK, PostTypeOK
<1>3. ASSUME NEW m \in Msgs, PostRefused(m) PROVE EntryInv'
  <2>1. Seen' = Seen
    BY <1>3 DEF PostRefused, Seen, Ready, Kept, HandedOver
  <2> QED BY <1>3, <2>1 DEF PostRefused, EntryInv
<1>4. CASE QuietGet \/ QuietOther
  <2>1. Seen' = Seen
    BY <1>4, QuietSteps DEF Quiet, Seen, Ready, HandedOver
  <2> QED BY <1>4, <2>1, QuietSteps DEF Quiet, EntryInv
<1>5. ASSUME \/ \E m \in Msgs : MoveDue(m)
             \/ TakeKept \/ Dispose \/ PopPosted \/ KeepPeek
             \/ ClearEnter \/ ClearRotate \/ ClearDelayed
      PROVE  EntryInv'
  <2>1. UNCHANGED <<ppc, post, fresh>>
    BY <1>5 DEF MoveDue, TakeKept, Dispose, PopPosted, KeepPeek, ClearEnter, ClearRotate,
       ClearDelayed
  <2>2. \A p \in Posters : ~PostPush(p)
    BY <2>1 DEF PostPush, IInv, TypeOK, PostTypeOK
  <2>3. Seen' \subseteq Seen
    BY <2>2, SeenSteps
  <2> QED BY <2>1, <2>3 DEF EntryInv
<1> QED BY <1>1, <1>2, <1>3, <1>4, <1>5, NextCases
----------------------------------------------------------------------------
(* One place at a time.                                                    *)

\* With peek private, no step puts a message in a second place.
LEMMA ApartStep ==
  ASSUME PeekIsPrivate, IInv, PeekInv, EntryInv, ApartInv, [Next]_vars
  PROVE  ApartInv'
<1> USE DEF queueVars, flags, peeked, delayed, postVars, getVars, clearVars
<1>t. /\ mMsgQueue \in Seq(Msgs) /\ handed \in Seq(Msgs)
      /\ mPeekKeep \/ gpc = "take" => mMsgPeek \in Msgs
      /\ gpc = "keep" => msg \in Msgs
  BY DEF IInv, TypeOK, QueueTypeOK, GetTypeOK
<1>1. CASE QuietGet \/ QuietOther
  <2>1. gpc' = "take" => mPeekKeep'
    BY <1>1 DEF QuietGet, QuietOther, ApartInv, GetKept, GetCall, GetLock, NoneDue, QueueEmpty,
       GetFalse, NotStopped, EventWait, WaitTimeout, SpuriousWake, WaitReturns, ResetEvent,
       ReadClock, Dispatch, HandlerReturns, Tick, StopSet, StopWake, StopThread, Stopped, Start,
       PostWake, ClearCall, DestroyHandler, vars
  <2> QED BY <1>1, <2>1, QuietSteps DEF Quiet, ApartInv, Ready, HandedOver
<1>2. ASSUME NEW p \in Posters, PostPush(p) PROVE ApartInv'
  <2> DEFINE m == post[p].msg
  <2>1. m \in Msgs /\ m \notin Seen
    BY <1>2 DEF PostPush, EntryInv, IInv, TypeOK, PostTypeOK
  <2>2. UNCHANGED <<mPeekKeep, mMsgPeek, gpc, msg, handed, purged>>
    BY <1>2 DEF PostPush
  <2>3. Kept' = Kept /\ HandedOver' = HandedOver
    BY <2>2 DEF Kept, HandedOver
  <2>4. CASE post[p].delay = Forever
    <3>1. mMsgQueue' = Append(mMsgQueue, m) /\ mDelayMsgQueue' = mDelayMsgQueue
      BY <1>2, <2>4 DEF PostPush
    <3> HIDE DEF m
    <3>2. Ready' = Ready \cup {m}
      BY <1>t, <2>1, <3>1, MsgsOfAppend DEF Ready
    <3>3. \A i, j \in 1..Len(mMsgQueue') : mMsgQueue'[i] = mMsgQueue'[j] => i = j
      <4>1. \A i \in 1..Len(mMsgQueue) : mMsgQueue[i] # m
        BY <2>1 DEF Seen, Ready, MsgsOf
      <4> QED BY <1>t, <2>1, <3>1, <4>1 DEF ApartInv
    <3> QED BY <2>1, <2>2, <2>3, <3>1, <3>2, <3>3 DEF ApartInv, Seen
  <2>5. CASE post[p].delay # Forever
    <3>1. mMsgQueue' = mMsgQueue /\ mDelayMsgQueue' = mDelayMsgQueue \cup {m}
      BY <1>2, <2>5 DEF PostPush
    <3> HIDE DEF m
    <3> QED BY <2>1, <2>2, <2>3, <3>1 DEF ApartInv, Seen, Ready
  <2> QED BY <2>4, <2>5
<1>3. ASSUME NEW m \in Msgs, MoveDue(m) PROVE ApartInv'
  <2>1. /\ m \in mDelayMsgQueue /\ mMsgQueue' = Append(mMsgQueue, m)
        /\ mDelayMsgQueue' = mDelayMsgQueue \ {m}
        /\ Kept' = Kept /\ HandedOver' = HandedOver
        /\ purged' = purged /\ gpc' = gpc /\ mPeekKeep' = mPeekKeep
    BY <1>3 DEF MoveDue, Top, Kept, HandedOver
  <2>2. Ready' = Ready \cup {m}
    BY <1>t, <2>1, MsgsOfAppend DEF Ready
  <2>3. \A i, j \in 1..Len(mMsgQueue') : mMsgQueue'[i] = mMsgQueue'[j] => i = j
    <3>1. \A i \in 1..Len(mMsgQueue) : mMsgQueue[i] # m
      BY <2>1 DEF ApartInv, Ready, MsgsOf
    <3> QED BY <1>t, <2>1, <3>1 DEF ApartInv
  <2> QED BY <2>1, <2>2, <2>3 DEF ApartInv
<1>4. CASE TakeKept
  <2>1. HandedOver' = HandedOver \cup {mMsgPeek}
    BY <1>4, <1>t, MsgsOfAppend DEF TakeKept, HandedOver
  <2>2. Kept = {mMsgPeek} /\ Kept' = {}
    BY <1>4 DEF TakeKept, Kept
  <2> QED BY <1>4, <2>1, <2>2 DEF TakeKept, ApartInv, Ready
<1>5. CASE Dispose \/ PopPosted
  <2> DEFINE h == Head(mMsgQueue)
  <2>1. mMsgQueue # <<>> /\ mMsgQueue' = Tail(mMsgQueue) /\ gpc = "pop"
        /\ mDelayMsgQueue' = mDelayMsgQueue /\ mPeekKeep' = mPeekKeep /\ mMsgPeek' = mMsgPeek
    BY <1>5 DEF Dispose, PopPosted
  <2>2. Ready = {h} \cup Ready' /\ h \in Msgs
    BY <1>t, <2>1, MsgsOfTail DEF Ready
  <2>3. /\ h \notin Ready'
        /\ \A i, j \in 1..Len(mMsgQueue') : mMsgQueue'[i] = mMsgQueue'[j] => i = j
    BY <1>t, <2>1, HeadNotInTail DEF ApartInv, Ready
  <2>4. Kept = {}
    BY <2>1 DEF Kept, PeekInv
  <2>5. \/ HandedOver' = HandedOver \cup {h} /\ purged' = purged /\ Kept' = {}
        \/ HandedOver' = HandedOver /\ purged' = purged \cup {h} /\ Kept' = {}
        \/ HandedOver' = HandedOver /\ purged' = purged /\ Kept' = {h}
    <3>1. ASSUME Dispose
          PROVE  HandedOver' = HandedOver /\ purged' = purged \cup {h} /\ Kept' = {}
      BY <3>1, <2>1, <2>4 DEF Dispose, Kept, HandedOver, PeekInv
    <3>2. ASSUME PopPosted, call.op = "get"
          PROVE  HandedOver' = HandedOver \cup {h} /\ purged' = purged /\ Kept' = {}
      <4>1. handed' = Append(handed, h) /\ gpc' = "dispatch" /\ purged' = purged /\ ~mPeekKeep'
        BY <3>2, <2>1 DEF PopPosted, PeekInv
      <4> HIDE DEF h
      <4> QED BY <1>t, <2>2, <4>1, MsgsOfAppend DEF Kept, HandedOver
    <3>3. ASSUME PopPosted, call.op # "get"
          PROVE  HandedOver' = HandedOver /\ purged' = purged /\ Kept' = {h}
      BY <3>3, <2>1 DEF PopPosted, Kept, HandedOver, PeekInv
    <3> QED BY <1>5, <3>1, <3>2, <3>3
  <2>6. gpc' # "take"
    BY <1>5 DEF Dispose, PopPosted
  <2> HIDE DEF h
  <2> QED BY <2>1, <2>2, <2>3, <2>4, <2>5, <2>6 DEF ApartInv
<1>6. CASE KeepPeek
  <2>1. Kept' = Kept
    BY <1>6 DEF KeepPeek, Kept, PeekInv
  <2> QED BY <1>6, <2>1 DEF KeepPeek, ApartInv, Ready, HandedOver
<1>7. CASE ClearEnter
  <2>1. gpc # "take"
    BY <1>7 DEF ClearEnter, PeekInv, PeekIsPrivate
  <2>2. \/ Kept' = Kept /\ purged' = purged
        \/ Kept = {mMsgPeek} /\ Kept' = {} /\ purged' = purged \cup {mMsgPeek}
    BY <1>7, <2>1 DEF ClearEnter, Kept, PeekInv, IInv, TypeOK, QueueTypeOK
  <2> QED BY <1>7, <2>1, <2>2 DEF ClearEnter, ApartInv, Ready, HandedOver
<1>8. CASE ClearRotate
  <2> DEFINE h == Head(mMsgQueue)
  <2>0. mMsgQueue # <<>>
    BY <1>8 DEF ClearRotate, IInv, LockInv, TypeOK, ClearTypeOK
  <2>1. Ready = {h} \cup MsgsOf(Tail(mMsgQueue)) /\ h \in Msgs /\ Tail(mMsgQueue) \in Seq(Msgs)
    BY <1>t, <2>0, MsgsOfTail DEF Ready
  <2>2. /\ h \notin MsgsOf(Tail(mMsgQueue))
        /\ \A i, j \in 1..Len(Tail(mMsgQueue)) : Tail(mMsgQueue)[i] = Tail(mMsgQueue)[j] => i = j
    BY <1>t, <2>0, HeadNotInTail DEF ApartInv
  <2>3. Kept' = Kept /\ HandedOver' = HandedOver
        /\ UNCHANGED <<mDelayMsgQueue, gpc, mPeekKeep>>
    BY <1>8 DEF ClearRotate, Kept, HandedOver
  <2>4. CASE h \in selected
    <3>1. mMsgQueue' = Tail(mMsgQueue) /\ purged' = purged \cup {h}
      BY <1>8, <2>4 DEF ClearRotate
    <3> HIDE DEF h
    <3> QED BY <2>1, <2>2, <2>3, <3>1 DEF ApartInv, Ready
  <2>5. CASE h \notin selected
    <3>1. mMsgQueue' = Append(Tail(mMsgQueue), h) /\ purged' = purged
      BY <1>8, <2>5 DEF ClearRotate
    <3> HIDE DEF h
    <3>2. Ready' = Ready
      BY <2>1, <3>1, MsgsOfAppend DEF Ready
    <3>3. \A i, j \in 1..Len(mMsgQueue') : mMsgQueue'[i] = mMsgQueue'[j] => i = j
      <4>1. \A i \in 1..Len(Tail(mMsgQueue)) : Tail(mMsgQueue)[i] # h
        BY <2>2 DEF MsgsOf
      <4> DEFINE t == Tail(mMsgQueue)
      <4> HIDE DEF t
      <4> QED BY <2>1, <2>2, <3>1, <4>1 DEF t
    <3> QED BY <2>3, <3>1, <3>2, <3>3 DEF ApartInv
  <2> QED BY <2>4, <2>5
<1>9. CASE ClearDelayed
  BY <1>9 DEF ClearDelayed, KeptDelayed, ApartInv, Ready, Kept, HandedOver
<1>10. CASE \/ \E m \in Msgs : PostRefused(m)
            \/ \E p \in Posters, m \in Msgs : \E d \in DelaysOf[m] : PostBegin(p, m, d)
  BY <1>10 DEF PostRefused, PostBegin, ApartInv, Ready, Kept, HandedOver
<1> QED BY <1>1, <1>2, <1>3, <1>4, <1>5, <1>6, <1>7, <1>8, <1>9, <1>10, NextCases
----------------------------------------------------------------------------
(* Order.                                                                  *)

\* No step turns the order of post round.
LEMMA OrderStep ==
  ASSUME IInv, PeekInv, EntryInv, OrderInv, [Next]_vars
  PROVE  OrderInv'
<1> USE DEF queueVars, flags, peeked, delayed, postVars, getVars, clearVars
<1>t. /\ mMsgQueue \in Seq(Msgs) /\ handed \in Seq(Msgs) /\ posted \in Seq(Msgs)
      /\ mPeekKeep \/ gpc = "take" => mMsgPeek \in Msgs
      /\ gpc = "keep" => msg \in Msgs
      /\ left \in Nat
  BY DEF IInv, TypeOK, QueueTypeOK, GetTypeOK, PostTypeOK, ClearTypeOK
<1>d. /\ DOMAIN mMsgQueue = 1..Len(mMsgQueue) /\ DOMAIN posted = 1..Len(posted)
      /\ DOMAIN handed = 1..Len(handed)
  BY <1>t
<1>1. CASE QuietGet \/ QuietOther
  BY <1>1, QuietSteps DEF Quiet, OrderInv, Ready, HandedOver, InFront
<1>2. ASSUME NEW p \in Posters, PostPush(p) PROVE OrderInv'
  <2> DEFINE m == post[p].msg
  <2>1. m \in Msgs /\ m \notin Seen
    BY <1>2 DEF PostPush, EntryInv, IInv, TypeOK, PostTypeOK
  <2>2. UNCHANGED <<mPeekKeep, mMsgPeek, gpc, msg, handed, left>> /\ cpc # "rotate"
    BY <1>2, ActorsAssumption DEF PostPush, IInv, LockInv
  <2>3. Kept' = Kept /\ HandedOver' = HandedOver /\ left = 0
    BY <2>2 DEF Kept, HandedOver, PeekInv
  <2>4. CASE post[p].delay = Forever
    <3>1. /\ mMsgQueue' = Append(mMsgQueue, m) /\ mDelayMsgQueue' = mDelayMsgQueue
          /\ posted' = Append(posted, m)
      BY <1>2, <2>4 DEF PostPush
    <3> HIDE DEF m
    <3>2. /\ Ready' = Ready \cup {m}
          /\ MsgsOf(posted') = MsgsOf(posted) \cup {m}
      BY <1>t, <2>1, <3>1, MsgsOfAppend DEF Ready
    <3>3. /\ DOMAIN posted' = 1..(Len(posted) + 1)
          /\ DOMAIN mMsgQueue' = 1..(Len(mMsgQueue) + 1)
      BY <1>t, <2>1, <3>1
    <3>4. ASSUME NEW i \in DOMAIN posted', NEW j \in DOMAIN posted'
          PROVE  /\ \A a, b \in DOMAIN mMsgQueue' :
                       posted'[i] = mMsgQueue'[a] /\ posted'[j] = mMsgQueue'[b] /\ InFront(a, b)'
                          => i < j
                 /\ posted'[i] \in Kept' /\ posted'[j] \in Ready' => i < j
                 /\ posted'[i] \in HandedOver' /\ posted'[j] \in Ready' \cup Kept' => i < j
                 /\ \A k, l \in DOMAIN handed' :
                       posted'[i] = handed'[k] /\ posted'[j] = handed'[l] /\ k < l => i < j
      <4>1. /\ \A x \in 1..Len(posted) : posted'[x] = posted[x] /\ posted[x] # m
            /\ posted'[Len(posted) + 1] = m
        BY <1>t, <2>1, <3>1 DEF Seen, MsgsOf
      <4>2. /\ \A x \in 1..Len(mMsgQueue) : mMsgQueue'[x] = mMsgQueue[x] /\ mMsgQueue[x] # m
            /\ mMsgQueue'[Len(mMsgQueue) + 1] = m
        BY <1>t, <2>1, <3>1 DEF Seen, Ready, MsgsOf
      <4>3. \A x \in DOMAIN handed : handed[x] # m
        BY <1>d, <2>1 DEF Seen, HandedOver, MsgsOf
      <4>4. m \notin Ready \cup Kept \cup HandedOver
        BY <2>1 DEF Seen
      <4>5. CASE i = Len(posted) + 1
        <5>1. posted'[i] = m
          BY <4>5, <4>1
        <5>2. \A a, b \in DOMAIN mMsgQueue' :
                 ~(posted'[i] = mMsgQueue'[a] /\ InFront(a, b)')
          BY <1>t, <2>2, <2>3, <3>3, <4>2, <5>1 DEF InFront
        <5> QED BY <2>2, <2>3, <4>3, <4>4, <5>1, <5>2
      <4>6. CASE i # Len(posted) + 1 /\ j = Len(posted) + 1
        BY <1>t, <3>3, <4>6
      <4>7. CASE i # Len(posted) + 1 /\ j # Len(posted) + 1
        <5>1. i \in DOMAIN posted /\ j \in DOMAIN posted
          BY <1>t, <1>d, <3>3, <4>7
        <5>2. posted'[i] = posted[i] /\ posted'[j] = posted[j] /\ posted[i] # m /\ posted[j] # m
          BY <1>d, <4>1, <5>1
        <5>3. \A a, b \in DOMAIN mMsgQueue' :
                 posted'[i] = mMsgQueue'[a] /\ posted'[j] = mMsgQueue'[b] /\ InFront(a, b)'
                    => i < j
          <6>1. \A a \in DOMAIN mMsgQueue' :
                   mMsgQueue'[a] # m => a \in DOMAIN mMsgQueue /\ mMsgQueue'[a] = mMsgQueue[a]
            BY <1>t, <1>d, <3>3, <4>2
          <6>2. ASSUME NEW a \in DOMAIN mMsgQueue', NEW b \in DOMAIN mMsgQueue',
                       posted'[i] = mMsgQueue'[a], posted'[j] = mMsgQueue'[b], InFront(a, b)'
                PROVE  i < j
            <7>1. /\ a \in DOMAIN mMsgQueue /\ posted[i] = mMsgQueue[a]
                  /\ b \in DOMAIN mMsgQueue /\ posted[j] = mMsgQueue[b]
              BY <5>2, <6>1, <6>2
            <7>2. InFront(a, b)
              BY <2>2, <6>2 DEF InFront
            <7> QED BY <5>1, <7>1, <7>2 DEF OrderInv
          <6> QED BY <6>2
        <5> QED BY <2>2, <2>3, <3>2, <5>1, <5>2, <5>3 DEF OrderInv
      <4> QED BY <4>5, <4>6, <4>7
    <3>5. mDelayMsgQueue' \cap MsgsOf(posted') = {}
      BY <2>1, <3>1, <3>2 DEF OrderInv, Seen
    <3> QED BY <3>4, <3>5 DEF OrderInv
  <2>5. CASE post[p].delay # Forever
    <3>1. /\ mMsgQueue' = mMsgQueue /\ mDelayMsgQueue' = mDelayMsgQueue \cup {m}
          /\ posted' = posted
      BY <1>2, <2>5 DEF PostPush
    <3> HIDE DEF m
    <3>2. mDelayMsgQueue' \cap MsgsOf(posted') = {}
      BY <2>1, <3>1 DEF OrderInv, Seen
    <3> QED BY <2>2, <2>3, <3>1, <3>2 DEF OrderInv, Ready, InFront
  <2> QED BY <2>4, <2>5
<1>3. ASSUME NEW m \in Msgs, MoveDue(m) PROVE OrderInv'
  <2>1. /\ m \in mDelayMsgQueue /\ mMsgQueue' = Append(mMsgQueue, m)
        /\ mDelayMsgQueue' = mDelayMsgQueue \ {m} /\ posted' = posted /\ handed' = handed
        /\ Kept' = Kept /\ HandedOver' = HandedOver /\ left' = left
    BY <1>3 DEF MoveDue, Top, Kept, HandedOver
  <2>2. \A i \in DOMAIN posted : posted[i] # m
    BY <1>d, <2>1 DEF OrderInv, MsgsOf
  <2>3. Ready' = Ready \cup {m}
    BY <1>t, <2>1, MsgsOfAppend DEF Ready
  <2>4. \A a \in DOMAIN mMsgQueue' :
           mMsgQueue'[a] = m \/ (a \in DOMAIN mMsgQueue /\ mMsgQueue'[a] = mMsgQueue[a])
    BY <1>t, <1>d, <2>1
  <2>5. \A i, j \in DOMAIN posted : \A a, b \in DOMAIN mMsgQueue' :
           posted[i] = mMsgQueue'[a] /\ posted[j] = mMsgQueue'[b] /\ InFront(a, b)' => i < j
    BY <2>1, <2>2, <2>4 DEF OrderInv, InFront
  <2> QED BY <2>1, <2>2, <2>3, <2>5 DEF OrderInv
<1>4. CASE TakeKept
  <2>1. HandedOver' = HandedOver \cup {mMsgPeek} /\ handed' = Append(handed, mMsgPeek)
    BY <1>4, <1>t, MsgsOfAppend DEF TakeKept, HandedOver
  <2>2. Kept = {mMsgPeek} /\ Kept' = {}
    BY <1>4 DEF TakeKept, Kept
  <2>3. UNCHANGED <<mMsgQueue, mDelayMsgQueue, posted, left>>
    BY <1>4 DEF TakeKept
  <2>4. \A i, j \in DOMAIN posted : \A k, l \in DOMAIN handed' :
           posted[i] = handed'[k] /\ posted[j] = handed'[l] /\ k < l => i < j
    <3>1. \A k \in DOMAIN handed' : k \notin DOMAIN handed => k = Len(handed) + 1 /\ handed'[k] = mMsgPeek
      BY <1>t, <1>d, <2>1, <2>2, <1>4 DEF TakeKept
    <3>2. \A k \in DOMAIN handed : handed'[k] = handed[k] /\ handed[k] \in HandedOver /\ k < Len(handed) + 1
      BY <1>t, <1>d, <2>1, <1>4 DEF TakeKept, HandedOver, MsgsOf
    <3>3. \A k \in DOMAIN handed' : k <= Len(handed) + 1 /\ k \in Nat
      BY <1>t, <1>d, <2>1, <1>4 DEF TakeKept
    <3>4. Len(handed) \in Nat
      BY <1>t
    <3> QED BY <2>2, <3>1, <3>2, <3>3, <3>4 DEF OrderInv
  <2> QED BY <2>1, <2>2, <2>3, <2>4 DEF OrderInv, Ready, InFront
<1>5. CASE Dispose \/ PopPosted
  <2> DEFINE h == Head(mMsgQueue)
  <2>1. mMsgQueue # <<>> /\ mMsgQueue' = Tail(mMsgQueue) /\ gpc = "pop"
        /\ UNCHANGED <<mDelayMsgQueue, mPeekKeep, mMsgPeek, posted, left>>
    BY <1>5 DEF Dispose, PopPosted
  <2>2. Ready = {h} \cup Ready' /\ h \in Msgs /\ h = mMsgQueue[1]
    BY <1>t, <2>1, MsgsOfTail DEF Ready
  <2>3. Kept = {} /\ left = 0
    BY <2>1, ActorsAssumption DEF Kept, PeekInv, IInv, LockInv
  <2>4. /\ \A a \in DOMAIN mMsgQueue' :
              a \in Nat \ {0} /\ a + 1 \in DOMAIN mMsgQueue /\ mMsgQueue'[a] = mMsgQueue[a + 1]
        /\ 1 \in DOMAIN mMsgQueue
    BY <1>t, <1>d, <2>1
  <2>5. ASSUME NEW i \in DOMAIN posted, NEW j \in DOMAIN posted
        PROVE  /\ \A a, b \in DOMAIN mMsgQueue' :
                     posted[i] = mMsgQueue'[a] /\ posted[j] = mMsgQueue'[b] /\ InFront(a, b)'
                        => i < j
               /\ posted[i] = h /\ posted[j] \in Ready' => i < j
    <3>1. \A a, b \in DOMAIN mMsgQueue' :
             posted[i] = mMsgQueue'[a] /\ posted[j] = mMsgQueue'[b] /\ InFront(a, b)' => i < j
      BY <2>1, <2>3, <2>4 DEF OrderInv, InFront
    <3>2. ASSUME posted[i] = h, posted[j] \in Ready' PROVE i < j
      <4>1. PICK b \in DOMAIN mMsgQueue' : posted[j] = mMsgQueue'[b]
        <5>1. DOMAIN mMsgQueue' = 1..Len(mMsgQueue')
          BY <1>t, <2>1
        <5> QED BY <3>2, <5>1 DEF Ready, MsgsOf
      <4>2. InFront(1, b + 1)
        BY <2>3, <2>4, <4>1 DEF InFront
      <4> QED BY <3>2, <4>1, <4>2, <2>2, <2>4 DEF OrderInv
    <3> QED BY <3>1, <3>2
  <2>6. \/ handed' = Append(handed, h) /\ Kept' = {}
        \/ handed' = handed /\ Kept' = {}
        \/ handed' = handed /\ Kept' = {h}
    BY <1>5, <2>1 DEF Dispose, PopPosted, Kept, PeekInv
  <2> HIDE DEF h
  <2>7. CASE handed' = handed
    <3>1. HandedOver' = HandedOver
      BY <2>7 DEF HandedOver
    <3> QED BY <2>1, <2>2, <2>3, <2>5, <2>6, <2>7, <3>1 DEF OrderInv
  <2>8. CASE handed' = Append(handed, h) /\ Kept' = {}
    <3>1. HandedOver' = HandedOver \cup {h}
      BY <1>t, <2>2, <2>8, MsgsOfAppend DEF HandedOver
    <3>2. \A i, j \in DOMAIN posted : \A k, l \in DOMAIN handed' :
             posted[i] = handed'[k] /\ posted[j] = handed'[l] /\ k < l => i < j
      <4>1. \A k \in DOMAIN handed' : k \notin DOMAIN handed => k = Len(handed) + 1 /\ handed'[k] = h
        BY <1>t, <1>d, <2>2, <2>8
      <4>2. \A k \in DOMAIN handed : handed'[k] = handed[k] /\ handed[k] \in HandedOver /\ k < Len(handed) + 1
        BY <1>t, <1>d, <2>2, <2>8 DEF HandedOver, MsgsOf
      <4>3. \A k \in DOMAIN handed' : k <= Len(handed) + 1 /\ k \in Nat
        BY <1>t, <1>d, <2>2, <2>8
      <4>4. Len(handed) \in Nat
        BY <1>t
      <4> QED BY <2>2, <4>1, <4>2, <4>3, <4>4 DEF OrderInv
    <3> QED BY <2>1, <2>2, <2>5, <2>8, <3>1, <3>2 DEF OrderInv
  <2> QED BY <2>6, <2>7, <2>8
<1>6. CASE KeepPeek
  <2>1. Kept' = Kept
    BY <1>6 DEF KeepPeek, Kept, PeekInv
  <2> QED BY <1>6, <2>1 DEF KeepPeek, OrderInv, Ready, HandedOver, InFront
<1>7. CASE ClearEnter
  <2>1. left = 0 /\ left' = Len(mMsgQueue)
    BY <1>7 DEF ClearEnter, Rotations, PeekInv
  <2>2. Kept' \subseteq Kept /\ UNCHANGED <<mMsgQueue, mDelayMsgQueue, posted, handed>>
    BY <1>7 DEF ClearEnter, Kept
  <2>3. \A a, b \in DOMAIN mMsgQueue : InFront(a, b)' => InFront(a, b)
    BY <1>t, <1>d, <2>1 DEF InFront
  <2> QED BY <2>2, <2>3 DEF OrderInv, Ready, HandedOver
<1>8. CASE ClearRotate
  <2> DEFINE h == Head(mMsgQueue)
  <2>0. mMsgQueue # <<>> /\ left' = left - 1 /\ left \in 1..Len(mMsgQueue)
    BY <1>8, <1>t DEF ClearRotate, IInv, LockInv
  <2>1. Ready = {h} \cup MsgsOf(Tail(mMsgQueue)) /\ h \in Msgs /\ Tail(mMsgQueue) \in Seq(Msgs)
    BY <1>t, <2>0, MsgsOfTail DEF Ready
  <2>2. Kept' = Kept /\ UNCHANGED <<mDelayMsgQueue, posted, handed>>
    BY <1>8 DEF ClearRotate, Kept
  <2>3. Ready' \subseteq Ready
    <3>1. mMsgQueue' = Tail(mMsgQueue) \/ mMsgQueue' = Append(Tail(mMsgQueue), h)
      BY <1>8 DEF ClearRotate
    <3> HIDE DEF h
    <3> QED BY <2>1, <3>1, MsgsOfAppend DEF Ready
  <2>4. ASSUME NEW a \in DOMAIN mMsgQueue', NEW b \in DOMAIN mMsgQueue', InFront(a, b)'
        PROVE  \E x, y \in DOMAIN mMsgQueue :
                  mMsgQueue'[a] = mMsgQueue[x] /\ mMsgQueue'[b] = mMsgQueue[y] /\ InFront(x, y)
    <3> DEFINE old(c) == IF c = Len(mMsgQueue) THEN 1 ELSE c + 1
    <3>1. ASSUME NEW c \in DOMAIN mMsgQueue'
          PROVE  /\ c \in 1..Len(mMsgQueue)
                 /\ old(c) \in DOMAIN mMsgQueue /\ mMsgQueue'[c] = mMsgQueue[old(c)]
      <4>1. CASE mMsgQueue' = Tail(mMsgQueue)
        BY <1>t, <1>d, <2>0, <4>1
      <4>2. CASE mMsgQueue' = Append(Tail(mMsgQueue), h)
        BY <1>t, <1>d, <2>0, <2>1, <4>2
      <4> QED BY <4>1, <4>2, <1>8 DEF ClearRotate
    <3>2. InFront(old(a), old(b))
      BY <1>t, <2>0, <2>4, <3>1 DEF InFront
    <3> QED BY <3>1, <3>2
  <2> QED BY <2>2, <2>3, <2>4 DEF OrderInv, HandedOver
<1>9. CASE ClearDelayed
  BY <1>9 DEF ClearDelayed, KeptDelayed, OrderInv, Ready, Kept, HandedOver, InFront
<1>10. CASE \/ \E m \in Msgs : PostRefused(m)
            \/ \E p \in Posters, m \in Msgs : \E d \in DelaysOf[m] : PostBegin(p, m, d)
  BY <1>10 DEF PostRefused, PostBegin, OrderInv, Ready, Kept, HandedOver, InFront
<1> QED BY <1>1, <1>2, <1>3, <1>4, <1>5, <1>6, <1>7, <1>8, <1>9, <1>10, NextCases
----------------------------------------------------------------------------
(* Delays.                                                                 *)

\* Before the counter comes round, it is the elapsed time.
LEMMA ClockExact ==
  ASSUME NoWrap, NEW t \in Nat, t <= MaxClock
  PROVE  Clock(t) = t
  BY ClockAssumption DEF NoWrap, Clock

\* With no wrap of the clock, a message becomes ready when it is due.
LEMMA DueStep ==
  ASSUME NoWrap, IInv, PeekInv, EntryInv, DueInv, [Next]_vars
  PROVE  DueInv'
<1> USE DEF queueVars, flags, peeked, delayed, postVars, getVars, clearVars
<1>t. /\ mMsgQueue \in Seq(Msgs) /\ handed \in Seq(Msgs)
      /\ mPeekKeep \/ gpc = "take" => mMsgPeek \in Msgs
      /\ gpc = "keep" => msg \in Msgs
      /\ now \in Nat /\ due \in [Msgs -> Nat] /\ mMsTrigger \in [Msgs -> Nat]
      /\ mDelayMsgQueue \subseteq Msgs /\ fresh \subseteq Msgs
      /\ post \in [Posters -> Posting] /\ ppc \in [Posters -> {"idle", "push", "wake"}]
      /\ call.msCurrent \in Nat
      /\ \A p \in Posters : ppc[p] = "push" => post[p].msg \in Msgs
      /\ MaxClock \in Nat /\ Forever \notin Nat
  BY ClockAssumption DEF IInv, TypeOK, QueueTypeOK, GetTypeOK, PostTypeOK
<1>1. CASE QuietGet
  <2>1. Quiet /\ Ready' = Ready /\ Kept' = Kept /\ HandedOver' = HandedOver
    BY <1>1, QuietSteps DEF Quiet, Ready, HandedOver
  <2>2. now' = now
    BY <1>1 DEF QuietGet, GetKept, GetCall, GetLock, NoneDue, QueueEmpty, GetFalse, NotStopped,
       EventWait, WaitTimeout, SpuriousWake, WaitReturns, ResetEvent, ReadClock,
       Dispatch, HandlerReturns
  <2>3. Clock(now) = now
    BY <1>t, ClockExact DEF DueInv
  <2>4. call'.msCurrent <= now
    <3>1. ASSUME QueueEmpty PROVE call'.msCurrent = call.msCurrent
      BY <3>1 DEF QueueEmpty, IInv, TypeOK, GetTypeOK
    <3>2. ASSUME ReadClock PROVE call'.msCurrent \in {0, now}
      BY <2>3, <3>2 DEF ReadClock, NoCall, IInv, TypeOK, GetTypeOK
    <3>3. ASSUME NEW op \in {"get", "peek"}, NEW w \in Waits \cup {Forever}, GetCall(op, w)
          PROVE  call'.msCurrent = now
      BY <2>3, <3>3 DEF GetCall
    <3>4. ASSUME GetFalse PROVE call'.msCurrent = 0
      BY <3>4 DEF GetFalse, NoCall
    <3>5. ASSUME \/ GetKept \/ GetLock \/ NoneDue \/ NotStopped \/ EventWait
                 \/ WaitTimeout \/ SpuriousWake \/ ResetEvent \/ Dispatch \/ HandlerReturns
          PROVE  call' = call
      BY <3>5 DEF GetKept, GetLock, NoneDue, NotStopped, EventWait, WaitTimeout, SpuriousWake,
         WaitReturns, ResetEvent, Dispatch, HandlerReturns
    <3>6. 0 <= now /\ now <= now
      BY <1>t
    <3> QED BY <1>1, <3>1, <3>2, <3>3, <3>4, <3>5, <3>6 DEF QuietGet, DueInv
  <2> QED BY <2>1, <2>2, <2>4 DEF Quiet, DueInv
<1>2. CASE QuietOther
  <2>1. Quiet /\ Ready' = Ready /\ Kept' = Kept /\ HandedOver' = HandedOver
    BY <1>2, QuietSteps DEF Quiet, Ready, HandedOver
  <2>2. call' = call /\ (Tick \/ now' = now)
    BY <1>2 DEF QuietOther, Tick, StopSet, StopWake, StopThread, Stopped, Start, PostWake,
       ClearCall,       DestroyHandler, vars
  <2>3. CASE Tick
    <3>1. /\ now < MaxClock /\ now' = now + 1 /\ ppc' = ppc
          /\ \A d \in InFlightDelays : now + d < MaxClock
      BY <2>3 DEF Tick
    <3>2. ASSUME NEW p \in Posters, ppc[p] = "push", post[p].delay # Forever
          PROVE  now' + post[p].delay <= MaxClock
      <4>1. post[p].delay \in InFlightDelays /\ post[p].delay \in Nat
        BY <1>t, <3>2 DEF InFlightDelays, Posting
      <4> QED BY <1>t, <3>1, <4>1
    <3>3. \A m \in Ready \cup Kept \cup HandedOver : due[m] <= now'
      <4>1. Ready \cup Kept \cup HandedOver \subseteq Msgs
        BY <1>t, MsgsOfType DEF Ready, Kept, HandedOver
      <4> QED BY <1>t, <3>1, <4>1 DEF DueInv
    <3>4. now' <= MaxClock /\ call'.msCurrent <= now'
      BY <1>t, <2>2, <3>1 DEF DueInv
    <3> QED BY <2>1, <3>1, <3>2, <3>3, <3>4 DEF Quiet, DueInv
  <2>4. CASE now' = now
    BY <2>1, <2>2, <2>4 DEF Quiet, DueInv
  <2> QED BY <2>2, <2>3, <2>4
<1>3. ASSUME NEW m \in Msgs, PostRefused(m) PROVE DueInv'
  BY <1>3 DEF PostRefused, DueInv, Ready, Kept, HandedOver
<1>4. ASSUME NEW p \in Posters, NEW m \in Msgs, NEW d \in DelaysOf[m], PostBegin(p, m, d)
      PROVE  DueInv'
  <2>1. /\ Ready' = Ready /\ Kept' = Kept /\ HandedOver' = HandedOver
        /\ UNCHANGED <<now, due, mDelayMsgQueue, mMsTrigger, call>>
        /\ m \in fresh /\ fresh' \subseteq fresh
        /\ d # Forever => now + d <= MaxClock
    BY <1>4 DEF PostBegin, Ready, Kept, HandedOver
  <2>2. /\ \A q \in Posters : q # p => ppc'[q] = ppc[q] /\ post'[q] = post[q]
        /\ post'[p] = [msg |-> m, delay |-> d]
    BY <1>4, <1>t DEF PostBegin
  <2> QED BY <2>1, <2>2 DEF DueInv
<1>5. ASSUME NEW p \in Posters, PostPush(p) PROVE DueInv'
  <2> DEFINE m == post[p].msg
             d == post[p].delay
  <2>1. m \in Msgs /\ m \notin Seen /\ m \notin fresh /\ due[m] = 0
        /\ \A q \in Posters : ppc[q] = "push" /\ q # p => post[q].msg # m
    BY <1>5, <1>t DEF PostPush, EntryInv, DueInv
  <2>2. UNCHANGED <<mPeekKeep, mMsgPeek, gpc, msg, handed, call, now, fresh>>
    BY <1>5 DEF PostPush
  <2>3. Kept' = Kept /\ HandedOver' = HandedOver
    BY <2>2 DEF Kept, HandedOver
  <2>4. \A q \in Posters : ppc'[q] = "push" => q # p /\ ppc[q] = "push" /\ post'[q] = post[q]
    BY <1>5, <1>t DEF PostPush
  <2>5. CASE d = Forever
    <3>1. mMsgQueue' = Append(mMsgQueue, m) /\ UNCHANGED <<mDelayMsgQueue, mMsTrigger, due>>
      BY <1>5, <2>5 DEF PostPush
    <3> HIDE DEF m, d
    <3>2. Ready' = Ready \cup {m}
      BY <1>t, <2>1, <3>1, MsgsOfAppend DEF Ready
    <3> QED BY <1>t, <2>1, <2>2, <2>3, <2>4, <3>1, <3>2 DEF DueInv
  <2>6. CASE d # Forever
    <3>1. /\ mMsgQueue' = mMsgQueue /\ mDelayMsgQueue' = mDelayMsgQueue \cup {m}
          /\ mMsTrigger' = [mMsTrigger EXCEPT ![m] = Clock(now + d)]
          /\ due' = [due EXCEPT ![m] = now + d]
      BY <1>5, <2>6 DEF PostPush
    <3>2. d \in Nat /\ now + d <= MaxClock
      BY <1>5, <1>t, <2>6 DEF PostPush, DueInv, Posting
    <3> HIDE DEF m, d
    <3>3. Clock(now + d) = now + d
      BY <1>t, <3>2, ClockExact
    <3>4. /\ \A n \in Msgs : n # m => due'[n] = due[n] /\ mMsTrigger'[n] = mMsTrigger[n]
          /\ due'[m] = now + d /\ mMsTrigger'[m] = now + d
      BY <1>t, <2>1, <3>1, <3>3
    <3>5. Ready \cup Kept \cup HandedOver \subseteq Msgs \ {m} /\ Ready' = Ready
      BY <1>t, <2>1, <3>1, MsgsOfType DEF Ready, Kept, HandedOver, Seen
    <3>6. \A q \in Posters : ppc'[q] = "push" =>
             /\ due'[post'[q].msg] = 0
             /\ post'[q].delay # Forever => now' + post'[q].delay <= MaxClock
      BY <1>t, <2>1, <2>2, <2>4, <3>4 DEF DueInv
    <3>7. \A n \in mDelayMsgQueue' : mMsTrigger'[n] = due'[n]
      BY <1>t, <3>1, <3>4 DEF DueInv
    <3>8. \A n \in fresh : n \in Msgs /\ n # m
      BY <1>t, <2>1
    <3> QED BY <2>2, <2>3, <3>4, <3>5, <3>6, <3>7, <3>8 DEF DueInv
  <2> QED BY <2>5, <2>6
<1>6. ASSUME NEW m \in Msgs, MoveDue(m) PROVE DueInv'
  <2>1. /\ m \in mDelayMsgQueue /\ mMsgQueue' = Append(mMsgQueue, m)
        /\ mDelayMsgQueue' = mDelayMsgQueue \ {m}
        /\ mMsTrigger' = [mMsTrigger EXCEPT ![m] = 0]
        /\ Kept' = Kept /\ HandedOver' = HandedOver
        /\ UNCHANGED <<now, due, ppc, post, fresh, call>>
    BY <1>6 DEF MoveDue, Top, Kept, HandedOver
  <2>2. Ready' = Ready \cup {m}
    BY <1>t, <2>1, MsgsOfAppend DEF Ready
  <2>3. due[m] <= now
    BY <1>6, <1>t, <2>1 DEF MoveDue, Triggered, DueInv
  <2>4. \A n \in mDelayMsgQueue' : mMsTrigger'[n] = mMsTrigger[n]
    BY <1>t, <2>1
  <2> QED BY <2>1, <2>2, <2>3, <2>4 DEF DueInv
<1>7. CASE TakeKept \/ Dispose \/ PopPosted \/ KeepPeek \/ ClearEnter \/ ClearRotate \/ ClearDelayed
  <2>1. UNCHANGED <<now, due, ppc, post, fresh, mMsTrigger>> /\ mDelayMsgQueue' \subseteq mDelayMsgQueue
    BY <1>7 DEF TakeKept, Dispose, PopPosted, KeepPeek, ClearEnter, ClearRotate, ClearDelayed,
       KeptDelayed
  <2>2. call'.msCurrent <= now
    BY <1>7, <1>t DEF TakeKept, Dispose, PopPosted, KeepPeek, ClearEnter, ClearRotate,
       ClearDelayed, NoCall, DueInv
  <2>3. Ready' \cup Kept' \cup HandedOver' \subseteq Ready \cup Kept \cup HandedOver
    BY <1>7, LeaveSteps
  <2> QED BY <2>1, <2>2, <2>3 DEF DueInv
<1> QED BY <1>1, <1>2, <1>3, <1>4, <1>5, <1>6, <1>7, NextCases
----------------------------------------------------------------------------
(* Destroyed handlers.                                                     *)

\* With peek private, whatever is in the queue for a destroyed handler is what the
\* clear under way has selected and not come to yet.
LEMMA DestroyedStep ==
  ASSUME PeekIsPrivate, IInv, PeekInv, ApartInv, DestroyedInv, [Next]_vars
  PROVE  DestroyedInv'
<1> USE DEF queueVars, flags, peeked, delayed, postVars, getVars, clearVars
<1>t. /\ mMsgQueue \in Seq(Msgs) /\ handed \in Seq(Msgs)
      /\ mPeekKeep \/ gpc = "take" => mMsgPeek \in Msgs
      /\ gpc = "keep" => msg \in Msgs
      /\ mDelayMsgQueue \subseteq Msgs /\ left \in Nat
      /\ post \in [Posters -> Posting] /\ ppc \in [Posters -> {"idle", "push", "wake"}]
      /\ \A p \in Posters : ppc[p] = "push" => post[p].msg \in Msgs
  BY DEF IInv, TypeOK, QueueTypeOK, GetTypeOK, PostTypeOK, ClearTypeOK
<1>1. CASE QuietGet
  <2>1. UNCHANGED <<mActive, destroyed, selected, cpc>>
    BY <1>1 DEF QuietGet, GetKept, GetCall, GetLock, NoneDue, QueueEmpty, GetFalse, NotStopped,
       EventWait, WaitTimeout, SpuriousWake, WaitReturns, ResetEvent, ReadClock,
       Dispatch, HandlerReturns
  <2> QED BY <1>1, <2>1, QuietSteps DEF Quiet, DestroyedInv, Ready
<1>2. ASSUME \/ Tick \/ StopSet \/ StopWake \/ StopThread \/ Stopped \/ Start
             \/ \E p \in Posters : PostWake(p)
             \/ UNCHANGED vars
      PROVE  DestroyedInv'
  <2>1. UNCHANGED <<mActive, destroyed, selected, cpc>>
    BY <1>2 DEF Tick, StopSet, StopWake, StopThread, Stopped, Start, PostWake, vars
  <2>2. Quiet
    BY <1>2, QuietSteps DEF QuietOther
  <2> QED BY <2>1, <2>2 DEF Quiet, DestroyedInv, Ready
<1>3. ASSUME NEW S \in ClearSets, ClearCall(S) PROVE DestroyedInv'
  <2>1. Quiet
    BY <1>3, QuietSteps DEF QuietOther
  <2>2. cpc = "idle" /\ cpc' = "lock" /\ UNCHANGED <<mActive, destroyed>>
    BY <1>3 DEF ClearCall
  <2> QED BY <2>1, <2>2 DEF Quiet, DestroyedInv, Ready
<1>4. ASSUME NEW h \in Handlers, DestroyHandler(h) PROVE DestroyedInv'
  <2>1. Quiet
    BY <1>4, QuietSteps DEF QuietOther
  <2>2. /\ cpc = "idle" /\ destroyed' = destroyed \cup {h} /\ mActive' = mActive
        /\ \A p \in Posters : ppc[p] = "push" => HandlerOf[post[p].msg] # h
        /\ mActive => selected' = {m \in Msgs : HandlerOf[m] = h} /\ cpc' = "lock"
    BY <1>4 DEF DestroyHandler
  <2>3. \A i \in 1..Len(mMsgQueue) : mMsgQueue[i] \in Msgs /\ mMsgQueue[i] \in Ready
    BY <1>t DEF Ready, MsgsOf
  <2>4. Kept \subseteq Msgs
    BY <1>t DEF Kept
  <2> QED BY <1>t, <2>1, <2>2, <2>3, <2>4 DEF Quiet, DestroyedInv, Ready
<1>5. ASSUME NEW m \in Msgs, PostRefused(m) PROVE DestroyedInv'
  BY <1>5 DEF PostRefused, DestroyedInv, Ready, Kept
<1>6. ASSUME NEW p \in Posters, NEW m \in Msgs, NEW d \in DelaysOf[m], PostBegin(p, m, d)
      PROVE  DestroyedInv'
  <2>1. /\ Ready' = Ready /\ Kept' = Kept
        /\ UNCHANGED <<mMsgQueue, mDelayMsgQueue, mActive, destroyed, selected, cpc, left>>
        /\ HandlerOf[m] \notin destroyed
    BY <1>6 DEF PostBegin, Ready, Kept
  <2>2. /\ \A q \in Posters : q # p => ppc'[q] = ppc[q] /\ post'[q] = post[q]
        /\ post'[p] = [msg |-> m, delay |-> d]
    BY <1>6, <1>t DEF PostBegin
  <2> QED BY <2>1, <2>2 DEF DestroyedInv
<1>7. ASSUME NEW p \in Posters, PostPush(p) PROVE DestroyedInv'
  <2> DEFINE m == post[p].msg
  <2>1. m \in Msgs /\ HandlerOf[m] \notin destroyed
    BY <1>7, <1>t DEF PostPush, DestroyedInv
  <2>2. /\ mActive' /\ UNCHANGED <<mPeekKeep, mMsgPeek, gpc, msg, destroyed, selected, cpc, left>>
        /\ \A q \in Posters : ppc'[q] = "push" => ppc[q] = "push" /\ post'[q] = post[q]
    BY <1>7, <1>t DEF PostPush, EnsureActive
  <2>3. Kept' = Kept
    BY <2>2 DEF Kept
  <2>4. \/ mMsgQueue' = Append(mMsgQueue, m) /\ mDelayMsgQueue' = mDelayMsgQueue
        \/ mMsgQueue' = mMsgQueue /\ mDelayMsgQueue' = mDelayMsgQueue \cup {m}
    BY <1>7 DEF PostPush
  <2> HIDE DEF m
  <2>5. \A i \in 1..Len(mMsgQueue') :
           mMsgQueue'[i] = m \/ (i \in 1..Len(mMsgQueue) /\ mMsgQueue'[i] = mMsgQueue[i])
    BY <1>t, <2>1, <2>4
  <2> QED BY <2>1, <2>2, <2>3, <2>4, <2>5 DEF DestroyedInv
<1>8. ASSUME NEW m \in Msgs, MoveDue(m) PROVE DestroyedInv'
  <2>1. /\ m \in mDelayMsgQueue /\ mMsgQueue' = Append(mMsgQueue, m)
        /\ mDelayMsgQueue' = mDelayMsgQueue \ {m} /\ Kept' = Kept
        /\ UNCHANGED <<ppc, post, mActive, destroyed, selected, cpc, left>>
        /\ cpc # "rotate"
    BY <1>8, ActorsAssumption DEF MoveDue, Top, Kept, IInv, LockInv
  <2>2. \A i \in 1..Len(mMsgQueue') :
           mMsgQueue'[i] = m \/ (i \in 1..Len(mMsgQueue) /\ mMsgQueue'[i] = mMsgQueue[i])
    BY <1>t, <2>1
  <2> QED BY <2>1, <2>2 DEF DestroyedInv
<1>9. CASE TakeKept \/ KeepPeek
  <2>1. /\ UNCHANGED <<mMsgQueue, mDelayMsgQueue, ppc, post, mActive, destroyed, selected, cpc, left>>
        /\ Kept' \subseteq Kept
    BY <1>9 DEF TakeKept, KeepPeek, Kept
  <2> QED BY <2>1 DEF DestroyedInv, Ready
<1>10. CASE Dispose \/ PopPosted
  <2>1. /\ mMsgQueue # <<>> /\ mMsgQueue' = Tail(mMsgQueue) /\ gpc = "pop"
        /\ UNCHANGED <<mDelayMsgQueue, mPeekKeep, mMsgPeek, ppc, post, mActive, destroyed,
                       selected, cpc, left>>
    BY <1>10 DEF Dispose, PopPosted
  <2>2. /\ Head(mMsgQueue) = mMsgQueue[1] /\ 1 \in 1..Len(mMsgQueue)
        /\ \A i \in 1..Len(mMsgQueue') : i + 1 \in 1..Len(mMsgQueue) /\ mMsgQueue'[i] = mMsgQueue[i + 1]
    BY <1>t, <2>1
  <2>3. cpc # "rotate" /\ Head(mMsgQueue) \in Ready
    BY <2>1, <2>2, ActorsAssumption DEF IInv, LockInv, Ready, MsgsOf
  <2>4. Kept' = {} \/ (Kept' = {Head(mMsgQueue)} /\ cpc = "idle")
    <3>1. ASSUME Dispose PROVE Kept' = {}
      BY <3>1 DEF Dispose, Kept, PeekInv
    <3>2. ASSUME PopPosted, call.op = "get" PROVE Kept' = {}
      BY <3>2 DEF PopPosted, Kept, PeekInv
    <3>3. ASSUME PopPosted, call.op = "peek"
          PROVE  Kept' = {Head(mMsgQueue)} /\ cpc = "idle"
      BY <3>3 DEF PopPosted, Kept, PeekInv, PeekIsPrivate
    <3> QED BY <1>10, <3>1, <3>2, <3>3 DEF PopPosted
  <2> QED BY <2>1, <2>2, <2>3, <2>4 DEF DestroyedInv, Ready
<1>11. CASE ClearEnter
  <2>1. gpc \notin {"take", "keep"}
    BY <1>11 DEF ClearEnter, PeekInv, PeekIsPrivate
  <2>2. /\ UNCHANGED <<mMsgQueue, mDelayMsgQueue, ppc, post, mActive, destroyed, selected>>
        /\ cpc' = "rotate" /\ left' = Len(mMsgQueue)
        /\ Kept' \subseteq Kept \ selected
    BY <1>11, <2>1 DEF ClearEnter, Rotations, Kept
  <2> QED BY <1>t, <2>2 DEF DestroyedInv, Ready
<1>12. CASE ClearRotate
  <2> DEFINE h == Head(mMsgQueue)
  <2>0. mMsgQueue # <<>> /\ cpc = "rotate" /\ left' = left - 1 /\ left \in 1..Len(mMsgQueue)
    BY <1>12, <1>t DEF ClearRotate, IInv, LockInv
  <2>1. /\ Kept' = Kept
        /\ UNCHANGED <<mDelayMsgQueue, ppc, post, mActive, destroyed, selected, cpc>>
        /\ \/ h \in selected /\ mMsgQueue' = Tail(mMsgQueue)
           \/ h \notin selected /\ mMsgQueue' = Append(Tail(mMsgQueue), h)
    BY <1>12 DEF ClearRotate, Kept
  <2>2. h \in Msgs /\ Tail(mMsgQueue) \in Seq(Msgs) /\ h = mMsgQueue[1] /\ h \in Ready
    BY <1>t, <2>0 DEF Ready, MsgsOf
  <2>3. HandlerOf[h] \in destroyed => h \in selected
    BY <2>0, <2>2 DEF DestroyedInv
  <2>4. \A i \in 1..Len(mMsgQueue') :
           \/ i + 1 \in 1..Len(mMsgQueue) /\ mMsgQueue'[i] = mMsgQueue[i + 1]
           \/ mMsgQueue'[i] = h /\ h \notin selected
    <3>1. CASE mMsgQueue' = Tail(mMsgQueue)
      BY <1>t, <2>0, <3>1
    <3>2. CASE h \notin selected /\ mMsgQueue' = Append(Tail(mMsgQueue), h)
      <4> DEFINE t == Tail(mMsgQueue)
      <4>1. Len(t) + 1 = Len(mMsgQueue) /\ \A i \in 1..Len(t) : i + 1 \in 1..Len(mMsgQueue) /\ t[i] = mMsgQueue[i + 1]
        BY <1>t, <2>0
      <4> HIDE DEF t, h
      <4> QED BY <2>2, <3>2, <4>1 DEF t
    <3> QED BY <2>1, <3>1, <3>2
  <2>5. Ready = {} => FALSE
    BY <2>2
  <2> HIDE DEF h
  <2>6. \A i \in 1..Len(mMsgQueue') : HandlerOf[mMsgQueue'[i]] \in destroyed =>
           mMsgQueue'[i] \in selected /\ i <= left'
    <3>1. ASSUME NEW i \in 1..Len(mMsgQueue'), HandlerOf[mMsgQueue'[i]] \in destroyed
          PROVE  mMsgQueue'[i] \in selected /\ i <= left'
      <4>1. i + 1 \in 1..Len(mMsgQueue) /\ mMsgQueue'[i] = mMsgQueue[i + 1]
        BY <2>3, <2>4, <3>1
      <4>2. mMsgQueue[i + 1] \in selected /\ i + 1 <= left
        BY <2>0, <3>1, <4>1 DEF DestroyedInv
      <4> QED BY <1>t, <2>0, <4>1, <4>2
    <3> QED BY <3>1
  <2>7. mActive
    BY <2>2, <2>5 DEF DestroyedInv
  <2> QED BY <2>0, <2>1, <2>6, <2>7 DEF DestroyedInv
<1>13. CASE ClearDelayed
  <2>1. /\ cpc = "rotate" /\ left = 0 /\ cpc' = "idle" /\ mDelayMsgQueue' = mDelayMsgQueue \ selected
        /\ Kept' = Kept /\ UNCHANGED <<mMsgQueue, ppc, post, mActive, destroyed, left>>
    BY <1>13 DEF ClearDelayed, KeptDelayed, Kept
  <2>2. \A i \in 1..Len(mMsgQueue) : ~(i <= left)
    BY <2>1
  <2> QED BY <2>1, <2>2 DEF DestroyedInv, Ready
<1> QED BY <1>1, <1>2, <1>3, <1>4, <1>5, <1>6, <1>7, <1>8, <1>9, <1>10, <1>11, <1>12, <1>13,
           NextCases DEF QuietOther
----------------------------------------------------------------------------
(* The theorems.                                                           *)

\* The invariants hold of a new queue.
LEMMA InitParts ==
  Init => PeekInv /\ EntryInv /\ ApartInv /\ OrderInv /\ DueInv /\ DestroyedInv
<1> SUFFICES ASSUME Init
             PROVE  PeekInv /\ EntryInv /\ ApartInv /\ OrderInv /\ DueInv /\ DestroyedInv
  OBVIOUS
<1>1. Ready = {} /\ Kept = {} /\ HandedOver = {} /\ MsgsOf(posted) = {} /\ purged = {}
      /\ mDelayMsgQueue = {} /\ Seen = {}
  BY DEF Init, Ready, Kept, HandedOver, MsgsOf, Seen
<1>2. PeekInv /\ EntryInv
  BY <1>1 DEF Init, PeekInv, EntryInv
<1>3. ApartInv /\ OrderInv /\ DestroyedInv
  BY <1>1 DEF Init, ApartInv, OrderInv, DestroyedInv
<1>4. DueInv
  BY <1>1, ClockAssumption DEF Init, DueInv, NoCall
<1> QED BY <1>2, <1>3, <1>4

\* Whatever peek and clear do, a message comes in once and in order.
LEMMA InOrder == Spec => [](IInv /\ PeekInv /\ EntryInv /\ OrderInv)
<1>1. Init => IInv /\ PeekInv /\ EntryInv /\ OrderInv
  BY InitIInv, InitParts
<1>2. IInv /\ [Next]_vars => IInv'
  BY PostStep, ControlStep, GetStep, ClearStep, StutterStep DEF Next
<1>3. IInv /\ PeekInv /\ EntryInv /\ OrderInv /\ [Next]_vars
        => PeekInv' /\ EntryInv' /\ OrderInv'
  BY PeekStep, EntryStep, OrderStep
<1> QED BY <1>1, <1>2, <1>3, PTL DEF Spec

\* Messages given to post come out in the order they went in, for every use of
\* peek and clear, every delay and every interleaving.
THEOREM KeepsOrder == Spec => []FifoOrder
<1>1. OrderInv => FifoOrder
  BY DEF OrderInv, FifoOrder
<1> QED BY InOrder, <1>1, PTL

\* Before the clock comes round, nothing is ready or handed over early.
THEOREM NothingEarly == ASSUME NoWrap PROVE Spec => []NotEarly
<1>1. Init => DueInv
  BY InitParts
<1>2. IInv /\ PeekInv /\ EntryInv /\ DueInv /\ [Next]_vars => DueInv'
  BY DueStep
<1>3. IInv /\ DueInv => NotEarly
  <2> SUFFICES ASSUME IInv, DueInv, NEW m \in Msgs,
                      m \in MsgsOf(mMsgQueue) \/ \E i \in DOMAIN handed : handed[i] = m
               PROVE  due[m] <= now
    BY DEF NotEarly
  <2>1. m \in Ready \cup HandedOver
    BY DEF Ready, HandedOver, MsgsOf, IInv, TypeOK, GetTypeOK
  <2> QED BY <2>1 DEF DueInv
<1> QED BY InOrder, <1>1, <1>2, <1>3, PTL DEF Spec

\* With peek private, a message is in one place and stays clear of destroyed handlers.
LEMMA InPlace ==
  ASSUME PeekIsPrivate
  PROVE  Spec => [](IInv /\ PeekInv /\ EntryInv /\ ApartInv /\ DestroyedInv)
<1>1. Init => ApartInv /\ DestroyedInv
  BY InitParts
<1>2. IInv /\ PeekInv /\ EntryInv /\ ApartInv /\ DestroyedInv /\ [Next]_vars
        => ApartInv' /\ DestroyedInv'
  BY ApartStep, DestroyedStep
<1> QED BY InOrder, <1>1, <1>2, PTL DEF Spec

\* What the queue is responsible for, in the terms of the invariants.
LEMMA HeldIs == ApartInv => Held = Ready \cup mDelayMsgQueue \cup Kept
  BY DEF ApartInv, Held, Ready, Kept

\* Once the destructor of a handler has returned, the queue holds nothing for it.
THEOREM NothingForDestroyed == ASSUME PeekIsPrivate PROVE Spec => []DestroyedNotHeld
<1>1. IInv /\ ApartInv /\ DestroyedInv => DestroyedNotHeld
  <2> SUFFICES ASSUME IInv, ApartInv, DestroyedInv, cpc = "idle", NEW m \in Held
               PROVE  HandlerOf[m] \notin destroyed
    BY DEF DestroyedNotHeld
  <2>1. m \in Ready \cup mDelayMsgQueue \cup Kept
    BY HeldIs
  <2> QED BY <2>1 DEF DestroyedInv, Ready, MsgsOf
<1> QED BY InPlace, <1>1, PTL
----------------------------------------------------------------------------
(* The queue implements a mailbox.                                         *)

\* Every step of the queue is a step of the mailbox, or leaves it as it is.
LEMMA MailboxStep ==
  ASSUME PeekIsPrivate, IInv, PeekInv, EntryInv, ApartInv, [Next]_vars
  PROVE  MB!Next \/ UNCHANGED <<fresh, Held, handed, purged>>
<1> USE DEF queueVars, flags, peeked, delayed, postVars, getVars, clearVars
<1>t. /\ mMsgQueue \in Seq(Msgs) /\ handed \in Seq(Msgs)
      /\ mPeekKeep \/ gpc = "take" => mMsgPeek \in Msgs
      /\ gpc = "keep" => msg \in Msgs
      /\ mDelayMsgQueue \subseteq Msgs
      /\ DOMAIN handed = 1..Len(handed)
  BY DEF IInv, TypeOK, QueueTypeOK, GetTypeOK
<1>h. /\ Held = Ready \cup mDelayMsgQueue \cup Kept
      /\ Held' = Ready' \cup mDelayMsgQueue' \cup Kept'
  <2>1. ApartInv /\ ApartInv'
    BY ApartStep
  <2> QED BY <2>1 DEF ApartInv, Held, Ready, Kept
<1>1. CASE QuietGet \/ QuietOther
  BY <1>1, <1>h, QuietSteps DEF Quiet, Ready
<1>2. ASSUME NEW m \in Msgs, PostRefused(m) PROVE MB!Leave(m)
  <2>1. Held' = Held
    BY <1>2, <1>h DEF PostRefused, Ready, Kept
  <2> QED BY <1>2, <2>1 DEF PostRefused, MB!Leave
<1>3. ASSUME NEW p \in Posters, NEW m \in Msgs, NEW d \in DelaysOf[m], PostBegin(p, m, d)
      PROVE  MB!Leave(m)
  <2>1. Held' = Held
    BY <1>3, <1>h DEF PostBegin, Ready, Kept
  <2> QED BY <1>3, <2>1 DEF PostBegin, MB!Leave
<1>4. ASSUME NEW p \in Posters, PostPush(p) PROVE \E m \in Msgs : MB!Put(m)
  <2> DEFINE m == post[p].msg
  <2>1. m \in Msgs /\ m \notin Seen /\ m \notin fresh
    BY <1>4 DEF PostPush, EntryInv, IInv, TypeOK, PostTypeOK
  <2>2. UNCHANGED <<fresh, handed, purged>> /\ Kept' = Kept
    BY <1>4 DEF PostPush, Kept
  <2>3. \/ mMsgQueue' = Append(mMsgQueue, m) /\ mDelayMsgQueue' = mDelayMsgQueue
        \/ mMsgQueue' = mMsgQueue /\ mDelayMsgQueue' = mDelayMsgQueue \cup {m}
    BY <1>4 DEF PostPush
  <2> HIDE DEF m
  <2>4. Held' = Held \cup {m}
    <3>1. CASE mMsgQueue' = Append(mMsgQueue, m) /\ mDelayMsgQueue' = mDelayMsgQueue
      <4>1. Ready' = Ready \cup {m}
        BY <1>t, <2>1, <3>1, MsgsOfAppend DEF Ready
      <4> QED BY <1>h, <2>2, <3>1, <4>1
    <3>2. CASE mMsgQueue' = mMsgQueue /\ mDelayMsgQueue' = mDelayMsgQueue \cup {m}
      BY <1>h, <2>2, <3>2 DEF Ready
    <3> QED BY <2>3, <3>1, <3>2
  <2>5. \A i \in DOMAIN handed : handed[i] # m
    BY <1>t, <2>1 DEF Seen, HandedOver, MsgsOf
  <2>6. MB!Put(m)
    BY <1>h, <2>1, <2>2, <2>4, <2>5 DEF MB!Put, Seen
  <2> QED BY <2>1, <2>6
<1>5. ASSUME NEW m \in Msgs, MoveDue(m) PROVE UNCHANGED <<fresh, Held, handed, purged>>
  <2>1. Ready' = Ready \cup {m} /\ m \in mDelayMsgQueue
    BY <1>5, <1>t, MsgsOfAppend DEF MoveDue, Ready, Top
  <2> QED BY <1>5, <1>h, <2>1 DEF MoveDue, Kept
<1>6. CASE TakeKept
  <2>1. Kept = {mMsgPeek} /\ Kept' = {} /\ Ready' = Ready /\ mMsgPeek \in Msgs
    BY <1>6, <1>t DEF TakeKept, Kept, Ready
  <2>2. Held' = Held \ {mMsgPeek} /\ mMsgPeek \in Held
    BY <1>6, <1>h, <2>1 DEF TakeKept, ApartInv
  <2>3. MB!Take(mMsgPeek)
    BY <1>6, <2>2 DEF TakeKept, MB!Take
  <2> QED BY <2>1, <2>3 DEF MB!Next
<1>7. CASE Dispose \/ PopPosted
  <2> DEFINE h == Head(mMsgQueue)
  <2>1. /\ mMsgQueue # <<>> /\ mMsgQueue' = Tail(mMsgQueue) /\ gpc = "pop"
        /\ UNCHANGED <<mDelayMsgQueue, mPeekKeep, mMsgPeek, fresh>>
    BY <1>7 DEF Dispose, PopPosted
  <2>2. Ready = {h} \cup Ready' /\ h \in Msgs /\ h \notin Ready'
    BY <1>t, <2>1, MsgsOfTail, HeadNotInTail DEF Ready, ApartInv
  <2>3. Kept = {}
    BY <2>1 DEF Kept, PeekInv
  <2>4. h \in Held /\ h \notin mDelayMsgQueue
    BY <1>h, <2>2 DEF ApartInv
  <2>5. ASSUME Dispose PROVE MB!Purge({h})
    <3>1. Kept' = {} /\ purged' = purged \cup {h} /\ handed' = handed
      BY <2>5, <2>1 DEF Dispose, Kept, PeekInv
    <3> HIDE DEF h
    <3> QED BY <1>h, <2>1, <2>2, <2>3, <2>4, <3>1 DEF MB!Purge
  <2>6. ASSUME PopPosted, call.op = "get" PROVE MB!Take(h)
    <3>1. Kept' = {} /\ purged' = purged /\ handed' = Append(handed, h)
      BY <2>6, <2>1 DEF PopPosted, Kept, PeekInv
    <3> HIDE DEF h
    <3> QED BY <1>h, <2>1, <2>2, <2>3, <2>4, <3>1 DEF MB!Take
  <2>7. ASSUME PopPosted, call.op = "peek" PROVE UNCHANGED <<fresh, Held, handed, purged>>
    <3>1. Kept' = {h} /\ purged' = purged /\ handed' = handed
      BY <2>7, <2>1 DEF PopPosted, Kept, PeekInv
    <3> HIDE DEF h
    <3> QED BY <1>h, <2>1, <2>2, <2>3, <3>1
  <2>8. {h} \in SUBSET Msgs
    BY <2>2
  <2> HIDE DEF h
  <2> QED BY <1>7, <2>2, <2>5, <2>6, <2>7, <2>8 DEF PopPosted, MB!Next
<1>8. CASE KeepPeek
  <2>1. Kept' = Kept /\ Ready' = Ready
    BY <1>8 DEF KeepPeek, Kept, PeekInv, Ready
  <2> QED BY <1>8, <1>h, <2>1 DEF KeepPeek
<1>9. CASE ClearEnter
  <2>1. gpc # "take"
    BY <1>9 DEF ClearEnter, PeekInv, PeekIsPrivate
  <2>2. \/ Kept' = Kept /\ purged' = purged
        \/ Kept = {mMsgPeek} /\ Kept' = {} /\ purged' = purged \cup {mMsgPeek} /\ mMsgPeek \in Msgs
    BY <1>9, <1>t, <2>1 DEF ClearEnter, Kept, PeekInv, IInv, TypeOK, QueueTypeOK
  <2>3. UNCHANGED <<Ready, mDelayMsgQueue, fresh, handed>>
    BY <1>9 DEF ClearEnter, Ready
  <2>4. CASE Kept' = Kept /\ purged' = purged
    BY <1>h, <2>3, <2>4
  <2>5. CASE Kept = {mMsgPeek} /\ Kept' = {} /\ purged' = purged \cup {mMsgPeek} /\ mMsgPeek \in Msgs
    <3>1. MB!Purge({mMsgPeek})
      BY <1>h, <2>3, <2>5 DEF MB!Purge, ApartInv
    <3> QED BY <2>5, <3>1 DEF MB!Next
  <2> QED BY <2>2, <2>4, <2>5
<1>10. CASE ClearRotate
  <2> DEFINE h == Head(mMsgQueue)
             t == Tail(mMsgQueue)
  <2>0. mMsgQueue # <<>>
    BY <1>10 DEF ClearRotate, IInv, LockInv, TypeOK, ClearTypeOK
  <2>1. Ready = {h} \cup MsgsOf(t) /\ h \in Msgs /\ t \in Seq(Msgs) /\ h \notin MsgsOf(t)
    BY <1>t, <2>0, MsgsOfTail, HeadNotInTail DEF Ready, ApartInv
  <2>2. Kept' = Kept /\ UNCHANGED <<mDelayMsgQueue, fresh, handed>>
    BY <1>10 DEF ClearRotate, Kept
  <2>3. CASE h \in selected
    <3>1. mMsgQueue' = t /\ purged' = purged \cup {h}
      BY <1>10, <2>3 DEF ClearRotate
    <3> HIDE DEF h, t
    <3>2. Held' = Held \ {h} /\ h \in Held
      BY <1>h, <2>1, <2>2, <3>1 DEF Ready, ApartInv
    <3>3. MB!Purge({h})
      BY <2>2, <3>1, <3>2 DEF MB!Purge
    <3> QED BY <2>1, <3>3 DEF MB!Next
  <2>4. CASE h \notin selected
    <3>1. mMsgQueue' = Append(t, h) /\ purged' = purged
      BY <1>10, <2>4 DEF ClearRotate
    <3> HIDE DEF h, t
    <3>2. Ready' = Ready
      BY <2>1, <3>1, MsgsOfAppend DEF Ready
    <3> QED BY <1>h, <2>2, <3>1, <3>2
  <2> QED BY <2>3, <2>4
<1>11. CASE ClearDelayed
  <2> DEFINE S == mDelayMsgQueue \cap selected
  <2>1. /\ mDelayMsgQueue' = mDelayMsgQueue \ S /\ purged' = purged \cup S
        /\ Kept' = Kept /\ UNCHANGED <<Ready, fresh, handed>>
    BY <1>11 DEF ClearDelayed, KeptDelayed, Kept, Ready
  <2>2. S \in SUBSET Msgs /\ S \subseteq mDelayMsgQueue
    BY <1>t
  <2> HIDE DEF S
  <2>3. MB!Purge(S)
    BY <1>h, <2>1, <2>2 DEF MB!Purge, ApartInv
  <2> QED BY <2>2, <2>3 DEF MB!Next
<1> QED BY <1>1, <1>2, <1>3, <1>4, <1>5, <1>6, <1>7, <1>8, <1>9, <1>10, <1>11, NextCases
        DEF MB!Next

\* With peek private, the queue implements Mailbox: no message is lost, handed over
\* twice, or handed over once its data is gone.
THEOREM Implements == ASSUME PeekIsPrivate PROVE Spec => ImplementsMailbox
<1>1. Init => MB!Init
  BY DEF Init, MB!Init, Held, MsgsOf
<1>2. IInv /\ PeekInv /\ EntryInv /\ ApartInv /\ [Next]_vars => [MB!Next]_(MB!boxVars)
  BY MailboxStep DEF MB!boxVars
<1> QED BY InPlace, <1>1, <1>2, PTL DEF Spec, ImplementsMailbox, MB!Spec
=============================================================================
