-------------------------- MODULE ThreadPosixProofs --------------------------
(***************************************************************************)
(* Theorems about ThreadPosix, for any number of lives of the thread and   *)
(* any number of polls.  What makes stop's answer reliable is that mDead   *)
(* says so only while no run is live, except between pthread_create and    *)
(* start's own assignment to it (DeadInv); what makes a stop effective is  *)
(* that nobody but a run that announces itself sets mAlive (AskedInv).     *)
(***************************************************************************)
EXTENDS ThreadPosix, TLAPS

NoneLive == \A r \in Runs : rpc[r] \notin Live

DeadInv ==
    /\ mDead /\ opc # "markdead" => NoneLive
    /\ dead => NoneLive /\ opc = "stopfn"
    /\ stopped \in {"new", "true"} => NoneLive /\ opc # "markdead"

\* A run that was asked to end has announced itself, finds mAlive false when it
\* looks again, and begins its one more call, if any, before it does.
AskedInv ==
    \A r \in Runs :
        /\ late[r] <= 1
        /\ rpc[r] = "call" => late[r] = 0
        /\ r \in asked => rpc[r] \notin {"none", "alive"}
        /\ r \notin asked => late[r] = 0
        /\ r \in asked /\ rpc[r] \in Live => ~mAlive

Inv == TypeOK /\ OneThread /\ DeadInv /\ AskedInv
----------------------------------------------------------------------------
\* A stop has not looked at mDead yet.
LEMMA ZeroPolls == 0 \in 0..MaxPolls
BY ThreadAssumption

\* The invariant holds of a new thread object.
LEMMA InitInv == Init => Inv
<1> SUFFICES ASSUME Init PROVE Inv
  OBVIOUS
<1>1. TypeOK
  <2>1. rpc \in [Runs -> Places] /\ res \in [Runs -> {"none", "exit", "hook"}]
    BY DEF Init, Places
  <2>2. late \in [Runs -> 0..2] /\ polls \in 0..MaxPolls
    BY ZeroPolls DEF Init
  <2> QED BY <2>1, <2>2 DEF Init, TypeOK
<1>2. NoneLive
  BY DEF Init, NoneLive, Live
<1>3. OneThread /\ DeadInv
  BY <1>2 DEF Init, OneThread, DeadInv, NoneLive
<1>4. AskedInv
  BY DEF Init, AskedInv, Live, Places
<1> QED BY <1>1, <1>3, <1>4 DEF Inv

\* The owner's steps.
LEMMA OwnerStep ==
  ASSUME Inv, OwnerNext
  PROVE  Inv'
<1> USE DEF Inv, state, runVars, ownerVars, history
<1>1. ASSUME NEW r \in Runs, StartCreate(r) PROVE Inv'
  <2>1. NoneLive
    BY <1>1 DEF StartCreate, MayStart, DeadInv
  <2>2. rpc' = [rpc EXCEPT ![r] = "alive"]
    BY <1>1 DEF StartCreate
  <2>3. TypeOK'
    BY <1>1 DEF StartCreate, TypeOK, Places
  <2>4. OneThread'
    BY <2>1, <2>2 DEF OneThread, NoneLive, TypeOK
  <2>5. DeadInv'
    BY <1>1 DEF StartCreate, MayStart, DeadInv
  <2>6. AskedInv'
    BY <1>1, <2>2 DEF StartCreate, AskedInv, TypeOK, Live
  <2> QED BY <2>3, <2>4, <2>5, <2>6
<1>2. ASSUME StartMark PROVE Inv'
  <2>1. TypeOK'
    BY <1>2 DEF StartMark, TypeOK
  <2>2. OneThread' /\ AskedInv'
    BY <1>2 DEF StartMark, OneThread, AskedInv
  <2>3. DeadInv'
    BY <1>2 DEF StartMark, DeadInv, NoneLive
  <2> QED BY <2>1, <2>2, <2>3
<1>3. ASSUME StopRequest PROVE Inv'
  <2>1. TypeOK'
    BY <1>3, ZeroPolls DEF StopRequest, TypeOK
  <2>2. OneThread'
    BY <1>3 DEF StopRequest, OneThread
  <2>3. DeadInv'
    BY <1>3 DEF StopRequest, DeadInv, NoneLive, TypeOK
  <2>4. AskedInv'
    BY <1>3 DEF StopRequest, AskedInv, Announced, Live
  <2> QED BY <2>1, <2>2, <2>3, <2>4
<1>4. ASSUME StopPoll PROVE Inv'
  <2>1. TypeOK'
    BY <1>4, ThreadAssumption DEF StopPoll, TypeOK
  <2>2. OneThread' /\ AskedInv'
    BY <1>4 DEF StopPoll, OneThread, AskedInv
  <2>3. DeadInv'
    BY <1>4 DEF StopPoll, DeadInv, NoneLive, TypeOK
  <2> QED BY <2>1, <2>2, <2>3
<1>5. ASSUME StopGiveUp PROVE Inv'
  <2>1. TypeOK'
    BY <1>5 DEF StopGiveUp, TypeOK
  <2>2. OneThread' /\ AskedInv'
    BY <1>5 DEF StopGiveUp, OneThread, AskedInv
  <2>3. DeadInv'
    BY <1>5 DEF StopGiveUp, DeadInv, NoneLive
  <2> QED BY <2>1, <2>2, <2>3
<1>6. ASSUME StopReturn PROVE Inv'
  <2>1. TypeOK'
    BY <1>6, ZeroPolls DEF StopReturn, TypeOK
  <2>2. OneThread' /\ AskedInv'
    BY <1>6 DEF StopReturn, OneThread, AskedInv
  <2>3. DeadInv'
    BY <1>6 DEF StopReturn, DeadInv, NoneLive, TypeOK
  <2> QED BY <2>1, <2>2, <2>3
<1> QED BY <1>1, <1>2, <1>3, <1>4, <1>5, <1>6 DEF OwnerNext

\* setNotAlive and wake, from any thread.
LEMMA OtherStep ==
  ASSUME Inv, SetNotAlive \/ Wake
  PROVE  Inv'
<1> USE DEF Inv, state, runVars, ownerVars, history
<1>1. TypeOK'
  BY DEF SetNotAlive, Wake, TypeOK
<1>2. OneThread' /\ AskedInv'
  BY DEF SetNotAlive, Wake, OneThread, AskedInv
<1>3. DeadInv'
  BY DEF SetNotAlive, Wake, DeadInv, NoneLive, TypeOK
<1> QED BY <1>1, <1>2, <1>3

\* A run that goes from one live place to another disturbs no one's idea of
\* whether the thread is dead.
LEMMA LiveStep ==
  ASSUME OneThread, DeadInv, NEW r \in Runs, NEW place \in Live,
         rpc \in [Runs -> Places], rpc[r] \in Live,
         rpc' = [rpc EXCEPT ![r] = place],
         UNCHANGED <<mDead, ownerVars>>
  PROVE  OneThread' /\ DeadInv'
<1>1. \A s \in Runs : rpc'[s] \in Live <=> rpc[s] \in Live
  OBVIOUS
<1>2. OneThread'
  BY <1>1 DEF OneThread
<1>3. DeadInv'
  BY <1>1 DEF DeadInv, NoneLive, ownerVars
<1> QED BY <1>2, <1>3

\* The thread's own steps.
LEMMA RunStep ==
  ASSUME Inv, NEW r \in Runs, RunNext(r)
  PROVE  Inv'
<1> USE DEF Inv, state, runVars, history
<1>t. rpc \in [Runs -> Places] /\ res \in [Runs -> {"none", "exit", "hook"}]
  BY DEF TypeOK
<1>l. /\ {"alive", "call", "called", "result", "hooked", "finish"} \subseteq Live
      /\ Again(mAlive) \in {"call", "finish"}
      /\ "gone" \notin Live /\ "none" \notin Live
  BY DEF Live, Places, Again
<1>1. ASSUME RunAlive(r) PROVE Inv'
  <2>1. TypeOK'
    BY <1>1 DEF RunAlive, TypeOK, Places, ownerVars
  <2>2. OneThread' /\ DeadInv'
    BY <1>1, <1>t, <1>l, LiveStep DEF RunAlive
  <2>3. \A s \in asked : rpc[s] \notin Live
    BY <1>1, <1>l DEF RunAlive, OneThread, AskedInv, TypeOK
  <2>4. AskedInv'
    BY <1>1, <1>t, <2>3 DEF RunAlive, AskedInv, Live
  <2> QED BY <2>1, <2>2, <2>4
<1>2. ASSUME RunCall(r) PROVE Inv'
  <2>1. TypeOK'
    BY <1>2 DEF RunCall, TypeOK, Places, ownerVars
  <2>2. OneThread' /\ DeadInv'
    BY <1>2, <1>t, <1>l, LiveStep DEF RunCall
  <2>3. AskedInv'
    BY <1>2, <1>t DEF RunCall, AskedInv, Live, TypeOK
  <2> QED BY <2>1, <2>2, <2>3
<1>3. ASSUME NEW x \in Results, RunReturn(r, x) PROVE Inv'
  <2>1. TypeOK'
    BY <1>3, ThreadAssumption DEF RunReturn, TypeOK, Places, ownerVars
  <2>2. OneThread' /\ DeadInv'
    BY <1>3, <1>t, <1>l, LiveStep DEF RunReturn
  <2>3. AskedInv'
    BY <1>3, <1>t DEF RunReturn, AskedInv, Live
  <2> QED BY <2>1, <2>2, <2>3
<1>4. ASSUME RunExit(r) PROVE Inv'
  <2>1. TypeOK'
    BY <1>4 DEF RunExit, TypeOK, Places, ownerVars
  <2>2. OneThread' /\ DeadInv'
    BY <1>4, <1>t, <1>l, LiveStep DEF RunExit
  <2>3. AskedInv'
    BY <1>4, <1>t DEF RunExit, AskedInv, Live
  <2> QED BY <2>1, <2>2, <2>3
<1>5. ASSUME RunNone(r) PROVE Inv'
  <2>1. TypeOK'
    BY <1>5, <1>l DEF RunNone, TypeOK, Places, ownerVars
  <2>2. OneThread' /\ DeadInv'
    BY <1>5, <1>t, <1>l, LiveStep DEF RunNone
  <2>3. AskedInv'
    BY <1>5, <1>t, <1>l DEF RunNone, AskedInv, Again
  <2> QED BY <2>1, <2>2, <2>3
<1>6. ASSUME RunHook(r) PROVE Inv'
  <2>1. TypeOK'
    BY <1>6 DEF RunHook, TypeOK, Places, ownerVars
  <2>2. OneThread' /\ DeadInv'
    BY <1>6, <1>t, <1>l, LiveStep DEF RunHook
  <2>3. AskedInv'
    BY <1>6, <1>t DEF RunHook, AskedInv, Live
  <2> QED BY <2>1, <2>2, <2>3
<1>7. ASSUME Unhook(r) PROVE Inv'
  <2>1. TypeOK'
    BY <1>7, <1>l DEF Unhook, TypeOK, Places, ownerVars
  <2>2. OneThread' /\ DeadInv'
    BY <1>7, <1>t, <1>l, LiveStep DEF Unhook
  <2>3. AskedInv'
    BY <1>7, <1>t, <1>l DEF Unhook, AskedInv, Again
  <2> QED BY <2>1, <2>2, <2>3
<1>8. ASSUME RunFinish(r) PROVE Inv'
  <2>1. TypeOK'
    BY <1>8 DEF RunFinish, TypeOK, Places, ownerVars
  <2>2. NoneLive'
    BY <1>8, <1>t, <1>l DEF RunFinish, OneThread, NoneLive
  <2>3. OneThread'
    BY <2>2 DEF OneThread, NoneLive
  <2>4. DeadInv'
    BY <1>8, <2>2 DEF RunFinish, DeadInv, ownerVars
  <2>5. AskedInv'
    BY <1>8, <1>t, <2>2 DEF RunFinish, AskedInv, NoneLive
  <2> QED BY <2>1, <2>3, <2>4, <2>5
<1> QED
  BY <1>1, <1>2, <1>3, <1>4, <1>5, <1>6, <1>7, <1>8
  DEF RunNext, HookPassed, HookSpurious

\* A step that changes nothing.
LEMMA StutterStep == Inv /\ UNCHANGED vars => Inv'
  BY DEF Inv, TypeOK, OneThread, DeadInv, NoneLive, AskedInv, vars, state, runVars,
         ownerVars, history

\* Every reachable state of the thread object satisfies the invariant.
THEOREM Inductive == Spec => []Inv
<1>1. Inv /\ [Next]_vars => Inv'
  BY OwnerStep, OtherStep, RunStep, StutterStep DEF Next
<1> QED BY InitInv, <1>1, PTL DEF Spec

\* Every variable of the thread object stays within its type.
THEOREM TypeCorrect == Spec => []TypeOK
BY Inductive, PTL DEF Inv

\* The object's function is never run by two threads at a time, whatever life
\* of the thread it is, as long as the owner restarts it only when stop has
\* said that it was reclaimed.
THEOREM NeverTwoThreads == Spec => []OneThread
BY Inductive, PTL DEF Inv

\* When stop has answered true the thread has left the object for good.
THEOREM StopIsReliable == Spec => []TrueMeansReclaimed
<1>1. Inv => TrueMeansReclaimed
  BY DEF Inv, DeadInv, NoneLive, TrueMeansReclaimed
<1> QED BY Inductive, <1>1, PTL

\* However its function answers, a thread calls it at most once more after stop.
THEOREM StopIsEffective == Spec => []AtMostOneMoreCall
<1>1. Inv => AtMostOneMoreCall
  BY DEF Inv, AskedInv, AtMostOneMoreCall
<1> QED BY Inductive, <1>1, PTL
==============================================================================
