-------------------------- MODULE TaskRunnerProofs --------------------------
(***************************************************************************)
(* Theorems about TaskRunner: the runner keeps no pointer to a deleted     *)
(* task, forgets no task that can run, keeps a timeout to wait for, and    *)
(* calls no handler of an aborted task.                                    *)
(***************************************************************************)
EXTENDS TaskRunner, WellFoundedInduction, NaturalsInduction, SequenceTheorems, TLAPS

\* A child of a task has no timeout of its own: the tasks that src gives one,
\* with set_timeout_seconds, are tasks of the runner (ipc-plugin-mgr.cc:330,
\* ipc-object.cc:599).
ChildrenUntimed == \A t \in Tasks : IsChild2(t) => Seconds[t] = 0

\* What a pointer that the runner keeps points to; a task that was started
\* stays in the list as long as it lives.
PointerInv ==
    /\ \A t \in RangeOf(mTasks) : t \in Live /\ ~IsChild2(t)
    /\ RangeOf(runtask) \subseteq RangeOf(mTasks)
    /\ \A t \in mDelTasks : t \in Live /\ IsChild2(t) /\ mDone[t]
    /\ \A t \in Live : mState[t] # "INIT" => IsChild2(t) \/ t \in RangeOf(mTasks)
    /\ \A t \in Tasks : life[t] = "none" => mState[t] = "INIT"

\* Where runTasks is: the task whose process runs is in the copied list, or a
\* child of the task it has come to.
PlaceInv ==
    /\ rpc \in {"idle", "delete"} => runtask = <<>>
    /\ rpc = "children" => it <= Len(runtask)
    /\ rpc \in {"children", "process"} => did
    /\ rpc = "process" =>
          /\ mBusy \in Live
          /\ IsChild2(mBusy) => it <= Len(runtask)
          /\ ~IsChild2(mBusy) => mBusy \in RangeOf(runtask)

\* A child's parent lives, until endTasks deletes it: then the child is done, and
\* a child that is done waits for delTasks.
FamilyInv ==
    /\ \A t \in Tasks : mDone[t] => life[t] # "none"
    /\ \A t \in Live : IsChild2(t) /\ mDone[t] => t \in mDelTasks
    /\ \A t \in Live : IsChild2(t) /\ Parent[t] \notin Live
                        => rpc = "delete" /\ t \in mDelTasks

\* The next task to time out has a timeout, and there is one if any unfinished
\* task has.
ArmedInv ==
    /\ mNextTimeoutTask # None => mTimeout[mNextTimeoutTask] # 0
    /\ mNextTimeoutTask = None => \A t \in RangeOf(mTasks) : mDone[t] \/ mTimeout[t] = 0

\* A task that is aborted is done, or its process is about to return.
AbortInv == \A t \in Tasks : mAborted[t] => mDone[t] \/ mBusy = t

\* runTasks is to come to task t: again, if it has run one, or in this pass.
Seen(t) ==
    /\ rpc # "idle"
    /\ \/ did /\ t \in RangeOf(runtask)
       \/ \E i \in it .. Len(runtask) : runtask[i] = t

ScanInv == ~pending => \A t \in RangeOf(mTasks) : mBlocked[t] \/ Seen(t)

\* After endTasks, the tasks of the list that are done wait for a child.
ForgetInv ==
    /\ rpc = "delete" =>
          \A t \in RangeOf(mTasks) : mDone[t] => \E c \in Children(t) : ~mDone[c]
    /\ rpc = "idle" /\ ~pending =>
          \A t \in RangeOf(mTasks) :
              mDone[t] => \/ mAborted[t]
                          \/ \E c \in Children(t) : mAborted[c] \/ ~mDone[c]

IInv == TypeOK /\ PointerInv /\ FamilyInv /\ PlaceInv /\ ArmedInv /\ AbortInv /\ ScanInv /\ ForgetInv

\* Under ChildrenUntimed: the next task to time out is in the list, and only
\* tasks with a timeout of their own ever have one to come.
NextInv == mNextTimeoutTask # None => mNextTimeoutTask \in RangeOf(mTasks)
----------------------------------------------------------------------------
(* Lemmas about the operators.                                             *)

\* A set of natural numbers that is not empty has a least element.
LEMMA LeastNat ==
  ASSUME NEW S \in SUBSET Nat, S # {}
  PROVE  \E x \in S : \A y \in S : x <= y
<1> DEFINE Less == {ss \in Nat \X Nat : ss[1] < ss[2]}
<1>1. IsWellFoundedOn(Less, Nat)
  BY NatLessThanWellFounded DEF OpToRel
<1> HIDE DEF Less
<1>2. PICK x \in S : \A y \in S : ~(<<y, x>> \in Less)
  BY <1>1, WFMin
<1>3. ASSUME NEW y \in S PROVE x <= y
  <2>1. x \in Nat /\ y \in Nat /\ ~(<<y, x>> \in Less)
    BY <1>2
  <2>2. ~(y < x)
    BY <2>1 DEF Less
  <2> QED BY <2>1, <2>2
<1> QED BY <1>3

\* recalcNextTimeout answers None only when no unfinished task has a timeout, the
\* excluded one aside; otherwise it answers such a task.
LEMMA RecalcFacts ==
  ASSUME NEW ts \in Seq(Tasks), NEW T \in [Tasks -> Nat], NEW done, NEW exclude
  PROVE  LET with == {i \in 1 .. Len(ts) :
                        T[ts[i]] > 0 /\ ~done[ts[i]] /\ ts[i] # exclude}
             next == Recalc(ts, T, done, exclude)
         IN  \/ with = {} /\ next = None
             \/ with # {} /\ \E i \in with : next = ts[i]
<1> DEFINE with == {i \in 1 .. Len(ts) :
                      T[ts[i]] > 0 /\ ~done[ts[i]] /\ ts[i] # exclude}
           Best(i) == \A j \in with : \/ T[ts[i]] < T[ts[j]]
                                      \/ T[ts[i]] = T[ts[j]] /\ j <= i
<1>1. CASE with = {}
  BY <1>1 DEF Recalc
<1>2. CASE with # {}
  <2>1. \A i \in with : i \in 1 .. Len(ts) /\ T[ts[i]] \in Nat
    OBVIOUS
  <2> HIDE DEF with
  <2> DEFINE times == {T[ts[i]] : i \in with}
  <2>2. PICK m \in times : \A n \in times : m <= n
    <3>1. times \in SUBSET Nat /\ times # {}
      BY <1>2, <2>1
    <3> HIDE DEF times
    <3> QED BY <3>1, LeastNat
  <2> DEFINE soonest == {i \in with : T[ts[i]] = m}
             L == Len(ts)
  <2>3. L \in Nat /\ soonest # {} /\ soonest \subseteq 1 .. L
    BY <2>1, <2>2
  <2> DEFINE after == {L - i : i \in soonest}
  <2>4. PICK d \in after : \A e \in after : d <= e
    <3>1. after \in SUBSET Nat /\ after # {}
      BY <2>3
    <3> HIDE DEF after
    <3> QED BY <3>1, LeastNat
  <2>5. PICK k \in soonest : d = L - k
    BY <2>4
  <2>6. ASSUME NEW j \in soonest PROVE j <= k
    <3>1. d <= L - j
      BY <2>4, <2>6
    <3>2. j \in Nat /\ k \in Nat
      BY <2>3
    <3> QED BY <2>3, <2>5, <3>1, <3>2
  <2>7. k \in with /\ Best(k)
    <3>1. k \in with /\ T[ts[k]] = m
      BY <2>5
    <3>2. ASSUME NEW j \in with PROVE T[ts[k]] < T[ts[j]] \/ (T[ts[k]] = T[ts[j]] /\ j <= k)
      <4>1. T[ts[j]] \in Nat /\ m <= T[ts[j]] /\ m \in Nat
        BY <2>1, <2>2
      <4>2. T[ts[j]] = m => j <= k
        BY <2>6
      <4> QED BY <3>1, <4>1, <4>2
    <3> QED BY <3>1, <3>2
  <2>8. Recalc(ts, T, done, exclude) = ts[CHOOSE i \in with : Best(i)]
    BY <1>2 DEF Recalc, with
  <2> HIDE DEF Best
  <2>9. (CHOOSE i \in with : Best(i)) \in with
    BY <2>7
  <2> QED BY <1>2, <2>8, <2>9 DEF with
<1> QED BY <1>1, <1>2

\* updateTaskTimeout of t, after a change of t's timeout or of the list: the next
\* task has a timeout, and is t, the one before or one of the list.
LEMMA UpdateFacts ==
  ASSUME TypeOK, NEW t \in Tasks, NEW ts \in Seq(Tasks), NEW T \in [Tasks -> Nat],
         mNextTimeoutTask # None => mNextTimeoutTask = t \/ T[mNextTimeoutTask] # 0,
         mNextTimeoutTask = None => \A u \in RangeOf(ts) : u = t \/ mDone[u] \/ T[u] = 0
  PROVE  LET next == UpdateTaskTimeout(t, ts, T)
         IN  /\ next \in Tasks \cup {None}
             /\ next # None => T[next] # 0
             /\ next = None => \A u \in RangeOf(ts) : mDone[u] \/ T[u] = 0
             /\ next \in RangeOf(ts) \cup {None, mNextTimeoutTask} \/ (next = t /\ T[t] # 0)
<1> DEFINE next == UpdateTaskTimeout(t, ts, T)
<1>a. None \notin Tasks /\ mNextTimeoutTask \in Tasks \cup {None}
  BY TaskAssumption DEF TypeOK
<1> SUFFICES /\ next \in Tasks \cup {None}
             /\ next # None => T[next] # 0
             /\ next = None => \A u \in RangeOf(ts) : mDone[u] \/ T[u] = 0
             /\ next \in RangeOf(ts) \cup {None, mNextTimeoutTask} \/ (next = t /\ T[t] # 0)
  OBVIOUS
<1>1. CASE T[t] # 0
  <2>1. next \in {t, mNextTimeoutTask} /\ next # None
    BY <1>a, <1>1 DEF UpdateTaskTimeout
  <2> HIDE DEF next
  <2> QED BY <1>a, <1>1, <2>1
<1>2. CASE T[t] = 0 /\ t = mNextTimeoutTask
  <2>1. next = Recalc(ts, T, mDone, t)
    BY <1>2 DEF UpdateTaskTimeout
  <2> DEFINE with == {i \in 1 .. Len(ts) : T[ts[i]] > 0 /\ ~mDone[ts[i]] /\ ts[i] # t}
  <2>2. \/ with = {} /\ next = None
        \/ with # {} /\ \E i \in with : next = ts[i]
    BY SMTT(30), <2>1, RecalcFacts
  <2>3. CASE with = {} /\ next = None
    <3>1. ASSUME NEW u \in RangeOf(ts) PROVE mDone[u] \/ T[u] = 0
      <4>1. PICK i \in 1 .. Len(ts) : u = ts[i]
        BY DEF RangeOf
      <4>2. T[ts[i]] \in Nat /\ i \notin with
        BY <2>3
      <4> QED BY <1>2, <4>1, <4>2
    <3> HIDE DEF next
    <3> QED BY <1>a, <2>3, <3>1
  <2>4. CASE with # {} /\ \E i \in with : next = ts[i]
    <3>1. PICK i \in with : next = ts[i]
      BY <2>4
    <3>2. i \in 1 .. Len(ts) /\ ts[i] \in Tasks /\ T[ts[i]] # 0
      OBVIOUS
    <3>3. next \in RangeOf(ts)
      BY <3>1, <3>2 DEF RangeOf
    <3> HIDE DEF next
    <3> QED BY <1>a, <3>1, <3>2, <3>3
  <2> QED BY <2>2, <2>3, <2>4
<1>3. CASE T[t] = 0 /\ t # mNextTimeoutTask
  <2>1. next = mNextTimeoutTask
    BY <1>3 DEF UpdateTaskTimeout
  <2>2. \A u \in RangeOf(ts) : mNextTimeoutTask = None => mDone[u] \/ T[u] = 0
    BY <1>3
  <2> HIDE DEF next
  <2> QED BY <1>a, <1>3, <2>1, <2>2
<1> QED BY <1>1, <1>2, <1>3

\* What endTasks leaves of the list: the tasks it does not delete, each once.
LEMMA KeptFacts ==
  ASSUME TypeOK, NEW s \in Kept
  PROVE  /\ s \in Seq(Tasks)
         /\ RangeOf(s) = RangeOf(mTasks) \ Ended
         /\ \A i, j \in 1 .. Len(s) : s[i] = s[j] => i = j
<1> DEFINE rest == RangeOf(mTasks) \ Ended
<1>1. mTasks \in Seq(Tasks) /\ RangeOf(mTasks) \subseteq Tasks
  BY DEF TypeOK, RangeOf
<1>2. /\ \E n \in 0 .. Len(mTasks) : s \in [1 .. n -> rest]
      /\ RangeOf(s) = rest
      /\ \A i, j \in 1 .. Len(s), k, l \in 1 .. Len(mTasks) :
            s[i] = mTasks[k] /\ s[j] = mTasks[l] => (i < j <=> k < l)
  BY DEF Kept
<1>3. s \in Seq(Tasks)
  BY <1>1, <1>2
<1>4. ASSUME NEW i \in 1 .. Len(s), NEW j \in 1 .. Len(s), s[i] = s[j] PROVE i = j
  <2>1. s[i] \in RangeOf(mTasks)
    BY <1>2 DEF RangeOf
  <2>2. PICK k \in 1 .. Len(mTasks) : s[i] = mTasks[k]
    BY <2>1 DEF RangeOf
  <2>3. (i < j <=> k < k) /\ (j < i <=> k < k)
    BY <1>2, <1>4, <2>2
  <2>4. i \in Int /\ j \in Int /\ k \in Int
    BY <1>1, <1>3
  <2> QED BY <2>3, <2>4
<1> QED BY <1>2, <1>3, <1>4

\* A stopped task is done, blocked and, if a child, to be deleted; its unfinished
\* children are aborted, and stopped but for the one whose process runs.
LEMMA FinishFacts ==
  ASSUME TypeOK, NEW t \in Live, NEW aborted \in BOOLEAN, NEW error \in BOOLEAN,
         Finish(t, aborted, error)
  PROVE  /\ mAborted' \in [Tasks -> BOOLEAN] /\ mError' \in [Tasks -> BOOLEAN]
         /\ mDone' \in [Tasks -> BOOLEAN] /\ mBlocked' \in [Tasks -> BOOLEAN]
         /\ mDone'[t] /\ mBlocked'[t] /\ (aborted => mAborted'[t])
         /\ \A c \in Tasks : /\ mAborted[c] => mAborted'[c]
                             /\ mDone[c] => mDone'[c]
                             /\ mBlocked[c] => mBlocked'[c]
                             /\ mDone'[c] => mDone[c] \/ c = t \/ mAborted'[c]
                             /\ mAborted'[c] => mAborted[c] \/ c = t \/ c = mBusy \/ mDone'[c]
         /\ mDelTasks \subseteq mDelTasks'
         /\ \A c \in mDelTasks' : c \in mDelTasks \/ (c \in Live /\ IsChild2(c) /\ mDone'[c])
<1> DEFINE kids    == {c \in Children(t) : ~mAborted[c] /\ ~mDone[c]}
           stopped == {t} \cup (kids \ {mBusy})
<1>1. /\ mAborted' = [c \in Tasks |-> mAborted[c] \/ c \in kids \/ (c = t /\ aborted)]
      /\ mError'   = [c \in Tasks |-> mError[c] \/ c \in stopped \ {t} \/ (c = t /\ error)]
      /\ mDone'    = [c \in Tasks |-> mDone[c] \/ c \in stopped]
      /\ mBlocked' = [c \in Tasks |-> mBlocked[c] \/ c \in stopped]
      /\ mDelTasks' = mDelTasks \cup {c \in stopped : IsChild2(c)}
  BY DEF Finish
<1>2. kids \subseteq Live /\ Live \subseteq Tasks
  BY DEF Children, Live
<1>3. stopped \subseteq Live /\ t \in stopped /\ \A c \in stopped : c = t \/ c \in kids
  BY <1>2
<1>4. \A c \in kids : c \in stopped \/ c = mBusy
  OBVIOUS
<1>5. /\ mAborted \in [Tasks -> BOOLEAN] /\ mError \in [Tasks -> BOOLEAN]
      /\ mDone \in [Tasks -> BOOLEAN] /\ mBlocked \in [Tasks -> BOOLEAN]
  BY DEF TypeOK
<1> HIDE DEF kids, stopped
<1>6. /\ mAborted' \in [Tasks -> BOOLEAN] /\ mError' \in [Tasks -> BOOLEAN]
      /\ mDone' \in [Tasks -> BOOLEAN] /\ mBlocked' \in [Tasks -> BOOLEAN]
  BY <1>1, <1>5
<1>7. t \in Tasks /\ mDone'[t] /\ mBlocked'[t] /\ (aborted => mAborted'[t])
  BY <1>1, <1>2, <1>3
<1>8. ASSUME NEW c \in Tasks
      PROVE  /\ mAborted[c] => mAborted'[c]
             /\ mDone[c] => mDone'[c]
             /\ mBlocked[c] => mBlocked'[c]
             /\ mDone'[c] => mDone[c] \/ c = t \/ mAborted'[c]
             /\ mAborted'[c] => mAborted[c] \/ c = t \/ c = mBusy \/ mDone'[c]
  BY <1>1, <1>3, <1>4, <1>5
<1>9. ASSUME NEW c \in mDelTasks'
      PROVE  c \in mDelTasks \/ (c \in Live /\ IsChild2(c) /\ mDone'[c])
  BY <1>1, <1>2, <1>3
<1> QED BY <1>1, <1>6, <1>7, <1>8, <1>9

\* A timeout that is set is the next one, or another is looked for.
LEMMA SetTimeoutFacts ==
  ASSUME TypeOK, ArmedInv, NEW t \in Tasks, NEW value \in Nat, SetTimeout(t, value)
  PROVE  /\ mTimeout' = [mTimeout EXCEPT ![t] = value] /\ mTimeout' \in [Tasks -> Nat]
         /\ mNextTimeoutTask' \in Tasks \cup {None}
         /\ mNextTimeoutTask' # None => mTimeout'[mNextTimeoutTask'] # 0
         /\ mNextTimeoutTask' = None =>
               \A u \in RangeOf(mTasks) : mDone[u] \/ mTimeout'[u] = 0
         /\ \/ mNextTimeoutTask' \in RangeOf(mTasks) \cup {None, mNextTimeoutTask}
            \/ mNextTimeoutTask' = t /\ value # 0
<1> DEFINE T == [mTimeout EXCEPT ![t] = value]
<1>1. mTimeout \in [Tasks -> Nat] /\ mTasks \in Seq(Tasks)
      /\ mNextTimeoutTask \in Tasks \cup {None} /\ RangeOf(mTasks) \subseteq Tasks
  BY DEF TypeOK, RangeOf
<1>2. T \in [Tasks -> Nat] /\ T[t] = value /\ \A u \in Tasks \ {t} : T[u] = mTimeout[u]
  BY <1>1
<1>3. mTimeout' = T /\ mNextTimeoutTask' = UpdateTaskTimeout(t, mTasks, T)
  BY DEF SetTimeout
<1> HIDE DEF T
<1>4. mNextTimeoutTask # None => mNextTimeoutTask = t \/ T[mNextTimeoutTask] # 0
  BY <1>1, <1>2 DEF ArmedInv
<1>5. mNextTimeoutTask = None => \A u \in RangeOf(mTasks) : u = t \/ mDone[u] \/ T[u] = 0
  BY <1>1, <1>2 DEF ArmedInv
<1> DEFINE next == UpdateTaskTimeout(t, mTasks, T)
<1>6. /\ next \in Tasks \cup {None}
      /\ next # None => T[next] # 0
      /\ next = None => \A u \in RangeOf(mTasks) : mDone[u] \/ T[u] = 0
      /\ next \in RangeOf(mTasks) \cup {None, mNextTimeoutTask} \/ (next = t /\ T[t] # 0)
  BY <1>1, <1>2, <1>4, <1>5, UpdateFacts
<1> HIDE DEF next
<1>7. mNextTimeoutTask' = next
  BY <1>3 DEF next
<1> QED BY <1>2, <1>3, <1>6, <1>7 DEF T

\* A task that is started is in the list, and may be the next to time out.
LEMMA StartFacts ==
  ASSUME TypeOK, ArmedInv, NEW t \in Tasks, Start(t)
  PROVE  /\ mTasks' \in Seq(Tasks) /\ RangeOf(mTasks)' = RangeOf(mTasks) \cup {t}
         /\ mNextTimeoutTask' \in Tasks \cup {None}
         /\ mNextTimeoutTask' # None => mTimeout[mNextTimeoutTask'] # 0
         /\ mNextTimeoutTask' = None =>
               \A u \in RangeOf(mTasks)' : mDone[u] \/ mTimeout[u] = 0
         /\ mNextTimeoutTask' \in RangeOf(mTasks)' \cup {None, mNextTimeoutTask}
<1>1. PICK ts : /\ ts = Append(mTasks, t) /\ mTasks' = ts
                /\ mNextTimeoutTask' = UpdateTaskTimeout(t, ts, mTimeout)
  BY DEF Start
<1>2. mTasks \in Seq(Tasks) /\ mTimeout \in [Tasks -> Nat]
  BY DEF TypeOK
<1>3. ts \in Seq(Tasks) /\ RangeOf(ts) = RangeOf(mTasks) \cup {t}
  BY <1>1, <1>2 DEF RangeOf
<1>4. mNextTimeoutTask = None =>
          \A u \in RangeOf(ts) : u = t \/ mDone[u] \/ mTimeout[u] = 0
  BY <1>3 DEF ArmedInv
<1>5. mNextTimeoutTask # None => mNextTimeoutTask = t \/ mTimeout[mNextTimeoutTask] # 0
  BY DEF ArmedInv
<1> DEFINE next == UpdateTaskTimeout(t, ts, mTimeout)
<1>6. /\ next \in Tasks \cup {None}
      /\ next # None => mTimeout[next] # 0
      /\ next = None => \A u \in RangeOf(ts) : mDone[u] \/ mTimeout[u] = 0
      /\ next \in RangeOf(ts) \cup {None, mNextTimeoutTask} \/ (next = t /\ mTimeout[t] # 0)
  BY <1>2, <1>3, <1>4, <1>5, UpdateFacts
<1>7. mNextTimeoutTask' = next /\ RangeOf(mTasks)' = RangeOf(ts)
  BY <1>1 DEF RangeOf
<1> HIDE DEF next
<1> QED BY <1>1, <1>3, <1>6, <1>7

\* A task that run is called for is a live one: the current one, or a child of it.
LEMMA RunsFacts ==
  ASSUME IInv, NEW t \in Tasks, Runs(t)
  PROVE  /\ t \in Live /\ ~mBlocked[t]
         /\ rpc \in {"tasks", "children"} /\ mBusy = None
         /\ it \in 1 .. Len(runtask)
         /\ ~IsChild2(t) => t = Current /\ rpc = "tasks"
         /\ Current \in RangeOf(runtask) /\ Current \in RangeOf(mTasks)
<1>1. /\ it \in 1 .. Len(runtask) + 1 /\ runtask \in Seq(Tasks)
      /\ (mBusy # None <=> rpc = "process")
  BY DEF IInv, TypeOK
<1>2. rpc \in {"tasks", "children"} /\ it \in 1 .. Len(runtask) /\ mBusy = None
  BY <1>1 DEF Runs, AtTask, IInv, PlaceInv
<1>3. Current \in RangeOf(runtask)
  BY <1>2 DEF Current, RangeOf
<1>4. Current \in RangeOf(mTasks) /\ Current \in Live /\ ~IsChild2(Current)
  BY <1>3 DEF IInv, PointerInv
<1>5. CASE AtTask /\ t = Current /\ ~mBlocked[t]
  BY <1>2, <1>3, <1>4, <1>5 DEF AtTask
<1>6. CASE rpc = "children" /\ t \in Children(Current) /\ ~mBlocked[t]
  <2>1. t \in Live /\ IsChild2(t)
    BY <1>4, <1>6, TaskAssumption DEF Children, IsChild2, Live
  <2> QED BY <1>2, <1>3, <1>4, <1>6, <2>1
<1> QED BY <1>5, <1>6 DEF Runs

\* A process that returns is that of a live task; its loop goes on where it was.
LEMMA ReturnFacts ==
  ASSUME IInv, NEW t \in Tasks, ProcessReturns(t)
  PROVE  /\ t \in Live /\ rpc = "process" /\ mBusy = t /\ mBusy' = None /\ did
         /\ rpc' = (IF IsChild2(t) THEN "children" ELSE "tasks")
         /\ UNCHANGED <<runtask, it, did>>
         /\ IsChild2(t) => it <= Len(runtask)
         /\ ~IsChild2(t) => t \in RangeOf(runtask) /\ t \in RangeOf(mTasks)
BY DEF ProcessReturns, IInv, PlaceInv, PointerInv, After
----------------------------------------------------------------------------
(* Steps.                                                                  *)

\* Only these steps change a task's flags.
FlagStep ==
    \E t \in Tasks :
        \/ Wake(t) \/ Error(t) \/ Abort(t) \/ AbortBusy(t)
        \/ RunDone(t) \/ RunError(t) \/ RunAborted(t) \/ RunBlocked(t)
        \/ \E new \in {"START", "RESPONSE"} : RunState(t, new)
        \/ \E new \in {"DONE", "ERROR"} : RunFinished(t, new)

\* A step changes no flag, or it is one of these.
LEMMA FlagCases ==
  ASSUME [Next]_vars
  PROVE  UNCHANGED <<mState, flags>> \/ FlagStep \/ ChildrenPaused \/ Poll
<1>1. ASSUME NEW t \in Tasks, Called(t) \/ RunStep(t)
      PROVE  UNCHANGED <<mState, flags>> \/ FlagStep
  <2>1. CASE Create(t) \/ Start(t) \/ (\E s \in BOOLEAN : Suspend(t, s)) \/ RunBegin(t)
    BY <2>1 DEF Create, Start, Suspend, RunBegin
  <2> QED BY <1>1, <2>1 DEF Called, RunStep, FlagStep
<1>2. CASE \/ RunTasks \/ NextTask \/ LoopAgain \/ EndTasks \/ RunTasksReturns
           \/ (\E c \in Tasks : DelTask(c)) \/ Tick \/ UNCHANGED vars
  BY <1>2 DEF RunTasks, NextTask, LoopAgain, EndTasks, RunTasksReturns, DelTask, Tick, vars
<1> QED BY <1>1, <1>2 DEF Next

FlagTypes ==
    /\ mState \in [Tasks -> States]
    /\ mBlocked \in [Tasks -> BOOLEAN] /\ mDone \in [Tasks -> BOOLEAN]
    /\ mAborted \in [Tasks -> BOOLEAN] /\ mError \in [Tasks -> BOOLEAN]

FlagsStay == \A u \in Tasks : (mDone[u] => mDone'[u]) /\ (mAborted[u] => mAborted'[u])

\* That a task is done or aborted is never taken back.
LEMMA FlagsKept ==
  ASSUME IInv, [Next]_vars
  PROVE  FlagTypes' /\ FlagsStay
<1>t. FlagTypes /\ mNextTimeoutTask \in Tasks \cup {None}
  BY DEF IInv, TypeOK, FlagTypes
<1>s. States = {"INIT", "START", "RESPONSE", "DONE", "ERROR"}
  BY DEF States
<1>f. ASSUME NEW t \in Live, NEW a \in BOOLEAN, NEW e \in BOOLEAN, Finish(t, a, e),
             mState' \in [Tasks -> States]
      PROVE  FlagTypes' /\ FlagsStay
  BY <1>f, FinishFacts DEF IInv, FlagTypes, FlagsStay, Live
<1>1. CASE UNCHANGED <<mState, flags>>
  BY <1>1, <1>t DEF flags, FlagTypes, FlagsStay
<1>2. CASE ChildrenPaused \/ Poll
  BY <1>2, <1>t DEF ChildrenPaused, Poll, FlagTypes, FlagsStay
<1>3. ASSUME NEW t \in Tasks, Wake(t) \/ Error(t) \/ AbortBusy(t) \/ RunBlocked(t) \/ RunDone(t)
      PROVE  FlagTypes' /\ FlagsStay
  BY <1>3, <1>t DEF Wake, Error, AbortBusy, RunBlocked, RunDone, FlagTypes, FlagsStay
<1>4. ASSUME NEW t \in Tasks, NEW new \in {"START", "RESPONSE"}, RunState(t, new)
      PROVE  FlagTypes' /\ FlagsStay
  BY <1>4, <1>t, <1>s DEF RunState, FlagTypes, FlagsStay
<1>5. ASSUME NEW t \in Tasks, Abort(t)
      PROVE  FlagTypes' /\ FlagsStay
  BY <1>5, <1>t, <1>f DEF Abort, FlagTypes
<1>6. ASSUME NEW t \in Tasks, RunError(t)
      PROVE  FlagTypes' /\ FlagsStay
  <2>1. t \in Live /\ mState' \in [Tasks -> States] /\ Finish(t, FALSE, TRUE)
    BY <1>6, <1>t, <1>s, RunsFacts DEF RunError, FlagTypes
  <2> QED BY <2>1, <1>f
<1>7. ASSUME NEW t \in Tasks, RunAborted(t)
      PROVE  FlagTypes' /\ FlagsStay
  <2>1. t \in Live /\ mState' \in [Tasks -> States] /\ Finish(t, TRUE, FALSE)
    BY <1>7, <1>t, ReturnFacts DEF RunAborted, FlagTypes
  <2> QED BY <2>1, <1>f
<1>8. ASSUME NEW t \in Tasks, NEW new \in {"DONE", "ERROR"}, RunFinished(t, new)
      PROVE  FlagTypes' /\ FlagsStay
  <2>1. t \in Live /\ mState' \in [Tasks -> States]
    BY <1>8, <1>t, <1>s, ReturnFacts DEF RunFinished, FlagTypes
  <2>2. CASE NeedRunAllChildren(t) /\ new = "DONE"
    BY <1>8, <1>t, <2>1, <2>2 DEF RunFinished, FlagTypes, FlagsStay
  <2>3. CASE ~(NeedRunAllChildren(t) /\ new = "DONE")
    <3>1. Finish(t, FALSE, new = "ERROR")
      BY <1>8, <2>3 DEF RunFinished
    <3> QED BY <2>1, <3>1, <1>f
  <2> QED BY <2>2, <2>3
<1> QED BY <1>1, <1>2, <1>3, <1>4, <1>5, <1>6, <1>7, <1>8, FlagCases DEF FlagStep

TimeTypes ==
    /\ mTimeout \in [Tasks -> Nat] /\ mTimeoutSuspended \in [Tasks -> BOOLEAN]
    /\ mNextTimeoutTask \in Tasks \cup {None} /\ now \in Nat

\* The steps that change a timeout or the list.
TimeStep ==
    \/ \E t \in Tasks : \/ Start(t) \/ RunBegin(t)
                        \/ \E s \in BOOLEAN : Suspend(t, s)
                        \/ \E new \in {"START", "RESPONSE"} : RunState(t, new)
                        \/ \E new \in {"DONE", "ERROR"} : RunFinished(t, new)
    \/ EndTasks \/ Tick

\* A step that is not one of time leaves the timing and the tasks of the runner alone.
LEMMA TimeCases ==
  ASSUME [Next]_vars
  PROVE  TimeStep \/ UNCHANGED <<timing, mTasks>>
<1>1. ASSUME NEW t \in Tasks, Called(t) \/ RunStep(t)
      PROVE  TimeStep \/ UNCHANGED <<timing, mTasks>>
  <2>1. CASE \/ Create(t) \/ Wake(t) \/ Error(t) \/ Abort(t) \/ AbortBusy(t)
             \/ RunDone(t) \/ RunError(t) \/ RunAborted(t) \/ RunBlocked(t)
    BY <2>1 DEF Create, Wake, Error, Abort, AbortBusy, RunDone, RunError, RunAborted,
       RunBlocked, lists, timing
  <2> QED BY <1>1, <2>1 DEF Called, RunStep, TimeStep
<1>2. CASE \/ RunTasks \/ NextTask \/ LoopAgain \/ ChildrenPaused \/ RunTasksReturns
           \/ (\E c \in Tasks : DelTask(c)) \/ Poll \/ UNCHANGED vars
  BY <1>2 DEF RunTasks, NextTask, LoopAgain, ChildrenPaused, RunTasksReturns, DelTask, Poll, vars,
     lists, timing
<1> QED BY <1>1, <1>2 DEF Next, TimeStep

\* The timeouts' part: an unfinished task's timeout always has one to wait for.
LEMMA TimesKept ==
  ASSUME IInv, [Next]_vars
  PROVE  TimeTypes' /\ ArmedInv'
<1>a. None \notin Tasks /\ Seconds \in [Tasks -> Nat]
  BY TaskAssumption
<1>t. /\ TimeTypes /\ ArmedInv /\ TypeOK
      /\ mTasks \in Seq(Tasks) /\ RangeOf(mTasks) \subseteq Tasks
  BY DEF IInv, TypeOK, TimeTypes, RangeOf
<1>f. FlagTypes' /\ FlagsStay
  BY FlagsKept
<1>n. ASSUME NEW t \in Tasks, NEW s, NEW b PROVE NewTimeout(t, s, b) \in Nat
  BY <1>a, <1>t DEF NewTimeout, TimeTypes
<1>s. ASSUME NEW t \in Tasks, NEW value \in Nat, SetTimeout(t, value), UNCHANGED <<mTasks, now>>,
             mTimeoutSuspended' \in [Tasks -> BOOLEAN]
      PROVE  TimeTypes' /\ ArmedInv'
  <2>1. /\ mTimeout' \in [Tasks -> Nat] /\ mNextTimeoutTask' \in Tasks \cup {None}
        /\ mNextTimeoutTask' # None => mTimeout'[mNextTimeoutTask'] # 0
        /\ mNextTimeoutTask' = None =>
               \A u \in RangeOf(mTasks) : mDone[u] \/ mTimeout'[u] = 0
    BY <1>s, <1>t, SetTimeoutFacts
  <2>2. TimeTypes'
    BY <1>s, <1>t, <2>1 DEF TimeTypes
  <2>3. ArmedInv'
    BY <1>s, <1>t, <1>f, <2>1 DEF ArmedInv, FlagsStay, RangeOf
  <2> QED BY <2>2, <2>3
<1>1. CASE UNCHANGED <<timing, mTasks>>
  BY <1>1, <1>t, <1>f DEF timing, TimeTypes, ArmedInv, FlagsStay, RangeOf
<1>2. ASSUME NEW t \in Tasks, Start(t) PROVE TimeTypes' /\ ArmedInv'
  <2>1. UNCHANGED <<mTimeout, mTimeoutSuspended, now, mDone>>
    BY <1>2 DEF Start, flags
  <2>2. /\ mNextTimeoutTask' \in Tasks \cup {None}
        /\ mNextTimeoutTask' # None => mTimeout[mNextTimeoutTask'] # 0
        /\ mNextTimeoutTask' = None =>
              \A u \in RangeOf(mTasks)' : mDone[u] \/ mTimeout[u] = 0
    BY <1>2, <1>t, StartFacts
  <2> QED BY <2>1, <2>2, <1>t DEF TimeTypes, ArmedInv
<1>3. ASSUME NEW t \in Tasks, RunBegin(t) PROVE TimeTypes' /\ ArmedInv'
  <2>1. CASE TimedOut(t)
    BY <1>3, <2>1, <1>s, <1>t DEF RunBegin, TimeTypes, lists
  <2>2. CASE ~TimedOut(t)
    BY <1>3, <2>2, <1>1 DEF RunBegin, timing, lists
  <2> QED BY <2>1, <2>2
<1>4. ASSUME NEW t \in Tasks, NEW s \in BOOLEAN, Suspend(t, s) PROVE TimeTypes' /\ ArmedInv'
  <2>1. mTimeoutSuspended' \in [Tasks -> BOOLEAN]
    BY <1>4, <1>t DEF Suspend, TimeTypes
  <2> QED BY <1>4, <2>1, <1>s, <1>n DEF Suspend, lists
<1>5. ASSUME NEW t \in Tasks, NEW new \in {"START", "RESPONSE"}, RunState(t, new)
      PROVE  TimeTypes' /\ ArmedInv'
  BY <1>5, <1>s, <1>n, <1>t DEF RunState, TimeTypes, lists
<1>6. ASSUME NEW t \in Tasks, NEW new \in {"DONE", "ERROR"}, RunFinished(t, new)
      PROVE  TimeTypes' /\ ArmedInv'
  BY <1>6, <1>s, <1>t DEF RunFinished, TimeTypes
<1>7. CASE EndTasks
  <2>1. PICK s \in Kept : mTasks' = s
    BY <1>7 DEF EndTasks
  <2>2. s \in Seq(Tasks) /\ RangeOf(s) \subseteq RangeOf(mTasks)
    BY <1>t, KeptFacts
  <2>3. /\ mNextTimeoutTask' = NextAfterEnd(s)
        /\ UNCHANGED <<mDone, mTimeout, mTimeoutSuspended, now>>
    BY <1>7, <2>1 DEF EndTasks, flags
  <2>4. CASE mNextTimeoutTask \in Ended
    <3> DEFINE with == {i \in 1 .. Len(s) :
                           mTimeout[s[i]] > 0 /\ ~mDone[s[i]] /\ s[i] # None}
    <3>1. mNextTimeoutTask' = Recalc(s, mTimeout, mDone, None)
      BY <2>3, <2>4 DEF NextAfterEnd
    <3>2. \/ with = {} /\ mNextTimeoutTask' = None
          \/ with # {} /\ \E i \in with : mNextTimeoutTask' = s[i]
      <4>1. mTimeout \in [Tasks -> Nat]
        BY <1>t DEF TimeTypes
      <4> QED BY <3>1, <2>2, <4>1, RecalcFacts
    <3>3. CASE with = {} /\ mNextTimeoutTask' = None
      <4>1. ASSUME NEW u \in RangeOf(s) PROVE mDone[u] \/ mTimeout[u] = 0
        <5>1. PICK i \in 1 .. Len(s) : u = s[i]
          BY DEF RangeOf
        <5>2. s[i] \in Tasks /\ s[i] # None
          BY <2>2, <1>a
        <5>3. mTimeout[s[i]] \in Nat
          BY <5>2, <1>t DEF TimeTypes
        <5>4. i \notin with
          BY <3>3
        <5> QED BY <5>1, <5>2, <5>3, <5>4
      <4> QED BY <2>1, <2>3, <3>3, <4>1, <1>t DEF TimeTypes, ArmedInv, RangeOf
    <3>4. CASE with # {} /\ \E i \in with : mNextTimeoutTask' = s[i]
      <4>1. PICK i \in with : mNextTimeoutTask' = s[i]
        BY <3>4
      <4>2. s[i] \in Tasks /\ mTimeout[s[i]] # 0
        BY <2>2
      <4> QED BY <2>3, <4>1, <4>2, <1>a, <1>t DEF TimeTypes, ArmedInv
    <3> QED BY <3>2, <3>3, <3>4
  <2>5. CASE mNextTimeoutTask \notin Ended
    <3>1. mNextTimeoutTask' = mNextTimeoutTask
      BY <2>3, <2>5 DEF NextAfterEnd
    <3>2. TimeTypes'
      BY <2>3, <3>1, <1>t DEF TimeTypes
    <3>3. RangeOf(mTasks)' \subseteq RangeOf(mTasks)
      BY <2>1, <2>2 DEF RangeOf
    <3>4. ArmedInv'
      BY <2>3, <3>1, <3>3, <1>t DEF ArmedInv
    <3> QED BY <3>2, <3>4
  <2> QED BY <2>4, <2>5
<1>8. CASE Tick
  BY <1>8, <1>t DEF Tick, TimeTypes, ArmedInv, flags, lists, RangeOf
<1> QED BY <1>1, <1>2, <1>3, <1>4, <1>5, <1>6, <1>7, <1>8, TimeCases DEF TimeStep

ListTypes ==
    /\ life \in [Tasks -> {"none", "live", "deleted"}]
    /\ mTasks \in Seq(Tasks)
    /\ \A i, j \in 1 .. Len(mTasks) : mTasks[i] = mTasks[j] => i = j
    /\ mDelTasks \subseteq Tasks

\* The lists' part: the runner points to live tasks.
LEMMA ListsKept ==
  ASSUME IInv, [Next]_vars
  PROVE  ListTypes' /\ PointerInv'
<1>t. /\ ListTypes /\ PointerInv /\ FlagTypes
      /\ RangeOf(mTasks) \subseteq Tasks /\ Live \subseteq Tasks
  BY DEF IInv, TypeOK, ListTypes, FlagTypes, RangeOf, Live
<1>f. FlagTypes' /\ FlagsStay
  BY FlagsKept
<1>k. ASSUME NEW t \in Live, UNCHANGED <<life, mTasks, runtask>>,
             \A u \in Tasks : u # t => mState'[u] = mState[u],
             mState'[t] = mState[t] \/ IsChild2(t) \/ t \in RangeOf(mTasks),
             \A c \in mDelTasks' : c \in mDelTasks \/ (c \in Live /\ IsChild2(c) /\ mDone'[c])
      PROVE  ListTypes' /\ PointerInv'
  <2>1. ListTypes'
    BY <1>k, <1>t DEF ListTypes
  <2>2. Live' = Live /\ RangeOf(mTasks)' = RangeOf(mTasks) /\ RangeOf(runtask)' = RangeOf(runtask)
    BY <1>k DEF Live, RangeOf
  <2>3. \A c \in mDelTasks' : c \in Live /\ IsChild2(c) /\ mDone'[c]
    BY <1>k, <1>t, <1>f DEF PointerInv, FlagsStay
  <2>4. \A u \in Live : mState'[u] # "INIT" => IsChild2(u) \/ u \in RangeOf(mTasks)
    BY <1>k, <1>t DEF PointerInv
  <2>5. \A u \in Tasks : life'[u] = "none" => mState'[u] = "INIT"
    BY <1>k, <1>t DEF PointerInv, Live
  <2>6. PointerInv'
    BY <2>2, <2>3, <2>4, <2>5, <1>t DEF PointerInv, IsChild2
  <2> QED BY <2>1, <2>6
<1>q. ASSUME UNCHANGED <<lists, mState>>, RangeOf(runtask)' \subseteq RangeOf(mTasks)
      PROVE  ListTypes' /\ PointerInv'
  <2>1. ListTypes'
    BY <1>q, <1>t DEF ListTypes, lists
  <2>2. Live' = Live /\ RangeOf(mTasks)' = RangeOf(mTasks)
    BY <1>q DEF Live, RangeOf, lists
  <2>3. PointerInv'
    BY <1>q, <1>t, <1>f, <2>2 DEF PointerInv, FlagsStay, lists, IsChild2
  <2> QED BY <2>1, <2>3
<1>r. ASSUME UNCHANGED runtask PROVE RangeOf(runtask)' \subseteq RangeOf(mTasks)
  BY <1>r, <1>t DEF PointerInv, RangeOf
<1>1. ASSUME NEW t \in Tasks,
             \/ Wake(t) \/ Error(t) \/ AbortBusy(t) \/ (\E s \in BOOLEAN : Suspend(t, s))
             \/ RunDone(t) \/ RunBegin(t) \/ RunBlocked(t)
      PROVE  ListTypes' /\ PointerInv'
  <2>1. UNCHANGED <<lists, mState, runtask>>
    BY <1>1 DEF Wake, Error, AbortBusy, Suspend, RunDone, RunBegin, RunBlocked, ProcessReturns,
       running
  <2> QED BY <2>1, <1>q, <1>r
<1>2. CASE NextTask \/ LoopAgain \/ ChildrenPaused \/ Poll \/ Tick \/ UNCHANGED vars
  <2>1. UNCHANGED <<lists, mState, runtask>>
    BY <1>2 DEF NextTask, LoopAgain, ChildrenPaused, Poll, Tick, running, vars
  <2> QED BY <2>1, <1>q, <1>r
<1>3. CASE RunTasks
  <2>1. UNCHANGED <<lists, mState>> /\ runtask' = mTasks
    BY <1>3 DEF RunTasks
  <2> QED BY <2>1, <1>q DEF RangeOf
<1>4. ASSUME NEW t \in Tasks, Create(t) PROVE ListTypes' /\ PointerInv'
  <2>1. /\ life' = [life EXCEPT ![t] = "live"] /\ life[t] = "none"
        /\ UNCHANGED <<mState, mDone, mTasks, mDelTasks, runtask>>
    BY <1>4 DEF Create, flags, running
  <2>2. Live' = Live \cup {t} /\ mState[t] = "INIT"
    BY <2>1, <1>t DEF Live, ListTypes, PointerInv
  <2>3. ListTypes'
    BY <2>1, <1>t DEF ListTypes
  <2>4. \A u \in Tasks : life'[u] = "none" => mState[u] = "INIT"
    BY <2>1, <1>t DEF ListTypes, PointerInv
  <2>5. PointerInv'
    BY <2>1, <2>2, <2>4, <1>t DEF PointerInv, IsChild2, RangeOf
  <2> QED BY <2>3, <2>5
<1>5. ASSUME NEW t \in Tasks, Start(t) PROVE ListTypes' /\ PointerInv'
  <2>1. /\ mTasks' = Append(mTasks, t) /\ t \in Live /\ ~IsChild2(t) /\ t \notin RangeOf(mTasks)
        /\ UNCHANGED <<life, mState, mDone, mDelTasks, runtask>>
    BY <1>5 DEF Start, flags, running
  <2>2. RangeOf(mTasks)' = RangeOf(mTasks) \cup {t}
    BY <2>1, <1>t DEF RangeOf, ListTypes
  <2>3. ListTypes'
    BY <2>1, <1>t DEF ListTypes, RangeOf
  <2>4. Live' = Live /\ RangeOf(runtask)' = RangeOf(runtask)
    BY <2>1 DEF Live, RangeOf
  <2>5. PointerInv'
    BY <2>1, <2>2, <2>4, <1>t DEF PointerInv, IsChild2
  <2> QED BY <2>3, <2>5
<1>6. ASSUME NEW t \in Tasks, Abort(t) PROVE ListTypes' /\ PointerInv'
  <2>1. t \in Live /\ Finish(t, TRUE, TRUE) /\ UNCHANGED <<life, mTasks, runtask, mState>>
    BY <1>6 DEF Abort, running
  <2>2. \A c \in mDelTasks' : c \in mDelTasks \/ (c \in Live /\ IsChild2(c) /\ mDone'[c])
    BY <2>1, FinishFacts DEF IInv
  <2> QED BY <2>1, <2>2, <1>k
<1>7. ASSUME NEW t \in Tasks, RunError(t) PROVE ListTypes' /\ PointerInv'
  <2>1. /\ Finish(t, FALSE, TRUE) /\ UNCHANGED <<life, mTasks, runtask>>
        /\ mState' = [mState EXCEPT ![t] = "ERROR"]
    BY <1>7 DEF RunError
  <2>2. t \in Live /\ (IsChild2(t) \/ t \in RangeOf(mTasks))
    BY <1>7, RunsFacts DEF RunError
  <2>3. \A c \in mDelTasks' : c \in mDelTasks \/ (c \in Live /\ IsChild2(c) /\ mDone'[c])
    BY <2>1, <2>2, FinishFacts DEF IInv
  <2> QED BY <2>1, <2>2, <2>3, <1>k, <1>t DEF FlagTypes
<1>8. ASSUME NEW t \in Tasks, RunAborted(t) PROVE ListTypes' /\ PointerInv'
  <2>1. Finish(t, TRUE, FALSE) /\ UNCHANGED <<life, mTasks, runtask, mState>> /\ t \in Live
    BY <1>8, ReturnFacts DEF RunAborted
  <2>2. \A c \in mDelTasks' : c \in mDelTasks \/ (c \in Live /\ IsChild2(c) /\ mDone'[c])
    BY <2>1, FinishFacts DEF IInv
  <2> QED BY <2>1, <2>2, <1>k
<1>9. ASSUME NEW t \in Tasks, NEW new \in {"START", "RESPONSE"}, RunState(t, new)
      PROVE  ListTypes' /\ PointerInv'
  <2>1. t \in Live /\ (IsChild2(t) \/ t \in RangeOf(mTasks)) /\ UNCHANGED runtask
    BY <1>9, ReturnFacts DEF RunState
  <2>2. UNCHANGED <<life, mTasks, mDelTasks>> /\ mState' = [mState EXCEPT ![t] = new]
    BY <1>9 DEF RunState, lists
  <2> QED BY <2>1, <2>2, <1>k, <1>t DEF FlagTypes
<1>10. ASSUME NEW t \in Tasks, NEW new \in {"DONE", "ERROR"}, RunFinished(t, new)
       PROVE  ListTypes' /\ PointerInv'
  <2>1. t \in Live /\ (IsChild2(t) \/ t \in RangeOf(mTasks)) /\ UNCHANGED runtask
    BY <1>10, ReturnFacts DEF RunFinished
  <2>2. /\ UNCHANGED <<life, mTasks>> /\ mState' = [mState EXCEPT ![t] = new]
        /\ UNCHANGED mDelTasks \/ Finish(t, FALSE, new = "ERROR")
    BY <1>10 DEF RunFinished
  <2>3. \A c \in mDelTasks' : c \in mDelTasks \/ (c \in Live /\ IsChild2(c) /\ mDone'[c])
    BY <2>1, <2>2, FinishFacts DEF IInv
  <2> QED BY <2>1, <2>2, <2>3, <1>k, <1>t DEF FlagTypes
<1>11. CASE EndTasks
  <2>1. /\ mTasks' \in Kept /\ runtask' = <<>>
        /\ life' = [t \in Tasks |-> IF t \in Ended THEN "deleted" ELSE life[t]]
        /\ UNCHANGED <<mState, mDone, mDelTasks>>
    BY <1>11 DEF EndTasks, flags
  <2>2. /\ mTasks' \in Seq(Tasks)
        /\ RangeOf(mTasks') = RangeOf(mTasks) \ Ended
        /\ \A i, j \in 1 .. Len(mTasks') : mTasks'[i] = mTasks'[j] => i = j
    BY <2>1, KeptFacts DEF IInv
  <2>3. ListTypes'
    BY <2>1, <2>2, <1>t DEF ListTypes
  <2>4. Live' = Live \ Ended /\ \A t \in Ended : ~IsChild2(t)
    BY <2>1, <1>t DEF Live, Ended, PointerInv
  <2>5. RangeOf(mTasks)' = RangeOf(mTasks) \ Ended /\ RangeOf(runtask)' = {}
    BY <2>1, <2>2 DEF RangeOf
  <2>6. \A t \in Tasks : life'[t] = "none" => mState[t] = "INIT"
    BY <2>1, <1>t DEF PointerInv
  <2>7. PointerInv'
    BY <2>1, <2>4, <2>5, <2>6, <1>t DEF PointerInv, IsChild2
  <2> QED BY <2>3, <2>7
<1>12. ASSUME NEW t \in Tasks, Called(t) \/ RunStep(t) PROVE ListTypes' /\ PointerInv'
  BY <1>12, <1>1, <1>4, <1>5, <1>6, <1>7, <1>8, <1>9, <1>10 DEF Called, RunStep
<1>13. ASSUME NEW c \in Tasks, DelTask(c) PROVE ListTypes' /\ PointerInv'
  <2>1. /\ life' = [life EXCEPT ![c] = "deleted"] /\ c \in mDelTasks
        /\ mDelTasks' = mDelTasks \ {c}
        /\ UNCHANGED <<mState, mDone, mTasks, runtask>>
    BY <1>13 DEF DelTask, flags, running
  <2>2. Live' = Live \ {c} /\ IsChild2(c)
    BY <2>1, <1>t DEF Live, ListTypes, PointerInv
  <2>3. ListTypes'
    BY <2>1, <1>t DEF ListTypes
  <2>4. RangeOf(mTasks)' = RangeOf(mTasks) /\ RangeOf(runtask)' = RangeOf(runtask)
    BY <2>1 DEF RangeOf
  <2>5. \A t \in Tasks : life'[t] = "none" => mState[t] = "INIT"
    BY <2>1, <1>t DEF ListTypes, PointerInv
  <2>6. PointerInv'
    BY <2>1, <2>2, <2>4, <2>5, <1>t DEF PointerInv, IsChild2
  <2> QED BY <2>3, <2>6
<1>14. CASE RunTasksReturns
  <2>1. UNCHANGED <<lists, mState, runtask>>
    BY <1>14 DEF RunTasksReturns
  <2> QED BY <2>1, <1>q, <1>r
<1> QED BY <1>2, <1>3, <1>11, <1>12, <1>13, <1>14 DEF Next

RunTypes ==
    /\ pending \in BOOLEAN
    /\ rpc \in {"idle", "tasks", "children", "process", "delete"}
    /\ runtask \in Seq(Tasks) /\ it \in 1 .. Len(runtask) + 1 /\ did \in BOOLEAN
    /\ mBusy \in Tasks \cup {None} /\ (mBusy # None <=> rpc = "process")
    /\ timedOut \in BOOLEAN

\* Where the loop of runTasks is, and whose process runs.
LEMMA PlaceKept ==
  ASSUME IInv, [Next]_vars
  PROVE  RunTypes' /\ PlaceInv'
<1>a. None \notin Tasks
  BY TaskAssumption
<1>t. RunTypes /\ PlaceInv /\ mTasks \in Seq(Tasks) /\ life \in [Tasks -> {"none", "live", "deleted"}]
      /\ Live \subseteq Tasks /\ FlagTypes
  BY DEF IInv, TypeOK, RunTypes, Live, FlagTypes
<1>k. ASSUME UNCHANGED running, pending' \in BOOLEAN, Live \subseteq Live'
      PROVE  RunTypes' /\ PlaceInv'
  BY <1>k, <1>t DEF running, RunTypes, PlaceInv, RangeOf, IsChild2
<1>l. UNCHANGED life => Live \subseteq Live'
  BY DEF Live
<1>1. ASSUME NEW t \in Tasks,
             \/ Wake(t) \/ Error(t) \/ Abort(t) \/ AbortBusy(t) \/ Start(t)
             \/ \E s \in BOOLEAN : Suspend(t, s)
      PROVE  RunTypes' /\ PlaceInv'
  <2>1. UNCHANGED <<running, life>>
    BY <1>1 DEF Wake, Error, Abort, AbortBusy, Start, Suspend, lists
  <2>2. pending' \in BOOLEAN
    BY <1>1, <1>t DEF Wake, Error, Abort, AbortBusy, Start, Suspend, RunTypes, FlagTypes
  <2> QED BY <2>1, <2>2, <1>k, <1>l
<1>2. ASSUME NEW t \in Tasks, Create(t) PROVE RunTypes' /\ PlaceInv'
  <2>1. UNCHANGED <<running, pending>> /\ Live \subseteq Live'
    BY <1>2, <1>t DEF Create, Live
  <2> QED BY <2>1, <1>k, <1>t DEF RunTypes
<1>3. CASE Poll \/ Tick \/ UNCHANGED vars
  <2>1. UNCHANGED <<running, life>> /\ pending' \in BOOLEAN
    BY <1>3, <1>t DEF Poll, Tick, vars, lists, RunTypes
  <2> QED BY <2>1, <1>k, <1>l
<1>4. CASE RunTasks \/ NextTask \/ LoopAgain \/ ChildrenPaused
  <2>1. RunTypes'
    <3>1. CASE RunTasks
      <4>1. /\ rpc = "idle" /\ rpc' = "tasks" /\ runtask' = mTasks /\ it' = 1 /\ did' = FALSE
            /\ pending' \in BOOLEAN /\ UNCHANGED <<mBusy, timedOut>>
        BY <3>1 DEF RunTasks
      <4>2. 1 \in 1 .. Len(mTasks) + 1
        BY <1>t
      <4>3. mBusy = None
        BY <4>1, <1>t DEF RunTypes
      <4> QED BY <4>1, <4>2, <4>3, <1>t DEF RunTypes
    <3>2. CASE NextTask
      <4>1. it' = it + 1 /\ it \in 1 .. Len(runtask) /\ UNCHANGED <<pending, rpc, runtask, did, mBusy, timedOut>>
        BY <3>2, <1>t DEF NextTask, AtTask, RunTypes
      <4> QED BY <4>1, <1>t DEF RunTypes
    <3>3. CASE LoopAgain
      <4>1. /\ it' = 1 /\ did' = FALSE
            /\ UNCHANGED <<pending, rpc, runtask, mBusy, timedOut>>
        BY <3>3 DEF LoopAgain
      <4>2. 1 \in 1 .. Len(runtask) + 1
        BY <1>t DEF RunTypes
      <4> QED BY <4>1, <4>2, <1>t DEF RunTypes
    <3>4. CASE ChildrenPaused
      BY <3>4, <1>t DEF ChildrenPaused, RunTypes
    <3> QED BY <1>4, <3>1, <3>2, <3>3, <3>4
  <2>2. PlaceInv'
    BY <1>4, <1>t DEF RunTasks, NextTask, LoopAgain, ChildrenPaused, PlaceInv, AtTask, RunTypes
  <2> QED BY <2>1, <2>2
<1>5. CASE EndTasks \/ RunTasksReturns
  <2>1. CASE EndTasks
    BY <2>1, <1>t DEF EndTasks, RunTypes, PlaceInv
  <2>2. CASE RunTasksReturns
    BY <2>2, <1>t DEF RunTasksReturns, RunTypes, PlaceInv
  <2> QED BY <1>5, <2>1, <2>2
<1>9. ASSUME NEW c \in Tasks, DelTask(c) PROVE RunTypes' /\ PlaceInv'
  <2>1. UNCHANGED <<running, pending>> /\ rpc = "delete"
    BY <1>9 DEF DelTask
  <2> QED BY <2>1, <1>t DEF running, RunTypes, PlaceInv
<1>6. ASSUME NEW t \in Tasks, RunDone(t) \/ RunError(t) \/ RunBegin(t)
      PROVE  RunTypes' /\ PlaceInv'
  <2>1. /\ t \in Live /\ rpc \in {"tasks", "children"} /\ it \in 1 .. Len(runtask)
        /\ (~IsChild2(t) => t = Current) /\ Current \in RangeOf(runtask)
    BY <1>6, RunsFacts DEF RunDone, RunError, RunBegin
  <2>2. did' = TRUE /\ UNCHANGED <<runtask, it, life, pending>>
    BY <1>6 DEF RunDone, RunError, RunBegin, lists
  <2>3. Live' = Live /\ RangeOf(runtask)' = RangeOf(runtask)
    BY <2>2 DEF Live, RangeOf
  <2>4. CASE RunDone(t) \/ RunError(t)
    <3>1. rpc' \in {"tasks", "children"} /\ UNCHANGED <<mBusy, timedOut>>
      BY <2>4 DEF RunDone, RunError, After
    <3>2. mBusy = None
      BY <2>1, <1>t DEF RunTypes
    <3> QED BY <2>1, <2>2, <3>1, <3>2, <1>t DEF RunTypes, PlaceInv
  <2>5. CASE RunBegin(t)
    <3>1. rpc' = "process" /\ mBusy' = t /\ timedOut' = TimedOut(t)
      BY <2>5 DEF RunBegin
    <3>2. timedOut' \in BOOLEAN
      BY <3>1 DEF TimedOut
    <3>3. RunTypes'
      BY <2>1, <2>2, <3>1, <3>2, <1>a, <1>t DEF RunTypes
    <3>4. PlaceInv'
      BY <2>1, <2>2, <2>3, <3>1, <1>t DEF PlaceInv, RunTypes, IsChild2
    <3> QED BY <3>3, <3>4
  <2> QED BY <1>6, <2>4, <2>5
<1>7. ASSUME NEW t \in Tasks, ProcessReturns(t), pending' \in BOOLEAN
      PROVE  RunTypes' /\ PlaceInv'
  <2>1. /\ rpc' = (IF IsChild2(t) THEN "children" ELSE "tasks") /\ mBusy' = None /\ did
        /\ UNCHANGED <<runtask, it, did>>
        /\ IsChild2(t) => it <= Len(runtask)
    BY <1>7, ReturnFacts
  <2>2. timedOut' = FALSE
    BY <1>7 DEF ProcessReturns
  <2> QED BY <2>1, <2>2, <1>7, <1>t DEF RunTypes, PlaceInv
<1>8. ASSUME NEW t \in Tasks,
             \/ RunAborted(t) \/ RunBlocked(t)
             \/ \E new \in {"START", "RESPONSE"} : RunState(t, new)
             \/ \E new \in {"DONE", "ERROR"} : RunFinished(t, new)
      PROVE  RunTypes' /\ PlaceInv'
  <2>1. ProcessReturns(t) /\ pending' \in BOOLEAN
    BY <1>8, <1>t DEF RunAborted, RunBlocked, RunState, RunFinished, RunTypes
  <2> QED BY <2>1, <1>7
<1> QED BY <1>1, <1>2, <1>3, <1>4, <1>5, <1>6, <1>8, <1>9 DEF Next, Called, RunStep

\* Children and their parents.
LEMMA FamilyKept ==
  ASSUME IInv, [Next]_vars
  PROVE  FamilyInv'
<1>a. \A t \in Tasks : IsChild2(t) => Parent[t] \in Tasks /\ ~IsChild2(Parent[t])
  BY TaskAssumption DEF IsChild2
<1>t. /\ FamilyInv /\ PointerInv /\ FlagTypes /\ Live \subseteq Tasks
      /\ life \in [Tasks -> {"none", "live", "deleted"}] /\ mDelTasks \subseteq Tasks
  BY DEF IInv, TypeOK, FlagTypes, Live
\* The step leaves the objects as they are, and to delete what is to be deleted.
<1>k. ASSUME UNCHANGED life, rpc = "delete" => rpc' = "delete" \/ mDelTasks = {},
             mDelTasks \subseteq mDelTasks',
             \A t \in Tasks : mDone'[t] => mDone[t] \/ (t \in Live /\ (IsChild2(t) => t \in mDelTasks'))
      PROVE  FamilyInv'
  <2>1. Live' = Live
    BY <1>k DEF Live
  <2>2. \A t \in Tasks : mDone'[t] => life'[t] # "none"
    BY <1>k, <1>t DEF FamilyInv, Live
  <2>3. \A t \in Live : IsChild2(t) /\ mDone'[t] => t \in mDelTasks'
    BY <1>k, <1>t DEF FamilyInv
  <2>4. \A t \in Live : IsChild2(t) /\ Parent[t] \notin Live => rpc' = "delete" /\ t \in mDelTasks'
    BY <1>k, <1>t DEF FamilyInv
  <2> QED BY <2>1, <2>2, <2>3, <2>4 DEF FamilyInv, IsChild2
<1>f. ASSUME NEW t \in Live, NEW a \in BOOLEAN, NEW e \in BOOLEAN, Finish(t, a, e), UNCHANGED life,
             rpc # "delete"
      PROVE  FamilyInv'
  <2> DEFINE kids    == {c \in Children(t) : ~mAborted[c] /\ ~mDone[c]}
             stopped == {t} \cup (kids \ {mBusy})
  <2>1. /\ mDone' = [c \in Tasks |-> mDone[c] \/ c \in stopped]
        /\ mDelTasks' = mDelTasks \cup {c \in stopped : IsChild2(c)}
    BY <1>f DEF Finish
  <2>2. stopped \subseteq Live
    BY DEF Children
  <2> HIDE DEF stopped
  <2> QED BY <2>1, <2>2, <1>f, <1>k, <1>t
<1>2. ASSUME NEW t \in Tasks,
             \/ Start(t) \/ (\E s \in BOOLEAN : Suspend(t, s)) \/ Wake(t) \/ Error(t)
             \/ AbortBusy(t) \/ RunDone(t) \/ RunBegin(t) \/ RunBlocked(t)
             \/ \E new \in {"START", "RESPONSE"} : RunState(t, new)
      PROVE  FamilyInv'
  <2>1. UNCHANGED <<mDone, life, mDelTasks>>
    BY <1>2 DEF Start, Suspend, Wake, Error, AbortBusy, RunDone, RunBegin, RunBlocked, RunState,
       flags, lists
  <2>2. rpc = "delete" => rpc' = "delete"
    BY <1>2 DEF Start, Suspend, Wake, Error, AbortBusy, RunDone, RunBegin, RunBlocked, RunState,
       MayCall, ProcessReturns, Runs, AtTask, running
  <2> QED BY <2>1, <2>2, <1>k
<1>3. ASSUME NEW t \in Tasks, Create(t) PROVE FamilyInv'
  <2>1. /\ life' = [life EXCEPT ![t] = "live"] /\ life[t] = "none" /\ rpc # "delete"
        /\ IsChild2(t) => Parent[t] \in Live
        /\ UNCHANGED <<mDone, mDelTasks>>
    BY <1>3 DEF Create, flags, MayCall
  <2>2. Live' = Live \cup {t} /\ ~mDone[t]
    BY <2>1, <1>t DEF Live, FamilyInv
  <2> QED BY <2>1, <2>2, <1>t DEF FamilyInv, IsChild2
<1>4. ASSUME NEW t \in Tasks, Abort(t) PROVE FamilyInv'
  <2>1. t \in Live /\ Finish(t, TRUE, TRUE) /\ UNCHANGED life /\ rpc # "delete"
    BY <1>4 DEF Abort, MayCall
  <2> QED BY <2>1, <1>f
<1>5. ASSUME NEW t \in Tasks, RunError(t) PROVE FamilyInv'
  <2>1. t \in Live /\ rpc # "delete"
    BY <1>5, RunsFacts DEF RunError
  <2>2. Finish(t, FALSE, TRUE) /\ UNCHANGED life
    BY <1>5 DEF RunError
  <2> QED BY <2>1, <2>2, <1>f
<1>6. ASSUME NEW t \in Tasks, RunAborted(t) PROVE FamilyInv'
  <2>1. t \in Live /\ rpc # "delete" /\ Finish(t, TRUE, FALSE) /\ UNCHANGED life
    BY <1>6, ReturnFacts DEF RunAborted
  <2> QED BY <2>1, <1>f
<1>7. ASSUME NEW t \in Tasks, NEW new \in {"DONE", "ERROR"}, RunFinished(t, new) PROVE FamilyInv'
  <2>1. t \in Live /\ rpc # "delete" /\ UNCHANGED life
    BY <1>7, ReturnFacts DEF RunFinished
  <2>2. CASE NeedRunAllChildren(t) /\ new = "DONE"
    <3>1. mDone' = [mDone EXCEPT ![t] = TRUE] /\ UNCHANGED mDelTasks
      BY <1>7, <2>2 DEF RunFinished
    <3>2. PICK c \in Live : Parent[c] = t
      BY <2>2 DEF NeedRunAllChildren, Children
    <3>3. ~IsChild2(t)
      BY <3>2, <1>t, TaskAssumption DEF IsChild2
    <3> QED BY <2>1, <3>1, <3>3, <1>k, <1>t DEF FlagTypes
  <2>3. CASE ~(NeedRunAllChildren(t) /\ new = "DONE")
    <3>1. Finish(t, FALSE, new = "ERROR")
      BY <1>7, <2>3 DEF RunFinished
    <3> QED BY <2>1, <3>1, <1>f
  <2> QED BY <2>2, <2>3
<1>8. CASE \/ RunTasks \/ NextTask \/ LoopAgain \/ RunTasksReturns
           \/ ChildrenPaused \/ Poll \/ Tick \/ UNCHANGED vars
  <2>1. UNCHANGED <<mDone, life, mDelTasks>>
    BY <1>8 DEF RunTasks, NextTask, LoopAgain, RunTasksReturns, ChildrenPaused, Poll, Tick, vars,
       flags, lists
  <2>2. rpc = "delete" => rpc' = "delete" \/ mDelTasks = {}
    BY <1>8 DEF RunTasks, NextTask, LoopAgain, RunTasksReturns, ChildrenPaused, Poll, Tick, vars,
       AtTask, running
  <2> QED BY <2>1, <2>2, <1>k
<1>9. CASE EndTasks
  <2>1. /\ life' = [t \in Tasks |-> IF t \in Ended THEN "deleted" ELSE life[t]]
        /\ rpc' = "delete" /\ rpc # "delete" /\ UNCHANGED <<mDone, mDelTasks>>
    BY <1>9 DEF EndTasks, flags
  <2>2. Live' = Live \ Ended
    BY <2>1, <1>t DEF Live
  <2>3. ASSUME NEW t \in Live', IsChild2(t), Parent[t] \notin Live' PROVE t \in mDelTasks
    <3>1. t \in Live /\ Parent[t] \in Live
      BY <2>1, <2>2, <2>3, <1>t DEF FamilyInv
    <3>2. Parent[t] \in Ended /\ t \in Children(Parent[t])
      BY <2>2, <2>3, <3>1 DEF Children
    <3> QED BY <2>3, <3>1, <3>2, <1>t DEF Ended, FamilyInv
  <2> QED BY <2>1, <2>2, <2>3, <1>t DEF FamilyInv, IsChild2
<1>10. ASSUME NEW c \in Tasks, DelTask(c) PROVE FamilyInv'
  <2>1. /\ life' = [life EXCEPT ![c] = "deleted"] /\ c \in mDelTasks /\ rpc = "delete"
        /\ mDelTasks' = mDelTasks \ {c} /\ UNCHANGED <<mDone, rpc>>
    BY <1>10 DEF DelTask, flags, running
  <2>2. Live' = Live \ {c} /\ IsChild2(c)
    BY <2>1, <1>t DEF Live, PointerInv
  <2>3. \A t \in Live' : IsChild2(t) => Parent[t] # c
    BY <2>2, <1>a, <1>t
  <2> QED BY <2>1, <2>2, <2>3, <1>t DEF FamilyInv, IsChild2
<1> QED BY <1>2, <1>3, <1>4, <1>5, <1>6, <1>7, <1>8, <1>9, <1>10 DEF Next, Called, RunStep

\* An aborted task is done, unless its process is still to return.
LEMMA AbortKept ==
  ASSUME IInv, [Next]_vars
  PROVE  AbortInv'
<1>t. FlagTypes /\ AbortInv /\ RunTypes /\ Live \subseteq Tasks
  BY DEF IInv, TypeOK, FlagTypes, RunTypes, Live
<1>k. ASSUME UNCHANGED <<mAborted, mDone, mBusy>> PROVE AbortInv'
  BY <1>k, <1>t DEF AbortInv
<1>f. ASSUME NEW t \in Live, NEW a \in BOOLEAN, NEW e \in BOOLEAN, Finish(t, a, e),
             mBusy' = mBusy \/ mBusy = t
      PROVE  AbortInv'
  <2>1. /\ mDone'[t]
        /\ \A c \in Tasks : /\ mDone[c] => mDone'[c]
                            /\ mAborted'[c] => mAborted[c] \/ c = t \/ c = mBusy \/ mDone'[c]
    BY <1>f, FinishFacts DEF IInv
  <2> QED BY <2>1, <1>f, <1>t DEF AbortInv
<1>1. ASSUME NEW t \in Tasks,
             \/ Create(t) \/ Start(t) \/ Wake(t) \/ Error(t) \/ RunDone(t)
             \/ \E s \in BOOLEAN : Suspend(t, s)
      PROVE  AbortInv'
  BY <1>1, <1>k DEF Create, Start, Wake, Error, RunDone, Suspend, flags, running
<1>2. CASE \/ RunTasks \/ NextTask \/ LoopAgain \/ ChildrenPaused \/ EndTasks
           \/ RunTasksReturns \/ (\E c \in Tasks : DelTask(c)) \/ Poll \/ Tick \/ UNCHANGED vars
  BY <1>2, <1>k DEF RunTasks, NextTask, LoopAgain, ChildrenPaused, EndTasks, RunTasksReturns,
     DelTask, Poll, Tick, vars, flags, running
<1>3. ASSUME NEW t \in Tasks, Abort(t) PROVE AbortInv'
  <2>1. t \in Live /\ Finish(t, TRUE, TRUE) /\ mBusy' = mBusy
    BY <1>3 DEF Abort, running
  <2> QED BY <2>1, <1>f
<1>4. ASSUME NEW t \in Tasks, AbortBusy(t) PROVE AbortInv'
  BY <1>4, <1>t DEF AbortBusy, AbortInv, running, FlagTypes
<1>5. ASSUME NEW t \in Tasks, RunError(t) PROVE AbortInv'
  <2>1. t \in Live /\ Finish(t, FALSE, TRUE) /\ mBusy' = mBusy
    BY <1>5, RunsFacts DEF RunError
  <2> QED BY <2>1, <1>f
<1>6. ASSUME NEW t \in Tasks, RunBegin(t) PROVE AbortInv'
  <2>1. UNCHANGED <<mAborted, mDone>> /\ mBusy = None
    BY <1>6, RunsFacts DEF RunBegin, flags
  <2>2. None \notin Tasks
    BY TaskAssumption
  <2> QED BY <2>1, <2>2, <1>t DEF AbortInv
<1>7. ASSUME NEW t \in Tasks, RunAborted(t) PROVE AbortInv'
  <2>1. t \in Live /\ Finish(t, TRUE, FALSE) /\ mBusy = t
    BY <1>7, ReturnFacts DEF RunAborted
  <2> QED BY <2>1, <1>f
<1>8. ASSUME NEW t \in Tasks, RunBlocked(t) \/ \E new \in {"START", "RESPONSE"} : RunState(t, new)
      PROVE  AbortInv'
  <2>1. UNCHANGED <<mAborted, mDone>> /\ mBusy = t /\ ~mAborted[t]
    BY <1>8 DEF RunBlocked, RunState, ProcessReturns
  <2> QED BY <2>1, <1>t DEF AbortInv
<1>9. ASSUME NEW t \in Tasks, NEW new \in {"DONE", "ERROR"}, RunFinished(t, new) PROVE AbortInv'
  <2>1. t \in Live /\ mBusy = t /\ ~mAborted[t]
    BY <1>9, ReturnFacts DEF RunFinished
  <2>2. CASE NeedRunAllChildren(t) /\ new = "DONE"
    <3>1. mDone' = [mDone EXCEPT ![t] = TRUE] /\ UNCHANGED mAborted
      BY <1>9, <2>2 DEF RunFinished
    <3> QED BY <2>1, <3>1, <1>t DEF AbortInv, FlagTypes
  <2>3. CASE ~(NeedRunAllChildren(t) /\ new = "DONE")
    <3>1. Finish(t, FALSE, new = "ERROR")
      BY <1>9, <2>3 DEF RunFinished
    <3> QED BY <2>1, <3>1, <1>f
  <2> QED BY <2>2, <2>3
<1> QED BY <1>1, <1>2, <1>3, <1>4, <1>5, <1>6, <1>7, <1>8, <1>9 DEF Next, Called, RunStep

\* While no message is on its way, runTasks is to come to every task that can run.
LEMMA ScanKept ==
  ASSUME IInv, [Next]_vars
  PROVE  ScanInv'
<1>t. /\ FlagTypes /\ RunTypes /\ PlaceInv /\ PointerInv /\ ScanInv
      /\ mTasks \in Seq(Tasks) /\ RangeOf(mTasks) \subseteq Tasks /\ Live \subseteq Tasks
      /\ mNextTimeoutTask \in Tasks \cup {None}
  BY DEF IInv, TypeOK, FlagTypes, RunTypes, RangeOf, Live
<1>k. ASSUME UNCHANGED mTasks, pending => pending',
             \A u \in RangeOf(mTasks) : mBlocked[u] => mBlocked'[u],
             \A u \in RangeOf(mTasks) : Seen(u) => Seen(u)' \/ mBlocked'[u]
      PROVE  ScanInv'
  BY <1>k, <1>t DEF ScanInv, RangeOf
<1>r. ASSUME UNCHANGED running, UNCHANGED mTasks, pending => pending',
             \A u \in RangeOf(mTasks) : mBlocked[u] => mBlocked'[u]
      PROVE  ScanInv'
  BY <1>r, <1>k DEF running, Seen, RangeOf
<1>d. ASSUME UNCHANGED <<runtask, mTasks, pending>>, did', rpc' # "idle",
             \A u \in RangeOf(mTasks) : mBlocked[u] => mBlocked'[u]
      PROVE  ScanInv'
  <2>1. \A u : Seen(u) => u \in RangeOf(runtask)
    BY <1>t DEF Seen, RangeOf, RunTypes
  <2>2. \A u : Seen(u) => Seen(u)'
    BY <1>d, <2>1 DEF Seen, RangeOf
  <2> QED BY <1>d, <1>k, <2>2
<1>p. ASSUME pending' PROVE ScanInv'
  BY <1>p DEF ScanInv
<1>f. ASSUME NEW t \in Live, NEW a \in BOOLEAN, NEW e \in BOOLEAN, Finish(t, a, e)
      PROVE  \A u \in RangeOf(mTasks) : mBlocked[u] => mBlocked'[u]
  BY <1>f, <1>t, FinishFacts DEF IInv
<1>1. ASSUME NEW t \in Tasks,
             \/ Create(t) \/ AbortBusy(t) \/ (\E s \in BOOLEAN : Suspend(t, s))
      PROVE  ScanInv'
  BY <1>1, <1>r DEF Create, AbortBusy, Suspend, flags, lists
<1>2. ASSUME NEW t \in Tasks, Start(t) \/ Wake(t) \/ \E new \in {"DONE", "ERROR"} : RunFinished(t, new)
      PROVE  ScanInv'
  BY <1>2, <1>p DEF Start, Wake, RunFinished
<1>3. ASSUME NEW t \in Tasks, Error(t) PROVE ScanInv'
  <2>1. /\ mBlocked' = [mBlocked EXCEPT ![t] = FALSE] /\ pending' = (pending \/ mBlocked[t])
        /\ UNCHANGED <<running, mTasks>>
    BY <1>3 DEF Error, lists
  <2>2. CASE mBlocked[t]
    BY <2>1, <2>2, <1>p
  <2>3. CASE ~mBlocked[t]
    <3>1. \A u \in RangeOf(mTasks) : mBlocked[u] => mBlocked'[u]
      BY <2>1, <2>3, <1>t DEF FlagTypes
    <3> QED BY <2>1, <3>1, <1>r
  <2> QED BY <2>2, <2>3
<1>4. ASSUME NEW t \in Tasks, Abort(t) PROVE ScanInv'
  <2>1. t \in Live /\ Finish(t, TRUE, TRUE) /\ UNCHANGED <<running, mTasks, pending>>
    BY <1>4 DEF Abort
  <2> QED BY <2>1, <1>f, <1>r
<1>5. ASSUME NEW t \in Tasks, RunDone(t) PROVE ScanInv'
  <2>1. did' /\ rpc' # "idle" /\ UNCHANGED <<runtask, mTasks, pending>>
    BY <1>5 DEF RunDone, After, lists
  <2>2. \A u \in RangeOf(mTasks) : mBlocked[u] => mBlocked'[u]
    BY <1>5, <1>t DEF RunDone, FlagTypes
  <2> QED BY <2>1, <2>2, <1>d
<1>6. ASSUME NEW t \in Tasks, RunError(t) PROVE ScanInv'
  <2>1. did' /\ rpc' # "idle" /\ UNCHANGED <<runtask, mTasks, pending>> /\ Finish(t, FALSE, TRUE)
    BY <1>6 DEF RunError, After
  <2> QED BY <2>1, <1>6, RunsFacts, <1>f, <1>d DEF RunError
<1>7. ASSUME NEW t \in Tasks, RunBegin(t) PROVE ScanInv'
  <2>1. did' /\ rpc' # "idle" /\ UNCHANGED <<runtask, mTasks, pending, mBlocked>>
    BY <1>7 DEF RunBegin, lists, flags
  <2> QED BY <2>1, <1>d
<1>8. ASSUME NEW t \in Tasks, RunAborted(t) \/ RunBlocked(t) PROVE ScanInv'
  <2>1. t \in Live /\ did /\ rpc' # "idle" /\ UNCHANGED <<runtask, did>>
    BY <1>8, ReturnFacts DEF RunAborted, RunBlocked
  <2>2. UNCHANGED <<mTasks, pending>>
    BY <1>8 DEF RunAborted, RunBlocked, lists
  <2>3. \A u \in RangeOf(mTasks) : mBlocked[u] => mBlocked'[u]
    BY <1>8, <2>1, <1>f, <1>t DEF RunAborted, RunBlocked, FlagTypes
  <2> QED BY <2>1, <2>2, <2>3, <1>d
<1>9. ASSUME NEW t \in Tasks, NEW new \in {"START", "RESPONSE"}, RunState(t, new) PROVE ScanInv'
  <2>1. /\ did /\ rpc' # "idle" /\ UNCHANGED <<runtask, did>>
        /\ ~IsChild2(t) => t \in RangeOf(runtask)
    BY <1>9, ReturnFacts DEF RunState
  <2>2. UNCHANGED <<mTasks, pending>> /\ mBlocked' = [mBlocked EXCEPT ![t] = FALSE]
    BY <1>9 DEF RunState, lists
  <2>3. \A u : Seen(u) => u \in RangeOf(runtask)
    BY <1>t DEF Seen, RangeOf, RunTypes
  <2>4. \A u : Seen(u) => Seen(u)'
    BY <2>1, <2>3 DEF Seen, RangeOf
  <2>5. t \in RangeOf(mTasks) => Seen(t)'
    BY <2>1, <1>t DEF PointerInv, Seen, RangeOf
  <2>6. \A u \in RangeOf(mTasks) : u # t /\ mBlocked[u] => mBlocked'[u]
    BY <2>2, <1>t DEF FlagTypes
  <2>7. \A u \in RangeOf(mTasks) : ~pending => mBlocked'[u] \/ Seen(u)'
    BY <2>4, <2>5, <2>6, <1>t DEF ScanInv
  <2> QED BY <2>2, <2>7 DEF ScanInv, RangeOf
<1>10. CASE Poll
  BY <1>10, <1>p DEF Poll
<1>11. CASE Tick \/ UNCHANGED vars
  BY <1>11, <1>r DEF Tick, vars, flags, lists
<1>12. CASE RunTasks
  <2>1. rpc' # "idle" /\ runtask' = mTasks /\ it' = 1 /\ UNCHANGED mTasks
    BY <1>12 DEF RunTasks, lists
  <2>2. ASSUME NEW u \in RangeOf(mTasks) PROVE Seen(u)'
    BY <2>1, <2>2 DEF Seen, RangeOf
  <2> QED BY <2>1, <2>2 DEF ScanInv, RangeOf
<1>13. CASE NextTask
  <2>1. /\ rpc = "tasks" /\ it \in 1 .. Len(runtask) /\ mBlocked[runtask[it]]
        /\ it' = it + 1
        /\ UNCHANGED <<mTasks, pending, rpc, runtask, did, mBlocked>>
    BY <1>13, <1>t DEF NextTask, AtTask, Current, lists, flags, RunTypes
  <2>2. ASSUME NEW u \in RangeOf(mTasks), Seen(u) PROVE Seen(u)' \/ mBlocked'[u]
    <3>1. CASE did /\ u \in RangeOf(runtask)
      BY <2>1, <3>1 DEF Seen, RangeOf
    <3>2. CASE \E i \in it .. Len(runtask) : runtask[i] = u
      <4>1. PICK i \in it .. Len(runtask) : runtask[i] = u
        BY <3>2
      <4>2. i = it \/ i \in it + 1 .. Len(runtask)
        BY <2>1, <4>1
      <4> QED BY <2>1, <4>1, <4>2 DEF Seen
    <3> QED BY <2>2, <3>1, <3>2 DEF Seen
  <2> QED BY <2>1, <2>2, <1>k
<1>14. CASE LoopAgain
  <2>1. /\ it > Len(runtask) /\ it' = 1 /\ rpc = "tasks"
        /\ UNCHANGED <<mTasks, pending, rpc, runtask, mBlocked>>
    BY <1>14 DEF LoopAgain, lists, flags
  <2>2. it \in Nat /\ Len(runtask) \in Nat
    BY <1>t DEF RunTypes
  <2>3. ASSUME NEW u, Seen(u) PROVE Seen(u)'
    <3>1. u \in RangeOf(runtask)
      BY <2>3, <1>t DEF Seen, RangeOf, RunTypes
    <3>2. \E i \in 1 .. Len(runtask) : runtask[i] = u
      BY <3>1 DEF RangeOf
    <3> QED BY <2>1, <3>2 DEF Seen
  <2> QED BY <2>1, <2>3, <1>k
<1>15. CASE ChildrenPaused
  <2>1. did /\ rpc' # "idle" /\ UNCHANGED <<mTasks, pending, runtask, did>>
    BY <1>15, <1>t DEF ChildrenPaused, lists, PlaceInv
  <2>2. \A u \in RangeOf(mTasks) : mBlocked[u] => mBlocked'[u]
    BY <1>15, <1>t DEF ChildrenPaused, FlagTypes
  <2> QED BY <2>1, <2>2, <1>d
<1>16. CASE EndTasks
  <2>1. it > Len(runtask) /\ ~did /\ mTasks' \in Kept /\ UNCHANGED <<mBlocked, pending>>
    BY <1>16 DEF EndTasks, flags
  <2>2. it \in Nat /\ Len(runtask) \in Nat
    BY <1>t DEF RunTypes
  <2>3. \A u : ~Seen(u)
    BY <2>1, <2>2 DEF Seen
  <2>4. RangeOf(mTasks') \subseteq RangeOf(mTasks)
    BY <2>1, KeptFacts DEF IInv
  <2>5. \A u \in RangeOf(mTasks)' : u \in RangeOf(mTasks)
    BY <2>4 DEF RangeOf
  <2> QED BY <2>1, <2>3, <2>5, <1>t DEF ScanInv
<1>17. ASSUME NEW c \in Tasks, DelTask(c) PROVE ScanInv'
  BY <1>17, <1>r DEF DelTask, flags
<1>18. CASE RunTasksReturns
  <2>1. runtask = <<>> /\ UNCHANGED <<mTasks, mBlocked, pending>>
    BY <1>18, <1>t DEF RunTasksReturns, PlaceInv, lists, flags
  <2>2. \A u : ~Seen(u)
    BY <2>1, <1>t DEF Seen, RangeOf, RunTypes
  <2> QED BY <2>1, <2>2, <1>t DEF ScanInv, RangeOf
<1> QED BY <1>1, <1>2, <1>3, <1>4, <1>5, <1>6, <1>7, <1>8, <1>9, <1>10, <1>11, <1>12, <1>13,
           <1>14, <1>15, <1>16, <1>17, <1>18 DEF Next, Called, RunStep

\* The tasks that endTasks leaves although they are done have a child that is not.
LEMMA ForgetKept ==
  ASSUME IInv, [Next]_vars
  PROVE  ForgetInv'
<1>t. /\ FlagTypes /\ RunTypes /\ PlaceInv /\ PointerInv /\ ForgetInv
      /\ RangeOf(mTasks) \subseteq Tasks /\ Live \subseteq Tasks
      /\ life \in [Tasks -> {"none", "live", "deleted"}]
  BY DEF IInv, TypeOK, FlagTypes, RunTypes, RangeOf, Live
<1>f. FlagTypes' /\ FlagsStay
  BY FlagsKept
<1>p. ASSUME pending' \/ rpc' # "idle", rpc' # "delete" PROVE ForgetInv'
  BY <1>p DEF ForgetInv
<1>k. ASSUME UNCHANGED <<rpc, mTasks>>, rpc # "delete", pending => pending', Live \subseteq Live',
             \A u \in Tasks : mDone'[u] => mDone[u] \/ mAborted'[u]
      PROVE  ForgetInv'
  <2>1. SUFFICES ASSUME rpc' = "idle", ~pending', NEW t \in RangeOf(mTasks), mDone'[t]
                 PROVE  \/ mAborted'[t]
                        \/ \E c \in Children(t)' : mAborted'[c] \/ ~mDone'[c]
    BY <1>k DEF ForgetInv, RangeOf
  <2>2. t \in Tasks
    BY <1>t
  <2>3. CASE mAborted'[t]
    BY <2>3
  <2>4. CASE ~mAborted'[t]
    <3>1. mDone[t] /\ ~mAborted[t]
      BY <2>1, <2>2, <2>4, <1>k, <1>f DEF FlagsStay
    <3>2. PICK c \in Children(t) : mAborted[c] \/ ~mDone[c]
      BY <2>1, <3>1, <1>k, <1>t DEF ForgetInv
    <3>3. c \in Children(t)' /\ c \in Tasks
      BY <1>k, <1>t DEF Children
    <3> QED BY <3>2, <3>3, <1>k, <1>f DEF FlagsStay
  <2> QED BY <2>3, <2>4
<1>l. UNCHANGED life => Live \subseteq Live'
  BY DEF Live
<1>1. ASSUME NEW t \in Tasks, Create(t) PROVE ForgetInv'
  <2>1. UNCHANGED <<rpc, mTasks, pending, mDone>> /\ Live \subseteq Live' /\ rpc # "delete"
    BY <1>1, <1>t DEF Create, MayCall, flags, running, Live
  <2> QED BY <2>1, <1>k
<1>2. ASSUME NEW t \in Tasks, Error(t) \/ \E s \in BOOLEAN : Suspend(t, s) PROVE ForgetInv'
  <2>1. UNCHANGED <<rpc, mTasks, mDone, life>> /\ rpc # "delete"
    BY <1>2 DEF Error, Suspend, MayCall, flags, running, lists
  <2>2. pending => pending'
    BY <1>2, <1>t DEF Error, Suspend, FlagTypes, RunTypes
  <2> QED BY <2>1, <2>2, <1>k, <1>l
<1>3. CASE Tick \/ UNCHANGED vars
  <2>1. UNCHANGED <<rpc, mTasks, mDone, mAborted, life, pending>>
    BY <1>3 DEF Tick, vars, flags, running, lists
  <2> QED BY <2>1, <1>t DEF ForgetInv, RangeOf, Children, Live
<1>4. ASSUME NEW t \in Tasks, Abort(t) PROVE ForgetInv'
  <2>1. /\ t \in Live /\ Finish(t, TRUE, TRUE) /\ rpc # "delete"
        /\ UNCHANGED <<rpc, mTasks, pending, life>>
    BY <1>4 DEF Abort, MayCall, running
  <2>2. \A u \in Tasks : mDone'[u] => mDone[u] \/ mAborted'[u]
    BY <2>1, FinishFacts DEF IInv
  <2> QED BY <2>1, <2>2, <1>k, <1>l
<1>5. ASSUME NEW t \in Tasks,
             \/ Start(t) \/ Wake(t) \/ AbortBusy(t)
             \/ RunDone(t) \/ RunError(t) \/ RunBegin(t) \/ RunAborted(t) \/ RunBlocked(t)
             \/ \E new \in {"START", "RESPONSE"} : RunState(t, new)
             \/ \E new \in {"DONE", "ERROR"} : RunFinished(t, new)
      PROVE  (pending' \/ rpc' # "idle") /\ rpc' # "delete"
  <2>1. CASE Start(t) \/ Wake(t)
    BY <2>1 DEF Start, Wake, MayCall, running
  <2>2. CASE AbortBusy(t)
    <3>1. None \notin Tasks
      BY TaskAssumption
    <3> QED BY <2>2, <3>1, <1>t DEF AbortBusy, running, RunTypes
  <2>3. CASE RunDone(t) \/ RunError(t) \/ RunBegin(t)
    BY <2>3 DEF RunDone, RunError, RunBegin, After
  <2>4. CASE \/ RunAborted(t) \/ RunBlocked(t)
             \/ \E new \in {"START", "RESPONSE"} : RunState(t, new)
             \/ \E new \in {"DONE", "ERROR"} : RunFinished(t, new)
    BY <2>4 DEF RunAborted, RunBlocked, RunState, RunFinished, ProcessReturns, After
  <2> QED BY <1>5, <2>1, <2>2, <2>3, <2>4
<1>6. CASE RunTasks \/ NextTask \/ LoopAgain \/ ChildrenPaused \/ Poll
  BY <1>6, <1>p DEF RunTasks, NextTask, LoopAgain, ChildrenPaused, Poll, AtTask, running
<1>7. CASE EndTasks
  <2>1. /\ mTasks' \in Kept /\ rpc' = "delete"
        /\ life' = [t \in Tasks |-> IF t \in Ended THEN "deleted" ELSE life[t]]
        /\ UNCHANGED <<mDone, mAborted>>
    BY <1>7 DEF EndTasks, flags
  <2>2. RangeOf(mTasks') = RangeOf(mTasks) \ Ended
    BY <2>1, KeptFacts DEF IInv
  <2>3. ASSUME NEW t \in RangeOf(mTasks), t \notin Ended, mDone[t]
        PROVE  \E c \in Children(t)' : ~mDone[c]
    <3>1. PICK c \in Children(t) : ~mDone[c]
      BY <2>3 DEF Ended
    <3>2. c \in Live /\ Parent[c] = t /\ c \notin Ended
      BY <3>1, <1>t DEF Children, Ended
    <3>3. c \in Live'
      BY <2>1, <3>2, <1>t DEF Live
    <3> QED BY <3>1, <3>2, <3>3 DEF Children
  <2>4. \A t \in RangeOf(mTasks)' : t \in RangeOf(mTasks) /\ t \notin Ended
    BY <2>2 DEF RangeOf
  <2> QED BY <2>1, <2>3, <2>4 DEF ForgetInv
\* The children that delTasks deletes are done.
<1>8. ASSUME NEW d \in Tasks, DelTask(d) PROVE ForgetInv'
  <2>1. /\ life' = [life EXCEPT ![d] = "deleted"] /\ d \in mDelTasks /\ rpc = "delete"
        /\ UNCHANGED <<rpc, mTasks, mDone>>
    BY <1>8 DEF DelTask, flags, running
  <2>2. mDone[d] /\ Live' = Live \ {d}
    BY <2>1, <1>t DEF PointerInv, Live
  <2>3. ASSUME NEW t \in RangeOf(mTasks), mDone[t] PROVE \E c \in Children(t)' : ~mDone[c]
    <3>1. PICK c \in Children(t) : ~mDone[c]
      BY <2>1, <2>3, <1>t DEF ForgetInv
    <3>2. c \in Live' /\ Parent[c] = t
      BY <2>2, <3>1 DEF Children
    <3> QED BY <3>1, <3>2 DEF Children
  <2> QED BY <2>1, <2>3 DEF ForgetInv, RangeOf
<1>9. CASE RunTasksReturns
  <2>1. rpc = "delete" /\ rpc' = "idle" /\ UNCHANGED <<mTasks, mDone, mAborted, life>>
    BY <1>9 DEF RunTasksReturns, flags, lists
  <2> QED BY <2>1, <1>t DEF ForgetInv, RangeOf, Children, Live
<1> QED BY <1>1, <1>2, <1>3, <1>4, <1>5, <1>6, <1>7, <1>8, <1>9, <1>p DEF Next, Called, RunStep

\* Under ChildrenUntimed, a timeout is set only for a task of the list.
LEMMA NextKept ==
  ASSUME ChildrenUntimed, IInv, NextInv, [Next]_vars
  PROVE  NextInv'
<1>a. None \notin Tasks /\ Seconds \in [Tasks -> Nat]
  BY TaskAssumption
<1>t. /\ TypeOK /\ ArmedInv /\ PointerInv /\ FlagTypes /\ TimeTypes
      /\ mTasks \in Seq(Tasks) /\ RangeOf(mTasks) \subseteq Tasks /\ Live \subseteq Tasks
  BY DEF IInv, TypeOK, FlagTypes, TimeTypes, RangeOf, Live
<1>n. ASSUME NEW t \in Tasks, NEW s, NEW b
      PROVE  /\ NewTimeout(t, s, b) \in Nat
             /\ NewTimeout(t, s, b) # 0 => ~IsChild2(t) /\ s \in {"START", "RESPONSE"}
  BY <1>a, <1>t DEF NewTimeout, TimeTypes, ChildrenUntimed
<1>s. ASSUME NEW t \in Tasks, NEW value \in Nat, SetTimeout(t, value), UNCHANGED mTasks,
             value # 0 => t \in RangeOf(mTasks)
      PROVE  NextInv'
  <2>1. \/ mNextTimeoutTask' \in RangeOf(mTasks) \cup {None, mNextTimeoutTask}
        \/ mNextTimeoutTask' = t /\ value # 0
    BY <1>s, <1>t, SetTimeoutFacts
  <2>2. mNextTimeoutTask' \in RangeOf(mTasks) \cup {None}
    BY <1>s, <2>1 DEF NextInv
  <2> QED BY <1>s, <2>2 DEF NextInv, RangeOf
<1>1. CASE UNCHANGED <<timing, mTasks>>
  BY <1>1 DEF timing, NextInv, RangeOf
<1>2. ASSUME NEW t \in Tasks, Start(t) PROVE NextInv'
  <2>1. /\ RangeOf(mTasks)' = RangeOf(mTasks) \cup {t}
        /\ mNextTimeoutTask' \in RangeOf(mTasks)' \cup {None, mNextTimeoutTask}
    BY <1>2, StartFacts DEF IInv
  <2> QED BY <2>1 DEF NextInv
<1>3. ASSUME NEW t \in Tasks, RunBegin(t) PROVE NextInv'
  <2>1. CASE TimedOut(t)
    BY <1>3, <2>1, <1>s DEF RunBegin, lists
  <2>2. CASE ~TimedOut(t)
    BY <1>3, <2>2 DEF RunBegin, lists, NextInv, RangeOf
  <2> QED BY <2>1, <2>2
<1>4. ASSUME NEW t \in Tasks, NEW s \in BOOLEAN, Suspend(t, s) PROVE NextInv'
  <2> DEFINE value == NewTimeout(t, mState[t], s)
  <2>1. t \in Live /\ SetTimeout(t, value) /\ UNCHANGED mTasks
    BY <1>4 DEF Suspend, lists
  <2>2. value \in Nat /\ (value # 0 => ~IsChild2(t) /\ mState[t] # "INIT")
    BY <1>n
  <2>3. value # 0 => t \in RangeOf(mTasks)
    BY <2>1, <2>2, <1>t DEF PointerInv
  <2> HIDE DEF value
  <2> QED BY <2>1, <2>2, <2>3, <1>s
<1>5. ASSUME NEW t \in Tasks, NEW new \in {"START", "RESPONSE"}, RunState(t, new) PROVE NextInv'
  <2> DEFINE value == NewTimeout(t, new, mTimeoutSuspended[t])
  <2>1. SetTimeout(t, value) /\ UNCHANGED mTasks /\ (~IsChild2(t) => t \in RangeOf(mTasks))
    BY <1>5, ReturnFacts DEF RunState, lists
  <2>2. value \in Nat /\ (value # 0 => ~IsChild2(t))
    BY <1>n
  <2> HIDE DEF value
  <2> QED BY <2>1, <2>2, <1>s
<1>6. ASSUME NEW t \in Tasks, NEW new \in {"DONE", "ERROR"}, RunFinished(t, new) PROVE NextInv'
  BY <1>6, <1>s DEF RunFinished
<1>7. CASE EndTasks
  <2>1. PICK s \in Kept : mTasks' = s /\ mNextTimeoutTask' = NextAfterEnd(s)
    BY <1>7 DEF EndTasks
  <2>2. s \in Seq(Tasks) /\ RangeOf(s) = RangeOf(mTasks) \ Ended
    BY <1>t, KeptFacts
  <2>3. mNextTimeoutTask' \in RangeOf(s) \cup {None}
    <3>1. CASE mNextTimeoutTask \in Ended
      <4>1. mNextTimeoutTask' = Recalc(s, mTimeout, mDone, None)
        BY <2>1, <3>1 DEF NextAfterEnd
      <4>2. mTimeout \in [Tasks -> Nat]
        BY <1>t DEF TimeTypes
      <4>3. mNextTimeoutTask' = None \/ \E i \in 1 .. Len(s) : mNextTimeoutTask' = s[i]
        BY <2>2, <4>1, <4>2, RecalcFacts
      <4> QED BY <4>3 DEF RangeOf
    <3>2. CASE mNextTimeoutTask \notin Ended
      BY <2>1, <2>2, <3>2 DEF NextAfterEnd, NextInv
    <3> QED BY <3>1, <3>2
  <2> QED BY <2>1, <2>3 DEF NextInv, RangeOf
<1>8. CASE Tick
  BY <1>8 DEF Tick, NextInv, lists, RangeOf
<1> QED BY <1>1, <1>2, <1>3, <1>4, <1>5, <1>6, <1>7, <1>8, TimeCases DEF TimeStep
----------------------------------------------------------------------------
(* Theorems.                                                               *)

\* The invariant holds at the start.
LEMMA InitIInv == Init => IInv /\ NextInv
<1> SUFFICES ASSUME Init PROVE IInv /\ NextInv
  OBVIOUS
<1>1. Live = {} /\ RangeOf(mTasks) = {} /\ RangeOf(runtask) = {}
  BY DEF Init, Live, RangeOf
<1>2. TypeOK
  <2>1. FlagTypes /\ TimeTypes
    BY DEF Init, FlagTypes, TimeTypes, States
  <2>2. ListTypes
    BY DEF Init, ListTypes
  <2>3. RunTypes
    <3>1. runtask = <<>> /\ it = 1
      BY DEF Init
    <3>2. runtask \in Seq(Tasks) /\ it \in 1 .. Len(runtask) + 1
      BY <3>1
    <3>3. /\ rpc = "idle" /\ mBusy = None
          /\ pending \in BOOLEAN /\ did \in BOOLEAN /\ timedOut \in BOOLEAN
      BY DEF Init
    <3> QED BY <3>2, <3>3 DEF RunTypes
  <2> QED BY <2>1, <2>2, <2>3 DEF TypeOK, FlagTypes, TimeTypes, ListTypes, RunTypes
<1>3. PointerInv /\ PlaceInv /\ FamilyInv
  BY <1>1 DEF Init, PointerInv, PlaceInv, FamilyInv
<1>4. ArmedInv /\ AbortInv /\ ScanInv /\ ForgetInv /\ NextInv
  BY <1>1 DEF Init, ArmedInv, AbortInv, ScanInv, ForgetInv, NextInv
<1> QED BY <1>2, <1>3, <1>4 DEF IInv

\* Every step keeps it.
LEMMA NextIInv == IInv /\ [Next]_vars => IInv'
<1> SUFFICES ASSUME IInv, [Next]_vars PROVE IInv'
  OBVIOUS
<1>1. FlagTypes' /\ TimeTypes' /\ ListTypes' /\ RunTypes'
  BY FlagsKept, TimesKept, ListsKept, PlaceKept
<1>2. TypeOK'
  BY <1>1 DEF TypeOK, FlagTypes, TimeTypes, ListTypes, RunTypes
<1> QED BY <1>2, TimesKept, ListsKept, FamilyKept, PlaceKept, AbortKept, ScanKept, ForgetKept DEF IInv

\* What every reachable state of the runner satisfies.
THEOREM Invariant == Spec => []IInv
BY InitIInv, NextIInv, PTL DEF Spec

\* Type correctness: the list of tasks holds none twice, the loop of runTasks stays
\* inside its copy, and mBusy names a task exactly while its process runs.
THEOREM Types == Spec => []TypeOK
<1>1. IInv => TypeOK
  BY DEF IInv
<1> QED BY <1>1, Invariant, PTL

\* endTasks and delTasks leave the runner no pointer to a task they delete, and
\* no task but the children that delTasks is coming to one to a deleted parent, in
\* a runner whose children have no timeout of their own.
THEOREM PointersLive == ASSUME ChildrenUntimed PROVE Spec => []NoDangling
<1>1. IInv /\ NextInv => NoDangling
  BY DEF IInv, NextInv, PointerInv, FamilyInv, NoDangling
<1>2. IInv /\ NextInv /\ [Next]_vars => NextInv'
  BY NextKept
<1> QED BY <1>1, <1>2, InitIInv, NextIInv, PTL DEF Spec

\* The same for the lists alone, whatever timeouts the children have.
ListsLive ==
    /\ RangeOf(mTasks) \subseteq Live
    /\ RangeOf(runtask) \subseteq Live
    /\ mDelTasks \subseteq Live

\* No pointer of mTasks, of the run or of mDelTasks is to a deleted task, with no
\* hypothesis on the timeouts of children.
THEOREM ListPointersLive == Spec => []ListsLive
<1>1. IInv => ListsLive
  BY DEF IInv, PointerInv, ListsLive
<1> QED BY <1>1, Invariant, PTL

\* When no message is on its way, runTasks has nothing left to do.
THEOREM NothingForgotten == Spec => []NoForgottenTask
<1>1. IInv => NoForgottenTask
  BY DEF IInv, ScanInv, ForgetInv, Seen, NoForgottenTask
<1> QED BY <1>1, Invariant, PTL

\* While an unfinished task has a timeout to come, pollTasks has one to wait for.
THEOREM TimeoutStaysArmed == Spec => []TimeoutArmed
<1>1. IInv => TimeoutArmed
  BY DEF IInv, ArmedInv, TimeoutArmed
<1> QED BY <1>1, Invariant, PTL

\* process is not called again for a task that was aborted.
THEOREM AbortIsFinal == Spec => NoCallbackAfterAbort
<1>1. ASSUME IInv, [Next]_vars, NEW t \in Tasks, mAborted[t], mBusy # t PROVE mBusy' # t
  <2>1. mDone[t]
    BY <1>1 DEF IInv, AbortInv
  <2>2. None \notin Tasks
    BY TaskAssumption
  <2>3. mBusy' \in {None, mBusy} \/ \E u \in Tasks : RunBegin(u)
    <3>1. ASSUME NEW u \in Tasks, Called(u) \/ RunStep(u), ~RunBegin(u)
          PROVE  mBusy' \in {None, mBusy}
      BY <3>1 DEF Called, RunStep, Create, Start, Wake, Error, Abort, AbortBusy, Suspend, RunDone,
         RunError, RunAborted, RunBlocked, RunState, RunFinished, ProcessReturns, running
    <3>2. CASE \/ RunTasks \/ NextTask \/ LoopAgain \/ ChildrenPaused \/ EndTasks
               \/ RunTasksReturns \/ (\E c \in Tasks : DelTask(c)) \/ Poll \/ Tick \/ UNCHANGED vars
      BY <3>2 DEF RunTasks, NextTask, LoopAgain, ChildrenPaused, EndTasks, RunTasksReturns, DelTask,
         Poll, Tick, vars, running
    <3> QED BY <1>1, <3>1, <3>2 DEF Next
  <2>4. \A u \in Tasks : RunBegin(u) => ~mDone[u] /\ mBusy' = u
    BY DEF RunBegin
  <2> QED BY <1>1, <2>1, <2>2, <2>3, <2>4
<1>2. IInv /\ [Next]_vars => [\A t \in Tasks : mAborted[t] /\ mBusy # t => mBusy' # t]_vars
  BY <1>1
<1> QED BY <1>2, Invariant, PTL DEF Spec, NoCallbackAfterAbort
=============================================================================
