----------------------------- MODULE IpcProofs -----------------------------
(***************************************************************************)
(* Theorems about Ipc, for any number of connections, client processes,    *)
(* queries and plugins.                                                    *)
(***************************************************************************)
EXTENDS Ipc, TLAPS, SequenceTheorems, FiniteSetTheorems

-----------------------------------------------------------------------------
(* The queries.                                                              *)

Commands == {Command[q] : q \in Queries}
Failures == {"not sent", "timeout", "fail"}

QTypeOK ==
    /\ task \in [Queries -> {"none", "start", "response", "ended", "gone"}]
    /\ exec \in [Queries -> {"none", "made", "turns", "returned", "quit"}]
    /\ blocked \in [Queries -> {"no", "dozes", "yes"}] /\ done_ \in [Queries -> BOOLEAN]
    /\ telling \in SUBSET (Queries \X {"task", "answer"})
    /\ synwait_ \in [Queries -> BOOLEAN] /\ running_ \in [Queries -> BOOLEAN]
    /\ code_ \in [Queries -> Commands \union Failures \union {"none"}]
    /\ loops \in Seq(Queries) /\ qwnd \in Nat /\ others \in Nat
    /\ early \in SUBSET Queries /\ crashed \in BOOLEAN /\ up \in BOOLEAN
    /\ reqs \in Seq(Queries) /\ answers \in Seq(Commands)
    /\ queue_ \in Seq(Queries) /\ received \in Seq(Queries) /\ answered \in Seq(Queries)

\* The loops that turn inside each other are of different queries, and all but
\* the inmost have begun to.
LoopInv ==
    /\ \A i, j \in 1 .. Len(loops) : loops[i] = loops[j] => i = j
    /\ \A i \in 1 .. Len(loops) :
          /\ task[loops[i]] # "none"
          /\ exec[loops[i]] = "turns" \/ (i = Len(loops) /\ exec[loops[i]] = "made")

\* A query is being told, on one of the threads.
Telling(q) == \E by \in {"task", "answer"} : <<q, by>> \in telling

\* A task that still has to tell its loop is under way or at it, and a loop that waits
\* to be told has such a task, unless the query was over before the loop began.
WaitInv ==
    /\ \A q \in Queries :
          /\ synwait_[q] /\ ~Telling(q) => task[q] \in {"start", "response"}
          /\ done_[q] => ~synwait_[q]
          /\ done_[q] \/ Telling(q) => task[q] # "none"
          /\ exec[q] = "made" /\ (~synwait_[q] \/ Telling(q)) => q \in early
          /\ exec[q] = "turns" /\ running_[q] /\ q \notin early => synwait_[q] /\ ~Telling(q)

\* A loop that is not to go on was given its code.
CodeInv ==
    \A q \in Queries :
        exec[q] = "returned" \/ (exec[q] = "turns" /\ ~running_[q]) => code_[q] \in {Command[q]} \union Failures

\* The inmost loop that is not to go on has a message to see it by, or is being told.
TurnInv == ~crashed /\ Q!Inmost = "turns" /\ Q!Last(loops) \notin early /\ ~running_[Q!Last(loops)] =>
               qwnd > 0 \/ Telling(Q!Last(loops))

FlowInv == up => received = answered \o queue_

QInv == QTypeOK /\ LoopInv /\ WaitInv /\ CodeInv /\ TurnInv /\ FlowInv
-----------------------------------------------------------------------------
\* A set of natural numbers that is not empty has a least element.
LEMMA LeastNat ==
  ASSUME NEW S \in SUBSET Nat, S # {}
  PROVE  \E x \in S : \A y \in S : x <= y
<1> DEFINE Less == {ss \in Nat \X Nat : ss[1] < ss[2]}
<1>1. IsWellFoundedOn(Less, Nat)
  BY NatLessThanWellFounded DEF OpToRel
<1> HIDE DEF Less
<1>2. PICK x \in S : \A y \in S : ~(<<y, x>> \in Less)
  BY <1>1, WFMin
<1>3. ASSUME NEW y \in S PROVE x <= y
  <2>1. x \in Nat /\ y \in Nat /\ ~(<<y, x>> \in Less)
    BY <1>2
  <2>2. ~(y < x)
    BY <2>1 DEF Less
  <2> QED BY <2>1, <2>2
<1> QED BY <1>2, <1>3

\* What is appended at the end may be appended to the whole.
LEMMA AppendConcat ==
  ASSUME NEW S, NEW s \in Seq(S), NEW t \in Seq(S), NEW x \in S
  PROVE  s \o Append(t, x) = Append(s \o t, x)
<1>1. s \o t \in Seq(S) /\ <<x>> \in Seq(S)
  BY ConcatProperties
<1>2. Append(t, x) = t \o <<x>> /\ Append(s \o t, x) = (s \o t) \o <<x>>
  BY <1>1, AppendIsConcat
<1> QED BY <1>1, <1>2, ConcatAssociative

\* The head of the second part may be the end of the first.
LEMMA HeadMoves ==
  ASSUME NEW S, NEW s \in Seq(S), NEW t \in Seq(S), t # <<>>
  PROVE  s \o t = Append(s, Head(t)) \o Tail(t)
<1>1. Head(t) \in S /\ Tail(t) \in Seq(S) /\ <<Head(t)>> \in Seq(S) /\ Len(t) \in Nat /\ Len(t) # 0
  OBVIOUS
<1>2. t = <<Head(t)>> \o Tail(t)
  BY <1>1
<1>3. Append(s, Head(t)) = s \o <<Head(t)>>
  BY <1>1, AppendIsConcat
<1>4. (s \o <<Head(t)>>) \o Tail(t) = s \o (<<Head(t)>> \o Tail(t))
  BY <1>1, ConcatAssociative
<1> QED BY <1>2, <1>3, <1>4

\* The loops that go on end with the last that is to go on.
LEMMA LoopsLeftIs ==
  ASSUME NEW l \in Seq(Queries)
  PROVE  /\ Q!LoopsLeft(l) \in 0 .. Len(l)
         /\ Q!LoopsLeft(l) > 0 => running_[l[Q!LoopsLeft(l)]]
         /\ \A k \in Q!LoopsLeft(l) + 1 .. Len(l) : ~running_[l[k]]
<1> DEFINE Stays(n) == n > 0 => running_[l[n]]
           Quits == {k \in Nat : k <= Len(l) /\ Stays(Len(l) - k)}
           Found(n) == Stays(n) /\ \A k \in n + 1 .. Len(l) : ~running_[l[k]]
<1>t. Len(l) \in Nat
  OBVIOUS
<1>1. Len(l) \in Quits
  BY <1>t
<1>2. PICK m \in Quits : \A y \in Quits : m <= y
  <2> HIDE DEF Quits
  <2>1. Quits \in SUBSET Nat
    BY DEF Quits
  <2> QED BY <1>1, <2>1, LeastNat
<1>3. Len(l) - m \in 0 .. Len(l) /\ Stays(Len(l) - m)
  BY <1>2, <1>t
<1>4. ASSUME NEW k \in Len(l) - m + 1 .. Len(l) PROVE ~running_[l[k]]
  <2>1. Len(l) - k \in Nat /\ Len(l) - k < m /\ Len(l) - (Len(l) - k) = k
    BY <1>t, <1>2
  <2>2. Len(l) - k \notin Quits
    BY <2>1, <1>2
  <2>3. ~Stays(k)
    <3> HIDE DEF Stays
    <3> QED BY <2>1, <2>2, <1>t
  <2> QED BY <2>3
<1>5. \E n \in 0 .. Len(l) : Found(n)
  BY <1>3, <1>4
<1>6. Q!LoopsLeft(l) = CHOOSE n \in 0 .. Len(l) : Found(n)
  BY DEF Q!LoopsLeft
<1>7. Q!LoopsLeft(l) \in 0 .. Len(l) /\ Found(Q!LoopsLeft(l))
  <2> HIDE DEF Found
  <2> QED BY <1>5, <1>6
<1> QED BY <1>7

\* Nothing is under way at the start.
LEMMA QueriesInit == Q!Init => QInv
<1> SUFFICES ASSUME Q!Init PROVE QInv
  OBVIOUS
<1>1. <<>> \in Seq(Queries) /\ <<>> \in Seq(Commands) /\ <<>> \o <<>> = <<>> /\ Len(<<>>) = 0
  BY ConcatProperties, EmptySeq
<1>2. QTypeOK
  BY <1>1 DEF Q!Init, QTypeOK
<1>3. LoopInv /\ TurnInv
  BY <1>1 DEF Q!Init, LoopInv, TurnInv, Q!Inmost
<1>4. WaitInv /\ CodeInv /\ FlowInv
  BY <1>1 DEF Q!Init, WaitInv, Telling, CodeInv, FlowInv
<1> QED BY <1>2, <1>3, <1>4 DEF QInv

\* A query enters: its task is new and its loop the inmost.
LEMMA QueryKeeps ==
  ASSUME QInv, NEW q \in Queries, Q!query(q)
  PROVE  QInv'
<1>t. QTypeOK'
  BY DEF QInv, QTypeOK, Q!query, LoopInv, Q!Inmost, Q!Last, Q!asker, Q!answerer
<1>1. LoopInv'
  BY DEF QInv, QTypeOK, LoopInv, Q!query, LoopInv, Q!Inmost, Q!Last, Q!asker, Q!answerer
<1>2. WaitInv'
  BY DEF QInv, QTypeOK, WaitInv, Telling, Q!query, LoopInv, Q!Inmost, Q!Last, Q!asker, Q!answerer
<1>3. CodeInv'
  BY DEF QInv, QTypeOK, CodeInv, Q!query, LoopInv, Q!Inmost, Q!Last, Q!asker, Q!answerer
<1>4. TurnInv'
  BY DEF QInv, QTypeOK, TurnInv, Telling, Q!Inmost, Q!Last, Q!query, LoopInv, Q!Inmost, Q!Last, Q!asker, Q!answerer
<1>5. FlowInv'
  BY DEF QInv, QTypeOK, FlowInv, Q!query, LoopInv, Q!Inmost, Q!Last, Q!asker, Q!answerer
<1> QED BY <1>t, <1>1, <1>2, <1>3, <1>4, <1>5 DEF QInv

\* A loop begins.
LEMMA ExecKeeps ==
  ASSUME QInv, NEW q \in Queries, Q!Exec(q)
  PROVE  QInv'
<1>t. QTypeOK'
  BY DEF QInv, QTypeOK, Q!Exec, LoopInv, Q!Last, Q!asker, Q!answerer
<1>1. LoopInv'
  BY DEF QInv, QTypeOK, LoopInv, Q!Exec, LoopInv, Q!Last, Q!asker, Q!answerer
<1>2. WaitInv'
  BY DEF QInv, QTypeOK, WaitInv, Telling, Q!Exec, LoopInv, Q!Last, Q!asker, Q!answerer
<1>3. CodeInv'
  BY DEF QInv, QTypeOK, CodeInv, Q!Exec, LoopInv, Q!Last, Q!asker, Q!answerer
<1>4. TurnInv'
  BY DEF QInv, QTypeOK, TurnInv, Telling, Q!Inmost, Q!Last, Q!Exec, LoopInv, Q!Last, Q!asker, Q!answerer
<1>5. FlowInv'
  BY DEF QInv, QTypeOK, FlowInv, Q!Exec, LoopInv, Q!Last, Q!asker, Q!answerer
<1> QED BY <1>t, <1>1, <1>2, <1>3, <1>4, <1>5 DEF QInv

\* Another message comes.
LEMMA OtherKeeps ==
  ASSUME QInv, Q!OtherMessage
  PROVE  QInv'
<1>t. QTypeOK'
  BY DEF QInv, QTypeOK, Q!OtherMessage, Q!asker, Q!answerer
<1>1. LoopInv'
  BY DEF QInv, QTypeOK, LoopInv, Q!OtherMessage, Q!asker, Q!answerer
<1>2. WaitInv'
  BY DEF QInv, QTypeOK, WaitInv, Telling, Q!OtherMessage, Q!asker, Q!answerer
<1>3. CodeInv'
  BY DEF QInv, QTypeOK, CodeInv, Q!OtherMessage, Q!asker, Q!answerer
<1>4. TurnInv'
  BY DEF QInv, QTypeOK, TurnInv, Telling, Q!Inmost, Q!Last, Q!OtherMessage, Q!asker, Q!answerer
<1>5. FlowInv'
  BY DEF QInv, QTypeOK, FlowInv, Q!OtherMessage, Q!asker, Q!answerer
<1> QED BY <1>t, <1>1, <1>2, <1>3, <1>4, <1>5 DEF QInv

\* What a task does to itself, while it begins to tell its loop, has told it or is not
\* to tell it any more.
TaskSteps(q) ==
    /\ task[q] # "none" /\ task' \in {task, [task EXCEPT ![q] = "ended"], [task EXCEPT ![q] = "gone"]}
    /\ UNCHANGED <<blocked, done_>> /\ reqs' = reqs /\ answers' \in Seq(Commands)
    /\ UNCHANGED <<synwait_, exec, loops, qwnd, others, up, queue_, received, answered>>

\* A task that begins to tell its loop, or crashes because it has told it, keeps the
\* invariant.
LEMMA FinishesKeeps ==
  ASSUME QInv, NEW q \in Queries, NEW by \in {"task", "answer"}, NEW code \in {Command[q]} \union Failures,
         Q!Finishes(q, by, code), TaskSteps(q), ~crashed
  PROVE  QInv'
<1>c. Command[q] \in Commands /\ code \in Commands \union Failures \union {"none"}
  BY DEF Commands
<1>t. task' \in [Queries -> {"none", "start", "response", "ended", "gone"}]
  BY DEF QInv, QTypeOK, TaskSteps
<1>n. \A r \in Queries : (task[r] # "none" => task'[r] # "none") /\ (r # q => task'[r] = task[r])
  BY DEF QInv, QTypeOK, TaskSteps
<1>l. LoopInv'
  <2>1. loops' = loops /\ exec' = exec /\ \A i \in 1 .. Len(loops) : loops[i] \in Queries
    BY DEF QInv, QTypeOK, TaskSteps
  <2> QED BY <2>1, <1>n DEF QInv, LoopInv
<1>1. CASE ~synwait_[q]
  <2>0. crashed' = TRUE /\ UNCHANGED <<code_, running_, telling, early>>
    BY <1>1 DEF Q!Finishes
  <2>1. QTypeOK'
    BY <2>0, <1>t DEF QInv, QTypeOK, TaskSteps
  <2>2. WaitInv'
    BY <1>1, <1>n, <2>0 DEF QInv, QTypeOK, WaitInv, Telling, TaskSteps
  <2>3. CodeInv' /\ TurnInv' /\ FlowInv'
    BY <2>0 DEF QInv, CodeInv, TurnInv, FlowInv, TaskSteps
  <2> QED BY <1>l, <2>1, <2>2, <2>3 DEF QInv
<1>2. CASE synwait_[q] /\ Q!Dead(q)
  <2>0. telling' = telling \union {<<q, by>>} /\ crashed' \in BOOLEAN /\ UNCHANGED <<code_, running_, early>>
    BY <1>2 DEF Q!Finishes, Q!begins
  <2>1. QTypeOK'
    BY <2>0, <1>t DEF QInv, QTypeOK, TaskSteps
  <2>2. Telling(q)' /\ \A r \in Queries : (Telling(r) => Telling(r)') /\ (r # q => (Telling(r)' <=> Telling(r)))
    BY <2>0 DEF Telling
  <2>3. WaitInv'
    BY <1>2, <1>n, <2>0, <2>2 DEF QInv, QTypeOK, WaitInv, Q!Dead, TaskSteps
  <2>4. CodeInv' /\ FlowInv'
    BY <2>0 DEF QInv, CodeInv, FlowInv, TaskSteps
  <2>5. TurnInv'
    BY <2>0, <2>2 DEF QInv, TurnInv, Telling, Q!Inmost, TaskSteps
  <2> QED BY <1>l, <2>1, <2>3, <2>4, <2>5 DEF QInv
<1>3. CASE synwait_[q] /\ ~Q!Dead(q)
  <2>0. /\ code_' = [code_ EXCEPT ![q] = code] /\ running_' = [running_ EXCEPT ![q] = FALSE]
        /\ telling' = telling \union {<<q, by>>}
        /\ early' = (IF exec[q] = "made" THEN early \union {q} ELSE early) /\ UNCHANGED crashed
    BY <1>3 DEF Q!Finishes, Q!begins
  <2>1. QTypeOK'
    <3>1. /\ code_' \in [Queries -> Commands \union Failures \union {"none"}]
          /\ running_' \in [Queries -> BOOLEAN] /\ early' \in SUBSET Queries
      BY <2>0, <1>c DEF QInv, QTypeOK
    <3>2. telling' \in SUBSET (Queries \X {"task", "answer"})
      BY <2>0 DEF QInv, QTypeOK
    <3> QED BY <2>0, <3>1, <3>2, <1>t DEF QInv, QTypeOK, TaskSteps
  <2>2. Telling(q)' /\ \A r \in Queries : (Telling(r) => Telling(r)') /\ (r # q => (Telling(r)' <=> Telling(r)))
    BY <2>0 DEF Telling
  <2>3. \A r \in Queries : (running_'[r] => running_[r] /\ r # q) /\ (r # q => running_'[r] = running_[r])
    BY <2>0 DEF QInv, QTypeOK
  <2>4. WaitInv'
    BY <1>3, <1>n, <2>0, <2>2, <2>3 DEF QInv, QTypeOK, WaitInv, TaskSteps
  <2>5. CodeInv'
    BY <1>3, <2>0 DEF QInv, QTypeOK, CodeInv, Q!Dead, TaskSteps
  <2>6. TurnInv'
    <3>1. loops' = loops /\ exec' = exec /\ qwnd' = qwnd /\ loops \in Seq(Queries)
      BY DEF QInv, QTypeOK, TaskSteps
    <3>2. loops # <<>> => Q!Last(loops) \in Queries
      BY <3>1 DEF Q!Last
    <3>3. CASE Q!Inmost = "turns" /\ Q!Last(loops) # q
      BY <3>1, <3>2, <3>3, <2>0, <2>2, <2>3 DEF QInv, TurnInv, Q!Inmost
    <3>4. CASE Q!Inmost = "turns" /\ Q!Last(loops) = q
      BY <3>1, <3>4, <2>2 DEF TurnInv, Q!Inmost
    <3>5. CASE Q!Inmost # "turns"
      BY <3>1, <3>5 DEF TurnInv, Q!Inmost
    <3> QED BY <3>3, <3>4, <3>5
  <2>7. FlowInv'
    BY DEF QInv, FlowInv, TaskSteps
  <2> QED BY <1>l, <2>1, <2>4, <2>5, <2>6, <2>7 DEF QInv
<1> QED BY <1>1, <1>2, <1>3

\* What is done when the loop is told: the wait is the task's no longer.
LEMMA QueryToldKeeps ==
  ASSUME QInv, NEW q \in Queries, NEW by \in {"task", "answer"}, Q!finished(q, by),
         done_' \in {done_, [done_ EXCEPT ![q] = TRUE]}, blocked' \in [Queries -> {"no", "dozes", "yes"}]
  PROVE  QInv'
<1>0. /\ ~crashed /\ <<q, by>> \in telling /\ telling' = telling \ {<<q, by>>}
      /\ synwait_' = [synwait_ EXCEPT ![q] = FALSE] /\ qwnd' = qwnd + 1 /\ crashed' \in BOOLEAN
      /\ UNCHANGED <<task, exec, running_, code_, loops, early, others, up, reqs, answers, queue_, received, answered>>
  BY DEF Q!finished, Q!answerer
<1>1. Telling(q) /\ \A r \in Queries : (Telling(r)' => Telling(r)) /\ (r # q => (Telling(r)' <=> Telling(r)))
  BY <1>0 DEF Telling
<1>2. \A r \in Queries : (synwait_'[r] => synwait_[r] /\ r # q) /\ (r # q => synwait_'[r] = synwait_[r])
  BY <1>0 DEF QInv, QTypeOK
<1>3. \A r \in Queries : (done_'[r] => done_[r] \/ r = q)
  BY DEF QInv, QTypeOK
<1>t. QTypeOK'
  <2>1. synwait_' \in [Queries -> BOOLEAN] /\ qwnd' \in Nat
    BY <1>0 DEF QInv, QTypeOK
  <2>3. done_' \in [Queries -> BOOLEAN]
    BY DEF QInv, QTypeOK
  <2>2. telling' \in SUBSET (Queries \X {"task", "answer"})
    BY <1>0 DEF QInv, QTypeOK
  <2> QED BY <1>0, <2>1, <2>2, <2>3 DEF QInv, QTypeOK
<1>4. LoopInv' /\ CodeInv' /\ FlowInv'
  BY <1>0 DEF QInv, LoopInv, CodeInv, FlowInv
<1>5. WaitInv'
  <2> SUFFICES ASSUME NEW r \in Queries
               PROVE  /\ synwait_'[r] /\ ~Telling(r)' => task'[r] \in {"start", "response"}
                      /\ done_'[r] => ~synwait_'[r]
                      /\ done_'[r] \/ Telling(r)' => task'[r] # "none"
                      /\ exec'[r] = "made" /\ (~synwait_'[r] \/ Telling(r)') => r \in early'
                      /\ exec'[r] = "turns" /\ running_'[r] /\ r \notin early' => synwait_'[r] /\ ~Telling(r)'
    BY DEF WaitInv
  <2>1. CASE r = q
    BY <2>1, <1>0, <1>1, <1>2, <1>3 DEF QInv, WaitInv
  <2>2. CASE r # q
    BY <2>2, <1>0, <1>1, <1>2, <1>3 DEF QInv, WaitInv
  <2> QED BY <2>1, <2>2
<1>6. TurnInv'
  <2>1. qwnd' > 0
    BY <1>0 DEF QInv, QTypeOK
  <2> QED BY <2>1 DEF TurnInv
<1> QED BY <1>t, <1>4, <1>5, <1>6 DEF QInv

\* What is left of the loops when those that are not to go on have returned.
Left(l, out) ==
    /\ loops' = SubSeq(l, 1, Q!LoopsLeft(l))
    /\ exec' = [q \in Queries |-> IF q \in out THEN "quit"
                                  ELSE IF q \in Q!Returned(l, Q!LoopsLeft(l)) THEN "returned" ELSE exec[q]]

\* Those that have returned had their code, and those that are left turn.
LEMMA LeftKeeps ==
  ASSUME QInv, NEW l \in Seq(Queries), NEW out \in SUBSET Queries, Left(l, out),
         Len(l) <= Len(loops), \A i \in 1 .. Len(l) : l[i] = loops[i] /\ exec[loops[i]] = "turns" /\ loops[i] \notin out,
         qwnd' \in Nat, others' \in Nat,
         UNCHANGED <<task, blocked, done_, synwait_, telling, running_, code_, early, crashed, up, reqs, answers>>,
         UNCHANGED <<queue_, received, answered>>
  PROVE  QInv'
<1> DEFINE m == Len(l)
           n == Q!LoopsLeft(l)
<1>l. loops \in Seq(Queries) /\ Len(loops) \in Nat /\ m \in Nat /\ m <= Len(loops) /\ \A i \in 1 .. Len(loops) : loops[i] \in Queries
  BY DEF QInv, QTypeOK
<1>0. n \in 0 .. m /\ (n > 0 => running_[loops[n]]) /\ \A k \in n + 1 .. m : ~running_[loops[k]]
  <2>1. n \in 0 .. Len(l) /\ (n > 0 => running_[l[n]]) /\ \A k \in n + 1 .. Len(l) : ~running_[l[k]]
    BY LoopsLeftIs
  <2> HIDE DEF n
  <2> QED BY <2>1, <1>l
<1>1. /\ loops' = SubSeq(l, 1, n)
      /\ exec' = [q \in Queries |-> IF q \in out THEN "quit" ELSE IF q \in Q!Returned(l, n) THEN "returned" ELSE exec[q]]
  BY DEF Left
<1> HIDE DEF n
<1>2. loops' \in Seq(Queries) /\ Len(loops') = n /\ \A i \in 1 .. n : loops'[i] = loops[i]
  BY <1>1, <1>0, <1>l
<1>3. \A q \in Queries : q \in Q!Returned(l, n) <=> \E k \in n + 1 .. m : loops[k] = q
  BY <1>0, <1>l DEF Q!Returned
<1>t. QTypeOK'
  <2>1. exec' \in [Queries -> {"none", "made", "turns", "returned", "quit"}]
    BY <1>1 DEF QInv, QTypeOK
  <2> QED BY <1>2, <2>1 DEF QInv, QTypeOK
<1>4. LoopInv'
  <2>1. ASSUME NEW i \in 1 .. n PROVE exec'[loops[i]] = "turns"
    <3>1. i \in 1 .. m /\ loops[i] \in Queries /\ loops[i] \notin out /\ exec[loops[i]] = "turns"
      BY <1>0, <1>l
    <3>2. \A k \in n + 1 .. m : loops[k] # loops[i]
      BY <1>0, <1>l, <3>1 DEF QInv, LoopInv
    <3> QED BY <1>1, <1>3, <3>1, <3>2
  <2>2. \A i, j \in 1 .. Len(loops') : loops'[i] = loops'[j] => i = j
    BY <1>0, <1>l, <1>2 DEF QInv, LoopInv
  <2>3. \A i \in 1 .. Len(loops') : task'[loops'[i]] # "none" /\ exec'[loops'[i]] = "turns"
    <3>1. \A i \in 1 .. n : i \in 1 .. Len(loops) /\ task[loops[i]] # "none"
      BY <1>0, <1>l DEF QInv, LoopInv
    <3> QED BY <1>2, <2>1, <3>1
  <2> QED BY <2>2, <2>3 DEF LoopInv
<1>5. WaitInv'
  <2>1. \A q \in Queries : exec'[q] \in {"made", "turns"} => exec'[q] = exec[q]
    BY <1>1
  <2> QED BY <2>1 DEF QInv, WaitInv, Telling
<1>6. CodeInv'
  <2>1. ASSUME NEW q \in Queries, NEW k \in n + 1 .. m, loops[k] = q
        PROVE  exec[q] = "turns" /\ ~running_[q]
    BY <1>0, <1>l, <2>1
  <2>2. \A q \in Queries : exec'[q] \in {"returned", "turns"} => exec'[q] = exec[q] \/ (exec[q] = "turns" /\ ~running_[q])
    BY <1>1, <1>3, <2>1
  <2> QED BY <1>1, <1>3, <2>1, <2>2 DEF QInv, CodeInv
<1>7. TurnInv'
  <2>1. CASE n = 0
    BY <2>1, <1>2 DEF TurnInv, Q!Inmost
  <2>2. CASE n > 0
    BY <2>2, <1>0, <1>1, <1>2 DEF TurnInv, Q!Inmost, Q!Last
  <2> QED BY <1>0, <2>1, <2>2
<1>8. FlowInv'
  BY DEF QInv, FlowInv
<1> QED BY <1>t, <1>4, <1>5, <1>6, <1>7, <1>8 DEF QInv

\* A loop sees the messages that end it, and those that turn around it with it.
LEMMA TurnKeeps ==
  ASSUME QInv, Q!Turn
  PROVE  QInv'
<1>1. loops \in Seq(Queries) /\ Len(loops) \in Nat /\ loops # <<>> /\ exec[loops[Len(loops)]] = "turns" /\ qwnd > 0
  BY DEF QInv, QTypeOK, Q!Turn, Q!Inmost, Q!Last
<1>3. \A i \in 1 .. Len(loops) : exec[loops[i]] = "turns"
  BY <1>1 DEF QInv, LoopInv
<1>4. Left(loops, {})
  BY Zenon DEF Q!Turn, Left
<1>5. /\ qwnd' \in Nat /\ others' \in Nat
      /\ UNCHANGED <<task, blocked, done_, synwait_, telling, running_, code_, early, crashed, up, reqs, answers>>
      /\ UNCHANGED <<queue_, received, answered>>
  BY <1>1 DEF QInv, QTypeOK, Q!Turn, Q!answerer
<1>7. {} \in SUBSET Queries
  OBVIOUS
<1>6. Len(loops) <= Len(loops) /\ \A i \in 1 .. Len(loops) : loops[i] = loops[i] /\ exec[loops[i]] = "turns" /\ loops[i] \notin {}
  BY <1>1, <1>3
<1> QED BY <1>1, <1>4, <1>5, <1>6, <1>7, LeftKeeps

\* On WM_QUIT the inmost loop returns, and those around it look as ever.
LEMMA LoopQuitsKeeps ==
  ASSUME QInv, Q!Quit
  PROVE  QInv'
<1> DEFINE m == Len(loops) - 1
<1>1. loops \in Seq(Queries) /\ Len(loops) \in Nat /\ loops # <<>>
  BY DEF QInv, QTypeOK, Q!Quit, Q!Inmost
<1>2. m \in 0 .. Len(loops) /\ Len(loops) \in 1 .. Len(loops)
  BY <1>1
<1>3. Q!Front(loops) = SubSeq(loops, 1, m) /\ SubSeq(loops, 1, m) \in Seq(Queries) /\ Len(SubSeq(loops, 1, m)) = m
      /\ (\A i \in 1 .. m : SubSeq(loops, 1, m)[i] = loops[i]) /\ Q!Last(loops) = loops[Len(loops)] /\ loops[Len(loops)] \in Queries
  <2>1. SubSeq(loops, 1, m) \in Seq(Queries) /\ Len(SubSeq(loops, 1, m)) = m /\ \A i \in 1 .. m : SubSeq(loops, 1, m)[i] = loops[i]
    <3>1. m \in Nat /\ m \in Int /\ 1 \in Int /\ \A i \in 1 .. m : loops[i] \in Queries
      BY <1>1
    <3> HIDE DEF m
    <3>2. /\ SubSeq(loops, 1, m) \in Seq(Queries) /\ Len(SubSeq(loops, 1, m)) = IF 1 <= m THEN m - 1 + 1 ELSE 0
          /\ \A i \in 1 .. m - 1 + 1 : SubSeq(loops, 1, m)[i] = loops[1 + i - 1]
      BY ONLY <3>1, SubSeqProperties
    <3>3. \A i \in 1 .. m : i \in 1 .. m - 1 + 1 /\ 1 + i - 1 = i
      BY <3>1
    <3> QED BY <3>1, <3>2, <3>3
  <2>2. Q!Front(loops) = SubSeq(loops, 1, m) /\ Q!Last(loops) = loops[Len(loops)]
    BY DEF Q!Front, Q!Last
  <2>3. loops[Len(loops)] \in Queries
    BY <1>1, <1>2
  <2> HIDE DEF m
  <2> QED BY <2>1, <2>2, <2>3
<1>4. \A i \in 1 .. m : exec[loops[i]] = "turns" /\ loops[i] # loops[Len(loops)]
  BY <1>1, <1>2 DEF QInv, LoopInv
<1>5. Left(SubSeq(loops, 1, m), {loops[Len(loops)]})
  BY <1>3 DEF Q!Quit, Left
<1>6. /\ qwnd' \in Nat /\ others' \in Nat
      /\ UNCHANGED <<task, blocked, done_, synwait_, telling, running_, code_, early, crashed, up, reqs, answers>>
      /\ UNCHANGED <<queue_, received, answered>>
  BY DEF QInv, QTypeOK, Q!Quit, Q!answerer
<1> HIDE DEF m
<1>7. /\ Len(SubSeq(loops, 1, m)) <= Len(loops) /\ {loops[Len(loops)]} \in SUBSET Queries
      /\ \A i \in 1 .. Len(SubSeq(loops, 1, m)) : /\ SubSeq(loops, 1, m)[i] = loops[i] /\ exec[loops[i]] = "turns"
                                              /\ loops[i] \notin {loops[Len(loops)]}
  BY <1>1, <1>2, <1>3, <1>4
<1> QED BY <1>3, <1>5, <1>6, <1>7, LeftKeeps, Zenon

\* The task sends the query, or tells its loop that it cannot.
LEMMA StartKeeps ==
  ASSUME QInv, NEW q \in Queries, Q!processStart(q)
  PROVE  QInv'
<1>1. CASE up /\ Q!Goes(q, "response") /\ reqs' = Append(reqs, q) /\ Q!NotFinished
  <2>0. Append(reqs, q) \in Seq(Queries) /\ task' \in [Queries -> {"none", "start", "response", "ended", "gone"}]
    BY <1>1 DEF QInv, QTypeOK, Q!Goes
  <2>t. QTypeOK'
    BY <1>1, <2>0 DEF QInv, QTypeOK, Q!processStart, Q!Kept, Q!NotFinished, Q!answerer
  <2>1. LoopInv' /\ WaitInv'
    BY <1>1 DEF QInv, QTypeOK, LoopInv, WaitInv, Telling, Q!processStart, Q!Goes, Q!Kept, Q!NotFinished
  <2>2. CodeInv' /\ TurnInv' /\ FlowInv'
    BY <1>1 DEF QInv, CodeInv, TurnInv, Telling, FlowInv, Q!Inmost, Q!Last, Q!processStart, Q!Kept, Q!NotFinished, Q!answerer
  <2> QED BY <2>t, <2>1, <2>2 DEF QInv
<1>2. CASE Q!Goes(q, "ended") /\ UNCHANGED reqs /\ Q!Finishes(q, "task", "not sent")
  <2>1. TaskSteps(q) /\ ~crashed
    BY <1>2 DEF QInv, QTypeOK, TaskSteps, Q!processStart, Q!Goes, Q!Kept, Q!answerer, Q!Free
  <2> QED BY <1>2, <2>1, FinishesKeeps DEF Failures
<1> QED BY <1>1, <1>2 DEF Q!processStart

\* The task goes to sleep, or is over because it was answered.
LEMMA ResponseKeeps ==
  ASSUME QInv, NEW q \in Queries, Q!processResponse(q) \/ Q!Blocks(q)
  PROVE  QInv'
<1>0. /\ Q!Kept /\ Q!NotFinished /\ UNCHANGED <<done_, reqs, answers>>
      /\ blocked' \in [Queries -> {"no", "dozes", "yes"}]
      /\ UNCHANGED task \/ (task' = [task EXCEPT ![q] = "ended"] /\ done_[q])
  BY DEF QInv, QTypeOK, Q!processResponse, Q!Blocks, Q!Goes
<1>t. QTypeOK'
  BY <1>0 DEF QInv, QTypeOK, Q!Kept, Q!NotFinished, Q!answerer
<1>1. LoopInv'
  BY <1>0 DEF QInv, QTypeOK, LoopInv, Q!Kept
<1>2. WaitInv'
  BY <1>0 DEF QInv, QTypeOK, WaitInv, Telling, Q!Kept, Q!NotFinished
<1>3. CodeInv' /\ TurnInv' /\ FlowInv'
  BY <1>0 DEF QInv, CodeInv, TurnInv, Telling, FlowInv, Q!Inmost, Q!Last, Q!Kept, Q!NotFinished, Q!answerer
<1> QED BY <1>t, <1>1, <1>2, <1>3 DEF QInv

\* The task gives up.
LEMMA TimeoutKeeps ==
  ASSUME QInv, NEW q \in Queries, Q!onTimeout(q)
  PROVE  QInv'
<1>1. TaskSteps(q) /\ ~crashed
  BY DEF QInv, QTypeOK, TaskSteps, Q!onTimeout, Q!Goes, Q!Kept, Q!answerer, Q!Free
<1> QED BY <1>1, FinishesKeeps DEF Failures, Q!onTimeout

\* The task is deleted and tells its loop if it has not.
LEMMA QueryDeletedKeeps ==
  ASSUME QInv, NEW q \in Queries, Q!Deleted(q)
  PROVE  QInv'
<1>1. TaskSteps(q) /\ ~crashed
  BY DEF QInv, QTypeOK, TaskSteps, Q!Deleted, Q!Goes, Q!Kept, Q!answerer, Q!Free
<1>2. CASE Q!NotFinished /\ (task[q] = "ended" \/ ~synwait_[q])
  <2>0. UNCHANGED <<code_, running_, telling, early, crashed>> /\ Q!Goes(q, "gone")
    BY <1>2 DEF Q!Deleted, Q!NotFinished
  <2>t. QTypeOK'
    BY <2>0, <1>1 DEF QInv, QTypeOK, TaskSteps, Q!Goes
  <2>n. /\ \A r \in Queries : task[r] # "none" => task'[r] # "none"
        /\ loops' = loops /\ exec' = exec /\ \A i \in 1 .. Len(loops) : loops[i] \in Queries
    BY <1>1 DEF QInv, QTypeOK, TaskSteps
  <2>1. LoopInv'
    BY <2>n DEF QInv, LoopInv
  <2>2. WaitInv'
    BY <1>2, <2>0, <1>1 DEF QInv, QTypeOK, WaitInv, Telling, TaskSteps, Q!Goes
  <2>3. CodeInv' /\ TurnInv' /\ FlowInv'
    BY <2>0, <1>1 DEF QInv, CodeInv, TurnInv, Telling, FlowInv, Q!Inmost, Q!Last, TaskSteps
  <2> QED BY <2>1, <2>2, <2>3, <2>t DEF QInv
<1>3. CASE Q!Finishes(q, "task", "fail")
  BY <1>3, <1>1, FinishesKeeps DEF Failures
<1> QED BY <1>2, <1>3 DEF Q!Deleted

\* An answer comes.
LEMMA AnswerKeeps ==
  ASSUME QInv, Q!Answer
  PROVE  QInv'
<1> DEFINE cmd == Head(answers)
<1>0. answers # <<>> /\ answers' = Tail(answers) /\ cmd \in Commands /\ Tail(answers) \in Seq(Commands) /\ ~crashed
  BY DEF QInv, QTypeOK, Q!Answer
<1>k. UNCHANGED <<task, blocked, done_, synwait_, exec, loops, qwnd, others, up, reqs, queue_, received, answered>>
  BY DEF Q!Answer, Q!Kept, Q!answerer
<1>1. CASE Q!NotFinished
  <2>1. QTypeOK'
    BY <1>0, <1>1, <1>k DEF QInv, QTypeOK, Q!NotFinished
  <2>2. LoopInv' /\ WaitInv' /\ CodeInv' /\ TurnInv' /\ FlowInv'
    BY <1>1, <1>k DEF QInv, LoopInv, WaitInv, Telling, CodeInv, TurnInv, FlowInv, Q!Inmost, Q!Last, Q!NotFinished
  <2> QED BY <2>1, <2>2 DEF QInv
<1>2. ASSUME NEW q \in Q!Takers(cmd), Q!Finishes(q, "answer", cmd)
      PROVE  QInv'
  <2>0. q \in Queries /\ task[q] # "none" /\ cmd = Command[q]
    BY DEF Q!Takers
  <2>1. TaskSteps(q)
    BY <1>0, <1>2, <2>0, <1>k DEF QInv, QTypeOK, TaskSteps
  <2> HIDE DEF cmd
  <2> QED BY <1>0, <1>2, <2>0, <2>1, FinishesKeeps
<1> QED BY <1>1, <1>2 DEF Q!Answer

\* The loop is told, by the task or with the answer.
LEMMA TellingKeeps ==
  ASSUME QInv, NEW q \in Queries, Q!TaskTold(q) \/ Q!AnswerTold(q)
  PROVE  QInv'
<1>1. CASE Q!TaskTold(q)
  <2>1. UNCHANGED done_ /\ blocked' \in [Queries -> {"no", "dozes", "yes"}]
    BY <1>1 DEF QInv, QTypeOK, Q!TaskTold
  <2> QED BY <1>1, <2>1, QueryToldKeeps DEF Q!TaskTold
<1>2. CASE Q!AnswerTold(q)
  <2>1. blocked' \in [Queries -> {"no", "dozes", "yes"}]
    BY <1>2 DEF QInv, QTypeOK, Q!AnswerTold
  <2> QED BY <1>2, <2>1, QueryToldKeeps DEF Q!AnswerTold
<1> QED BY <1>1, <1>2

\* The other process receives a query.
LEMMA PushKeeps ==
  ASSUME QInv, Q!push
  PROVE  QInv'
<1>t. QTypeOK'
  BY DEF QInv, QTypeOK, Q!push, Q!asker, Q!answerer
<1>1. LoopInv'
  BY DEF QInv, QTypeOK, LoopInv, Q!push, Q!asker, Q!answerer
<1>2. WaitInv'
  BY DEF QInv, QTypeOK, WaitInv, Telling, Q!push, Q!asker, Q!answerer
<1>3. CodeInv'
  BY DEF QInv, QTypeOK, CodeInv, Q!push, Q!asker, Q!answerer
<1>4. TurnInv'
  BY DEF QInv, QTypeOK, TurnInv, Telling, Q!Inmost, Q!Last, Q!push, Q!asker, Q!answerer
<1>5. FlowInv'
  <2>1. Head(reqs) \in Queries /\ queue_ \in Seq(Queries) /\ answered \in Seq(Queries)
    BY DEF QInv, QTypeOK, Q!push
  <2>2. answered \o Append(queue_, Head(reqs)) = Append(answered \o queue_, Head(reqs))
    BY <2>1, AppendConcat
  <2> QED BY <2>2 DEF QInv, FlowInv, Q!push
<1> QED BY <1>t, <1>1, <1>2, <1>3, <1>4, <1>5 DEF QInv

\* The other process answers the query that came first.
LEMMA ListenKeeps ==
  ASSUME QInv, Q!ListenQuery
  PROVE  QInv'
<1> DEFINE q == Head(queue_)
<1>q. q \in Queries /\ Tail(queue_) \in Seq(Queries) /\ Command[q] \in Commands
  BY DEF QInv, QTypeOK, Q!ListenQuery, Commands
<1>a. queue_' = Tail(queue_) /\ answered' = Append(answered, q) /\ answers' \in {answers, Append(answers, Command[q])}
  BY DEF Q!ListenQuery, Q!next
<1> HIDE DEF q
<1>t. QTypeOK'
  <2>1. answered' \in Seq(Queries) /\ answers' \in Seq(Commands)
    <3>1. answered \in Seq(Queries) /\ answers \in Seq(Commands)
      BY DEF QInv, QTypeOK
    <3>2. Append(answered, q) \in Seq(Queries) /\ Append(answers, Command[q]) \in Seq(Commands)
      BY <1>q, <3>1
    <3> QED BY <1>a, <3>1, <3>2
  <2>2. UNCHANGED <<task, blocked, done_, synwait_, telling, exec, running_, code_, loops, qwnd, early, crashed, others, up, reqs, received>>
    BY DEF Q!ListenQuery, Q!asker
  <2> QED BY <1>q, <1>a, <2>1, <2>2 DEF QInv, QTypeOK
<1>1. LoopInv'
  BY DEF QInv, QTypeOK, LoopInv, Q!ListenQuery, Q!next, Commands, Q!asker, Q!answerer
<1>2. WaitInv'
  BY DEF QInv, QTypeOK, WaitInv, Telling, Q!ListenQuery, Q!next, Commands, Q!asker, Q!answerer
<1>3. CodeInv'
  BY DEF QInv, QTypeOK, CodeInv, Q!ListenQuery, Q!next, Commands, Q!asker, Q!answerer
<1>4. TurnInv'
  BY DEF QInv, QTypeOK, TurnInv, Telling, Q!Inmost, Q!Last, Q!ListenQuery, Q!next, Commands, Q!asker, Q!answerer
<1>5. FlowInv'
  <2>1. answered \o queue_ = Append(answered, q) \o Tail(queue_)
    BY HeadMoves DEF q, QInv, QTypeOK, Q!ListenQuery
  <2> QED BY <1>a, <2>1 DEF QInv, FlowInv, Q!ListenQuery
<1> QED BY <1>t, <1>1, <1>2, <1>3, <1>4, <1>5 DEF QInv

\* The connection closes.
LEMMA CloseKeeps ==
  ASSUME QInv, Q!Close
  PROVE  QInv'
<1>t. QTypeOK'
  <2>1. <<>> \in Seq(Queries) /\ <<>> \in Seq(Commands)
    OBVIOUS
  <2> QED BY <2>1 DEF QInv, QTypeOK, Q!Close, Q!asker
<1>1. LoopInv'
  BY DEF QInv, QTypeOK, LoopInv, Q!Close, Q!asker, Q!answerer
<1>2. WaitInv'
  BY DEF QInv, QTypeOK, WaitInv, Telling, Q!Close, Q!asker, Q!answerer
<1>3. CodeInv'
  BY DEF QInv, QTypeOK, CodeInv, Q!Close, Q!asker, Q!answerer
<1>4. TurnInv'
  BY DEF QInv, QTypeOK, TurnInv, Telling, Q!Inmost, Q!Last, Q!Close, Q!asker, Q!answerer
<1>5. FlowInv'
  BY DEF QInv, QTypeOK, FlowInv, Q!Close, Q!asker, Q!answerer
<1> QED BY <1>t, <1>1, <1>2, <1>3, <1>4, <1>5 DEF QInv

\* Every step of the queries keeps the invariant.
LEMMA QueriesStep ==
  ASSUME QInv, Q!Next
  PROVE  QInv'
BY QueryKeeps, ExecKeeps, OtherKeeps, TurnKeeps, LoopQuitsKeeps, StartKeeps, ResponseKeeps, TimeoutKeeps,
   QueryDeletedKeeps, TellingKeeps, AnswerKeeps, PushKeeps, ListenKeeps, CloseKeeps DEF Q!Next

\* ... and so does one of the other parts.
LEMMA QueriesStutter ==
  ASSUME QInv, UNCHANGED QueryVars
  PROVE  QInv'
<1>1. QTypeOK' /\ LoopInv'
  BY DEF QInv, QueryVars, QTypeOK, LoopInv
<1>2. WaitInv' /\ CodeInv' /\ TurnInv' /\ FlowInv'
  BY DEF QInv, QueryVars, WaitInv, Telling, CodeInv, TurnInv, FlowInv, Q!Inmost, Q!Last
<1> QED BY <1>1, <1>2 DEF QInv

\* The invariant of the queries holds in every state.
LEMMA QueriesInductive == Spec => []QInv
<1>1. Init => QInv
  BY QueriesInit DEF Init
<1>2. QInv /\ [Next]_vars => QInv'
  <2> SUFFICES ASSUME QInv, [Next]_vars PROVE QInv'
    OBVIOUS
  <2>1. CASE Q!Next
    BY <2>1, QueriesStep
  <2>2. CASE UNCHANGED QueryVars
    BY <2>2, QueriesStutter
  <2> QED BY <2>1, <2>2 DEF Next, vars
<1> QED BY <1>1, <1>2, PTL DEF Spec

\* A query's loop that turns is still to be told, is being told, or has a message that
\* lets it see that it was; one that was not ended by WM_QUIT returns with its own answer
\* or a failure; answers go back in the order the queries came: Queries' QueriesAnswered,
\* of IPCSynWait (qyipc/ipc-tasks.cc), however the loops nest.  (What a task does with a
\* wait that WM_QUIT has ended is WaitThere, which the code breaks.)
THEOREM Answered == Spec => []QueriesAnswered
<1>1. QInv => QueriesAnswered
  <2> SUFFICES ASSUME QInv PROVE QueriesAnswered
    OBVIOUS
  <2>1. \A q \in Queries :
           /\ exec[q] = "turns" /\ running_[q] /\ ~crashed /\ q \notin early => task[q] \in {"start", "response"}
           /\ exec[q] = "returned" => code_[q] \in {Command[q], "not sent", "timeout", "fail"}
    BY DEF QInv, WaitInv, CodeInv, Failures
  <2> QED BY <2>1 DEF QInv, TurnInv, Telling, FlowInv, QueriesAnswered, Q!QueriesAnswered
<1> QED BY <1>1, QueriesInductive, PTL

-----------------------------------------------------------------------------
(* The plugins.                                                              *)

Files == {File[a] : a \in Apps}
LinkStatus == {"connecting", "connected", "closed"}
TaskFields(kinds, apps, queues) ==
    [kind : kinds, app : apps, st : {"init", "start"}, status : LinkStatus \union {"unk"}, ready : BOOLEAN,
     dozes : BOOLEAN, missed : BOOLEAN, destroy_ : BOOLEAN, queue_ : queues]
Requests == {"load", "unload"} \X (Apps \ Ours)
PluginTask ==
    TaskFields({"service"}, Apps, Seq(Nat)) \union TaskFields({"listen"}, {Nothing}, Seq(Requests))
    \union TaskFields({"wait"}, Ours, {<<>>})
    \union TaskFields({"load", "unload", "raw", "load_res", "unload_res"}, Apps, {<<>>})
Message ==
    [what : {"status"}, app : Ours, x : {"start_load", "load_fail"}]
    \union [what : {"listen"}, app : Apps \ Ours, x : {"load", "unload"}]
    \union [what : {"data"}, app : Apps, x : Nat] \union [what : {"quit"}, app : {Nothing}, x : {Nothing}]

\* What a plugin's owner starts is its own, and what comes from the pipe is not;
\* a task has run or is to take its status from the key.
PTypeOK ==
    /\ plugins_ \in SUBSET Apps /\ dlls_ \in [Files -> Nat]
    /\ ptasks \in Seq(PluginTask) /\ wnd \in Seq(Message) /\ checks \in Nat
    /\ status \in LinkStatus /\ key \in LinkStatus
    /\ \A i \in 1 .. Len(ptasks) : ptasks[i].st = "start" => ptasks[i].status \in LinkStatus
    /\ quitTold \in BOOLEAN /\ dealt \in BOOLEAN /\ stray \in BOOLEAN
    /\ due \in SUBSET (Apps \X Nat) /\ delivered \in [Apps -> Seq(Nat)] /\ pcalls \in Nat

\* The references to a DLL are those of the plugins in the table, and when there
\* is none somebody looks whether the process is still needed.
Users(f) == {a \in plugins_ \ Ours : File[a] = f}
HeldInv ==
    /\ ~stray => \A f \in Files : dlls_[f] = Cardinality(Users(f))
    /\ dealt /\ P!isNil(dlls_) => quitTold \/ checks > 0 \/ \E i \in 1 .. Len(wnd) : wnd[i].what = "quit"

\* A plugin in the table has at most one task that takes its packets.
Live(t) == t.kind = "service" /\ ~t.destroy_
ServiceInv ==
    /\ \A i \in 1 .. Len(ptasks) : Live(ptasks[i]) => ptasks[i].app \in plugins_
    /\ \A i, j \in 1 .. Len(ptasks) : Live(ptasks[i]) /\ Live(ptasks[j]) /\ ptasks[i].app = ptasks[j].app => i = j

\* The packets of a plugin, oldest first: those it has got, those in the window,
\* those its task has.
Increasing(s) == \A i, j \in 1 .. Len(s) : i < j => s[i] < s[j]
Before(S, T) == \A x \in S, y \in T : x < y
Got(a) == {delivered[a][i] : i \in 1 .. Len(delivered[a])}
DataOf(m, a) == m.what = "data" /\ m.app = a
InWindow(a) == {wnd[i].x : i \in {j \in 1 .. Len(wnd) : DataOf(wnd[j], a)}}
Holds(t, a, x) == Live(t) /\ t.app = a /\ \E i \in 1 .. Len(t.queue_) : t.queue_[i] = x
InQueue(a) == {x \in Nat : \E i \in 1 .. Len(ptasks) : Holds(ptasks[i], a, x)}
OrderInv ==
    /\ \A a \in Apps :
          /\ Increasing(delivered[a])
          /\ \A i, j \in 1 .. Len(wnd) : i < j /\ DataOf(wnd[i], a) /\ DataOf(wnd[j], a) => wnd[i].x < wnd[j].x
          /\ Before(Got(a), InWindow(a)) /\ Before(Got(a), InQueue(a)) /\ Before(InWindow(a), InQueue(a))
          /\ Before(Got(a) \union InWindow(a) \union InQueue(a), {pcalls})
    /\ \A i \in 1 .. Len(ptasks) : Live(ptasks[i]) => Increasing(ptasks[i].queue_)

\* A packet that is due is in the window, or with a task that is to run or has
\* missed a call.
Finds(t) == t.ready \/ t.missed
DueInv ==
    \A d \in due : \/ d[2] \in InWindow(d[1])
                   \/ \E i \in 1 .. Len(ptasks) : Finds(ptasks[i]) /\ Holds(ptasks[i], d[1], d[2])

PInv == PTypeOK /\ HeldInv /\ ServiceInv /\ OrderInv /\ DueInv

-----------------------------------------------------------------------------
\* A task that only runs or is told something keeps what it is.
Keeping(t) == [kind : {t.kind}, app : {t.app}, st : {"init", "start"}, status : LinkStatus \union {"unk"},
               ready : BOOLEAN, dozes : BOOLEAN, missed : BOOLEAN, destroy_ : BOOLEAN, queue_ : {t.queue_}]

\* It is a plugin's task still.
LEMMA KeepingIs ==
  ASSUME NEW t \in PluginTask, NEW u \in Keeping(t)
  PROVE  u \in PluginTask /\ u.kind = t.kind /\ u.app = t.app /\ u.queue_ = t.queue_
BY DEF PluginTask, Keeping, TaskFields

\* A plugin's task has these fields.
LEMMA TaskIsKeeping ==
  ASSUME NEW t \in PluginTask
  PROVE  t \in Keeping(t)
BY DEF PluginTask, Keeping, TaskFields

\* A task starts, with a status of the connection.
LEMMA StartedIs ==
  ASSUME NEW t \in PluginTask, NEW s \in LinkStatus
  PROVE  LET u == [t EXCEPT !.st = "start", !.status = s] IN
         /\ u \in PluginTask /\ u.st = "start" /\ u.status = s
         /\ u.kind = t.kind /\ u.app = t.app /\ u.queue_ = t.queue_ /\ u.destroy_ = t.destroy_ /\ u.ready = t.ready
<1> DEFINE u == [t EXCEPT !.st = "start", !.status = s]
<1>1. t \in Keeping(t)
  BY TaskIsKeeping
<1>2. u \in Keeping(t)
  BY <1>1 DEF Keeping, LinkStatus
<1>3. u.st = "start" /\ u.status = s /\ u.destroy_ = t.destroy_ /\ u.ready = t.ready
  BY <1>1 DEF Keeping
<1> HIDE DEF u
<1>4. u \in PluginTask /\ u.kind = t.kind /\ u.app = t.app /\ u.queue_ = t.queue_
  BY <1>2, KeepingIs
<1> QED BY <1>3, <1>4 DEF u

\* A task is going to sleep.
LEMMA SleptIs ==
  ASSUME NEW t \in PluginTask
  PROVE  LET u == [t EXCEPT !.ready = FALSE, !.dozes = TRUE] IN
         /\ u \in PluginTask /\ u.st = t.st /\ u.status = t.status
         /\ u.kind = t.kind /\ u.app = t.app /\ u.queue_ = t.queue_ /\ u.destroy_ = t.destroy_
<1> DEFINE u == [t EXCEPT !.ready = FALSE, !.dozes = TRUE]
<1>1. t \in Keeping(t)
  BY TaskIsKeeping
<1>2. u \in Keeping(t)
  BY <1>1 DEF Keeping
<1>3. u.st = t.st /\ u.status = t.status /\ u.destroy_ = t.destroy_
  BY <1>1 DEF Keeping
<1> HIDE DEF u
<1>4. u \in PluginTask /\ u.kind = t.kind /\ u.app = t.app /\ u.queue_ = t.queue_
  BY <1>2, KeepingIs
<1> QED BY <1>3, <1>4 DEF u

\* A task sleeps.
LEMMA BlockedIs ==
  ASSUME NEW t \in PluginTask
  PROVE  LET u == [t EXCEPT !.dozes = FALSE] IN
         /\ u \in PluginTask /\ u.st = t.st /\ u.status = t.status /\ u.ready = t.ready /\ u.missed = t.missed
         /\ u.kind = t.kind /\ u.app = t.app /\ u.queue_ = t.queue_ /\ u.destroy_ = t.destroy_
<1> DEFINE u == [t EXCEPT !.dozes = FALSE]
<1>1. t \in Keeping(t)
  BY TaskIsKeeping
<1>2. u \in Keeping(t)
  BY <1>1 DEF Keeping
<1>3. u.st = t.st /\ u.status = t.status /\ u.ready = t.ready /\ u.missed = t.missed /\ u.destroy_ = t.destroy_
  BY <1>1 DEF Keeping
<1> HIDE DEF u
<1>4. u \in PluginTask /\ u.kind = t.kind /\ u.app = t.app /\ u.queue_ = t.queue_
  BY <1>2, KeepingIs
<1> QED BY <1>3, <1>4 DEF u

\* A task is called, which may be in vain.
LEMMA WakeIs ==
  ASSUME NEW t \in PluginTask
  PROVE  LET u == P!wake(t) IN
         /\ u \in PluginTask /\ u.st = t.st /\ u.status = t.status /\ (Finds(t) \/ ~t.dozes => Finds(u))
         /\ u.kind = t.kind /\ u.app = t.app /\ u.queue_ = t.queue_ /\ u.destroy_ = t.destroy_
<1>1. CASE t.dozes
  BY <1>1 DEF P!wake, Finds
<1>2. CASE ~t.dozes
  <2> DEFINE u == [t EXCEPT !.ready = TRUE]
  <2>1. t \in Keeping(t)
    BY TaskIsKeeping
  <2>2. u \in Keeping(t)
    BY <2>1 DEF Keeping
  <2>3. u.st = t.st /\ u.status = t.status /\ u.ready /\ u.destroy_ = t.destroy_
    BY <2>1 DEF Keeping
  <2>4. P!wake(t) = u
    BY <1>2 DEF P!wake
  <2> HIDE DEF u
  <2>5. u \in PluginTask /\ u.kind = t.kind /\ u.app = t.app /\ u.queue_ = t.queue_
    BY <2>2, KeepingIs
  <2> QED BY <2>3, <2>4, <2>5 DEF Finds
<1> QED BY <1>1, <1>2

\* A task is told the connection's status.
LEMMA ToldIs ==
  ASSUME NEW t \in PluginTask, NEW s \in LinkStatus
  PROVE  LET u == [t EXCEPT !.status = s] IN
         /\ u \in PluginTask /\ u.st = t.st /\ u.status = s /\ u.ready = t.ready /\ u.missed = t.missed
         /\ u.kind = t.kind /\ u.app = t.app /\ u.queue_ = t.queue_ /\ u.destroy_ = t.destroy_
<1> DEFINE u == [t EXCEPT !.status = s]
<1>1. t \in Keeping(t)
  BY TaskIsKeeping
<1>2. u \in Keeping(t)
  BY <1>1 DEF Keeping, LinkStatus
<1>3. u.st = t.st /\ u.status = s /\ u.ready = t.ready /\ u.missed = t.missed /\ u.destroy_ = t.destroy_
  BY <1>1 DEF Keeping
<1> HIDE DEF u
<1>4. u \in PluginTask /\ u.kind = t.kind /\ u.app = t.app /\ u.queue_ = t.queue_
  BY <1>2, KeepingIs
<1> QED BY <1>3, <1>4 DEF u

\* A service is marked.
LEMMA MarkedIs ==
  ASSUME NEW t \in PluginTask
  PROVE  LET u == [t EXCEPT !.destroy_ = TRUE] IN
         /\ u \in PluginTask /\ u.status = t.status /\ u.st = t.st /\ u.destroy_
         /\ u.kind = t.kind /\ u.app = t.app
<1> DEFINE u == [t EXCEPT !.destroy_ = TRUE]
<1>1. t \in Keeping(t)
  BY TaskIsKeeping
<1>2. u \in Keeping(t)
  BY <1>1 DEF Keeping
<1>3. u.status = t.status /\ u.st = t.st /\ u.destroy_
  BY <1>1 DEF Keeping
<1> HIDE DEF u
<1>4. u \in PluginTask /\ u.kind = t.kind /\ u.app = t.app
  BY <1>2, KeepingIs
<1> QED BY <1>3, <1>4 DEF u

\* A new task has no packets.
LEMMA NewTaskIs ==
  ASSUME NEW kind, NEW a,
         \/ kind \in {"load", "unload", "raw", "load_res", "unload_res", "service"} /\ a \in Apps
         \/ kind = "wait" /\ a \in Ours
         \/ kind = "listen" /\ a = Nothing
  PROVE  LET u == P!NewTask(kind, a) IN
         /\ u \in PluginTask /\ u.kind = kind /\ u.app = a /\ u.st = "init" /\ u.queue_ = <<>> /\ ~u.destroy_ /\ u.ready
<1> DEFINE u == P!NewTask(kind, a)
<1>1. <<>> \in Seq(Nat) /\ <<>> \in Seq(Requests)
  OBVIOUS
<1>2. u.kind = kind /\ u.app = a /\ u.st = "init" /\ u.queue_ = <<>> /\ ~u.destroy_ /\ u.ready
  BY DEF P!NewTask
<1>3. u \in PluginTask
  BY <1>1 DEF P!NewTask, PluginTask, TaskFields
<1> QED BY <1>2, <1>3

\* A message of the window is what was posted.
LEMMA PostedIs ==
  ASSUME NEW w, NEW a, NEW x,
         \/ w = "status" /\ a \in Ours /\ x \in {"start_load", "load_fail"}
         \/ w = "listen" /\ a \in Apps \ Ours /\ x \in {"load", "unload"}
         \/ w = "data" /\ a \in Apps /\ x \in Nat
         \/ w = "quit" /\ a = Nothing /\ x = Nothing
  PROVE  [what |-> w, app |-> a, x |-> x] \in Message
BY DEF Message

\* A message is for its reader.
LEMMA MessageIs ==
  ASSUME NEW m \in Message
  PROVE  /\ m.what = "status" => m.app \in Ours
         /\ m.what = "listen" => m.app \in Apps \ Ours /\ m.x \in {"load", "unload"}
         /\ m.what = "data" => m.app \in Apps /\ m.x \in Nat
BY DEF Message

\* One of a list is taken out.
LEMMA RemoveAtIs ==
  ASSUME NEW S, NEW s \in Seq(S), NEW i \in 1 .. Len(s)
  PROVE  LET r == SubSeq(s, 1, i - 1) \o SubSeq(s, i + 1, Len(s)) IN
         /\ r \in Seq(S) /\ Len(r) = Len(s) - 1
         /\ \A k \in 1 .. Len(s) - 1 : r[k] = s[IF k < i THEN k ELSE k + 1]
<1> DEFINE a == SubSeq(s, 1, i - 1)
           b == SubSeq(s, i + 1, Len(s))
<1>0. Len(s) \in Nat /\ i \in Int /\ \A k \in 1 .. Len(s) : s[k] \in S
  OBVIOUS
<1>1. a \in Seq(S) /\ Len(a) = i - 1 /\ \A k \in 1 .. i - 1 : a[k] = s[k]
  <2>1. a \in Seq(S) /\ Len(a) = (IF 1 <= i - 1 THEN i - 1 - 1 + 1 ELSE 0) /\ \A k \in 1 .. i - 1 - 1 + 1 : a[k] = s[1 + k - 1]
    BY <1>0, SubSeqProperties
  <2> QED BY <2>1, <1>0
<1>2. b \in Seq(S) /\ Len(b) = Len(s) - i /\ \A k \in 1 .. Len(s) - i : b[k] = s[i + k]
  <2>1. b \in Seq(S) /\ Len(b) = (IF i + 1 <= Len(s) THEN Len(s) - (i + 1) + 1 ELSE 0)
        /\ \A k \in 1 .. Len(s) - (i + 1) + 1 : b[k] = s[i + 1 + k - 1]
    BY <1>0, SubSeqProperties
  <2> QED BY <2>1, <1>0
<1> HIDE DEF a, b
<1>3. a \o b \in Seq(S) /\ Len(a \o b) = Len(a) + Len(b)
      /\ \A k \in 1 .. Len(a) + Len(b) : (a \o b)[k] = IF k <= Len(a) THEN a[k] ELSE b[k - Len(a)]
  BY <1>1, <1>2, ConcatProperties
<1>4. ASSUME NEW k \in 1 .. Len(s) - 1
      PROVE  (a \o b)[k] = s[IF k < i THEN k ELSE k + 1]
  <2>1. k \in 1 .. Len(a) + Len(b)
    BY <1>0, <1>1, <1>2
  <2>2. CASE k < i
    BY <2>1, <2>2, <1>0, <1>1, <1>3
  <2>3. CASE ~(k < i)
    <3>1. k - (i - 1) \in 1 .. Len(s) - i /\ ~(k <= i - 1) /\ i + (k - (i - 1)) = k + 1
      BY <2>3, <1>0
    <3> QED BY <2>1, <2>3, <3>1, <1>1, <1>2, <1>3
  <2> QED BY <2>2, <2>3
<1>5. Len(a \o b) = Len(s) - 1
  BY <1>0, <1>1, <1>2, <1>3
<1> QED BY <1>3, <1>4, <1>5 DEF a, b

-----------------------------------------------------------------------------
TasksOK ==
    /\ ptasks \in Seq(PluginTask)
    /\ \A i \in 1 .. Len(ptasks) : ptasks[i].st = "start" => ptasks[i].status \in LinkStatus

\* What a step does to the tasks that take packets: a new one has none, and those
\* that were not for one of as go on with what they have.
Serves(t, u) == Live(u) /\ u.app = t.app /\ u.queue_ = t.queue_
Services(as) ==
    /\ \A i \in 1 .. Len(ptasks') : Live(ptasks'[i]) =>
           ptasks'[i].queue_ = <<>> \/ \E j \in 1 .. Len(ptasks) : Live(ptasks[j]) /\ Serves(ptasks[j], ptasks'[i])
    /\ \A j \in 1 .. Len(ptasks) : Live(ptasks[j]) /\ ptasks[j].app \notin as =>
           \E i \in 1 .. Len(ptasks') : /\ Serves(ptasks[j], ptasks'[i])
                                        /\ Finds(ptasks[j]) /\ ptasks[j].queue_ # <<>> => Finds(ptasks'[i])

\* What a step that moves no packet does to the window.
SameData ==
    \/ wnd' = wnd
    \/ wnd # <<>> /\ Head(wnd).what # "data" /\ wnd' = Tail(wnd)
    \/ \E m \in Message : m.what # "data" /\ wnd' = Append(wnd, m)

\* The packets in the window are the same, in the same order.
LEMMA WindowKeeps ==
  ASSUME wnd \in Seq(Message), SameData
  PROVE  /\ wnd' \in Seq(Message)
         /\ \A a \in Apps :
               /\ InWindow(a)' = InWindow(a)
               /\ (\A i, j \in 1 .. Len(wnd) : i < j /\ DataOf(wnd[i], a) /\ DataOf(wnd[j], a) => wnd[i].x < wnd[j].x)
                  => (\A i, j \in 1 .. Len(wnd') : i < j /\ DataOf(wnd'[i], a) /\ DataOf(wnd'[j], a) => wnd'[i].x < wnd'[j].x)
<1>1. CASE wnd' = wnd
  BY <1>1 DEF InWindow
<1>2. CASE wnd # <<>> /\ Head(wnd).what # "data" /\ wnd' = Tail(wnd)
  <2>1. /\ wnd' \in Seq(Message) /\ Len(wnd) \in Nat /\ Len(wnd) > 0 /\ Len(wnd') = Len(wnd) - 1
        /\ \A i \in 1 .. Len(wnd') : wnd'[i] = wnd[i + 1]
    BY <1>2
  <2>2. ASSUME NEW a \in Apps PROVE ~DataOf(wnd[1], a)
    BY <1>2 DEF DataOf
  <2>3. ASSUME NEW a \in Apps PROVE InWindow(a)' = InWindow(a)
    <3>1. ASSUME NEW i \in 1 .. Len(wnd), DataOf(wnd[i], a)
          PROVE  i - 1 \in 1 .. Len(wnd') /\ wnd'[i - 1] = wnd[i]
      <4>1. i # 1
        BY <2>2, <3>1
      <4> QED BY <4>1, <2>1
    <3>2. ASSUME NEW i \in 1 .. Len(wnd')
          PROVE  i + 1 \in 1 .. Len(wnd) /\ wnd'[i] = wnd[i + 1]
      BY <2>1
    <3>3. ASSUME NEW x \in InWindow(a) PROVE x \in InWindow(a)'
      <4>1. PICK i \in 1 .. Len(wnd) : DataOf(wnd[i], a) /\ x = wnd[i].x
        BY <3>3 DEF InWindow
      <4>2. DataOf(wnd'[i - 1], a) /\ x = wnd'[i - 1].x /\ i - 1 \in 1 .. Len(wnd')
        BY <3>1, <4>1
      <4> QED BY <4>2 DEF InWindow
    <3>4. ASSUME NEW x \in InWindow(a)' PROVE x \in InWindow(a)
      <4>1. PICK i \in 1 .. Len(wnd') : DataOf(wnd'[i], a) /\ x = wnd'[i].x
        BY <3>4 DEF InWindow
      <4>2. DataOf(wnd[i + 1], a) /\ x = wnd[i + 1].x /\ i + 1 \in 1 .. Len(wnd)
        BY <3>2, <4>1
      <4> QED BY <4>2 DEF InWindow
    <3> QED BY <3>3, <3>4
  <2>4. ASSUME NEW a \in Apps,
               \A i, j \in 1 .. Len(wnd) : i < j /\ DataOf(wnd[i], a) /\ DataOf(wnd[j], a) => wnd[i].x < wnd[j].x,
               NEW i \in 1 .. Len(wnd'), NEW j \in 1 .. Len(wnd'), i < j, DataOf(wnd'[i], a), DataOf(wnd'[j], a)
        PROVE  wnd'[i].x < wnd'[j].x
    <3>1. i + 1 \in 1 .. Len(wnd) /\ j + 1 \in 1 .. Len(wnd) /\ i + 1 < j + 1
      BY <2>1, <2>4
    <3> QED BY <2>1, <2>4, <3>1
  <2> QED BY <2>1, <2>3, <2>4
<1>3. ASSUME NEW m \in Message, m.what # "data", wnd' = Append(wnd, m)
      PROVE  /\ wnd' \in Seq(Message)
             /\ \A a \in Apps :
                   /\ InWindow(a)' = InWindow(a)
                   /\ (\A i, j \in 1 .. Len(wnd) : i < j /\ DataOf(wnd[i], a) /\ DataOf(wnd[j], a) => wnd[i].x < wnd[j].x)
                      => (\A i, j \in 1 .. Len(wnd') : i < j /\ DataOf(wnd'[i], a) /\ DataOf(wnd'[j], a) => wnd'[i].x < wnd'[j].x)
  <2>1. /\ wnd' \in Seq(Message) /\ Len(wnd) \in Nat /\ Len(wnd') = Len(wnd) + 1
        /\ wnd'[Len(wnd')] = m /\ \A i \in 1 .. Len(wnd) : wnd'[i] = wnd[i]
    BY <1>3
  <2>2. ASSUME NEW a \in Apps PROVE ~DataOf(wnd'[Len(wnd')], a)
    BY <1>3, <2>1 DEF DataOf
  <2>3. ASSUME NEW a \in Apps, NEW i \in 1 .. Len(wnd'), DataOf(wnd'[i], a)
        PROVE  i \in 1 .. Len(wnd) /\ wnd'[i] = wnd[i]
    <3>1. i # Len(wnd')
      BY <2>2, <2>3
    <3> QED BY <3>1, <2>1
  <2>4. ASSUME NEW a \in Apps PROVE InWindow(a)' = InWindow(a)
    <3>1. ASSUME NEW i \in 1 .. Len(wnd) PROVE i \in 1 .. Len(wnd') /\ wnd'[i] = wnd[i]
      BY <2>1
    <3> QED BY <2>3, <3>1 DEF InWindow
  <2> QED BY <2>1, <2>3, <2>4
<1> QED BY <1>1, <1>2, <1>3 DEF SameData

\* No service gets a packet.
LEMMA QueuesKeep ==
  ASSUME NEW as, Services(as), OrderInv
  PROVE  /\ \A a \in Apps : InQueue(a)' \subseteq InQueue(a)
         /\ \A i \in 1 .. Len(ptasks') : Live(ptasks'[i]) => Increasing(ptasks'[i].queue_)
<1>1. ASSUME NEW a \in Apps, NEW x \in InQueue(a)' PROVE x \in InQueue(a)
  <2>1. PICK i \in 1 .. Len(ptasks') : Holds(ptasks'[i], a, x)
    BY <1>1 DEF InQueue
  <2>2. x \in Nat
    BY <1>1 DEF InQueue
  <2>3. Live(ptasks'[i]) /\ ptasks'[i].app = a /\ ptasks'[i].queue_ # <<>>
    BY <2>1, EmptySeq DEF Holds
  <2>4. PICK j \in 1 .. Len(ptasks) : Live(ptasks[j]) /\ Serves(ptasks[j], ptasks'[i])
    BY <2>3 DEF Services
  <2>5. Holds(ptasks[j], a, x)
    BY <2>1, <2>3, <2>4 DEF Holds, Serves
  <2> QED BY <2>2, <2>5 DEF InQueue
<1>2. ASSUME NEW i \in 1 .. Len(ptasks'), Live(ptasks'[i]) PROVE Increasing(ptasks'[i].queue_)
  <2>1. CASE ptasks'[i].queue_ = <<>>
    BY <2>1 DEF Increasing
  <2>2. CASE \E j \in 1 .. Len(ptasks) : Live(ptasks[j]) /\ Serves(ptasks[j], ptasks'[i])
    BY <2>2 DEF OrderInv, Serves
  <2> QED BY <1>2, <2>1, <2>2 DEF Services
<1> QED BY <1>1, <1>2

\* A step that moves no packet keeps the order, and what is due where it is found.
LEMMA DataKeeps ==
  ASSUME PInv, NEW as, Services(as), SameData, delivered' = delivered,
         due' \subseteq {d \in due : d[1] \notin as}, pcalls' \in {pcalls, pcalls + 1}
  PROVE  OrderInv' /\ DueInv' /\ wnd' \in Seq(Message) /\ pcalls' \in Nat /\ due' \in SUBSET (Apps \X Nat)
<1>0. pcalls \in Nat /\ wnd \in Seq(Message) /\ ptasks \in Seq(PluginTask) /\ due \in SUBSET (Apps \X Nat)
      /\ delivered \in [Apps -> Seq(Nat)]
  BY DEF PInv, PTypeOK
<1>1. OrderInv'
  <2>1. ASSUME NEW a \in Apps
        PROVE  /\ Before(Got(a), InWindow(a))' /\ Before(Got(a), InQueue(a))' /\ Before(InWindow(a), InQueue(a))'
               /\ Before(Got(a) \union InWindow(a) \union InQueue(a), {pcalls})'
    <3>1. Got(a)' = Got(a) /\ InWindow(a)' = InWindow(a) /\ InQueue(a)' \subseteq InQueue(a)
      <4>1. Got(a)' = Got(a)
        BY DEF Got
      <4>2. InWindow(a)' = InWindow(a)
        BY <1>0, WindowKeeps
      <4>3. InQueue(a)' \subseteq InQueue(a)
        BY QueuesKeep DEF PInv
      <4> QED BY <4>1, <4>2, <4>3
    <3>2. /\ Before(Got(a), InWindow(a)) /\ Before(Got(a), InQueue(a)) /\ Before(InWindow(a), InQueue(a))
          /\ Before(Got(a) \union InWindow(a) \union InQueue(a), {pcalls})
      BY DEF PInv, OrderInv
    <3>3. Got(a) \subseteq Nat /\ InQueue(a) \subseteq Nat /\ InWindow(a) \subseteq Nat
      <4>1. Got(a) \subseteq Nat
        BY <1>0 DEF Got
      <4>2. InWindow(a) \subseteq Nat
        <5>1. \A j \in 1 .. Len(wnd) : DataOf(wnd[j], a) => wnd[j].x \in Nat
          BY <1>0, MessageIs DEF DataOf
        <5> QED BY <5>1 DEF InWindow
      <4> QED BY <4>1, <4>2 DEF InQueue
    <3> QED BY <1>0, <3>1, <3>2, <3>3 DEF Before
  <2>2. ASSUME NEW a \in Apps
        PROVE  /\ Increasing(delivered'[a])
               /\ \A i, j \in 1 .. Len(wnd') : i < j /\ DataOf(wnd'[i], a) /\ DataOf(wnd'[j], a) => wnd'[i].x < wnd'[j].x
    BY <1>0, WindowKeeps DEF PInv, OrderInv
  <2>3. \A i \in 1 .. Len(ptasks') : Live(ptasks'[i]) => Increasing(ptasks'[i].queue_)
    BY QueuesKeep DEF PInv
  <2> QED BY <2>1, <2>2, <2>3 DEF OrderInv
<1>2. DueInv'
  <2> SUFFICES ASSUME NEW d \in due'
               PROVE  \/ d[2] \in InWindow(d[1])'
                      \/ \E i \in 1 .. Len(ptasks') : Finds(ptasks'[i]) /\ Holds(ptasks'[i], d[1], d[2])
    BY DEF DueInv
  <2>1. d \in due /\ d[1] \notin as /\ d[1] \in Apps
    BY <1>0
  <2>2. CASE d[2] \in InWindow(d[1])
    BY <2>1, <2>2, <1>0, WindowKeeps
  <2>3. ASSUME NEW j \in 1 .. Len(ptasks), Finds(ptasks[j]), Holds(ptasks[j], d[1], d[2])
        PROVE  \E i \in 1 .. Len(ptasks') : Finds(ptasks'[i]) /\ Holds(ptasks'[i], d[1], d[2])
    <3>1. Live(ptasks[j]) /\ ptasks[j].app \notin as /\ ptasks[j].queue_ # <<>>
      <4>1. ptasks[j].queue_ # <<>>
        BY <2>3 DEF Holds
      <4> QED BY <2>1, <2>3, <4>1 DEF Holds
    <3>2. PICK i \in 1 .. Len(ptasks') : Serves(ptasks[j], ptasks'[i]) /\ Finds(ptasks'[i])
      BY <2>3, <3>1 DEF Services
    <3>3. Holds(ptasks'[i], d[1], d[2])
      BY <2>3, <3>2 DEF Holds, Serves
    <3> QED BY <3>2, <3>3
  <2>4. \/ d[2] \in InWindow(d[1])
        \/ \E i \in 1 .. Len(ptasks) : Finds(ptasks[i]) /\ Holds(ptasks[i], d[1], d[2])
    BY <2>1 DEF PInv, DueInv
  <2> QED BY <2>2, <2>3, <2>4
<1>3. wnd' \in Seq(Message)
  BY <1>0, WindowKeeps
<1>4. pcalls' \in Nat /\ due' \in SUBSET (Apps \X Nat)
  <2>1. due' \subseteq due
    OBVIOUS
  <2>2. pcalls' = pcalls \/ pcalls' = pcalls + 1
    OBVIOUS
  <2> QED BY <1>0, <2>1, <2>2
<1> QED BY <1>1, <1>2, <1>3, <1>4

-----------------------------------------------------------------------------
\* The tasks' part of the invariant, when the table stays as it is.
Tasked == TasksOK' /\ Services({}) /\ ServiceInv'

\* A task that takes no packets is added.
LEMMA MoreKeeps ==
  ASSUME PInv, NEW t \in PluginTask, t.st = "init", ~Live(t), ptasks' = Append(ptasks, t), plugins_' = plugins_
  PROVE  Tasked
<1>1. /\ ptasks' \in Seq(PluginTask) /\ Len(ptasks) \in Nat /\ Len(ptasks') = Len(ptasks) + 1
      /\ ptasks'[Len(ptasks) + 1] = t /\ \A i \in 1 .. Len(ptasks) : ptasks'[i] = ptasks[i]
  BY DEF PInv, PTypeOK
<1>2. TasksOK'
  BY <1>1 DEF PInv, PTypeOK, TasksOK
<1>3. Services({})
  BY <1>1 DEF Services, Serves
<1>4. ServiceInv'
  BY <1>1 DEF PInv, ServiceInv
<1> QED BY <1>2, <1>3, <1>4 DEF Tasked

\* The tasks change, each for itself.
LEMMA EachKeeps ==
  ASSUME PInv, plugins_' = plugins_, ptasks' \in Seq(PluginTask), Len(ptasks') = Len(ptasks),
         \A i \in 1 .. Len(ptasks) :
             /\ ptasks'[i].st = "start" => ptasks'[i].status \in LinkStatus
             /\ Live(ptasks'[i]) <=> Live(ptasks[i])
             /\ Live(ptasks[i]) => /\ ptasks'[i].app = ptasks[i].app /\ ptasks'[i].queue_ = ptasks[i].queue_
                                   /\ Finds(ptasks[i]) /\ ptasks[i].queue_ # <<>> => Finds(ptasks'[i])
  PROVE  Tasked
<1>2. TasksOK'
  BY DEF TasksOK
<1>3. Services({})
  BY DEF Services, Serves
<1>4. ServiceInv'
  BY DEF PInv, ServiceInv
<1> QED BY <1>2, <1>3, <1>4 DEF Tasked

\* One task changes.
LEMMA ChangeKeeps ==
  ASSUME PInv, plugins_' = plugins_, NEW i \in 1 .. Len(ptasks), NEW u \in PluginTask,
         ptasks' = [ptasks EXCEPT ![i] = u], u.st = "start" => u.status \in LinkStatus,
         u.kind = ptasks[i].kind, u.app = ptasks[i].app, u.destroy_ = ptasks[i].destroy_,
         Live(u) => u.queue_ = ptasks[i].queue_ /\ (Finds(ptasks[i]) /\ u.queue_ # <<>> => Finds(u))
  PROVE  Tasked
<1>1. /\ ptasks' \in Seq(PluginTask) /\ Len(ptasks') = Len(ptasks)
      /\ ptasks'[i] = u /\ \A j \in 1 .. Len(ptasks) : j # i => ptasks'[j] = ptasks[j]
  BY DEF PInv, PTypeOK
<1>2. \A j \in 1 .. Len(ptasks) :
             /\ ptasks'[j].st = "start" => ptasks'[j].status \in LinkStatus
             /\ Live(ptasks'[j]) <=> Live(ptasks[j])
             /\ Live(ptasks[j]) => /\ ptasks'[j].app = ptasks[j].app /\ ptasks'[j].queue_ = ptasks[j].queue_
                                   /\ Finds(ptasks[j]) /\ ptasks[j].queue_ # <<>> => Finds(ptasks'[j])
  BY <1>1 DEF PInv, PTypeOK, Live
<1> QED BY <1>1, <1>2, EachKeeps

\* A task that takes no packets ends.
LEMMA EndsKeeps ==
  ASSUME PInv, plugins_' = plugins_, NEW i \in 1 .. Len(ptasks), ~Live(ptasks[i]), P!Ends(i)
  PROVE  Tasked
<1>1. /\ ptasks' \in Seq(PluginTask) /\ Len(ptasks) \in Nat /\ Len(ptasks') = Len(ptasks) - 1
      /\ \A k \in 1 .. Len(ptasks) - 1 : ptasks'[k] = ptasks[IF k < i THEN k ELSE k + 1]
  <2>1. ptasks \in Seq(PluginTask) /\ ptasks' = SubSeq(ptasks, 1, i - 1) \o SubSeq(ptasks, i + 1, Len(ptasks))
    BY DEF PInv, PTypeOK, P!Ends, P!RemoveAt
  <2>2. Len(ptasks) \in Nat
    BY <2>1
  <2> QED BY <2>1, <2>2, RemoveAtIs
<1>2. ASSUME NEW k \in 1 .. Len(ptasks')
      PROVE  LET j == IF k < i THEN k ELSE k + 1 IN j \in 1 .. Len(ptasks) /\ ptasks'[k] = ptasks[j]
  BY <1>1
<1>3. ASSUME NEW j \in 1 .. Len(ptasks), j # i
      PROVE  LET k == IF j < i THEN j ELSE j - 1 IN k \in 1 .. Len(ptasks') /\ ptasks'[k] = ptasks[j]
  BY <1>1, <1>3
<1>4. TasksOK'
  BY <1>1, <1>2 DEF PInv, PTypeOK, TasksOK
<1>5. Services({})
  <2>1. ASSUME NEW k \in 1 .. Len(ptasks'), Live(ptasks'[k])
        PROVE  \E j \in 1 .. Len(ptasks) : Live(ptasks[j]) /\ Serves(ptasks[j], ptasks'[k])
    BY <1>2, <2>1 DEF Serves
  <2>2. ASSUME NEW j \in 1 .. Len(ptasks), Live(ptasks[j])
        PROVE  \E k \in 1 .. Len(ptasks') : /\ Serves(ptasks[j], ptasks'[k])
                                            /\ Finds(ptasks[j]) /\ ptasks[j].queue_ # <<>> => Finds(ptasks'[k])
    <3>1. j # i
      BY <2>2
    <3> QED BY <3>1, <1>3, <2>2 DEF Serves
  <2> QED BY <2>1, <2>2 DEF Services
<1>6. ServiceInv'
  <2>1. ASSUME NEW k \in 1 .. Len(ptasks'), Live(ptasks'[k]) PROVE ptasks'[k].app \in plugins_
    BY <1>2, <2>1 DEF PInv, ServiceInv
  <2>2. ASSUME NEW k \in 1 .. Len(ptasks'), NEW l \in 1 .. Len(ptasks'), Live(ptasks'[k]), Live(ptasks'[l]),
               ptasks'[k].app = ptasks'[l].app
        PROVE  k = l
    <3>1. PICK j \in 1 .. Len(ptasks) : j = (IF k < i THEN k ELSE k + 1) /\ ptasks'[k] = ptasks[j]
      BY <1>2
    <3>2. PICK m \in 1 .. Len(ptasks) : m = (IF l < i THEN l ELSE l + 1) /\ ptasks'[l] = ptasks[m]
      BY <1>2
    <3>3. j = m
      BY <2>2, <3>1, <3>2 DEF PInv, ServiceInv
    <3> QED BY <1>1, <3>1, <3>2, <3>3
  <2> QED BY <2>1, <2>2 DEF ServiceInv
<1> QED BY <1>4, <1>5, <1>6 DEF Tasked

\* The services of the plugins that are removed are marked, the others go on, and a
\* task that takes no packets is added.
LEMMA DestroyedKeeps ==
  ASSUME PInv, NEW as \in SUBSET Apps, plugins_' = plugins_ \ as,
         \/ ptasks' = P!Destroyed(as)
         \/ \E t \in PluginTask : t.st = "init" /\ ~Live(t) /\ ptasks' = Append(P!Destroyed(as), t)
  PROVE  TasksOK' /\ Services(as) /\ ServiceInv'
<1> DEFINE d == P!Destroyed(as)
<1>0. ptasks \in Seq(PluginTask) /\ Len(ptasks) \in Nat /\ DOMAIN ptasks = 1 .. Len(ptasks)
  BY DEF PInv, PTypeOK
<1>1. ASSUME NEW i \in 1 .. Len(ptasks)
      PROVE  /\ d[i] \in PluginTask /\ d[i].st = ptasks[i].st /\ d[i].status = ptasks[i].status
             /\ d[i].kind = ptasks[i].kind /\ d[i].app = ptasks[i].app
             /\ Live(d[i]) <=> Live(ptasks[i]) /\ ptasks[i].app \notin as
             /\ Live(d[i]) => d[i] = ptasks[i]
  <2>1. CASE ptasks[i].kind = "service" /\ ptasks[i].app \in as \cap plugins_
    <3>1. d[i] = [ptasks[i] EXCEPT !.destroy_ = TRUE]
      BY <2>1, <1>0 DEF P!Destroyed
    <3> HIDE DEF d
    <3>2. ptasks[i] \in PluginTask
      BY <1>0
    <3>3. /\ d[i] \in PluginTask /\ d[i].st = ptasks[i].st /\ d[i].status = ptasks[i].status
          /\ d[i].kind = ptasks[i].kind /\ d[i].app = ptasks[i].app /\ d[i].destroy_
      BY <3>1, <3>2, MarkedIs
    <3> QED BY <2>1, <3>3 DEF Live
  <2>2. CASE ~(ptasks[i].kind = "service" /\ ptasks[i].app \in as \cap plugins_)
    <3>1. d[i] = ptasks[i]
      BY <2>2, <1>0 DEF P!Destroyed
    <3> HIDE DEF d
    <3>2. Live(ptasks[i]) => ptasks[i].app \in plugins_
      BY DEF PInv, ServiceInv
    <3>3. ptasks[i] \in PluginTask
      BY <1>0
    <3>4. Live(ptasks[i]) => ptasks[i].app \notin as
      BY <2>2, <3>2 DEF Live
    <3> QED BY <3>1, <3>3, <3>4
  <2> QED BY <2>1, <2>2
<1>2. d \in Seq(PluginTask) /\ Len(d) = Len(ptasks)
  <2>1. d \in [1 .. Len(ptasks) -> PluginTask]
    <3>1. d = [i \in 1 .. Len(ptasks) |-> d[i]]
      BY <1>0 DEF P!Destroyed
    <3> HIDE DEF d
    <3> QED BY <1>1, <3>1
  <2> HIDE DEF d
  <2> QED BY <2>1, <1>0
<1> HIDE DEF d
<1>3. /\ ptasks' \in Seq(PluginTask) /\ Len(ptasks') \in {Len(ptasks), Len(ptasks) + 1}
      /\ \A i \in 1 .. Len(ptasks) : ptasks'[i] = d[i]
      /\ \A i \in 1 .. Len(ptasks') : i \in 1 .. Len(ptasks) \/ (ptasks'[i].st = "init" /\ ~Live(ptasks'[i]))
  <2>1. CASE ptasks' = d
    BY <2>1, <1>0, <1>2
  <2>2. ASSUME NEW t \in PluginTask, t.st = "init", ~Live(t), ptasks' = Append(d, t)
        PROVE  /\ ptasks' \in Seq(PluginTask) /\ Len(ptasks') \in {Len(ptasks), Len(ptasks) + 1}
               /\ \A i \in 1 .. Len(ptasks) : ptasks'[i] = d[i]
               /\ \A i \in 1 .. Len(ptasks') : i \in 1 .. Len(ptasks) \/ (ptasks'[i].st = "init" /\ ~Live(ptasks'[i]))
    <3>1. /\ ptasks' \in Seq(PluginTask) /\ Len(ptasks') = Len(d) + 1 /\ ptasks'[Len(d) + 1] = t
          /\ \A i \in 1 .. Len(d) : ptasks'[i] = d[i]
      BY <2>2, <1>2, AppendProperties
    <3>2. Len(d) = Len(ptasks) /\ Len(d) \in Nat
      BY <1>0, <1>2
    <3> QED BY <2>2, <3>1, <3>2
  <2> QED BY <2>1, <2>2 DEF d
<1>4. TasksOK'
  <2>1. ASSUME NEW i \in 1 .. Len(ptasks'), ptasks'[i].st = "start" PROVE ptasks'[i].status \in LinkStatus
    <3>1. i \in 1 .. Len(ptasks) /\ ptasks'[i] = d[i]
      BY <1>3, <2>1
    <3>2. ptasks[i].st = "start" /\ ptasks'[i].status = ptasks[i].status
      BY <1>1, <2>1, <3>1
    <3> QED BY <3>1, <3>2 DEF PInv, PTypeOK
  <2> QED BY <1>3, <2>1 DEF TasksOK
<1>5. Services(as)
  <2>1. ASSUME NEW i \in 1 .. Len(ptasks'), Live(ptasks'[i])
        PROVE  \E j \in 1 .. Len(ptasks) : Live(ptasks[j]) /\ Serves(ptasks[j], ptasks'[i])
    BY <1>1, <1>3, <2>1 DEF Serves
  <2>2. ASSUME NEW j \in 1 .. Len(ptasks), Live(ptasks[j]), ptasks[j].app \notin as
        PROVE  \E i \in 1 .. Len(ptasks') : /\ Serves(ptasks[j], ptasks'[i])
                                            /\ Finds(ptasks[j]) /\ ptasks[j].queue_ # <<>> => Finds(ptasks'[i])
    <3>1. ptasks'[j] = ptasks[j] /\ j \in 1 .. Len(ptasks')
      <4>1. j \in 1 .. Len(ptasks') /\ ptasks'[j] = d[j]
        BY <1>0, <1>3
      <4>2. Live(d[j])
        BY <1>1, <2>2
      <4> QED BY <1>1, <4>1, <4>2
    <3> QED BY <3>1, <2>2 DEF Serves
  <2> QED BY <2>1, <2>2 DEF Services
<1>6. ServiceInv'
  <2>1. ASSUME NEW i \in 1 .. Len(ptasks'), Live(ptasks'[i])
        PROVE  i \in 1 .. Len(ptasks) /\ ptasks'[i] = ptasks[i] /\ ptasks[i].app \notin as
    BY <1>1, <1>3, <2>1
  <2> QED BY <2>1 DEF PInv, ServiceInv
<1> QED BY <1>4, <1>5, <1>6

-----------------------------------------------------------------------------
\* The tables and the link, as far as their type goes.
TablesOK ==
    /\ plugins_ \in SUBSET Apps /\ dlls_ \in [Files -> Nat] /\ checks \in Nat
    /\ status \in LinkStatus /\ key \in LinkStatus
    /\ quitTold \in BOOLEAN /\ dealt \in BOOLEAN /\ stray \in BOOLEAN

\* What a step has to do to keep the invariant, when it moves no packet.
LEMMA AllKeep ==
  ASSUME PInv, TablesOK', HeldInv', TasksOK', ServiceInv', NEW as, Services(as), SameData, delivered' = delivered,
         due' \subseteq {d \in due : d[1] \notin as}, pcalls' \in {pcalls, pcalls + 1}
  PROVE  PInv'
<1>1. OrderInv' /\ DueInv' /\ wnd' \in Seq(Message) /\ pcalls' \in Nat /\ due' \in SUBSET (Apps \X Nat)
  BY DataKeeps
<1>2. delivered' \in [Apps -> Seq(Nat)]
  BY DEF PInv, PTypeOK
<1>3. PTypeOK'
  BY <1>1, <1>2 DEF PTypeOK, TablesOK, TasksOK
<1> QED BY <1>1, <1>3 DEF PInv

\* The references and the looks at them stay, and the message to quit.
LEMMA HeldKeeps ==
  ASSUME PInv, plugins_' \ Ours = plugins_ \ Ours, dlls_' = dlls_, stray' = stray, quitTold' = quitTold,
         dealt' = dealt, checks' = checks,
         \/ wnd' = wnd
         \/ wnd # <<>> /\ Head(wnd).what # "quit" /\ wnd' = Tail(wnd)
         \/ \E m \in Message : wnd' = Append(wnd, m)
  PROVE  HeldInv'
<1>0. wnd \in Seq(Message) /\ Len(wnd) \in Nat
  BY DEF PInv, PTypeOK
<1>1. \A f \in Files : Users(f)' = Users(f)
  BY DEF Users
<1>2. ASSUME NEW i \in 1 .. Len(wnd), wnd[i].what = "quit"
      PROVE  \E j \in 1 .. Len(wnd') : wnd'[j].what = "quit"
  <2>1. CASE wnd' = wnd
    BY <2>1, <1>2
  <2>2. CASE wnd # <<>> /\ Head(wnd).what # "quit" /\ wnd' = Tail(wnd)
    <3>1. i # 1
      BY <1>0, <1>2, <2>2
    <3>2. i - 1 \in 1 .. Len(wnd') /\ wnd'[i - 1] = wnd[i]
      BY <1>0, <2>2, <3>1
    <3> QED BY <1>2, <3>2
  <2>3. ASSUME NEW m \in Message, wnd' = Append(wnd, m)
        PROVE  \E j \in 1 .. Len(wnd') : wnd'[j].what = "quit"
    <3>1. i \in 1 .. Len(wnd') /\ wnd'[i] = wnd[i]
      BY <1>0, <2>3
    <3> QED BY <1>2, <3>1
  <2> QED BY <2>1, <2>2, <2>3
<1>3. P!isNil(dlls_)' = P!isNil(dlls_)
  BY DEF P!isNil
<1> QED BY <1>1, <1>2, <1>3 DEF PInv, HeldInv

\* A run of a task that moves no packet.
LEMMA RunKeeps ==
  ASSUME PInv, Tasked, P!Keeps, pcalls' = pcalls,
         wnd' = wnd \/ \E m \in Message : m.what # "data" /\ wnd' = Append(wnd, m)
  PROVE  PInv'
<1>1. TablesOK' /\ delivered' = delivered /\ due' \subseteq {d \in due : d[1] \notin {}}
  BY DEF PInv, PTypeOK, TablesOK, P!Keeps, P!tables, P!link, P!held, P!data
<1>2. HeldInv'
  BY HeldKeeps DEF P!Keeps, P!tables, P!held
<1> QED BY <1>1, <1>2, AllKeep DEF Tasked, SameData

\* What a task takes for the connection's status is one.
LEMMA StatusIs ==
  ASSUME PInv, NEW i \in 1 .. Len(ptasks)
  PROVE  /\ P!Status(i) \in LinkStatus /\ ptasks[i] \in PluginTask
         /\ LET u == P!Started(i) IN
            /\ u \in PluginTask /\ u.st = "start" /\ u.status \in LinkStatus
            /\ u.kind = ptasks[i].kind /\ u.app = ptasks[i].app /\ u.queue_ = ptasks[i].queue_
            /\ u.destroy_ = ptasks[i].destroy_ /\ u.ready = ptasks[i].ready
<1>1. ptasks[i] \in PluginTask /\ ptasks[i].st \in {"init", "start"} /\ key \in LinkStatus
      /\ (ptasks[i].st = "start" => ptasks[i].status \in LinkStatus)
  BY TaskIsKeeping DEF PInv, PTypeOK, Keeping
<1>2. P!Status(i) \in LinkStatus
  BY <1>1 DEF P!Status
<1> QED BY <1>1, <1>2, StartedIs DEF P!Started

\* A task sleeps, which has no packet to take.
LEMMA SleepsKeep ==
  ASSUME PInv, NEW i \in 1 .. Len(ptasks), P!Sleeps(i), plugins_' = plugins_,
         Live(ptasks[i]) => ptasks[i].queue_ = <<>>
  PROVE  Tasked
<1> DEFINE t == P!Started(i)
           u == [t EXCEPT !.ready = FALSE, !.dozes = TRUE]
<1>1. /\ t \in PluginTask /\ t.st = "start" /\ t.status \in LinkStatus
      /\ t.kind = ptasks[i].kind /\ t.app = ptasks[i].app /\ t.queue_ = ptasks[i].queue_
      /\ t.destroy_ = ptasks[i].destroy_
  BY StatusIs
<1> HIDE DEF t
<1>2. /\ u \in PluginTask /\ u.st = "start" /\ u.status \in LinkStatus
      /\ u.kind = ptasks[i].kind /\ u.app = ptasks[i].app /\ u.queue_ = ptasks[i].queue_
      /\ u.destroy_ = ptasks[i].destroy_
  BY <1>1, SleptIs
<1>3. ptasks' = [ptasks EXCEPT ![i] = u]
  BY DEF t, P!Sleeps
<1>4. Live(u) => Live(ptasks[i])
  BY <1>2 DEF Live
<1> HIDE DEF u
<1> QED BY <1>2, <1>3, <1>4, ChangeKeeps

\* A task that has found nothing to do is blocked.
LEMMA BlocksKeep ==
  ASSUME PInv, NEW i \in 1 .. Len(ptasks), P!Blocks(i), pcalls' = pcalls
  PROVE  PInv'
<1> DEFINE t == ptasks[i]
           u == [t EXCEPT !.dozes = FALSE]
<1>1. t \in PluginTask /\ (t.st = "start" => t.status \in LinkStatus) /\ ptasks \in Seq(PluginTask)
  BY DEF PInv, PTypeOK
<1>2. /\ u \in PluginTask /\ u.st = t.st /\ u.status = t.status /\ u.ready = t.ready /\ u.missed = t.missed
      /\ u.kind = t.kind /\ u.app = t.app /\ u.queue_ = t.queue_ /\ u.destroy_ = t.destroy_
  BY <1>1, BlockedIs
<1>3. ptasks' = [ptasks EXCEPT ![i] = u] /\ P!Keeps /\ wnd' = wnd /\ plugins_' = plugins_
  BY <1>1 DEF P!Blocks, P!Keeps, P!tables
<1> HIDE DEF u
<1>4. Live(u) => u.queue_ = t.queue_ /\ (Finds(t) /\ u.queue_ # <<>> => Finds(u))
  BY <1>2 DEF Finds
<1>5. Tasked
  BY <1>1, <1>2, <1>3, <1>4, ChangeKeeps
<1> QED BY <1>3, <1>5, RunKeeps

\* A new task that takes no packets is one of the tasks.
LEMMA NewIs ==
  ASSUME NEW kind, NEW a,
         \/ kind \in {"load", "unload", "raw", "load_res", "unload_res"} /\ a \in Apps
         \/ kind = "wait" /\ a \in Ours
  PROVE  LET t == P!NewTask(kind, a) IN t \in PluginTask /\ t.st = "init" /\ ~Live(t)
BY NewTaskIs DEF Live

\* A plugin enters the table: its service, if it had none, and a task that loads it.
LEMMA EntersKeeps ==
  ASSUME PInv, NEW a \in Apps, NEW kind \in {"load", "load_res"}, P!Enters(a, kind)
  PROVE  TasksOK' /\ Services({}) /\ ServiceInv' /\ plugins_' \in SUBSET Apps
<1> DEFINE s == P!NewTask("service", a)
           t == P!NewTask(kind, a)
           more == (IF a \in plugins_ THEN <<>> ELSE <<s>>) \o <<t>>
           n == Len(ptasks)
<1>0. ptasks \in Seq(PluginTask) /\ n \in Nat /\ plugins_ \in SUBSET Apps
  BY DEF PInv, PTypeOK
<1>1. t \in PluginTask /\ t.st = "init" /\ ~Live(t)
  BY NewIs
<1>2. s \in PluginTask /\ s.st = "init" /\ s.app = a /\ s.queue_ = <<>>
  BY NewTaskIs
<1>3. plugins_' = plugins_ \union {a}
  BY DEF P!Enters
<1>4. ptasks' = ptasks \o (IF a \in plugins_ THEN <<>> ELSE <<s>>) \o <<t>>
  BY DEF P!Enters
<1> HIDE DEF s, t, n
<1>5. /\ ptasks' \in Seq(PluginTask) /\ Len(ptasks') >= n
      /\ \A i \in 1 .. n : ptasks'[i] = ptasks[i]
      /\ \A i \in 1 .. Len(ptasks') : \/ i \in 1 .. n
                                      \/ ptasks'[i] = t
                                      \/ a \notin plugins_ /\ i = n + 1 /\ ptasks'[i] = s
  <2>1. CASE a \in plugins_
    <3>1. ptasks' = Append(ptasks, t)
      BY <2>1, <1>0, <1>1, <1>4, AppendIsConcat, ConcatEmptySeq
    <3> QED BY <3>1, <1>0, <1>1 DEF n
  <2>2. CASE a \notin plugins_
    <3>1. ptasks' = Append(Append(ptasks, s), t)
      <4>1. Append(ptasks, s) = ptasks \o <<s>> /\ Append(ptasks, s) \in Seq(PluginTask)
        BY <1>0, <1>2, AppendIsConcat
      <4> QED BY <2>2, <1>1, <1>4, <4>1, AppendIsConcat
    <3> DEFINE m == Append(ptasks, s)
    <3>2. m \in Seq(PluginTask) /\ Len(m) = n + 1 /\ m[n + 1] = s /\ \A i \in 1 .. n : m[i] = ptasks[i]
      BY <1>0, <1>2 DEF n
    <3> HIDE DEF m
    <3>3. ptasks' = Append(m, t)
      BY <3>1 DEF m
    <3>4. /\ ptasks' \in Seq(PluginTask) /\ Len(ptasks') = n + 2 /\ ptasks'[n + 2] = t
          /\ \A i \in 1 .. n + 1 : ptasks'[i] = m[i]
      BY <1>0, <1>1, <3>2, <3>3
    <3> QED BY <1>0, <2>2, <3>2, <3>4
  <2> QED BY <2>1, <2>2
<1>6. TasksOK'
  <2>1. ASSUME NEW i \in 1 .. Len(ptasks'), ptasks'[i].st = "start" PROVE ptasks'[i].status \in LinkStatus
    <3>1. i \in 1 .. n /\ ptasks'[i] = ptasks[i]
      BY <1>1, <1>2, <1>5, <2>1
    <3> QED BY <3>1, <2>1 DEF n, PInv, PTypeOK
  <2> QED BY <1>5, <2>1 DEF TasksOK
<1>7. Services({})
  <2>1. ASSUME NEW i \in 1 .. Len(ptasks'), Live(ptasks'[i])
        PROVE  ptasks'[i].queue_ = <<>> \/ \E j \in 1 .. Len(ptasks) : Live(ptasks[j]) /\ Serves(ptasks[j], ptasks'[i])
    <3>1. CASE i \in 1 .. n
      BY <3>1, <2>1, <1>5 DEF n, Serves
    <3>2. CASE i \notin 1 .. n
      BY <3>2, <2>1, <1>1, <1>2, <1>5
    <3> QED BY <3>1, <3>2
  <2>2. ASSUME NEW j \in 1 .. Len(ptasks), Live(ptasks[j])
        PROVE  \E i \in 1 .. Len(ptasks') : /\ Serves(ptasks[j], ptasks'[i])
                                            /\ Finds(ptasks[j]) /\ ptasks[j].queue_ # <<>> => Finds(ptasks'[i])
    <3>1. j \in 1 .. Len(ptasks') /\ ptasks'[j] = ptasks[j]
      BY <1>0, <1>5 DEF n
    <3> QED BY <3>1, <2>2 DEF Serves
  <2> QED BY <2>1, <2>2 DEF Services
<1>8. ServiceInv'
  <2>1. ASSUME NEW i \in 1 .. Len(ptasks'), Live(ptasks'[i])
        PROVE  \/ i \in 1 .. n /\ ptasks'[i] = ptasks[i] /\ ptasks'[i].app \in plugins_
               \/ i = n + 1 /\ a \notin plugins_ /\ ptasks'[i].app = a
    <3>1. CASE i \in 1 .. n
      <4>1. ptasks'[i] = ptasks[i]
        BY <3>1, <1>5
      <4> QED BY <3>1, <2>1, <4>1 DEF n, PInv, ServiceInv
    <3>2. CASE i \notin 1 .. n
      BY <3>2, <2>1, <1>1, <1>2, <1>5
    <3> QED BY <3>1, <3>2
  <2>2. \A i \in 1 .. Len(ptasks') : Live(ptasks'[i]) => ptasks'[i].app \in plugins_'
    BY <1>3, <2>1
  <2>3. \A i, j \in 1 .. Len(ptasks') :
            Live(ptasks'[i]) /\ Live(ptasks'[j]) /\ ptasks'[i].app = ptasks'[j].app => i = j
    BY <2>1 DEF n, PInv, ServiceInv
  <2> QED BY <2>2, <2>3 DEF ServiceInv
<1>9. plugins_' \in SUBSET Apps
  BY <1>0, <1>3
<1> QED BY <1>6, <1>7, <1>8, <1>9

-----------------------------------------------------------------------------
\* What moves no packet and leaves the tables and the link as they are.
Aside == UNCHANGED <<plugins_, dlls_, status, key, checks, quitTold, dealt, stray, due, delivered>>

\* A call that changes the tasks only.
LEMMA CallKeeps ==
  ASSUME PInv, Tasked, Aside, pcalls' \in {pcalls, pcalls + 1}, wnd' = wnd
  PROVE  PInv'
<1>1. TablesOK' /\ delivered' = delivered /\ due' \subseteq {d \in due : d[1] \notin {}}
  BY DEF PInv, PTypeOK, TablesOK, Aside
<1>2. HeldInv'
  BY HeldKeeps DEF Aside
<1> QED BY <1>1, <1>2, AllKeep DEF Tasked, SameData

\* The owner starts a plugin, which waits for the connection.
LEMMA PluginStartKeeps ==
  ASSUME PInv, NEW a \in Ours, P!start(a), pcalls' = pcalls + 1
  PROVE  PInv'
<1>1. Aside /\ wnd' = wnd /\ ptasks' = Append(ptasks, P!NewTask("wait", a))
  BY DEF Aside, P!start, P!tables, P!link, P!held, P!data
<1>2. Tasked
  BY <1>1, NewIs, MoreKeeps DEF Aside
<1> QED BY <1>1, <1>2, CallKeeps

\* The owner sends a plugin something.
LEMMA PluginSendKeeps ==
  ASSUME PInv, NEW a \in Apps, P!send(a), pcalls' = pcalls + 1
  PROVE  PInv'
<1>1. Aside /\ wnd' = wnd /\ ptasks' = Append(ptasks, P!NewTask("raw", a))
  BY DEF Aside, P!send, P!tables, P!link, P!held, P!data
<1>2. Tasked
  BY <1>1, NewIs, MoreKeeps DEF Aside
<1> QED BY <1>1, <1>2, CallKeeps

\* The owner stops a plugin of its own.
LEMMA PluginStopKeeps ==
  ASSUME PInv, NEW a \in Ours, a \in Apps, P!stop(a), pcalls' = pcalls + 1
  PROVE  PInv'
<1> DEFINE t == P!NewTask("unload", a)
<1>1. /\ plugins_' = plugins_ \ {a} /\ ptasks' = Append(P!Destroyed({a}), t)
      /\ due' = {d \in due : d[1] \notin {a}} /\ delivered' = delivered
      /\ UNCHANGED <<dlls_, status, key, wnd, checks, quitTold, dealt, stray>>
  BY DEF P!stop, P!NotDue, P!link, P!held
<1>2. t \in PluginTask /\ t.st = "init" /\ ~Live(t)
  BY NewIs
<1> HIDE DEF t
<1>3. TasksOK' /\ Services({a}) /\ ServiceInv'
  BY <1>1, <1>2, DestroyedKeeps
<1>4. TablesOK'
  BY <1>1 DEF PInv, PTypeOK, TablesOK
<1>5. HeldInv'
  <2>1. plugins_' \ Ours = plugins_ \ Ours
    BY <1>1
  <2> QED BY <1>1, <2>1, HeldKeeps
<1> QED BY <1>1, <1>3, <1>4, <1>5, AllKeep DEF SameData

\* The connection's status is told to the tasks.
LEMMA PluginStatusKeeps ==
  ASSUME PInv, NEW st \in {"connected", "closed"}, P!onEngineStatus(st), pcalls' = pcalls + 1
  PROVE  PInv'
<1>0. ptasks \in Seq(PluginTask) /\ Len(ptasks) \in Nat /\ DOMAIN ptasks = 1 .. Len(ptasks) /\ st \in LinkStatus
  BY DEF PInv, PTypeOK, LinkStatus
<1>1. /\ ptasks' = [i \in 1 .. Len(ptasks) |-> P!wake([ptasks[i] EXCEPT !.status = st])]
      /\ UNCHANGED <<plugins_, dlls_, key, wnd, checks, quitTold, dealt, stray, due, delivered>> /\ status' = st
  BY <1>0 DEF P!onEngineStatus, P!tables, P!held, P!data
<1>2. ASSUME NEW i \in 1 .. Len(ptasks)
      PROVE  /\ ptasks'[i] \in PluginTask /\ ptasks'[i].status = st /\ (Finds(ptasks[i]) => Finds(ptasks'[i]))
             /\ ptasks'[i].kind = ptasks[i].kind /\ ptasks'[i].app = ptasks[i].app
             /\ ptasks'[i].queue_ = ptasks[i].queue_ /\ ptasks'[i].destroy_ = ptasks[i].destroy_
  <2> DEFINE u == [ptasks[i] EXCEPT !.status = st]
  <2>1. ptasks[i] \in PluginTask
    BY <1>0
  <2>2. /\ u \in PluginTask /\ u.status = st /\ u.ready = ptasks[i].ready /\ u.missed = ptasks[i].missed
        /\ u.kind = ptasks[i].kind /\ u.app = ptasks[i].app /\ u.queue_ = ptasks[i].queue_ /\ u.destroy_ = ptasks[i].destroy_
    BY <2>1, <1>0, ToldIs
  <2>3. ptasks'[i] = P!wake(u)
    BY <1>1, Zenon
  <2> HIDE DEF u
  <2>4. Finds(ptasks[i]) => Finds(u)
    BY <2>2 DEF Finds
  <2> QED BY <2>2, <2>3, <2>4, WakeIs
<1>3. ptasks' \in Seq(PluginTask) /\ Len(ptasks') = Len(ptasks)
  <2>1. ptasks' = [i \in 1 .. Len(ptasks) |-> ptasks'[i]]
    BY <1>1
  <2>2. ptasks' \in [1 .. Len(ptasks) -> PluginTask]
    BY <1>2, <2>1
  <2> QED BY <2>2, <1>0
<1>4. \A i \in 1 .. Len(ptasks) :
             /\ ptasks'[i].st = "start" => ptasks'[i].status \in LinkStatus
             /\ Live(ptasks'[i]) <=> Live(ptasks[i])
             /\ Live(ptasks[i]) => /\ ptasks'[i].app = ptasks[i].app /\ ptasks'[i].queue_ = ptasks[i].queue_
                                   /\ Finds(ptasks[i]) /\ ptasks[i].queue_ # <<>> => Finds(ptasks'[i])
  BY <1>0, <1>2 DEF Live
<1>5. Tasked
  BY <1>1, <1>3, <1>4, EachKeeps
<1>6. TablesOK'
  BY <1>0, <1>1 DEF PInv, PTypeOK, TablesOK
<1>7. HeldInv'
  BY <1>1, HeldKeeps
<1>8. due' \subseteq {d \in due : d[1] \notin {}}
  BY <1>1
<1> QED BY <1>1, <1>5, <1>6, <1>7, <1>8, AllKeep DEF Tasked, SameData

\* The key follows.
LEMMA KeyFollowsKeeps ==
  ASSUME PInv, P!KeyFollows, pcalls' = pcalls
  PROVE  PInv'
<1>1. /\ UNCHANGED <<plugins_, dlls_, ptasks, status, wnd, checks, quitTold, dealt, stray, due, delivered>>
      /\ key' = status
  BY DEF P!KeyFollows, P!tables, P!held, P!data
<1>2. TablesOK' /\ TasksOK' /\ ServiceInv'
  BY <1>1 DEF PInv, PTypeOK, TablesOK, TasksOK, ServiceInv
<1>3. Services({})
  BY <1>1 DEF Services, Serves
<1>4. HeldInv'
  BY <1>1, HeldKeeps
<1>5. due' \subseteq {d \in due : d[1] \notin {}}
  BY <1>1
<1> QED BY <1>1, <1>2, <1>3, <1>4, <1>5, AllKeep DEF SameData

\* IPCPluginWaitTask runs, or its time is over.
LEMMA WaitRunKeeps ==
  ASSUME PInv, NEW i \in 1 .. Len(ptasks), P!PluginWait(i) \/ P!onTimeout(i), pcalls' = pcalls
  PROVE  PInv'
<1>1. P!Keeps /\ ptasks[i].kind = "wait" /\ plugins_' = plugins_
  BY DEF P!PluginWait, P!onTimeout, P!Runs, P!Keeps, P!tables
<1>2. ~Live(ptasks[i])
  BY <1>1 DEF Live
<1>3. ptasks[i] \in PluginTask
  BY DEF PInv, PTypeOK
<1>4. ptasks[i].app \in Ours
  BY <1>1, <1>3 DEF PluginTask, TaskFields
<1>5. CASE P!Ends(i) /\ \E x \in {"start_load", "load_fail"} : P!Posts("status", ptasks[i].app, x)
  <2>1. Tasked
    BY <1>1, <1>2, <1>5, EndsKeeps
  <2>2. \E m \in Message : m.what # "data" /\ wnd' = Append(wnd, m)
    <3>1. PICK x \in {"start_load", "load_fail"} : wnd' = Append(wnd, [what |-> "status", app |-> ptasks[i].app, x |-> x])
      BY <1>5 DEF P!Posts
    <3>2. [what |-> "status", app |-> ptasks[i].app, x |-> x] \in Message
      BY <1>4, PostedIs
    <3> QED BY <3>1, <3>2
  <2> QED BY <1>1, <2>1, <2>2, RunKeeps
<1>6. CASE P!Sleeps(i) /\ wnd' = wnd
  <2>1. Tasked
    BY <1>1, <1>2, <1>6, SleepsKeep
  <2> QED BY <1>1, <1>6, <2>1, RunKeeps
<1> QED BY <1>5, <1>6 DEF P!PluginWait, P!onTimeout

\* A task that takes no packets runs once, or sleeps until the connection is there.
LEMMA OnceKeeps ==
  ASSUME PInv, NEW i \in 1 .. Len(ptasks), P!LoadPlugin(i) \/ P!ResponsePlugin(i) \/ P!PluginRaw(i), pcalls' = pcalls
  PROVE  PInv'
<1>0. P!Status(i) \in LinkStatus
  BY StatusIs
<1>1. P!Keeps /\ ~Live(ptasks[i]) /\ plugins_' = plugins_
  BY DEF P!LoadPlugin, P!ResponsePlugin, P!PluginRaw, P!Runs, P!Keeps, P!tables, Live
<1>2. (P!Ends(i) \/ P!Sleeps(i)) /\ wnd' = wnd
  <2>1. CASE P!LoadPlugin(i)
    BY <1>0, <2>1 DEF P!LoadPlugin, LinkStatus
  <2>2. CASE P!ResponsePlugin(i)
    BY <1>0, <2>2 DEF P!ResponsePlugin, LinkStatus
  <2>3. CASE P!PluginRaw(i)
    BY <2>3 DEF P!PluginRaw
  <2> QED BY <2>1, <2>2, <2>3
<1>3. Tasked
  BY <1>1, <1>2, EndsKeeps, SleepsKeep
<1> QED BY <1>1, <1>2, <1>3, RunKeeps

-----------------------------------------------------------------------------
\* A task's queue is of its kind.
LEMMA QueueIs ==
  ASSUME NEW t \in PluginTask, NEW q,
         \/ t.kind = "service" /\ q \in Seq(Nat)
         \/ t.kind = "listen" /\ q \in Seq(Requests)
  PROVE  LET u == [t EXCEPT !.queue_ = q] IN
         /\ u \in PluginTask /\ u.queue_ = q /\ u.kind = t.kind /\ u.app = t.app /\ u.st = t.st /\ u.status = t.status
         /\ u.ready = t.ready /\ u.dozes = t.dozes /\ u.destroy_ = t.destroy_
BY DEF PluginTask, TaskFields

\* A call may have come in between.
LEMMA MissedIs ==
  ASSUME NEW t \in PluginTask, NEW b \in BOOLEAN
  PROVE  LET u == [t EXCEPT !.missed = b] IN
         /\ u \in PluginTask /\ u.st = t.st /\ u.status = t.status /\ u.missed = b /\ u.dozes = t.dozes
         /\ u.kind = t.kind /\ u.app = t.app /\ u.queue_ = t.queue_ /\ u.destroy_ = t.destroy_
<1> DEFINE u == [t EXCEPT !.missed = b]
<1>1. t \in Keeping(t)
  BY TaskIsKeeping
<1>2. u \in Keeping(t)
  BY <1>1 DEF Keeping
<1>3. u.st = t.st /\ u.status = t.status /\ u.missed = b /\ u.dozes = t.dozes /\ u.destroy_ = t.destroy_
  BY <1>1 DEF Keeping
<1> HIDE DEF u
<1>4. u \in PluginTask /\ u.kind = t.kind /\ u.app = t.app /\ u.queue_ = t.queue_
  BY <1>2, KeepingIs
<1> QED BY <1>3, <1>4 DEF u

\* What a queue holds, by the kind of its task.
LEMMA QueueOf ==
  ASSUME NEW t \in PluginTask
  PROVE  /\ t.kind = "service" => t.queue_ \in Seq(Nat) /\ t.app \in Apps
         /\ t.kind = "listen" => t.queue_ \in Seq(Requests)
BY DEF PluginTask, TaskFields

\* The first of some tasks is one of them.
LEMMA FirstIs ==
  ASSUME ptasks \in Seq(PluginTask), NEW kind, NEW a, P!Takers(kind, a) # {}
  PROVE  LET i == P!FirstOf(P!Takers(kind, a)) IN i \in 1 .. Len(ptasks) /\ ptasks[i].kind = kind /\ ptasks[i].app = a
<1> DEFINE S == P!Takers(kind, a)
<1>1. S \in SUBSET Nat /\ S # {} /\ \A i \in S : i \in 1 .. Len(ptasks) /\ ptasks[i].kind = kind /\ ptasks[i].app = a
  BY DEF P!Takers
<1> HIDE DEF S
<1>2. \E x \in S : \A y \in S : x <= y
  BY <1>1, LeastNat
<1>3. P!FirstOf(S) \in S
  BY <1>2 DEF P!FirstOf
<1> QED BY <1>1, <1>3 DEF S

\* A task takes what comes from the pipe.
LEMMA TakenByIs ==
  ASSUME ptasks \in Seq(PluginTask), NEW i \in 1 .. Len(ptasks), NEW x, P!TakenBy(i, x),
         \/ ptasks[i].kind = "service" /\ x \in Nat
         \/ ptasks[i].kind = "listen" /\ x \in Requests
  PROVE  /\ ptasks' \in Seq(PluginTask) /\ Len(ptasks') = Len(ptasks)
         /\ \A j \in 1 .. Len(ptasks) : j # i => ptasks'[j] = ptasks[j]
         /\ LET t == ptasks[i] IN
            LET u == ptasks'[i] IN
            /\ u \in PluginTask /\ u.queue_ = Append(t.queue_, x) /\ u.kind = t.kind /\ u.app = t.app
            /\ u.st = t.st /\ u.status = t.status /\ Finds(u) /\ u.destroy_ = t.destroy_
<1> DEFINE t == ptasks[i]
           q == Append(t.queue_, x)
           w == [t EXCEPT !.queue_ = q]
           v == P!push(t, x)
           u == P!wake(v)
<1>1. t \in PluginTask /\ i \in DOMAIN ptasks
  OBVIOUS
<1>2. \/ t.kind = "service" /\ q \in Seq(Nat)
      \/ t.kind = "listen" /\ q \in Seq(Requests)
  BY <1>1, QueueOf
<1>3. ptasks' = [ptasks EXCEPT ![i] = u]
  BY <1>1 DEF P!TakenBy
<1>4. t.dozes \in BOOLEAN
  BY <1>1, TaskIsKeeping DEF Keeping
<1>9. v = [w EXCEPT !.missed = t.dozes]
  BY DEF P!push
<1> HIDE DEF q, v
<1>5. /\ w \in PluginTask /\ w.queue_ = q /\ w.kind = t.kind /\ w.app = t.app /\ w.st = t.st /\ w.status = t.status
      /\ w.dozes = t.dozes /\ w.destroy_ = t.destroy_
  BY <1>1, <1>2, QueueIs
<1> HIDE DEF w
<1>6. /\ v \in PluginTask /\ v.queue_ = q /\ v.kind = t.kind /\ v.app = t.app /\ v.st = t.st /\ v.status = t.status
      /\ v.missed = v.dozes /\ v.destroy_ = t.destroy_
  BY <1>4, <1>5, <1>9, MissedIs
<1>7. /\ u \in PluginTask /\ u.queue_ = q /\ u.kind = t.kind /\ u.app = t.app /\ u.st = t.st /\ u.status = t.status
      /\ Finds(u) /\ u.destroy_ = t.destroy_
  <2>1. Finds(v) \/ ~v.dozes
    BY <1>6 DEF Finds
  <2> QED BY <1>6, <2>1, WakeIs
<1> HIDE DEF u
<1>8. /\ ptasks' \in Seq(PluginTask) /\ Len(ptasks') = Len(ptasks) /\ ptasks'[i] = u
      /\ \A j \in 1 .. Len(ptasks) : j # i => ptasks'[j] = ptasks[j]
  BY <1>3, <1>7, ExceptSeq
<1> QED BY <1>7, <1>8 DEF q

\* The other process asks for a plugin, or to unload it.
LEMMA RequestKeeps ==
  ASSUME PInv, NEW a \in Apps \ Ours, NEW uri \in {"load", "unload"}, P!Request(uri, a), pcalls' = pcalls + 1
  PROVE  PInv'
<1> DEFINE i == P!FirstOf(P!Takers("listen", Nothing))
<1>0. ptasks \in Seq(PluginTask)
  BY DEF PInv, PTypeOK
<1>1. i \in 1 .. Len(ptasks) /\ ptasks[i].kind = "listen"
  BY <1>0, FirstIs DEF P!Request
<1>2. P!TakenBy(i, <<uri, a>>) /\ Aside /\ wnd' = wnd
  BY DEF P!Request, Aside, P!tables, P!link, P!held, P!data
<1>3. <<uri, a>> \in Requests
  BY DEF Requests
<1> HIDE DEF i
<1>4. /\ ptasks' \in Seq(PluginTask) /\ Len(ptasks') = Len(ptasks)
      /\ \A j \in 1 .. Len(ptasks) : j # i => ptasks'[j] = ptasks[j]
      /\ ptasks'[i].kind = "listen" /\ ptasks'[i].st = ptasks[i].st /\ ptasks'[i].status = ptasks[i].status
  BY <1>0, <1>1, <1>2, <1>3, TakenByIs
<1>5. \A j \in 1 .. Len(ptasks) :
             /\ ptasks'[j].st = "start" => ptasks'[j].status \in LinkStatus
             /\ Live(ptasks'[j]) <=> Live(ptasks[j])
             /\ Live(ptasks[j]) => /\ ptasks'[j].app = ptasks[j].app /\ ptasks'[j].queue_ = ptasks[j].queue_
                                   /\ Finds(ptasks[j]) /\ ptasks[j].queue_ # <<>> => Finds(ptasks'[j])
  BY <1>1, <1>4 DEF PInv, PTypeOK, Live
<1>6. Tasked
  BY <1>2, <1>4, <1>5, EachKeeps DEF Aside
<1> QED BY <1>2, <1>6, CallKeeps

\* IPCListenPluginTask hands a request to the window, or sleeps, or ends.
LEMMA ListenPluginKeeps ==
  ASSUME PInv, NEW i \in 1 .. Len(ptasks), P!ListenPlugin(i), pcalls' = pcalls
  PROVE  PInv'
<1> DEFINE q == ptasks[i].queue_
<1>1. P!Keeps /\ ptasks[i].kind = "listen" /\ ~Live(ptasks[i]) /\ plugins_' = plugins_
  BY DEF P!ListenPlugin, P!Runs, P!Keeps, P!tables, Live
<1>2. CASE (P!Ends(i) \/ P!Sleeps(i)) /\ wnd' = wnd
  <2>1. Tasked
    BY <1>1, <1>2, EndsKeeps, SleepsKeep
  <2> QED BY <1>1, <1>2, <2>1, RunKeeps
<1>3. CASE /\ q # <<>> /\ ptasks' = [ptasks EXCEPT ![i] = [P!Started(i) EXCEPT !.queue_ = Tail(q)]]
           /\ P!Posts("listen", Head(q)[2], Head(q)[1])
  <2> DEFINE t == P!Started(i)
             u == [t EXCEPT !.queue_ = Tail(q)]
  <2>1. /\ t \in PluginTask /\ t.st = "start" /\ t.status \in LinkStatus
        /\ t.kind = ptasks[i].kind /\ t.app = ptasks[i].app /\ t.destroy_ = ptasks[i].destroy_
    BY StatusIs
  <2>2. q \in Seq(Requests)
    BY <1>1, StatusIs, QueueOf
  <2>3. Tail(q) \in Seq(Requests) /\ Head(q) \in Requests
    BY <1>3, <2>2
  <2> HIDE DEF t, q
  <2>4. /\ u \in PluginTask /\ u.st = "start" /\ u.status \in LinkStatus
        /\ u.kind = ptasks[i].kind /\ u.app = ptasks[i].app /\ u.destroy_ = ptasks[i].destroy_
    <3>1. t.kind = "listen"
      BY <1>1, <2>1
    <3> QED BY <2>1, <2>3, <3>1, QueueIs
  <2>5. ptasks' = [ptasks EXCEPT ![i] = u]
    BY <1>3 DEF t
  <2> HIDE DEF u
  <2>6. Tasked
    BY <1>1, <2>4, <2>5, ChangeKeeps DEF Live
  <2>7. \E m \in Message : m.what # "data" /\ wnd' = Append(wnd, m)
    <3> DEFINE m == [what |-> "listen", app |-> Head(q)[2], x |-> Head(q)[1]]
    <3>1. m \in Message
      BY <2>3, PostedIs DEF Requests
    <3>2. m.what # "data"
      OBVIOUS
    <3>3. wnd' = Append(wnd, m)
      BY <1>3 DEF P!Posts
    <3> QED BY <3>1, <3>2, <3>3
  <2> QED BY <1>1, <2>6, <2>7, RunKeeps
<1> QED BY <1>2, <1>3 DEF P!ListenPlugin

-----------------------------------------------------------------------------
\* What a plugin has in its three places are calls that were.
LEMMA PacketsAreCalls ==
  ASSUME PInv, NEW a \in Apps
  PROVE  /\ Got(a) \subseteq Nat /\ InWindow(a) \subseteq Nat /\ InQueue(a) \subseteq Nat
         /\ \A x \in Got(a) \union InWindow(a) \union InQueue(a) : x < pcalls
<1>1. Got(a) \subseteq Nat
  BY DEF Got, PInv, PTypeOK
<1>2. InWindow(a) \subseteq Nat
  <2>1. \A j \in 1 .. Len(wnd) : DataOf(wnd[j], a) => wnd[j].x \in Nat
    BY MessageIs DEF DataOf, PInv, PTypeOK
  <2> QED BY <2>1 DEF InWindow
<1>3. \A x \in Got(a) \union InWindow(a) \union InQueue(a) : x < pcalls
  BY DEF PInv, OrderInv, Before
<1> QED BY <1>1, <1>2, <1>3 DEF InQueue

\* The type, when a packet is moved.
LEMMA MovedTypeOK ==
  ASSUME PInv, TasksOK', wnd' \in Seq(Message), due' \in SUBSET (Apps \X Nat), delivered' \in [Apps -> Seq(Nat)],
         pcalls' \in {pcalls, pcalls + 1},
         UNCHANGED <<plugins_, dlls_, status, key, checks, quitTold, dealt, stray>>
  PROVE  PTypeOK'
<1>1. pcalls' \in Nat
  BY DEF PInv, PTypeOK
<1>2. ptasks' \in Seq(PluginTask) /\ \A i \in 1 .. Len(ptasks') : ptasks'[i].st = "start" => ptasks'[i].status \in LinkStatus
  BY DEF TasksOK
<1> QED BY <1>1, <1>2 DEF PInv, PTypeOK

\* A packet of a plugin comes to its task.
LEMMA PacketKeeps ==
  ASSUME PInv, NEW a \in Apps, P!Packet(a), pcalls' = pcalls + 1
  PROVE  PInv'
<1> DEFINE i == P!FirstOf(P!Takers("service", a))
           t == ptasks[i]
           q == t.queue_
           u == ptasks'[i]
<1>0. ptasks \in Seq(PluginTask) /\ pcalls \in Nat /\ Len(ptasks) \in Nat
  BY DEF PInv, PTypeOK
<1>1. i \in 1 .. Len(ptasks) /\ t.kind = "service" /\ t.app = a
  BY <1>0, FirstIs DEF P!Packet
<1>2. /\ P!TakenBy(i, pcalls) /\ due' = (IF t.destroy_ THEN due ELSE due \union {<<a, pcalls>>})
      /\ UNCHANGED <<plugins_, dlls_, status, key, wnd, checks, quitTold, dealt, stray, delivered>>
  BY DEF P!Packet, P!tables, P!link, P!held
<1> HIDE DEF i
<1>3. /\ ptasks' \in Seq(PluginTask) /\ Len(ptasks') = Len(ptasks)
      /\ \A j \in 1 .. Len(ptasks) : j # i => ptasks'[j] = ptasks[j]
      /\ u.queue_ = Append(q, pcalls) /\ u.kind = t.kind /\ u.app = t.app
      /\ u.st = t.st /\ u.status = t.status /\ Finds(u) /\ u.destroy_ = t.destroy_
  BY <1>0, <1>1, <1>2, TakenByIs
<1>4. t \in PluginTask /\ q \in Seq(Nat)
  BY <1>0, <1>1, QueueOf
<1>5. /\ Len(q) \in Nat /\ Len(u.queue_) = Len(q) + 1 /\ u.queue_[Len(q) + 1] = pcalls
      /\ \A n \in 1 .. Len(q) : u.queue_[n] = q[n]
  BY <1>0, <1>3, <1>4, AppendProperties
<1> HIDE DEF t, q, u
<1>6. ASSUME NEW j \in 1 .. Len(ptasks)
      PROVE  /\ Live(ptasks'[j]) <=> Live(ptasks[j])
             /\ ptasks'[j].app = ptasks[j].app
             /\ ptasks'[j].st = ptasks[j].st /\ ptasks'[j].status = ptasks[j].status
  BY <1>3 DEF t, u, Live
<1>7. TasksOK' /\ ServiceInv'
  <2>1. TasksOK'
    BY <1>3, <1>6 DEF PInv, PTypeOK, TasksOK
  <2>2. ServiceInv'
    BY <1>2, <1>3, <1>6 DEF PInv, ServiceInv
  <2> QED BY <2>1, <2>2
<1>8. PTypeOK'
  <2>1. due' \in SUBSET (Apps \X Nat)
    BY <1>0, <1>2 DEF PInv, PTypeOK
  <2>2. wnd' \in Seq(Message) /\ delivered' \in [Apps -> Seq(Nat)]
    BY <1>2 DEF PInv, PTypeOK
  <2> QED BY <1>2, <1>7, <2>1, <2>2, MovedTypeOK
<1>9. HeldInv'
  BY <1>2, HeldKeeps
<1>10. ASSUME NEW b \in Apps PROVE InQueue(b)' \subseteq InQueue(b) \union {pcalls} /\ (b # a => InQueue(b)' \subseteq InQueue(b))
  <2> SUFFICES ASSUME NEW x \in InQueue(b)' PROVE x \in InQueue(b) \/ (b = a /\ x = pcalls)
    OBVIOUS
  <2>1. PICK j \in 1 .. Len(ptasks) : Holds(ptasks'[j], b, x)
    BY <1>3 DEF InQueue
  <2>2. x \in Nat
    BY DEF InQueue
  <2>3. CASE j # i
    BY <2>1, <2>2, <2>3, <1>3 DEF InQueue
  <2>4. CASE j = i
    <3>1. PICK n \in 1 .. Len(q) + 1 : u.queue_[n] = x
      BY <2>1, <2>4, <1>5 DEF Holds, u
    <3>2. CASE n = Len(q) + 1
      <4>1. b = a
        BY <2>1, <2>4, <1>1, <1>3 DEF Holds, u
      <4> QED BY <3>1, <3>2, <4>1, <1>5
    <3>3. CASE n \in 1 .. Len(q)
      <4>1. Holds(ptasks[i], b, x)
        BY <2>1, <2>4, <3>1, <3>3, <1>1, <1>5, <1>6 DEF Holds, t, q
      <4> QED BY <4>1, <2>2, <1>1 DEF InQueue
    <3> QED BY <3>1, <3>2, <3>3, <1>5
  <2> QED BY <2>3, <2>4
<1>11. OrderInv'
  <2>1. ASSUME NEW b \in Apps
        PROVE  /\ Before(Got(b), InWindow(b))' /\ Before(Got(b), InQueue(b))' /\ Before(InWindow(b), InQueue(b))'
               /\ Before(Got(b) \union InWindow(b) \union InQueue(b), {pcalls})'
    <3>1. Got(b)' = Got(b) /\ InWindow(b)' = InWindow(b)
      BY <1>2 DEF Got, InWindow
    <3>2. /\ Before(Got(b), InWindow(b)) /\ Before(Got(b), InQueue(b)) /\ Before(InWindow(b), InQueue(b))
      BY DEF PInv, OrderInv
    <3>3. /\ Got(b) \subseteq Nat /\ InWindow(b) \subseteq Nat /\ InQueue(b) \subseteq Nat
          /\ \A x \in Got(b) \union InWindow(b) \union InQueue(b) : x < pcalls
      BY PacketsAreCalls
    <3>4. InQueue(b)' \subseteq InQueue(b) \union {pcalls}
      BY <1>10
    <3> QED BY <1>0, <3>1, <3>2, <3>3, <3>4 DEF Before
  <2>2. ASSUME NEW b \in Apps
        PROVE  /\ Increasing(delivered'[b])
               /\ \A j, k \in 1 .. Len(wnd') : j < k /\ DataOf(wnd'[j], b) /\ DataOf(wnd'[k], b) => wnd'[j].x < wnd'[k].x
    BY <1>2 DEF PInv, OrderInv
  <2>3. ASSUME NEW j \in 1 .. Len(ptasks'), Live(ptasks'[j]) PROVE Increasing(ptasks'[j].queue_)
    <3>0. j \in 1 .. Len(ptasks) /\ Increasing(ptasks[j].queue_)
      BY <1>3, <1>6, <2>3 DEF PInv, OrderInv
    <3>1. CASE j # i
      BY <3>0, <3>1, <1>3
    <3>2. CASE j = i
      <4>1. \A n \in 1 .. Len(q) : q[n] < pcalls
        <5>1. ASSUME NEW n \in 1 .. Len(q) PROVE q[n] \in InQueue(a)
          <6>1. q[n] \in Nat
            BY <1>4
          <6>2. Holds(ptasks[i], a, q[n])
            BY <2>3, <3>2, <1>1, <1>6 DEF Holds, q, t
          <6> QED BY <6>1, <6>2, <1>1 DEF InQueue
        <5> QED BY <5>1, PacketsAreCalls
      <4>2. Increasing(q)
        BY <3>0, <3>2 DEF q, t
      <4>3. ASSUME NEW m \in 1 .. Len(u.queue_), NEW n \in 1 .. Len(u.queue_), m < n
            PROVE  u.queue_[m] < u.queue_[n]
        <5>1. m \in 1 .. Len(q) /\ u.queue_[m] = q[m]
          BY <1>5, <4>3
        <5>2. CASE n = Len(q) + 1
          BY <5>1, <5>2, <1>5, <4>1
        <5>3. CASE n \in 1 .. Len(q)
          BY <5>1, <5>3, <1>5, <4>2, <4>3 DEF Increasing
        <5> QED BY <5>2, <5>3, <1>5
      <4> QED BY <3>2, <4>3 DEF u, Increasing
    <3> QED BY <3>1, <3>2
  <2> QED BY <2>1, <2>2, <2>3 DEF OrderInv
<1>12. DueInv'
  <2> SUFFICES ASSUME NEW d \in due'
               PROVE  \/ d[2] \in InWindow(d[1])'
                      \/ \E j \in 1 .. Len(ptasks') : Finds(ptasks'[j]) /\ Holds(ptasks'[j], d[1], d[2])
    BY DEF DueInv
  <2>1. CASE d \in due
    <3>1. CASE d[2] \in InWindow(d[1])
      BY <3>1, <1>2 DEF InWindow
    <3>2. ASSUME NEW j \in 1 .. Len(ptasks), Finds(ptasks[j]), Holds(ptasks[j], d[1], d[2])
          PROVE  Finds(ptasks'[j]) /\ Holds(ptasks'[j], d[1], d[2])
      <4>1. CASE j # i
        BY <3>2, <4>1, <1>3
      <4>2. CASE j = i
        <5>1. PICK n \in 1 .. Len(q) : q[n] = d[2]
          BY <3>2, <4>2 DEF Holds, q, t
        <5>2. n \in 1 .. Len(u.queue_) /\ u.queue_[n] = d[2]
          BY <5>1, <1>5
        <5> QED BY <3>2, <4>2, <5>2, <1>3, <1>6 DEF Holds, u, t
      <4> QED BY <4>1, <4>2
    <3> QED BY <2>1, <3>1, <3>2, <1>3 DEF PInv, DueInv
  <2>2. CASE d \notin due
    <3>1. d = <<a, pcalls>> /\ ~t.destroy_
      BY <2>2, <1>2
    <3>2. Holds(u, a, pcalls)
      <4>1. Live(u) /\ u.app = a
        BY <3>1, <1>1, <1>3 DEF Live
      <4>2. Len(q) + 1 \in 1 .. Len(u.queue_)
        BY <1>5
      <4> QED BY <4>1, <4>2, <1>5 DEF Holds
    <3> QED BY <3>1, <3>2, <1>1, <1>3 DEF u
  <2> QED BY <2>1, <2>2
<1> QED BY <1>7, <1>8, <1>9, <1>11, <1>12 DEF PInv

\* A packet goes from a plugin's task to the window.
LEMMA TakenKeeps ==
  ASSUME PInv, NEW i \in 1 .. Len(ptasks), ptasks[i].kind = "service", ptasks[i].ready, ~ptasks[i].destroy_,
         ptasks[i].queue_ # <<>>, ptasks' = P!Taken(i), P!Posts("data", ptasks[i].app, Head(ptasks[i].queue_)),
         P!Keeps, pcalls' = pcalls
  PROVE  PInv'
<1> DEFINE t == P!Started(i)
           q == ptasks[i].queue_
           a == ptasks[i].app
           x == Head(q)
           u == [t EXCEPT !.queue_ = Tail(q)]
           m == [what |-> "data", app |-> a, x |-> x]
<1>0. /\ ptasks \in Seq(PluginTask) /\ pcalls \in Nat /\ Len(ptasks) \in Nat /\ wnd \in Seq(Message) /\ Len(wnd) \in Nat
      /\ delivered \in [Apps -> Seq(Nat)] /\ due \in SUBSET (Apps \X Nat)
  BY DEF PInv, PTypeOK
<1>1. /\ t \in PluginTask /\ t.st = "start" /\ t.status \in LinkStatus /\ t.kind = "service"
      /\ t.app = a /\ t.queue_ = q /\ ~t.destroy_ /\ t.ready
  BY StatusIs
<1>2. q \in Seq(Nat) /\ a \in Apps
  <2>1. ptasks[i] \in PluginTask
    BY <1>0
  <2> QED BY <2>1, QueueOf
<1>3. Tail(q) \in Seq(Nat) /\ x \in Nat /\ Len(q) \in Nat /\ Len(q) > 0 /\ x = q[1]
      /\ Len(Tail(q)) = Len(q) - 1 /\ \A n \in 1 .. Len(q) - 1 : Tail(q)[n] = q[n + 1]
  BY <1>2
<1>4. Live(ptasks[i]) /\ \A n \in 1 .. Len(q) : Holds(ptasks[i], a, q[n]) /\ q[n] \in InQueue(a)
  <2>1. Live(ptasks[i])
    BY DEF Live
  <2>2. \A n \in 1 .. Len(q) : q[n] \in Nat /\ Holds(ptasks[i], a, q[n])
    BY <1>2, <2>1 DEF Holds
  <2> QED BY <2>1, <2>2 DEF InQueue
<1>5. \A n \in 2 .. Len(q) : x < q[n]
  <2>1. Increasing(q)
    BY <1>4 DEF PInv, OrderInv
  <2>2. 1 \in 1 .. Len(q) /\ \A n \in 2 .. Len(q) : n \in 1 .. Len(q) /\ 1 < n
    BY <1>3
  <2> QED BY <2>1, <2>2, <1>3 DEF Increasing
<1>6. UNCHANGED <<plugins_, dlls_, status, key, checks, quitTold, dealt, stray, due, delivered>>
      /\ wnd' = Append(wnd, m) /\ ptasks' = [ptasks EXCEPT ![i] = [t EXCEPT !.queue_ = Tail(@)]]
  BY DEF P!Keeps, P!tables, P!link, P!held, P!data, P!Posts, P!Taken
<1>7. m \in Message /\ m.what = "data" /\ m.app = a /\ m.x = x
  BY <1>2, <1>3, PostedIs
<1> HIDE DEF t
<1>8. ptasks' = [ptasks EXCEPT ![i] = u]
  <2>1. [t EXCEPT !.queue_ = Tail(@)] = [t EXCEPT !.queue_ = Tail(t.queue_)]
    OBVIOUS
  <2> HIDE DEF q
  <2> QED BY <2>1, <1>1, <1>6
<1>9. /\ u \in PluginTask /\ u.queue_ = Tail(q) /\ u.kind = "service" /\ u.app = a /\ u.st = "start" /\ u.status \in LinkStatus
      /\ u.ready /\ ~u.destroy_
  <2> DEFINE tq == Tail(q)
  <2>1. t.kind = "service" /\ tq \in Seq(Nat)
    BY <1>1, <1>3
  <2> HIDE DEF tq, q, a
  <2>2. LET v == [t EXCEPT !.queue_ = tq] IN
        /\ v \in PluginTask /\ v.queue_ = tq /\ v.kind = t.kind /\ v.app = t.app /\ v.st = t.st /\ v.status = t.status
        /\ v.ready = t.ready /\ v.destroy_ = t.destroy_
    BY <1>1, <2>1, QueueIs
  <2> QED BY <1>1, <2>2 DEF tq
<1> HIDE DEF u, x, q, m, a
<1>10. /\ ptasks' \in Seq(PluginTask) /\ Len(ptasks') = Len(ptasks) /\ ptasks'[i] = u
       /\ \A j \in 1 .. Len(ptasks) : j # i => ptasks'[j] = ptasks[j]
  BY <1>0, <1>8, <1>9, ExceptSeq
<1>11. /\ wnd' \in Seq(Message) /\ Len(wnd') = Len(wnd) + 1 /\ wnd'[Len(wnd) + 1] = m
       /\ \A n \in 1 .. Len(wnd) : wnd'[n] = wnd[n]
  BY <1>0, <1>6, <1>7, AppendProperties
<1>12. Live(u) /\ \A j \in 1 .. Len(ptasks) : (Live(ptasks'[j]) <=> Live(ptasks[j])) /\ (Live(ptasks[j]) => ptasks'[j].app = ptasks[j].app)
  BY <1>4, <1>9, <1>10 DEF Live, a
<1>13. TasksOK' /\ ServiceInv'
  <2>1. TasksOK'
    BY <1>9, <1>10 DEF PInv, PTypeOK, TasksOK
  <2>2. ServiceInv'
    BY <1>6, <1>10, <1>12 DEF PInv, ServiceInv
  <2> QED BY <2>1, <2>2
<1>14. PTypeOK'
  <2>1. wnd' \in Seq(Message) /\ due' \in SUBSET (Apps \X Nat) /\ delivered' \in [Apps -> Seq(Nat)]
    BY <1>0, <1>6, <1>11
  <2> QED BY <1>6, <1>13, <2>1, MovedTypeOK
<1>15. HeldInv'
  BY <1>6, <1>7, HeldKeeps
<1>16. ASSUME NEW b \in Apps
       PROVE  InWindow(b)' = InWindow(b) \union (IF b = a THEN {x} ELSE {})
  <2>1. DataOf(wnd'[Len(wnd) + 1], b) <=> b = a
    BY <1>7, <1>11 DEF DataOf
  <2>2. wnd'[Len(wnd) + 1].x = x
    BY <1>7, <1>11
  <2>3. ASSUME NEW n \in 1 .. Len(wnd') PROVE (n \in 1 .. Len(wnd) /\ wnd'[n] = wnd[n]) \/ n = Len(wnd) + 1
    BY <1>0, <1>11
  <2>4. ASSUME NEW n \in 1 .. Len(wnd) PROVE n \in 1 .. Len(wnd') /\ wnd'[n] = wnd[n]
    BY <1>0, <1>11
  <2>5. Len(wnd) + 1 \in 1 .. Len(wnd')
    BY <1>0, <1>11
  <2>6. ASSUME NEW y \in InWindow(b)' PROVE y \in InWindow(b) \union (IF b = a THEN {x} ELSE {})
    <3>1. PICK n \in 1 .. Len(wnd') : DataOf(wnd'[n], b) /\ y = wnd'[n].x
      BY <2>6 DEF InWindow
    <3>2. CASE n \in 1 .. Len(wnd) /\ wnd'[n] = wnd[n]
      BY <3>1, <3>2 DEF InWindow
    <3>3. CASE n = Len(wnd) + 1
      BY <3>1, <3>3, <2>1, <2>2
    <3> QED BY <2>3, <3>2, <3>3
  <2>7. ASSUME NEW y \in InWindow(b) PROVE y \in InWindow(b)'
    <3>1. PICK n \in 1 .. Len(wnd) : DataOf(wnd[n], b) /\ y = wnd[n].x
      BY <2>7 DEF InWindow
    <3> QED BY <3>1, <2>4 DEF InWindow
  <2>8. b = a => x \in InWindow(b)'
    BY <2>1, <2>2, <2>5 DEF InWindow
  <2> QED BY <2>6, <2>7, <2>8
<1>17. ASSUME NEW b \in Apps, NEW y \in InQueue(b)'
       PROVE  y \in InQueue(b) /\ (b = a => x < y)
  <2>1. PICK j \in 1 .. Len(ptasks) : Holds(ptasks'[j], b, y)
    BY <1>10, <1>17 DEF InQueue
  <2>2. y \in Nat
    BY <1>17 DEF InQueue
  <2>3. CASE j # i
    <3>1. Holds(ptasks[j], b, y)
      BY <2>1, <2>3, <1>10
    <3>2. b # a
      BY <2>3, <3>1, <1>4 DEF Holds, a, PInv, ServiceInv
    <3> QED BY <2>2, <3>1, <3>2 DEF InQueue
  <2>4. CASE j = i
    <3>1. PICK n \in 1 .. Len(q) - 1 : Tail(q)[n] = y
      BY <2>1, <2>4, <1>3, <1>9, <1>10 DEF Holds
    <3>2. n + 1 \in 2 .. Len(q) /\ n + 1 \in 1 .. Len(q) /\ q[n + 1] = y
      BY <3>1, <1>3
    <3>3. b = a
      BY <2>1, <2>4, <1>9, <1>10 DEF Holds
    <3> QED BY <3>2, <3>3, <1>4, <1>5
  <2> QED BY <2>3, <2>4
<1>18. x \in InQueue(a)
  <2>1. 1 \in 1 .. Len(q)
    BY <1>3
  <2> QED BY <2>1, <1>3, <1>4
<1>19. OrderInv'
  <2>1. ASSUME NEW b \in Apps
        PROVE  /\ Before(Got(b), InWindow(b))' /\ Before(Got(b), InQueue(b))' /\ Before(InWindow(b), InQueue(b))'
               /\ Before(Got(b) \union InWindow(b) \union InQueue(b), {pcalls})'
    <3>1. Got(b)' = Got(b)
      BY <1>6 DEF Got
    <3>2. /\ Before(Got(b), InWindow(b)) /\ Before(Got(b), InQueue(b)) /\ Before(InWindow(b), InQueue(b))
      BY DEF PInv, OrderInv
    <3>3. /\ Got(b) \subseteq Nat /\ InWindow(b) \subseteq Nat /\ InQueue(b) \subseteq Nat
          /\ \A y \in Got(b) \union InWindow(b) \union InQueue(b) : y < pcalls
      BY PacketsAreCalls
    <3>4. InQueue(b)' \subseteq InQueue(b) /\ (b = a => \A y \in InQueue(b)' : x < y)
      BY <1>17
    <3>5. InWindow(b)' \subseteq InWindow(b) \union (IF b = a THEN {x} ELSE {})
      BY <1>16
    <3> QED BY <1>0, <1>18, <3>1, <3>2, <3>3, <3>4, <3>5 DEF Before
  <2>2. ASSUME NEW b \in Apps PROVE Increasing(delivered'[b])
    BY <1>6 DEF PInv, OrderInv
  <2>3. ASSUME NEW b \in Apps, NEW j \in 1 .. Len(wnd'), NEW k \in 1 .. Len(wnd'), j < k, DataOf(wnd'[j], b), DataOf(wnd'[k], b)
        PROVE  wnd'[j].x < wnd'[k].x
    <3>1. j \in 1 .. Len(wnd) /\ wnd'[j] = wnd[j]
      BY <1>0, <1>11, <2>3
    <3>2. CASE k \in 1 .. Len(wnd)
      BY <2>3, <3>1, <3>2, <1>11 DEF PInv, OrderInv
    <3>3. CASE k = Len(wnd) + 1
      <4>1. b = a /\ wnd'[k].x = x
        BY <2>3, <3>3, <1>7, <1>11 DEF DataOf
      <4>2. wnd[j].x \in InWindow(a)
        BY <2>3, <3>1, <4>1 DEF InWindow
      <4>3. Before(InWindow(a), InQueue(a))
        BY <1>2 DEF PInv, OrderInv
      <4> QED BY <3>1, <4>1, <4>2, <4>3, <1>18 DEF Before
    <3> QED BY <3>2, <3>3, <1>0, <1>11
  <2>4. ASSUME NEW j \in 1 .. Len(ptasks'), Live(ptasks'[j]) PROVE Increasing(ptasks'[j].queue_)
    <3>0. j \in 1 .. Len(ptasks) /\ Increasing(ptasks[j].queue_)
      BY <1>10, <1>12, <2>4 DEF PInv, OrderInv
    <3>1. CASE j # i
      BY <3>0, <3>1, <1>10
    <3>2. CASE j = i
      <4>1. Increasing(q)
        BY <3>0, <3>2 DEF q
      <4>2. Increasing(Tail(q))
        BY <1>3, <4>1 DEF Increasing
      <4> QED BY <3>2, <4>2, <1>9, <1>10
    <3> QED BY <3>1, <3>2
  <2> QED BY <2>1, <2>2, <2>3, <2>4 DEF OrderInv
<1>20. DueInv'
  <2> SUFFICES ASSUME NEW d \in due'
               PROVE  \/ d[2] \in InWindow(d[1])'
                      \/ \E j \in 1 .. Len(ptasks') : Finds(ptasks'[j]) /\ Holds(ptasks'[j], d[1], d[2])
    BY DEF DueInv
  <2>0. d \in due /\ d[1] \in Apps
    BY <1>0, <1>6
  <2>1. CASE d[2] \in InWindow(d[1])
    BY <2>0, <2>1, <1>16
  <2>2. ASSUME NEW j \in 1 .. Len(ptasks), Finds(ptasks[j]), Holds(ptasks[j], d[1], d[2])
        PROVE  \/ d[2] \in InWindow(d[1])'
               \/ Finds(ptasks'[j]) /\ Holds(ptasks'[j], d[1], d[2])
    <3>1. CASE j # i
      BY <2>2, <3>1, <1>10
    <3>2. CASE j = i
      <4>1. PICK n \in 1 .. Len(q) : q[n] = d[2]
        BY <2>2, <3>2 DEF Holds, q
      <4>2. d[1] = a
        BY <2>2, <3>2 DEF Holds, a
      <4>3. CASE n = 1
        <5>1. d[2] = x
          BY <4>1, <4>3, <1>3
        <5>2. InWindow(d[1])' = InWindow(d[1]) \union {x}
          BY <2>0, <4>2, <1>16
        <5> QED BY <5>1, <5>2
      <4>4. CASE n # 1
        <5>1. n - 1 \in 1 .. Len(q) - 1 /\ (n - 1) + 1 = n
          BY <4>4, <1>3
        <5>2. n - 1 \in 1 .. Len(Tail(q)) /\ Tail(q)[n - 1] = d[2]
          BY <4>1, <5>1, <1>3
        <5>3. Holds(u, a, d[2])
          BY <5>2, <1>9, <1>12 DEF Holds
        <5> QED BY <5>3, <4>2, <3>2, <1>9, <1>10 DEF Finds
      <4> QED BY <4>3, <4>4
    <3> QED BY <3>1, <3>2
  <2>3. \/ d[2] \in InWindow(d[1])
        \/ \E j \in 1 .. Len(ptasks) : Finds(ptasks[j]) /\ Holds(ptasks[j], d[1], d[2])
    BY <2>0 DEF PInv, DueInv
  <2> QED BY <2>1, <2>2, <2>3, <1>10
<1> QED BY <1>13, <1>14, <1>15, <1>19, <1>20 DEF PInv

\* IPCListenPluginServiceTask ends when it is marked, takes a packet, or sleeps.
LEMMA ServiceKeeps ==
  ASSUME PInv, NEW i \in 1 .. Len(ptasks), P!ListenPluginService(i), pcalls' = pcalls
  PROVE  PInv'
<1>1. P!Keeps /\ ptasks[i].kind = "service" /\ ptasks[i].ready /\ plugins_' = plugins_
  BY DEF P!ListenPluginService, P!Runs, P!Keeps, P!tables
<1>2. CASE ptasks[i].destroy_ /\ P!Ends(i) /\ wnd' = wnd
  <2>1. Tasked
    BY <1>1, <1>2, EndsKeeps DEF Live
  <2> QED BY <1>1, <1>2, <2>1, RunKeeps
<1>3. CASE ~ptasks[i].destroy_ /\ ptasks[i].queue_ = <<>> /\ P!Sleeps(i) /\ wnd' = wnd
  <2>1. Tasked
    BY <1>1, <1>3, SleepsKeep
  <2> QED BY <1>1, <1>3, <2>1, RunKeeps
<1>4. CASE /\ ~ptasks[i].destroy_ /\ ptasks[i].queue_ # <<>> /\ ptasks' = P!Taken(i)
           /\ P!Posts("data", ptasks[i].app, Head(ptasks[i].queue_))
  BY <1>1, <1>4, TakenKeeps
<1> QED BY <1>2, <1>3, <1>4 DEF P!ListenPluginService

-----------------------------------------------------------------------------
\* The head of a list goes.
LEMMA HeadGoes ==
  ASSUME NEW S, NEW s \in Seq(S), s # <<>>
  PROVE  /\ Head(s) = s[1] /\ s[1] \in S /\ Tail(s) \in Seq(S) /\ Len(s) \in Nat /\ Len(s) > 0 /\ Len(Tail(s)) = Len(s) - 1
         /\ \A i \in 1 .. Len(s) - 1 : Tail(s)[i] = s[i + 1]
OBVIOUS

\* The owner is told of a plugin, which enters the table when its connection is there.
LEMMA ToldKeeps ==
  ASSUME PInv, Ours \subseteq Apps, P!onPluginStatus, pcalls' = pcalls
  PROVE  PInv'
<1>0. wnd \in Seq(Message) /\ wnd # <<>> /\ plugins_ \in SUBSET Apps
  BY DEF PInv, PTypeOK, P!onPluginStatus, P!Gets
<1>1. /\ Head(wnd).what = "status" /\ wnd' = Tail(wnd)
      /\ UNCHANGED <<dlls_, status, key, checks, quitTold, dealt, stray, due, delivered>>
      /\ IF Head(wnd).x = "start_load" THEN P!Enters(P!App, "load") ELSE UNCHANGED <<plugins_, ptasks>>
  BY DEF P!onPluginStatus, P!Gets, P!link, P!held, P!data
<1>2. P!App \in Ours
  <2>1. Head(wnd) \in Message
    BY <1>0
  <2> QED BY <1>1, <2>1, MessageIs DEF P!App
<1>3. TasksOK' /\ Services({}) /\ ServiceInv' /\ plugins_' \in SUBSET Apps /\ plugins_' \ Ours = plugins_ \ Ours
  <2>1. CASE P!Enters(P!App, "load")
    <3>1. TasksOK' /\ Services({}) /\ ServiceInv' /\ plugins_' \in SUBSET Apps
      BY <1>2, <2>1, EntersKeeps
    <3>2. plugins_' = plugins_ \union {P!App}
      BY <2>1 DEF P!Enters
    <3> QED BY <1>2, <3>1, <3>2
  <2>2. CASE UNCHANGED <<plugins_, ptasks>>
    <3>1. TasksOK' /\ ServiceInv'
      BY <2>2 DEF PInv, PTypeOK, TasksOK, ServiceInv
    <3>2. Services({})
      BY <2>2 DEF Services, Serves
    <3> QED BY <1>0, <2>2, <3>1, <3>2
  <2> QED BY <1>1, <2>1, <2>2
<1>4. TablesOK'
  BY <1>1, <1>3 DEF PInv, PTypeOK, TablesOK
<1>5. HeldInv'
  BY <1>0, <1>1, <1>3, HeldKeeps
<1>6. SameData /\ due' \subseteq {d \in due : d[1] \notin {}}
  BY <1>0, <1>1 DEF SameData
<1> QED BY <1>1, <1>3, <1>4, <1>5, <1>6, AllKeep

\* The process is told to quit.
LEMMA QuitKeeps ==
  ASSUME PInv, P!onQuit, pcalls' = pcalls
  PROVE  PInv'
<1>1. /\ wnd # <<>> /\ Head(wnd).what = "quit" /\ wnd' = Tail(wnd) /\ quitTold' = TRUE
      /\ UNCHANGED <<plugins_, dlls_, ptasks, status, key, checks, dealt, stray, due, delivered>>
  BY DEF P!onQuit, P!Gets, P!tables, P!link, P!data
<1>2. TablesOK' /\ TasksOK' /\ ServiceInv'
  BY <1>1 DEF PInv, PTypeOK, TablesOK, TasksOK, ServiceInv
<1>3. Services({})
  BY <1>1 DEF Services, Serves
<1>4. HeldInv'
  <2>1. \A f \in Files : Users(f)' = Users(f)
    BY <1>1 DEF Users
  <2> QED BY <1>1, <2>1 DEF PInv, HeldInv
<1>5. SameData /\ due' \subseteq {d \in due : d[1] \notin {}}
  BY <1>1 DEF SameData
<1> QED BY <1>1, <1>2, <1>3, <1>4, <1>5, AllKeep

\* The message thread looks whether the process is needed.
LEMMA CheckKeeps ==
  ASSUME PInv, P!checkDll, pcalls' = pcalls
  PROVE  PInv'
<1>0. checks \in Nat /\ checks' \in Nat /\ wnd \in Seq(Message)
  BY DEF PInv, PTypeOK, P!checkDll
<1>1. /\ UNCHANGED <<plugins_, dlls_, ptasks, status, key, quitTold, dealt, stray, due, delivered>>
      /\ IF P!isNil(dlls_) THEN wnd' = Append(wnd, [what |-> "quit", app |-> Nothing, x |-> Nothing]) ELSE wnd' = wnd
  BY DEF P!checkDll, P!tables, P!link, P!held, P!data, P!Posts
<1> DEFINE m == [what |-> "quit", app |-> Nothing, x |-> Nothing]
<1>2. m \in Message /\ m.what = "quit"
  BY PostedIs
<1> HIDE DEF m
<1>3. TablesOK' /\ TasksOK' /\ ServiceInv'
  BY <1>0, <1>1 DEF PInv, PTypeOK, TablesOK, TasksOK, ServiceInv
<1>4. Services({})
  BY <1>1 DEF Services, Serves
<1>5. wnd' = wnd \/ wnd' = Append(wnd, m)
  BY <1>1 DEF m
<1>6. SameData /\ due' \subseteq {d \in due : d[1] \notin {}}
  BY <1>1, <1>2, <1>5 DEF SameData
<1>7. HeldInv'
  <2>1. \A f \in Files : Users(f)' = Users(f)
    BY <1>1 DEF Users
  <2>2. P!isNil(dlls_)' = P!isNil(dlls_)
    BY <1>1 DEF P!isNil
  <2>3. P!isNil(dlls_) => \E i \in 1 .. Len(wnd') : wnd'[i].what = "quit"
    <3> SUFFICES ASSUME P!isNil(dlls_) PROVE \E i \in 1 .. Len(wnd') : wnd'[i].what = "quit"
      OBVIOUS
    <3>1. wnd' = Append(wnd, m)
      BY <1>1 DEF m
    <3>2. Len(wnd) + 1 \in 1 .. Len(wnd') /\ wnd'[Len(wnd) + 1] = m
      BY <1>0, <3>1
    <3> QED BY <1>2, <3>2
  <2> QED BY <1>1, <2>1, <2>2, <2>3 DEF PInv, HeldInv
<1> QED BY <1>1, <1>3, <1>4, <1>6, <1>7, AllKeep

\* A packet reaches its plugin, or is lost with it.
LEMMA DeliveredKeeps ==
  ASSUME PInv, P!onPluginData, pcalls' = pcalls
  PROVE  PInv'
<1> DEFINE a == P!App
           x == Head(wnd).x
<1>0. /\ wnd \in Seq(Message) /\ wnd # <<>> /\ delivered \in [Apps -> Seq(Nat)] /\ due \in SUBSET (Apps \X Nat)
      /\ pcalls \in Nat
  BY DEF PInv, PTypeOK, P!onPluginData, P!Gets
<1>1. /\ Head(wnd).what = "data" /\ wnd' = Tail(wnd) /\ due' = due \ {<<a, x>>}
      /\ delivered' = IF a \in plugins_ THEN [delivered EXCEPT ![a] = Append(@, x)] ELSE delivered
      /\ UNCHANGED <<plugins_, dlls_, ptasks, status, key, checks, quitTold, dealt, stray>>
  BY DEF P!onPluginData, P!Gets, P!tables, P!link, P!held
<1>2. a \in Apps /\ x \in Nat /\ DataOf(wnd[1], a) /\ wnd[1].x = x
  <2>1. Head(wnd) \in Message /\ Head(wnd) = wnd[1]
    BY <1>0
  <2> QED BY <1>1, <2>1, MessageIs DEF P!App, DataOf
<1> HIDE DEF a, x
<1>3. /\ wnd' \in Seq(Message) /\ Len(wnd) \in Nat /\ Len(wnd) > 0 /\ Len(wnd') = Len(wnd) - 1
      /\ \A i \in 1 .. Len(wnd) - 1 : wnd'[i] = wnd[i + 1]
  BY <1>0, <1>1, HeadGoes
<1>4. ASSUME NEW b \in Apps
      PROVE  /\ InWindow(b)' \subseteq InWindow(b)
             /\ b = a => x \in InWindow(b) /\ \A y \in InWindow(b)' : x < y
             /\ \A y \in InWindow(b) : y \in InWindow(b)' \/ (b = a /\ y = x)
  <2>1. ASSUME NEW y \in InWindow(b)' PROVE y \in InWindow(b) /\ (b = a => x < y)
    <3>1. PICK n \in 1 .. Len(wnd') : DataOf(wnd'[n], b) /\ y = wnd'[n].x
      BY <2>1 DEF InWindow
    <3>2. n + 1 \in 1 .. Len(wnd) /\ DataOf(wnd[n + 1], b) /\ y = wnd[n + 1].x /\ 1 < n + 1 /\ 1 \in 1 .. Len(wnd)
      BY <3>1, <1>3
    <3>3. y \in InWindow(b)
      BY <3>2 DEF InWindow
    <3>4. b = a => wnd[1].x < wnd[n + 1].x
      BY <3>2, <1>2 DEF PInv, OrderInv
    <3> QED BY <3>2, <3>3, <3>4, <1>2
  <2>2. x \in InWindow(a)
    <3>1. 1 \in 1 .. Len(wnd)
      BY <1>3
    <3> QED BY <3>1, <1>2 DEF InWindow
  <2>3. ASSUME NEW y \in InWindow(b) PROVE y \in InWindow(b)' \/ (b = a /\ y = x)
    <3>1. PICK n \in 1 .. Len(wnd) : DataOf(wnd[n], b) /\ y = wnd[n].x
      BY <2>3 DEF InWindow
    <3>2. CASE n = 1
      BY <3>1, <3>2, <1>2 DEF DataOf
    <3>3. CASE n # 1
      <4>1. n - 1 \in 1 .. Len(wnd') /\ wnd'[n - 1] = wnd[n]
        BY <3>3, <1>3
      <4> QED BY <3>1, <4>1 DEF InWindow
    <3> QED BY <3>2, <3>3
  <2> QED BY <2>1, <2>2, <2>3
<1>5. delivered' \in [Apps -> Seq(Nat)]
  BY <1>0, <1>1, <1>2
<1>6. TasksOK' /\ ServiceInv'
  BY <1>1 DEF PInv, PTypeOK, TasksOK, ServiceInv
<1>7. PTypeOK'
  <2>1. due' \in SUBSET (Apps \X Nat)
    BY <1>0, <1>1
  <2> QED BY <1>1, <1>3, <1>5, <1>6, <2>1, MovedTypeOK
<1>8. HeldInv'
  BY <1>0, <1>1, HeldKeeps
<1>9. ASSUME NEW b \in Apps
      PROVE  /\ Increasing(delivered'[b])
             /\ Got(b)' = Got(b) \/ (b = a /\ Got(b)' = Got(b) \union {x})
  <2>0. delivered[b] \in Seq(Nat) /\ Len(delivered[b]) \in Nat /\ Increasing(delivered[b])
    <3>1. delivered[b] \in Seq(Nat)
      BY <1>0
    <3>2. Increasing(delivered[b])
      BY DEF PInv, OrderInv
    <3> QED BY <3>1, <3>2
  <2>1. CASE delivered'[b] = delivered[b]
    BY <2>0, <2>1 DEF Got
  <2>2. CASE b = a /\ delivered'[b] = Append(delivered[b], x)
    <3> DEFINE s == delivered[b]
    <3>0. s \in Seq(Nat) /\ Len(s) \in Nat
      BY <2>0
    <3>1. /\ Len(Append(s, x)) = Len(s) + 1 /\ Append(s, x)[Len(s) + 1] = x
          /\ \A n \in 1 .. Len(s) : Append(s, x)[n] = s[n]
      BY <3>0, <1>2, AppendProperties
    <3>2. ASSUME NEW n \in 1 .. Len(s) PROVE s[n] < x
      <4>1. s[n] \in Got(b)
        BY DEF Got
      <4>2. x \in InWindow(b)
        BY <1>4, <2>2
      <4> QED BY <4>1, <4>2 DEF PInv, OrderInv, Before
    <3>3. Increasing(s)
      BY <2>0
    <3> DEFINE r == Append(s, x)
    <3>4. delivered'[b] = r
      BY <2>2
    <3>5. Got(b) = {s[n] : n \in 1 .. Len(s)} /\ Got(b)' = {r[n] : n \in 1 .. Len(r)}
      BY <3>4 DEF Got
    <3> HIDE DEF s, r
    <3>6. /\ Len(r) = Len(s) + 1 /\ r[Len(s) + 1] = x /\ \A n \in 1 .. Len(s) : r[n] = s[n]
      BY <3>1 DEF r
    <3>7. ASSUME NEW i \in 1 .. Len(r), NEW j \in 1 .. Len(r), i < j PROVE r[i] < r[j]
      <4>1. i \in 1 .. Len(s) /\ r[i] = s[i]
        BY <3>0, <3>6, <3>7
      <4>2. CASE j = Len(s) + 1
        BY <4>1, <4>2, <3>2, <3>6
      <4>3. CASE j \in 1 .. Len(s)
        BY <4>1, <4>3, <3>3, <3>6, <3>7 DEF Increasing
      <4> QED BY <4>2, <4>3, <3>0, <3>6
    <3>8. Increasing(r)
      BY <3>7 DEF Increasing
    <3>9. Got(b)' = Got(b) \union {x}
      <4>1. 1 .. Len(r) = 1 .. Len(s) \union {Len(s) + 1}
        BY <3>0, <3>6
      <4> QED BY <3>5, <3>6, <4>1
    <3> QED BY <2>2, <3>4, <3>8, <3>9
  <2>3. delivered'[b] = delivered[b] \/ (b = a /\ delivered'[b] = Append(delivered[b], x))
    BY <1>0, <1>1, <1>2
  <2> QED BY <2>1, <2>2, <2>3
<1>10. OrderInv'
  <2>1. ASSUME NEW b \in Apps
        PROVE  /\ Before(Got(b), InWindow(b))' /\ Before(Got(b), InQueue(b))' /\ Before(InWindow(b), InQueue(b))'
               /\ Before(Got(b) \union InWindow(b) \union InQueue(b), {pcalls})'
    <3>1. InQueue(b)' = InQueue(b)
      BY <1>1 DEF InQueue
    <3>2. /\ Before(Got(b), InWindow(b)) /\ Before(Got(b), InQueue(b)) /\ Before(InWindow(b), InQueue(b))
      BY DEF PInv, OrderInv
    <3>3. /\ Got(b) \subseteq Nat /\ InWindow(b) \subseteq Nat /\ InQueue(b) \subseteq Nat
          /\ \A y \in Got(b) \union InWindow(b) \union InQueue(b) : y < pcalls
      BY PacketsAreCalls
    <3>4. InWindow(b)' \subseteq InWindow(b) /\ (b = a => x \in InWindow(b) /\ \A y \in InWindow(b)' : x < y)
      BY <1>4
    <3>5. Got(b)' = Got(b) \/ (b = a /\ Got(b)' = Got(b) \union {x})
      BY <1>9
    <3> QED BY <3>1, <3>2, <3>3, <3>4, <3>5 DEF Before
  <2>2. ASSUME NEW b \in Apps PROVE Increasing(delivered'[b])
    BY <1>9
  <2>3. ASSUME NEW b \in Apps, NEW j \in 1 .. Len(wnd'), NEW k \in 1 .. Len(wnd'), j < k, DataOf(wnd'[j], b), DataOf(wnd'[k], b)
        PROVE  wnd'[j].x < wnd'[k].x
    <3>1. j + 1 \in 1 .. Len(wnd) /\ k + 1 \in 1 .. Len(wnd) /\ j + 1 < k + 1
      BY <2>3, <1>3
    <3> QED BY <2>3, <3>1, <1>3 DEF PInv, OrderInv
  <2>4. \A j \in 1 .. Len(ptasks') : Live(ptasks'[j]) => Increasing(ptasks'[j].queue_)
    BY <1>1 DEF PInv, OrderInv
  <2> QED BY <2>1, <2>2, <2>3, <2>4 DEF OrderInv
<1>11. DueInv'
  <2> SUFFICES ASSUME NEW d \in due'
               PROVE  \/ d[2] \in InWindow(d[1])'
                      \/ \E j \in 1 .. Len(ptasks') : Finds(ptasks'[j]) /\ Holds(ptasks'[j], d[1], d[2])
    BY DEF DueInv
  <2>1. d \in due /\ d[1] \in Apps /\ d = <<d[1], d[2]>> /\ ~(d[1] = a /\ d[2] = x)
    BY <1>0, <1>1
  <2>2. CASE d[2] \in InWindow(d[1])
    BY <2>1, <2>2, <1>4
  <2>3. CASE \E j \in 1 .. Len(ptasks) : Finds(ptasks[j]) /\ Holds(ptasks[j], d[1], d[2])
    BY <2>3, <1>1
  <2> QED BY <2>1, <2>2, <2>3 DEF PInv, DueInv
<1> QED BY <1>7, <1>6, <1>8, <1>10, <1>11 DEF PInv

-----------------------------------------------------------------------------
\* The instance's cardinality is the standard module's.
LEMMA SameCardinality == \A S : P!Cardinality(S) = Cardinality(S)
BY DEF P!Cardinality, Cardinality, P!IsFiniteSet, IsFiniteSet

\* The plugins of a DLL are finitely many.
LEMMA UsersFinite ==
  ASSUME IsFiniteSet(Apps), plugins_ \in SUBSET Apps, NEW f
  PROVE  /\ IsFiniteSet(Users(f)) /\ Cardinality(Users(f)) \in Nat
         /\ IsFiniteSet({a \in plugins_ : File[a] = f}) /\ Cardinality({a \in plugins_ : File[a] = f}) \in Nat
         /\ Cardinality(Users(f)) <= Cardinality({a \in plugins_ : File[a] = f})
<1> DEFINE S == {a \in plugins_ : File[a] = f}
<1>1. S \subseteq Apps /\ Users(f) \subseteq S
  BY DEF Users
<1>2. IsFiniteSet(S)
  BY <1>1, FS_Subset
<1>3. IsFiniteSet(Users(f)) /\ Cardinality(Users(f)) <= Cardinality(S)
  BY <1>1, <1>2, FS_Subset
<1> QED BY <1>2, <1>3, FS_CardinalityType

\* A plugin that was not in the table is loaded.
LEMMA LoadedKeeps ==
  ASSUME PInv, IsFiniteSet(Apps), NEW a \in Apps \ Ours, a \notin plugins_, plugins_' = plugins_ \union {a},
         P!loadDll(File[a]), dealt' = TRUE, stray' = stray
  PROVE  dlls_' \in [Files -> Nat] /\ HeldInv'
<1> DEFINE f == File[a]
<1>0. dlls_ \in [Files -> Nat] /\ f \in Files /\ plugins_ \in SUBSET Apps
  BY DEF PInv, PTypeOK, Files
<1>1. dlls_' = [dlls_ EXCEPT ![f] = @ + 1]
  BY DEF P!loadDll
<1>2. \A g \in Files : dlls_'[g] = IF g = f THEN dlls_[g] + 1 ELSE dlls_[g]
  BY <1>0, <1>1
<1>3. dlls_' \in [Files -> Nat]
  BY <1>0, <1>1
<1>4. ~P!isNil(dlls_')
  <2>1. f \in DOMAIN dlls_' /\ dlls_'[f] = dlls_[f] + 1 /\ dlls_[f] \in Nat
    BY <1>0, <1>2, <1>3
  <2> QED BY <2>1 DEF P!isNil
<1>5. ASSUME ~stray, NEW g \in Files PROVE dlls_'[g] = Cardinality(Users(g))'
  <2>1. dlls_[g] = Cardinality(Users(g)) /\ IsFiniteSet(Users(g))
    BY <1>0, <1>5, UsersFinite DEF PInv, HeldInv
  <2>2. Users(g)' = IF g = f THEN Users(g) \union {a} ELSE Users(g)
    BY DEF Users
  <2>3. a \notin Users(g)
    BY DEF Users
  <2>4. Cardinality(Users(g) \union {a}) = Cardinality(Users(g)) + 1
    BY <2>1, <2>3, FS_AddElement
  <2> QED BY <1>2, <2>1, <2>2, <2>4
<1> QED BY <1>3, <1>4, <1>5 DEF HeldInv

\* The process looks whether it is needed.
LEMMA LooksKeeps ==
  ASSUME PInv, P!delayCheckDll
  PROVE  checks' \in Nat /\ (P!isNil(dlls_') => checks' > 0)
BY DEF PInv, PTypeOK, P!delayCheckDll

\* A plugin is unloaded, or a stray request takes what it finds.
LEMMA UnloadedKeeps ==
  ASSUME PInv, IsFiniteSet(Apps), NEW a \in Apps \ Ours, P!unLoadPlugin(a)
  PROVE  dlls_' \in [Files -> Nat] /\ HeldInv' /\ checks' \in Nat
<1> DEFINE f == File[a]
<1>0. dlls_ \in [Files -> Nat] /\ f \in Files /\ plugins_ \in SUBSET Apps /\ checks' \in Nat
  BY LooksKeeps DEF PInv, PTypeOK, Files, P!unLoadPlugin
<1>1. dlls_' = [dlls_ EXCEPT ![f] = IF @ > 0 THEN @ - 1 ELSE 0] /\ plugins_' = plugins_ \ {a}
      /\ stray' = (stray \/ (a \notin plugins_ /\ dlls_[f] > 0))
  BY DEF P!unLoadPlugin, P!unLoadDll
<1>2. /\ \A g \in Files \ {f} : dlls_'[g] = dlls_[g]
      /\ dlls_'[f] = IF dlls_[f] > 0 THEN dlls_[f] - 1 ELSE 0
  BY <1>0, <1>1
<1>3. dlls_' \in [Files -> Nat]
  <2>1. dlls_[f] \in Nat
    BY <1>0
  <2>2. (IF dlls_[f] > 0 THEN dlls_[f] - 1 ELSE 0) \in Nat
    BY <2>1
  <2> QED BY <1>0, <1>1, <2>2
<1>4. P!isNil(dlls_') => checks' > 0
  BY LooksKeeps DEF P!unLoadPlugin
<1>5. ASSUME ~stray', NEW g \in Files PROVE dlls_'[g] = Cardinality(Users(g))'
  <2>0. ~stray /\ (a \in plugins_ \/ ~(dlls_[f] > 0)) /\ dlls_[g] \in Nat
    BY <1>0, <1>1, <1>5
  <2>1. dlls_[g] = Cardinality(Users(g)) /\ IsFiniteSet(Users(g))
    BY <1>0, <2>0, UsersFinite DEF PInv, HeldInv
  <2>2. Users(g)' = IF g = f THEN Users(g) \ {a} ELSE Users(g)
    BY <1>1 DEF Users
  <2>3. CASE g # f
    BY <1>2, <2>1, <2>2, <2>3
  <2>4. CASE g = f /\ a \in plugins_
    <3>1. a \in Users(g)
      BY <2>4 DEF Users
    <3>2. Cardinality(Users(g) \ {a}) = Cardinality(Users(g)) - 1
      BY <2>1, <3>1, FS_RemoveElement
    <3>3. IsFiniteSet(Users(g) \ {a})
      BY <2>1, FS_Subset
    <3>4. Cardinality(Users(g) \ {a}) \in Nat
      BY <3>3, FS_CardinalityType
    <3> QED BY <1>2, <2>0, <2>1, <2>2, <2>4, <3>2, <3>4
  <2>5. CASE g = f /\ a \notin plugins_
    <3>1. Users(g)' = Users(g)
      BY <1>1, <2>5 DEF Users
    <3>2. dlls_[f] = 0
      BY <2>0, <2>5
    <3> QED BY <1>2, <2>1, <2>5, <3>1, <3>2
  <2> QED BY <2>3, <2>4, <2>5
<1> QED BY <1>0, <1>3, <1>4, <1>5 DEF HeldInv

\* The window's thread does what the other process asked for.
LEMMA DealKeeps ==
  ASSUME PInv, IpcAssumption, P!dealPluginListen, pcalls' = pcalls
  PROVE  PInv'
<1> DEFINE a == P!App
<1>0. wnd \in Seq(Message) /\ wnd # <<>> /\ plugins_ \in SUBSET Apps /\ IsFiniteSet(Apps)
  BY DEF PInv, PTypeOK, P!dealPluginListen, P!Gets, IpcAssumption
<1>1. Head(wnd).what = "listen" /\ wnd' = Tail(wnd) /\ status' = status /\ key' = key
  BY DEF P!dealPluginListen, P!Gets, P!link
<1>2. a \in Apps \ Ours
  <2>1. Head(wnd) \in Message
    BY <1>0
  <2> QED BY <1>1, <2>1, MessageIs DEF P!App
<1>3. SameData
  BY <1>0, <1>1 DEF SameData
<1>4. \/ P!loadPlugin(a) /\ UNCHANGED <<due, delivered>>
      \/ P!unLoadPlugin(a) /\ due' = {d \in due : d[1] \notin {a}} /\ delivered' = delivered
  BY DEF P!dealPluginListen, P!data, P!NotDue
<1> DEFINE t == P!NewTask("load_res", a)
           v == P!NewTask("unload_res", a)
<1>5. t \in PluginTask /\ t.st = "init" /\ ~Live(t) /\ v \in PluginTask /\ v.st = "init" /\ ~Live(v)
  BY <1>2, NewIs
<1> HIDE DEF a, t, v
<1>6. CASE /\ a \in plugins_ /\ ptasks' = Append(ptasks, t) /\ UNCHANGED <<due, delivered>>
           /\ UNCHANGED <<plugins_, dlls_, checks, quitTold, dealt, stray>>
  <2>1. Tasked
    BY <1>5, <1>6, MoreKeeps
  <2>2. TablesOK'
    BY <1>1, <1>6 DEF PInv, PTypeOK, TablesOK
  <2>3. HeldInv'
    BY <1>0, <1>1, <1>6, HeldKeeps
  <2>4. due' \subseteq {d \in due : d[1] \notin {}}
    BY <1>6
  <2> QED BY <1>3, <1>6, <2>1, <2>2, <2>3, <2>4, AllKeep DEF Tasked
<1>7. CASE /\ a \notin plugins_ /\ P!loadDll(File[a]) /\ P!Enters(a, "load_res")
           /\ quitTold' = FALSE /\ dealt' = TRUE /\ UNCHANGED <<checks, stray, due, delivered>>
  <2>1. TasksOK' /\ Services({}) /\ ServiceInv' /\ plugins_' \in SUBSET Apps
    BY <1>2, <1>7, EntersKeeps
  <2>2. plugins_' = plugins_ \union {a}
    BY <1>7 DEF P!Enters
  <2>3. dlls_' \in [Files -> Nat] /\ HeldInv'
    BY <1>0, <1>2, <1>7, <2>2, LoadedKeeps
  <2>4. TablesOK'
    BY <1>1, <1>7, <2>1, <2>3 DEF PInv, PTypeOK, TablesOK
  <2>5. due' \subseteq {d \in due : d[1] \notin {}}
    BY <1>7
  <2> QED BY <1>3, <1>7, <2>1, <2>3, <2>4, <2>5, AllKeep
<1>8. CASE /\ a \notin plugins_ /\ UNCHANGED <<plugins_, dlls_>> /\ ptasks' = Append(ptasks, t) /\ P!delayCheckDll
           /\ dealt' = TRUE /\ UNCHANGED <<quitTold, stray, due, delivered>>
  <2>1. Tasked
    BY <1>5, <1>8, MoreKeeps
  <2>2. checks' \in Nat /\ (P!isNil(dlls_') => checks' > 0)
    BY <1>8, LooksKeeps
  <2>3. TablesOK'
    BY <1>1, <1>8, <2>2 DEF PInv, PTypeOK, TablesOK
  <2>4. HeldInv'
    <3>1. \A f \in Files : Users(f)' = Users(f)
      BY <1>8 DEF Users
    <3> QED BY <1>8, <2>2, <3>1 DEF PInv, HeldInv
  <2>5. due' \subseteq {d \in due : d[1] \notin {}}
    BY <1>8
  <2> QED BY <1>3, <1>8, <2>1, <2>3, <2>4, <2>5, AllKeep DEF Tasked
<1>9. CASE P!unLoadPlugin(a) /\ due' = {d \in due : d[1] \notin {a}} /\ delivered' = delivered
  <2>1. plugins_' = plugins_ \ {a} /\ ptasks' = Append(P!Destroyed({a}), v) /\ dealt' = TRUE /\ quitTold' = quitTold
        /\ stray' \in BOOLEAN
    BY <1>9 DEF P!unLoadPlugin, v, PInv, PTypeOK
  <2>2. TasksOK' /\ Services({a}) /\ ServiceInv'
    BY <1>2, <1>5, <2>1, DestroyedKeeps
  <2>3. dlls_' \in [Files -> Nat] /\ HeldInv' /\ checks' \in Nat
    BY <1>0, <1>2, <1>9, UnloadedKeeps
  <2>4. TablesOK'
    BY <1>0, <1>1, <2>1, <2>3 DEF PInv, PTypeOK, TablesOK
  <2>5. due' \subseteq {d \in due : d[1] \notin {a}}
    BY <1>9
  <2> QED BY <1>3, <1>9, <2>2, <2>3, <2>4, <2>5, AllKeep
<1> QED BY <1>4, <1>6, <1>7, <1>8, <1>9 DEF P!loadPlugin, P!tables, P!held, t

\* The owner destroys the plugins.
LEMMA DestroyKeeps ==
  ASSUME PInv, IpcAssumption, P!destroy, pcalls' = pcalls + 1
  PROVE  PInv'
<1>0. /\ dlls_ \in [Files -> Nat] /\ plugins_ \in SUBSET Apps /\ IsFiniteSet(Apps) /\ DOMAIN dlls_ = Files
      /\ due \in SUBSET (Apps \X Nat)
  BY DEF PInv, PTypeOK, IpcAssumption
<1>1. /\ plugins_' = {} /\ ptasks' = P!Destroyed(Apps) /\ dealt' = FALSE
      /\ due' = {d \in due : d[1] \notin Apps} /\ delivered' = delivered
      /\ UNCHANGED <<status, key, wnd, checks, quitTold, stray>>
  BY DEF P!destroy, P!NotDue, P!link
<1> DEFINE n(f) == Cardinality({a \in plugins_ : File[a] = f})
<1>2. dlls_' = [f \in Files |-> IF n(f) > dlls_[f] THEN 0 ELSE dlls_[f] - n(f)]
  <2>1. dlls_' = [f \in DOMAIN dlls_ |-> IF n(f) > dlls_[f] THEN 0 ELSE dlls_[f] - n(f)]
    BY SameCardinality DEF P!destroy
  <2> QED BY <1>0, <2>1
<1>3. ASSUME NEW f \in Files PROVE n(f) \in Nat /\ dlls_[f] \in Nat /\ Cardinality(Users(f)) <= n(f) /\ Cardinality(Users(f)) \in Nat
  BY <1>0, UsersFinite
<1> HIDE DEF n
<1>4. dlls_' \in [Files -> Nat]
  <2>1. \A f \in Files : (IF n(f) > dlls_[f] THEN 0 ELSE dlls_[f] - n(f)) \in Nat
    BY <1>3
  <2> QED BY <1>2, <2>1
<1>5. ASSUME ~stray', NEW f \in Files PROVE dlls_'[f] = Cardinality(Users(f))'
  <2>1. dlls_[f] = Cardinality(Users(f))
    BY <1>1, <1>5 DEF PInv, HeldInv
  <2>2. dlls_'[f] = 0
    BY <1>2, <1>3, <2>1
  <2>3. Users(f)' = {}
    BY <1>1 DEF Users
  <2>4. Cardinality(Users(f))' = 0
    BY <2>3, FS_EmptySet
  <2> QED BY <2>2, <2>4
<1>6. HeldInv'
  BY <1>1, <1>5 DEF HeldInv
<1>7. TablesOK'
  BY <1>1, <1>4 DEF PInv, PTypeOK, TablesOK
<1>8. TasksOK' /\ Services(Apps) /\ ServiceInv'
  <2>1. plugins_' = plugins_ \ Apps
    BY <1>0, <1>1
  <2> QED BY <1>1, <2>1, DestroyedKeeps
<1>9. due' \subseteq {d \in due : d[1] \notin Apps} /\ SameData
  BY <1>1 DEF SameData
<1>10. pcalls' \in {pcalls, pcalls + 1} /\ delivered' = delivered
  BY <1>1
<1> QED BY <1>6, <1>7, <1>8, <1>9, <1>10, AllKeep

-----------------------------------------------------------------------------
\* The plugins at the start.
LEMMA PluginsInit ==
  ASSUME P!Init
  PROVE  PInv
<1>1. /\ plugins_ = {} /\ dlls_ = [f \in Files |-> 0] /\ ptasks = <<P!NewTask("listen", Nothing)>>
      /\ status = "connecting" /\ key = "connecting" /\ wnd = <<>> /\ checks = 0
      /\ quitTold = FALSE /\ dealt = FALSE /\ stray = FALSE
      /\ due = {} /\ delivered = [a \in Apps |-> <<>>] /\ pcalls = 0
  BY DEF P!Init, Files
<1> DEFINE t == P!NewTask("listen", Nothing)
<1>2. t \in PluginTask /\ t.st = "init" /\ ~Live(t)
  BY NewTaskIs DEF Live
<1> HIDE DEF t
<1>3. ptasks \in Seq(PluginTask) /\ Len(ptasks) = 1 /\ \A i \in 1 .. Len(ptasks) : ptasks[i] = t
  BY <1>1, <1>2 DEF t
<1>4. PTypeOK
  <2>1. delivered \in [Apps -> Seq(Nat)] /\ wnd \in Seq(Message) /\ dlls_ \in [Files -> Nat]
    BY <1>1
  <2>2. \A i \in 1 .. Len(ptasks) : ptasks[i].st = "start" => ptasks[i].status \in LinkStatus
    BY <1>2, <1>3
  <2> QED BY <1>1, <1>3, <2>1, <2>2 DEF PTypeOK, LinkStatus
<1>5. HeldInv
  <2>1. \A f \in Files : Users(f) = {}
    BY <1>1 DEF Users
  <2> QED BY <1>1, <2>1, FS_EmptySet DEF HeldInv
<1>6. ServiceInv
  BY <1>2, <1>3 DEF ServiceInv
<1>7. OrderInv
  <2>1. ASSUME NEW a \in Apps PROVE delivered[a] = <<>> /\ Got(a) = {} /\ InWindow(a) = {} /\ InQueue(a) = {}
    BY <1>1, <1>2, <1>3 DEF Got, InWindow, InQueue, Holds
  <2>2. \A i \in 1 .. Len(ptasks) : ~Live(ptasks[i])
    BY <1>2, <1>3
  <2> QED BY <1>1, <2>1, <2>2 DEF OrderInv, Increasing, Before
<1>8. DueInv
  BY <1>1 DEF DueInv
<1> QED BY <1>4, <1>5, <1>6, <1>7, <1>8 DEF PInv

\* Every step of the plugins keeps the invariant.
LEMMA PluginsStep ==
  ASSUME PInv, IpcAssumption, P!Next
  PROVE  PInv'
<1>0. DOMAIN ptasks = 1 .. Len(ptasks) /\ Ours \subseteq Apps
  BY DEF PInv, PTypeOK, IpcAssumption
<1>1. ASSUME NEW a \in Ours, pcalls' = pcalls + 1, P!start(a) \/ P!stop(a) \/ P!send(a) PROVE PInv'
  BY <1>0, <1>1, PluginStartKeeps, PluginStopKeeps, PluginSendKeeps
<1>2. ASSUME NEW a \in Apps \ Ours, NEW uri \in {"load", "unload"}, pcalls' = pcalls + 1, P!Request(uri, a) PROVE PInv'
  BY <1>2, RequestKeeps
<1>3. ASSUME NEW a \in Apps, pcalls' = pcalls + 1, P!Packet(a) PROVE PInv'
  BY <1>3, PacketKeeps
<1>4. CASE pcalls' = pcalls + 1 /\ (P!destroy \/ \E st \in {"connected", "closed"} : P!onEngineStatus(st))
  BY <1>4, DestroyKeeps, PluginStatusKeeps
<1>5. CASE pcalls' = pcalls /\ P!KeyFollows
  BY <1>5, KeyFollowsKeeps
<1>6. ASSUME NEW i \in 1 .. Len(ptasks), pcalls' = pcalls,
             \/ P!PluginWait(i) \/ P!onTimeout(i) \/ P!LoadPlugin(i) \/ P!ResponsePlugin(i)
             \/ P!ListenPlugin(i) \/ P!ListenPluginService(i) \/ P!PluginRaw(i) \/ P!Blocks(i)
      PROVE  PInv'
  BY <1>6, WaitRunKeeps, OnceKeeps, ListenPluginKeeps, ServiceKeeps, BlocksKeep
<1>7. CASE pcalls' = pcalls /\ (P!onPluginStatus \/ P!onPluginData \/ P!onQuit \/ P!dealPluginListen \/ P!checkDll)
  BY <1>0, <1>7, ToldKeeps, DeliveredKeeps, QuitKeeps, DealKeeps, CheckKeeps
<1>8. \/ \E a \in Ours : pcalls' = pcalls + 1 /\ (P!start(a) \/ P!stop(a) \/ P!send(a))
      \/ \E a \in Apps \ Ours, uri \in {"load", "unload"} : pcalls' = pcalls + 1 /\ P!Request(uri, a)
      \/ \E a \in Apps : pcalls' = pcalls + 1 /\ P!Packet(a)
      \/ pcalls' = pcalls + 1 /\ (P!destroy \/ \E st \in {"connected", "closed"} : P!onEngineStatus(st))
      \/ pcalls' = pcalls /\ P!KeyFollows
      \/ \E i \in 1 .. Len(ptasks) : pcalls' = pcalls /\
             \/ P!PluginWait(i) \/ P!onTimeout(i) \/ P!LoadPlugin(i) \/ P!ResponsePlugin(i)
             \/ P!ListenPlugin(i) \/ P!ListenPluginService(i) \/ P!PluginRaw(i) \/ P!Blocks(i)
      \/ pcalls' = pcalls /\ (P!onPluginStatus \/ P!onPluginData \/ P!onQuit \/ P!dealPluginListen \/ P!checkDll)
  BY <1>0 DEF P!Next, P!Calls
<1> QED BY <1>1, <1>2, <1>3, <1>4, <1>5, <1>6, <1>7, <1>8

\* So does a step of another part.
LEMMA PluginsStutter ==
  ASSUME PInv, UNCHANGED PluginVars
  PROVE  PInv'
<1>1. UNCHANGED <<plugins_, dlls_, ptasks, status, key, wnd, checks, quitTold, dealt, stray, due, delivered, pcalls>>
  BY DEF PluginVars
<1>2. PTypeOK'
  BY <1>1 DEF PInv, PTypeOK
<1>3. HeldInv'
  <2>1. \A f \in Files : Users(f)' = Users(f)
    BY <1>1 DEF Users
  <2>2. P!isNil(dlls_)' = P!isNil(dlls_)
    BY <1>1 DEF P!isNil
  <2> QED BY <1>1, <2>1, <2>2 DEF PInv, HeldInv
<1>4. ServiceInv'
  BY <1>1 DEF PInv, ServiceInv
<1>5. \A a \in Apps : Got(a)' = Got(a) /\ InWindow(a)' = InWindow(a) /\ InQueue(a)' = InQueue(a)
  BY <1>1 DEF Got, InWindow, InQueue
<1>6. OrderInv'
  BY <1>1, <1>5 DEF PInv, OrderInv
<1>7. DueInv'
  <2>1. \A d \in due : d[1] \in Apps
    BY DEF PInv, PTypeOK
  <2> QED BY <1>1, <1>5, <2>1 DEF PInv, DueInv
<1> QED BY <1>2, <1>3, <1>4, <1>6, <1>7 DEF PInv

\* The invariant of the plugins holds in every state.
LEMMA PluginsInductive == Spec => []PInv
<1>1. Init => PInv
  BY PluginsInit DEF Init
<1>2. ASSUME PInv, [Next]_vars PROVE PInv'
  <2>1. P!Next \/ UNCHANGED PluginVars
    BY <1>2 DEF Next, vars
  <2> QED BY <1>2, <2>1, PluginsStep, PluginsStutter, IpcAssumption
<1> QED BY <1>1, <1>2, PTL DEF Spec

\* A DLL is loaded as long as a plugin in the table uses it, and no longer, and when
\* the last is gone the process is told to quit: Plugins' PluginsHeld, of IPCPluginMgr's
\* loadDll, unLoadDll and checkDll (qyipc/ipc-plugin-mgr.cc), whatever the plugins are.
THEOREM DllsHeld == Spec => []PluginsHeld
<1>1. ASSUME PInv PROVE P!PluginsHeld
  <2>1. DOMAIN dlls_ = Files /\ wnd \in Seq(Message)
    BY <1>1 DEF PInv, PTypeOK
  <2>2. ~stray => \A f \in DOMAIN dlls_ : dlls_[f] = Cardinality({a \in plugins_ \ Ours : File[a] = f})
    BY <1>1, <2>1 DEF PInv, HeldInv, Users
  <2>3. P!Quiet /\ dealt /\ P!isNil(dlls_) => quitTold
    BY <1>1 DEF P!Quiet, PInv, HeldInv
  <2> QED BY <2>2, <2>3, SameCardinality DEF P!PluginsHeld
<1>2. ASSUME PInv PROVE PluginsHeld
  BY <1>1, <1>2 DEF PluginsHeld
<1> QED BY <1>2, PluginsInductive, PTL

\* A plugin gets its packets in the order they came, and when all is at rest every
\* packet that its task took, unless the plugin was removed or a call of the task came
\* while it went to sleep: Plugins' DataReaches, of IPCListenPluginServiceTask, QyTask's
\* run and wake, and the window's queue, for any number of packets.
THEOREM PacketsReach == Spec => []DataReaches
<1>1. ASSUME PInv PROVE P!DataReaches
  <2>0. delivered \in [Apps -> Seq(Nat)] /\ due \in SUBSET (Apps \X Nat) /\ ptasks \in Seq(PluginTask)
    BY <1>1 DEF PInv, PTypeOK
  <2>1. \A a \in Apps : \A i, j \in DOMAIN delivered[a] : i < j => delivered[a][i] < delivered[a][j]
    <3>1. ASSUME NEW a \in Apps PROVE DOMAIN delivered[a] = 1 .. Len(delivered[a]) /\ Increasing(delivered[a])
      <4>1. delivered[a] \in Seq(Nat)
        BY <2>0
      <4>2. Increasing(delivered[a])
        BY <1>1 DEF PInv, OrderInv
      <4> QED BY <4>1, <4>2
    <3> QED BY <3>1 DEF Increasing
  <2>2. ASSUME P!Quiet, NEW d \in due
        PROVE  \E i \in DOMAIN ptasks :
                  /\ ptasks[i].kind = "service" /\ ptasks[i].app = d[1] /\ ~ptasks[i].destroy_
                  /\ ptasks[i].missed /\ \E j \in DOMAIN ptasks[i].queue_ : ptasks[i].queue_[j] = d[2]
    <3>1. InWindow(d[1]) = {}
      BY <2>2 DEF InWindow, P!Quiet
    <3>2. \A i \in 1 .. Len(ptasks) : ~ptasks[i].ready
      BY <2>0, <2>2 DEF P!Quiet
    <3>3. PICK i \in 1 .. Len(ptasks) : ptasks[i].missed /\ Holds(ptasks[i], d[1], d[2])
      BY <1>1, <3>1, <3>2 DEF PInv, DueInv, Finds
    <3>4. ptasks[i] \in PluginTask /\ i \in DOMAIN ptasks
      BY <2>0
    <3>5. ptasks[i].queue_ \in Seq(Nat)
      BY <3>3, <3>4, QueueOf DEF Holds, Live
    <3> QED BY <3>3, <3>4, <3>5 DEF Holds, Live
  <2> QED BY <2>1, <2>2 DEF P!DataReaches
<1>2. ASSUME PInv PROVE DataReaches
  BY <1>1, <1>2 DEF DataReaches
<1> QED BY <1>2, PluginsInductive, PTL

-----------------------------------------------------------------------------
(* The connections.                                                          *)

Told == {"connecting", "connected", "closed"}
Key == [in : BOOLEAN, listen : BOOLEAN, status : Told \union {"nofind", "unk"}]
ExeTold == {"nothing", "ok", "quit", "crash", "install_fail", "task_end"}
Lives == {"none", "runs", "bye"}
ExeKey == [in : BOOLEAN, task : BOOLEAN, status : {"nofind", "unk", "ok", "quit", "crash", "install_fail"}]
PipeOf == {C!NoPipe} \union [type : {"client", "server"}, link : {"wait", "joined", "up", "failing", "down"}]
ConnMessage == [op : {"client", "server", "destroy"}, c : Conns] \union [op : {"stop"}, c : {Nothing}]
Completion == [c : Conns, what : {"conn", "down", "aborted"}] \union [c : {Nothing}, what : {"quit"}]
ConnFields(kinds, cs, es) ==
    [kind : kinds, c : cs, e : es, st : {"init", "start", "done"}, status : Told \union {"unk", "nofind"}, changed : Nat,
     ready : BOOLEAN, dozes : BOOLEAN, check : BOOLEAN, recount : Nat, quit_flag : {"unk", "normal", "crash"}]
Call == [op : {"client", "server"}, c : Conns, parent : Conns \union {Nothing}, listens : BOOLEAN] \union {C!NoCall}
ConnTask == ConnFields({"listen", "child"}, Conns, {Nothing}) \union ConnFields({"exe"}, Conns, Exes)

CTypeOK ==
    /\ connHash \in [Conns -> Key] /\ exeHash \in [Exes -> ExeKey] /\ pipes \in [Conns -> PipeOf]
    /\ msgs \in Seq(ConnMessage) /\ port \in Seq(Completion) /\ tasks \in Seq(ConnTask)
    /\ said \in [Conns -> Told \union {"nothing", "end"}]
    /\ exeSaid \in [Exes -> ExeTold]
    /\ proc \in [Exes -> Lives] /\ late \in SUBSET Conns /\ run_flag_ \in BOOLEAN
    /\ adds \in [C!Threads -> Call] /\ raced \in SUBSET Conns

\* The tasks of a list that are of one kind and for one connection or process.
KeyOf(t) == <<t.kind, IF t.kind = "exe" THEN t.e ELSE t.c>>
With(s, k) == {s[i] : i \in {j \in 1 .. Len(s) : KeyOf(s[j]) = k}}
Single(s, k) == \A i, j \in 1 .. Len(s) : KeyOf(s[i]) = k /\ KeyOf(s[j]) = k => i = j

\* There is one task for a client process, which knows what became of it; without
\* one the object does.
Untracked(h, sd, pr) == (pr = "runs" <=> sd = "crash") /\ (sd = "crash" <=> h # C!NoExe)
Tracked(t, h, pr) == h.task /\ (t.quit_flag = "crash" <=> pr = "runs")
Started(e, ts, h, sd, pr) ==
    /\ Single(ts, <<"exe", e>>)
    /\ With(ts, <<"exe", e>>) = {} => Untracked(h, sd, pr)
    /\ \A t \in With(ts, <<"exe", e>>) : Tracked(t, h, pr)
ExeInv == \A e \in Exes : Started(e, tasks, exeHash[e], exeSaid[e], proc[e])

\* What the message thread has to do for a connection: make a pipe, take it away;
\* it will have none in the end; one will be made, or tried, where there is none.
Makes(m, c) == m.op \in {"client", "server"} /\ m.c = c
Drops(m, c) == m.op = "destroy" /\ m.c = c
Doomed(s, c) == \E i \in 1 .. Len(s) : Drops(s[i], c) /\ \A j \in i .. Len(s) : ~Makes(s[j], c)
Clear(s, c, free) == free /\ \A j \in 1 .. Len(s) : ~Makes(s[j], c)
Pending(s, c, free) ==
    \E k \in 1 .. Len(s) :
        /\ Makes(s[k], c)
        /\ \/ free /\ \A j \in 1 .. k - 1 : ~Makes(s[j], c)
           \/ \E i \in 1 .. k - 1 : Drops(s[i], c) /\ \A j \in i .. k - 1 : ~Makes(s[j], c)

NoDrops(s, c) == \A j \in 1 .. Len(s) : ~Drops(s[j], c)
Free(p) == p = C!NoPipe
Ends(s, c, p) == Doomed(s, c) \/ Clear(s, c, Free(p))

\* The status a listening task has, or has passed on, is that of the pipe, unless
\* the pipe is to be taken away; after an end there is something to pass on, or
\* there will be.
LinkOf(st) == CASE st \in {"wait", "joined"} -> "connecting" [] st \in {"up", "failing"} -> "connected" [] OTHER -> "closed"
Current(c, t, sd, p, s) ==
    /\ t.changed > 0 => t.status \in Told
    /\ sd = "end" => t.changed > 0 \/ Pending(s, c, Free(p))
    /\ ~Free(p) /\ NoDrops(s, c) => t.status = LinkOf(p.link) /\ (t.changed > 0 \/ sd = t.status)

\* A connection's listening task and its key come and go together, and the key has
\* what the owner was last told; a status that has come is seen, unless one was
\* missed.  A pipe that nobody listens to any more is taken away.
Unlistened(c, h, sd, p, s) == h = C!NoKey /\ sd \in {"nothing", "end"} /\ Ends(s, c, p)
Listened(c, t, h, sd, p, l, s) ==
    /\ h.listen /\ sd \in {"nothing", "end", h.status}
    /\ sd = "closed" => t.st = "done"
    /\ t.st = "done" => Ends(s, c, p)
    /\ t.st # "done" /\ ~l => (t.changed > 0 => t.ready) /\ Current(c, t, sd, p, s)
Carries(c, p, s, q, r) ==
    /\ Ends(s, c, p) => Ends(r, c, q)
    /\ \A t, h, sd, l : Listened(c, t, h, sd, p, l, s) => Listened(c, t, h, sd, q, l, r)
    /\ \A h, sd : Unlistened(c, h, sd, p, s) => Unlistened(c, h, sd, q, r)
Heard(c, ts, h, sd, p, l, s) ==
    /\ Single(ts, <<"listen", c>>)
    /\ With(ts, <<"listen", c>>) = {} => Unlistened(c, h, sd, p, s)
    /\ \A t \in With(ts, <<"listen", c>>) : Listened(c, t, h, sd, p, l, s)
ListenInv == \A c \in Conns \ raced : Heard(c, tasks, connHash[c], said[c], pipes[c], c \in late, msgs)

\* What has happened to a pipe is on its way.
PortInv ==
    run_flag_ => \A c \in Conns :
        /\ pipes[c].link = "joined" => \E i \in 1 .. Len(port) : port[i].c = c /\ port[i].what = "conn"
        /\ pipes[c].link = "failing" => \E i \in 1 .. Len(port) : port[i].c = c /\ port[i].what = "down"

\* A thread that has found that nobody listens to a connection is right, unless
\* another has looked as well.
AddsInv ==
    \A c \in Conns \ raced :
        /\ \A th, o \in C!Threads : adds[th].c = c /\ adds[o].c = c => th = o
        /\ \A th \in C!Threads : adds[th].c = c /\ ~adds[th].listens => ~connHash[c].listen

CInv == CTypeOK /\ ExeInv /\ ListenInv /\ PortInv /\ AddsInv

\* A task is added to a list.
LEMMA WithAdded ==
  ASSUME NEW S, NEW s \in Seq(S), NEW t \in S, NEW k
  PROVE  LET r == Append(s, t) IN
         /\ With(r, k) = With(s, k) \union (IF KeyOf(t) = k THEN {t} ELSE {})
         /\ Single(s, k) /\ (KeyOf(t) = k => With(s, k) = {}) => Single(r, k)
<1> DEFINE r == Append(s, t)
           n == Len(s)
<1>1. n \in Nat /\ Len(r) = n + 1 /\ r[n + 1] = t /\ \A i \in 1 .. n : r[i] = s[i]
  BY AppendProperties
<1> HIDE DEF r, n
<1>2. 1 .. Len(r) = 1 .. n \union {n + 1}
  BY <1>1
<1>3. With(r, k) = With(s, k) \union (IF KeyOf(t) = k THEN {t} ELSE {})
  <2>1. ASSUME NEW x \in With(r, k) PROVE x \in With(s, k) \union (IF KeyOf(t) = k THEN {t} ELSE {})
    <3>1. PICK i \in 1 .. Len(r) : KeyOf(r[i]) = k /\ x = r[i]
      BY <2>1 DEF With
    <3>2. CASE i = n + 1
      BY <3>1, <3>2, <1>1
    <3>3. CASE i \in 1 .. n
      BY <3>1, <3>3, <1>1 DEF With, n
    <3> QED BY <3>2, <3>3, <1>2
  <2>2. ASSUME NEW x \in With(s, k) PROVE x \in With(r, k)
    <3>1. PICK i \in 1 .. n : KeyOf(s[i]) = k /\ x = s[i]
      BY <2>2 DEF With, n
    <3> QED BY <3>1, <1>1, <1>2 DEF With
  <2>3. KeyOf(t) = k => t \in With(r, k)
    BY <1>1, <1>2 DEF With
  <2> QED BY <2>1, <2>2, <2>3
<1>4. ASSUME Single(s, k), KeyOf(t) = k => With(s, k) = {} PROVE Single(r, k)
  <2>1. ASSUME KeyOf(t) = k, NEW i \in 1 .. n PROVE KeyOf(s[i]) # k
    BY <1>4, <2>1 DEF With, n
  <2>2. ASSUME NEW i \in 1 .. Len(r), KeyOf(r[i]) = k
        PROVE  (i = n + 1 /\ KeyOf(t) = k) \/ (i \in 1 .. n /\ KeyOf(s[i]) = k)
    BY <2>2, <1>1, <1>2
  <2> QED BY <1>4, <2>1, <2>2 DEF Single, n
<1> QED BY <1>3, <1>4 DEF r

\* Two lists have the same tasks, whatever has become of each.
SameKeys(s, r) == Len(r) = Len(s) /\ \A i \in 1 .. Len(s) : KeyOf(r[i]) = KeyOf(s[i])

\* All tasks of a list are changed, but for what they are.
LEMMA WithMapped ==
  ASSUME NEW s, NEW r, SameKeys(s, r), NEW k
  PROVE  /\ Single(s, k) => Single(r, k)
         /\ With(r, k) = {} <=> With(s, k) = {}
         /\ \A u \in With(r, k) : \E i \in 1 .. Len(s) : KeyOf(s[i]) = k /\ s[i] \in With(s, k) /\ u = r[i]
         /\ (\A i \in 1 .. Len(s) : KeyOf(s[i]) = k => r[i] = s[i]) => With(r, k) = With(s, k)
<1>1. Single(s, k) => Single(r, k)
  BY DEF Single, SameKeys
<1>2. \A u \in With(r, k) : \E i \in 1 .. Len(s) : KeyOf(s[i]) = k /\ s[i] \in With(s, k) /\ u = r[i]
  BY DEF With, SameKeys
<1>3. With(r, k) = {} <=> With(s, k) = {}
  BY DEF With, SameKeys
<1>4. (\A i \in 1 .. Len(s) : KeyOf(s[i]) = k => r[i] = s[i]) => With(r, k) = With(s, k)
  BY DEF With, SameKeys
<1> QED BY <1>1, <1>2, <1>3, <1>4

\* A task of a list is taken out.
LEMMA WithRemoved ==
  ASSUME NEW S, NEW s \in Seq(S), NEW i \in 1 .. Len(s), NEW k
  PROVE  LET r == SubSeq(s, 1, i - 1) \o SubSeq(s, i + 1, Len(s)) IN
         /\ KeyOf(s[i]) # k => With(r, k) = With(s, k)
         /\ Single(s, k) => Single(r, k) /\ (KeyOf(s[i]) = k => With(r, k) = {})
<1> DEFINE r == SubSeq(s, 1, i - 1) \o SubSeq(s, i + 1, Len(s))
<1>0. Len(s) \in Nat
  OBVIOUS
<1>1. Len(r) = Len(s) - 1 /\ \A j \in 1 .. Len(s) - 1 : r[j] = s[IF j < i THEN j ELSE j + 1]
  BY RemoveAtIs
<1> HIDE DEF r
<1>2. ASSUME NEW j \in 1 .. Len(r)
      PROVE  \E m \in 1 .. Len(s) : m # i /\ r[j] = s[m] /\ m = (IF j < i THEN j ELSE j + 1)
  BY <1>0, <1>1
<1>3. ASSUME NEW m \in 1 .. Len(s), m # i
      PROVE  \E j \in 1 .. Len(r) : r[j] = s[m]
  <2>1. CASE m < i
    BY <2>1, <1>0, <1>1
  <2>2. CASE m > i
    <3>1. m - 1 \in 1 .. Len(r) /\ ~(m - 1 < i) /\ (m - 1) + 1 = m
      BY <2>2, <1>0, <1>1
    <3>2. r[m - 1] = s[m]
      BY <3>1, <1>0, <1>1
    <3> QED BY <3>1, <3>2
  <2> QED BY <2>1, <2>2, <1>0, <1>1, <1>3
<1>4. ASSUME KeyOf(s[i]) # k PROVE With(r, k) = With(s, k)
  <2>1. ASSUME NEW x \in With(r, k) PROVE x \in With(s, k)
    <3>1. PICK j \in 1 .. Len(r) : KeyOf(r[j]) = k /\ x = r[j]
      BY <2>1 DEF With
    <3> QED BY <3>1, <1>2 DEF With
  <2>2. ASSUME NEW x \in With(s, k) PROVE x \in With(r, k)
    <3>1. PICK m \in 1 .. Len(s) : KeyOf(s[m]) = k /\ x = s[m]
      BY <2>2 DEF With
    <3>2. m # i
      BY <3>1, <1>4
    <3> QED BY <3>1, <3>2, <1>3 DEF With
  <2> QED BY <2>1, <2>2
<1>5. ASSUME Single(s, k) PROVE Single(r, k)
  <2> SUFFICES ASSUME NEW j \in 1 .. Len(r), NEW l \in 1 .. Len(r), KeyOf(r[j]) = k, KeyOf(r[l]) = k PROVE j = l
    BY DEF Single
  <2>1. PICK m \in 1 .. Len(s) : r[j] = s[m] /\ m = (IF j < i THEN j ELSE j + 1)
    BY <1>2
  <2>2. PICK o \in 1 .. Len(s) : r[l] = s[o] /\ o = (IF l < i THEN l ELSE l + 1)
    BY <1>2
  <2>3. m = o
    BY <1>5, <2>1, <2>2 DEF Single
  <2> QED BY <1>0, <1>1, <2>1, <2>2, <2>3
<1>6. ASSUME Single(s, k), KeyOf(s[i]) = k PROVE With(r, k) = {}
  BY <1>2, <1>6 DEF With, Single
<1> QED BY <1>4, <1>5, <1>6 DEF r

-----------------------------------------------------------------------------
\* What is to be done for a connection, when more is asked for.
LEMMA AskedIs ==
  ASSUME NEW s \in Seq(ConnMessage), NEW m \in ConnMessage, NEW c, NEW free \in BOOLEAN
  PROVE  LET r == Append(s, m) IN
         /\ Doomed(s, c) /\ ~Makes(m, c) => Doomed(r, c)
         /\ Drops(m, c) => Doomed(r, c)
         /\ Clear(s, c, free) /\ ~Makes(m, c) => Clear(r, c, free)
         /\ Pending(s, c, free) => Pending(r, c, free)
         /\ Makes(m, c) /\ (Doomed(s, c) \/ Clear(s, c, free)) => Pending(r, c, free)
         /\ NoDrops(r, c) => NoDrops(s, c)
<1> DEFINE r == Append(s, m)
           n == Len(s)
<1>1. n \in Nat /\ Len(r) = n + 1 /\ r[n + 1] = m /\ \A i \in 1 .. n : r[i] = s[i]
  BY AppendProperties
<1> HIDE DEF r, n
<1>2. 1 .. Len(r) = 1 .. n \union {n + 1}
  BY <1>1
<1>3. ASSUME Doomed(s, c), ~Makes(m, c) PROVE Doomed(r, c)
  <2>1. PICK i \in 1 .. n : Drops(s[i], c) /\ \A j \in i .. n : ~Makes(s[j], c)
    BY <1>3 DEF Doomed, n
  <2>2. i \in 1 .. Len(r) /\ Drops(r[i], c)
    BY <1>1, <2>1
  <2>3. ASSUME NEW j \in i .. Len(r) PROVE ~Makes(r[j], c)
    <3>1. j \in i .. n \/ j = n + 1
      BY <1>1
    <3> QED BY <1>1, <1>3, <2>1, <3>1
  <2> QED BY <2>2, <2>3 DEF Doomed
<1>4. ASSUME Drops(m, c) PROVE Doomed(r, c)
  <2>1. n + 1 \in 1 .. Len(r) /\ Drops(r[n + 1], c)
    BY <1>1, <1>4
  <2>2. \A j \in n + 1 .. Len(r) : ~Makes(r[j], c)
    BY <1>1, <1>4 DEF Drops, Makes
  <2> QED BY <2>1, <2>2 DEF Doomed
<1>5. ASSUME Clear(s, c, free), ~Makes(m, c) PROVE Clear(r, c, free)
  BY <1>1, <1>2, <1>5 DEF Clear, n
<1>6. ASSUME Pending(s, c, free) PROVE Pending(r, c, free)
  <2>1. PICK k \in 1 .. n : /\ Makes(s[k], c)
                            /\ \/ free /\ \A j \in 1 .. k - 1 : ~Makes(s[j], c)
                               \/ \E i \in 1 .. k - 1 : Drops(s[i], c) /\ \A j \in i .. k - 1 : ~Makes(s[j], c)
    BY <1>6 DEF Pending, n
  <2>2. k \in 1 .. Len(r) /\ Makes(r[k], c) /\ \A j \in 1 .. k - 1 : r[j] = s[j]
    BY <1>1, <2>1
  <2>3. CASE free /\ \A j \in 1 .. k - 1 : ~Makes(s[j], c)
    BY <2>2, <2>3 DEF Pending
  <2>4. ASSUME NEW i \in 1 .. k - 1, Drops(s[i], c), \A j \in i .. k - 1 : ~Makes(s[j], c) PROVE Pending(r, c, free)
    <3>1. \A j \in i .. k - 1 : j \in 1 .. k - 1
      BY <1>1
    <3> QED BY <2>2, <2>4, <3>1 DEF Pending
  <2> QED BY <2>1, <2>3, <2>4
<1>7. ASSUME Makes(m, c), Doomed(s, c) \/ Clear(s, c, free) PROVE Pending(r, c, free)
  <2>1. n + 1 \in 1 .. Len(r) /\ Makes(r[n + 1], c) /\ (n + 1) - 1 = n
    BY <1>1, <1>7
  <2>2. CASE Clear(s, c, free)
    <3>1. free /\ \A j \in 1 .. n : ~Makes(r[j], c)
      BY <1>1, <2>2 DEF Clear, n
    <3> QED BY <2>1, <3>1 DEF Pending
  <2>3. CASE Doomed(s, c)
    <3>1. PICK i \in 1 .. n : Drops(s[i], c) /\ \A j \in i .. n : ~Makes(s[j], c)
      BY <2>3 DEF Doomed, n
    <3>2. Drops(r[i], c) /\ \A j \in i .. n : ~Makes(r[j], c)
      BY <1>1, <3>1
    <3> QED BY <2>1, <3>1, <3>2 DEF Pending
  <2> QED BY <1>7, <2>2, <2>3
<1>8. NoDrops(r, c) => NoDrops(s, c)
  BY <1>1, <1>2 DEF n, NoDrops
<1> QED BY <1>3, <1>4, <1>5, <1>6, <1>7, <1>8 DEF r

\* What is to be done for a connection, when the first has been.
LEMMA DoneIs ==
  ASSUME NEW s \in Seq(ConnMessage), s # <<>>, NEW c, NEW free \in BOOLEAN
  PROVE  LET m == Head(s) IN
         LET r == Tail(s) IN
         /\ Doomed(s, c) => Doomed(r, c) \/ (Drops(m, c) /\ Clear(r, c, TRUE))
         /\ Clear(s, c, free) => ~Makes(m, c) /\ Clear(r, c, free)
         /\ Pending(s, c, free) => Pending(r, c, free) \/ (Drops(m, c) /\ Pending(r, c, TRUE)) \/ (Makes(m, c) /\ free)
         /\ NoDrops(r, c) => Drops(m, c) \/ NoDrops(s, c)
<1> DEFINE m == Head(s)
           r == Tail(s)
           n == Len(s)
<1>1. n \in Nat /\ n > 0 /\ Len(r) = n - 1 /\ m = s[1] /\ \A i \in 1 .. n - 1 : r[i] = s[i + 1]
  BY HeadGoes
<1> HIDE DEF r, n, m
<1>2. \A i \in 1 .. n : i = 1 \/ (i - 1 \in 1 .. Len(r) /\ r[i - 1] = s[i])
  <2>1. ASSUME NEW i \in 1 .. n, i # 1 PROVE i - 1 \in 1 .. n - 1 /\ (i - 1) + 1 = i
    BY <1>1, <2>1
  <2> QED BY <2>1, <1>1
<1>3. ASSUME Doomed(s, c) PROVE Doomed(r, c) \/ (Drops(m, c) /\ Clear(r, c, TRUE))
  <2>1. PICK i \in 1 .. n : Drops(s[i], c) /\ \A j \in i .. n : ~Makes(s[j], c)
    BY <1>3 DEF Doomed, n
  <2>2. CASE i = 1
    <3>1. \A j \in 1 .. Len(r) : j + 1 \in i .. n
      BY <2>2, <1>1
    <3> QED BY <2>1, <2>2, <3>1, <1>1 DEF Clear
  <2>3. CASE i # 1
    <3>1. i - 1 \in 1 .. Len(r) /\ Drops(r[i - 1], c)
      BY <2>1, <2>3, <1>2
    <3>2. ASSUME NEW j \in i - 1 .. Len(r) PROVE ~Makes(r[j], c)
      <4>1. j \in 1 .. n - 1 /\ j + 1 \in i .. n
        BY <3>1, <1>1
      <4> QED BY <4>1, <2>1, <1>1
    <3> QED BY <3>1, <3>2 DEF Doomed
  <2> QED BY <2>2, <2>3
<1>4. ASSUME Clear(s, c, free) PROVE ~Makes(m, c) /\ Clear(r, c, free)
  <2>1. 1 \in 1 .. n /\ \A j \in 1 .. Len(r) : j + 1 \in 1 .. n
    BY <1>1
  <2> QED BY <2>1, <1>1, <1>4 DEF Clear, n
<1>5. ASSUME Pending(s, c, free)
      PROVE  Pending(r, c, free) \/ (Drops(m, c) /\ Pending(r, c, TRUE)) \/ (Makes(m, c) /\ free)
  <2>1. PICK k \in 1 .. n : /\ Makes(s[k], c)
                            /\ \/ free /\ \A j \in 1 .. k - 1 : ~Makes(s[j], c)
                               \/ \E i \in 1 .. k - 1 : Drops(s[i], c) /\ \A j \in i .. k - 1 : ~Makes(s[j], c)
    BY <1>5 DEF Pending, n
  <2>2. CASE k = 1
    <3>1. free
      BY <2>1, <2>2
    <3> QED BY <2>1, <2>2, <3>1, <1>1
  <2>3. CASE k # 1
    <3>1. k - 1 \in 1 .. Len(r) /\ Makes(r[k - 1], c)
      BY <2>1, <2>3, <1>2
    <3>2. \A j \in 1 .. (k - 1) - 1 : j + 1 \in 1 .. k - 1 /\ r[j] = s[j + 1]
      BY <1>1
    <3>3. CASE free /\ \A j \in 1 .. k - 1 : ~Makes(s[j], c)
      <4>1. \A j \in 1 .. (k - 1) - 1 : ~Makes(r[j], c)
        BY <3>2, <3>3
      <4> QED BY <3>1, <3>3, <4>1 DEF Pending
    <3>4. ASSUME NEW i \in 1 .. k - 1, Drops(s[i], c), \A j \in i .. k - 1 : ~Makes(s[j], c)
          PROVE  Pending(r, c, free) \/ (Drops(m, c) /\ Pending(r, c, TRUE))
      <4>1. CASE i = 1
        <5>1. \A j \in 1 .. (k - 1) - 1 : ~Makes(r[j], c)
          BY <3>2, <3>4, <4>1
        <5> QED BY <3>1, <3>4, <4>1, <5>1, <1>1 DEF Pending
      <4>2. CASE i # 1
        <5>1. i - 1 \in 1 .. (k - 1) - 1 /\ r[i - 1] = s[i]
          <6>1. i - 1 \in 1 .. (k - 1) - 1 /\ (i - 1) + 1 = i
            BY <1>1, <4>2
          <6> QED BY <6>1, <3>2
        <5>2. \A j \in i - 1 .. (k - 1) - 1 : j \in 1 .. (k - 1) - 1 /\ j + 1 \in i .. k - 1
          BY <1>1, <5>1
        <5>3. \A j \in i - 1 .. (k - 1) - 1 : ~Makes(r[j], c)
          BY <5>2, <3>2, <3>4
        <5> QED BY <3>1, <3>4, <5>1, <5>3 DEF Pending
      <4> QED BY <4>1, <4>2
    <3> QED BY <2>1, <3>3, <3>4
  <2> QED BY <2>2, <2>3
<1>6. NoDrops(r, c) => Drops(m, c) \/ NoDrops(s, c)
  <2>1. ASSUME NoDrops(r, c), ~Drops(m, c), NEW j \in 1 .. n PROVE ~Drops(s[j], c)
    BY <1>1, <1>2, <2>1 DEF NoDrops
  <2> QED BY <2>1 DEF NoDrops, n
<1> QED BY <1>3, <1>4, <1>5, <1>6 DEF r, n, m

-----------------------------------------------------------------------------
\* A list one or none is added to.
LEMMA AddedIs ==
  ASSUME NEW S, NEW s \in Seq(S), NEW t \in S
  PROVE  s \o <<>> = s /\ s \o <<t>> = Append(s, t) /\ Append(s, t) \in Seq(S)
<1>1. s \o <<>> = s
  OBVIOUS
<1>2. s \o <<t>> = Append(s, t)
  OBVIOUS
<1> QED BY <1>1, <1>2, AppendProperties

\* What a pipe may be.
LinkedPipe(p, k) == [p EXCEPT !.link = k]
LEMMA PipeIs ==
  ASSUME NEW p \in PipeOf
  PROVE  /\ Free(p) <=> p.link = "none"
         /\ p.link \in {"none", "wait", "joined", "up", "failing", "down"}
         /\ \A k \in {"wait", "joined", "up", "failing", "down"} : ~Free(p) => LinkedPipe(p, k) \in PipeOf /\ LinkedPipe(p, k).link = k
BY DEF PipeOf, Free, C!NoPipe, LinkedPipe

\* A pipe that is there is not made again, what is asked of one that is there, or
\* is not, is no less when more is asked for.
LEMMA PendingFree ==
  ASSUME NEW s, NEW c
  PROVE  /\ Pending(s, c, FALSE) => Pending(s, c, TRUE)
         /\ ~Clear(s, c, FALSE)
BY DEF Pending, Clear

\* More is asked of the message thread: a listener keeps what it knows, but for one
\* that is done when the connection is made anew.
LEMMA ListenedAsked ==
  ASSUME NEW s \in Seq(ConnMessage), NEW m \in ConnMessage, NEW c, NEW t, NEW h, NEW sd, NEW p, NEW l
  PROVE  LET r == Append(s, m) IN
         /\ Listened(c, t, h, sd, p, l, s) /\ (Makes(m, c) => t.st # "done") => Listened(c, t, h, sd, p, l, r)
         /\ Unlistened(c, h, sd, p, s) /\ ~Makes(m, c) => Unlistened(c, h, sd, p, r)
         /\ Drops(m, c) => Ends(r, c, p)
<1> DEFINE r == Append(s, m)
<1>0. Free(p) \in BOOLEAN
  BY DEF Free
<1>1. /\ Doomed(s, c) /\ ~Makes(m, c) => Doomed(r, c)
      /\ Drops(m, c) => Doomed(r, c)
      /\ Clear(s, c, Free(p)) /\ ~Makes(m, c) => Clear(r, c, Free(p))
      /\ Pending(s, c, Free(p)) => Pending(r, c, Free(p))
      /\ NoDrops(r, c) => NoDrops(s, c)
  BY <1>0, AskedIs
<1> HIDE DEF r
<1>2. /\ Ends(s, c, p) /\ ~Makes(m, c) => Ends(r, c, p)
      /\ Drops(m, c) => Ends(r, c, p)
  BY <1>1 DEF Ends
<1>3. Current(c, t, sd, p, s) => Current(c, t, sd, p, r)
  BY <1>1 DEF Current
<1>4. ASSUME Listened(c, t, h, sd, p, l, s), Makes(m, c) => t.st # "done" PROVE Listened(c, t, h, sd, p, l, r)
  BY <1>2, <1>3, <1>4 DEF Listened
<1>5. ASSUME Unlistened(c, h, sd, p, s), ~Makes(m, c) PROVE Unlistened(c, h, sd, p, r)
  BY <1>2, <1>5 DEF Unlistened
<1> QED BY <1>2, <1>4, <1>5 DEF r

\* A connection that nobody listens to is made, with a task that listens.
LEMMA ListenedFirst ==
  ASSUME NEW s \in Seq(ConnMessage), NEW m \in ConnMessage, NEW c, NEW h, NEW sd, NEW p, NEW l, NEW k,
         Makes(m, c), Unlistened(c, h, sd, p, s), k.listen
  PROVE  Listened(c, C!NewTask("listen", c, Nothing), k, sd, p, l, Append(s, m))
<1> DEFINE r == Append(s, m)
           t == C!NewTask("listen", c, Nothing)
<1>0. Free(p) \in BOOLEAN
  BY DEF Free
<1>1. /\ Ends(s, c, p) => Pending(r, c, Free(p))
      /\ NoDrops(r, c) => NoDrops(s, c)
  BY <1>0, AskedIs DEF Ends
<1>2. NoDrops(s, c) /\ Ends(s, c, p) => Free(p)
  BY DEF NoDrops, Ends, Doomed, Clear
<1>3. t.st = "init" /\ t.changed = 0
  BY DEF C!NewTask
<1> HIDE DEF r, t
<1>4. Current(c, t, sd, p, r)
  BY <1>1, <1>2, <1>3 DEF Current, Unlistened
<1>5. Listened(c, t, k, sd, p, l, r)
  BY <1>3, <1>4 DEF Listened, Unlistened
<1> QED BY <1>5 DEF r, t

\* A listener is told a status, which is the pipe's.
LEMMA ListenedTold ==
  ASSUME NEW c, NEW t, NEW u, NEW h, NEW sd, NEW p, NEW q, NEW l, NEW s, NEW r,
         Listened(c, t, h, sd, p, l, s),
         u.st = t.st, u.changed \in Nat, u.changed > 0, u.status \in Told, u.ready = (t.ready \/ t.st # "done"),
         ~Free(q) => u.status = LinkOf(q.link), Ends(s, c, p) => Ends(r, c, q)
  PROVE  Listened(c, u, h, sd, q, FALSE, r)
<1>1. Current(c, u, sd, q, r)
  BY DEF Current
<1> QED BY <1>1 DEF Listened

\* A listener has missed a status.
LEMMA ListenedLost ==
  ASSUME NEW c, NEW t, NEW u, NEW h, NEW sd, NEW p, NEW q, NEW l, NEW s, NEW r,
         Listened(c, t, h, sd, p, l, s), u.st = t.st, Ends(s, c, p) => Ends(r, c, q)
  PROVE  Listened(c, u, h, sd, q, TRUE, r)
BY DEF Listened

\* A listener is as it was.
LEMMA ListenedSame ==
  ASSUME NEW c, NEW t, NEW u, NEW h, NEW sd, NEW p, NEW l, NEW s, Listened(c, t, h, sd, p, l, s),
         u.st = t.st, u.status = t.status, u.changed = t.changed, u.ready = t.ready
  PROVE  Listened(c, u, h, sd, p, l, s)
BY DEF Listened, Current

\* The message thread has done what it was asked first, for another connection, or
\* has taken the pipe away, or the pipe was there already.
LEMMA ListenedDone ==
  ASSUME NEW s \in Seq(ConnMessage), s # <<>>, NEW c, NEW p, NEW q,
         \/ ~Makes(Head(s), c) /\ ~Drops(Head(s), c) /\ q = p
         \/ Drops(Head(s), c) /\ q = C!NoPipe
         \/ Makes(Head(s), c) /\ ~Free(p) /\ q = p
  PROVE  Carries(c, p, s, q, Tail(s))
<1> DEFINE m == Head(s)
           r == Tail(s)
<1>0. Free(p) \in BOOLEAN /\ Free(q) \in BOOLEAN /\ ~(Drops(m, c) /\ Makes(m, c)) /\ (q = C!NoPipe <=> Free(q))
  BY DEF Free, Drops, Makes
<1>1. /\ Doomed(s, c) => Doomed(r, c) \/ (Drops(m, c) /\ Clear(r, c, TRUE))
      /\ Clear(s, c, Free(p)) => ~Makes(m, c) /\ Clear(r, c, Free(p))
      /\ Pending(s, c, Free(p)) => Pending(r, c, Free(p)) \/ (Drops(m, c) /\ Pending(r, c, TRUE)) \/ (Makes(m, c) /\ Free(p))
      /\ NoDrops(r, c) => Drops(m, c) \/ NoDrops(s, c)
  BY <1>0, DoneIs
<1> HIDE DEF r, m
<1>2. Free(p) => Free(q)
  BY DEF Free, m
<1>3. /\ Clear(r, c, Free(p)) => Clear(r, c, Free(q))
      /\ Pending(r, c, Free(p)) => Pending(r, c, Free(q))
      /\ Drops(m, c) => Free(q)
  BY <1>0, <1>2, PendingFree DEF m, Free
<1>4. Ends(s, c, p) => Ends(r, c, q)
  BY <1>0, <1>1, <1>3 DEF Ends
<1>5. Pending(s, c, Free(p)) => Pending(r, c, Free(q))
  <2>1. Drops(m, c) /\ Pending(r, c, TRUE) => Pending(r, c, Free(q))
    BY <1>0, <1>3
  <2>2. ~(Makes(m, c) /\ Free(p))
    BY <1>0 DEF m
  <2> QED BY <2>1, <2>2, <1>1, <1>3
<1>6. ~Free(q) /\ NoDrops(r, c) => ~Free(p) /\ NoDrops(s, c) /\ q = p
  BY <1>0, <1>1, <1>2, <1>3 DEF m
<1>7. ASSUME NEW t, NEW sd, Current(c, t, sd, p, s) PROVE Current(c, t, sd, q, r)
  BY <1>5, <1>6, <1>7 DEF Current
<1>8. ASSUME NEW t, NEW h, NEW sd, NEW l, Listened(c, t, h, sd, p, l, s) PROVE Listened(c, t, h, sd, q, l, r)
  BY <1>4, <1>7, <1>8 DEF Listened
<1>9. ASSUME NEW h, NEW sd, Unlistened(c, h, sd, p, s) PROVE Unlistened(c, h, sd, q, r)
  BY <1>4, <1>9 DEF Unlistened
<1> QED BY <1>4, <1>8, <1>9 DEF r, Carries

\* The pipe of a connection is made, or could not be.
LEMMA EndsTried ==
  ASSUME NEW s \in Seq(ConnMessage), s # <<>>, NEW c, NEW p, NEW q, Makes(Head(s), c)
  PROVE  Ends(s, c, p) => Ends(Tail(s), c, q)
<1>0. Free(p) \in BOOLEAN /\ ~Drops(Head(s), c)
  BY DEF Free, Drops, Makes
<1>1. /\ Doomed(s, c) => Doomed(Tail(s), c) \/ (Drops(Head(s), c) /\ Clear(Tail(s), c, TRUE))
      /\ Clear(s, c, Free(p)) => ~Makes(Head(s), c) /\ Clear(Tail(s), c, Free(p))
  BY <1>0, DoneIs
<1> QED BY <1>0, <1>1 DEF Ends

\* A pipe goes from one state to another that has the same status.
LEMMA ListenedMoved ==
  ASSUME NEW c, NEW p, NEW q, NEW s, Free(p) <=> Free(q), LinkOf(p.link) = LinkOf(q.link)
  PROVE  Carries(c, p, s, q, s)
<1>0. Free(p) \in BOOLEAN /\ Free(q) \in BOOLEAN
  BY DEF Free
<1>1. Free(p) = Free(q)
  BY <1>0
<1>2. Ends(s, c, p) <=> Ends(s, c, q)
  BY <1>1 DEF Ends
<1>3. \A t, sd : Current(c, t, sd, p, s) => Current(c, t, sd, q, s)
  BY <1>1 DEF Current
<1>4. \A t, h, sd, l : Listened(c, t, h, sd, p, l, s) => Listened(c, t, h, sd, q, l, s)
  BY <1>2, <1>3 DEF Listened
<1>5. \A h, sd : Unlistened(c, h, sd, p, s) => Unlistened(c, h, sd, q, s)
  BY <1>2 DEF Unlistened
<1> QED BY <1>2, <1>4, <1>5 DEF Carries

\* A listener starts, with the status that the key has: what it was told before may
\* be lost.
LEMMA ListenedInit ==
  ASSUME NEW c, NEW t, NEW u, NEW h, NEW sd, NEW p, NEW l, NEW k, NEW s,
         Listened(c, t, h, sd, p, l, s), t.st = "init", t.changed \in Nat,
         u.st = "start", u.status = h.status, u.changed = t.changed, u.ready = t.ready,
         k <=> (l \/ (t.changed > 0 /\ t.status # h.status)), p \in PipeOf
  PROVE  Listened(c, u, h, sd, p, k, s)
<1>1. ASSUME ~k PROVE Current(c, u, sd, p, s)
  <2>1. Current(c, t, sd, p, s) /\ (t.changed > 0 => t.status = h.status)
    BY <1>1 DEF Listened
  <2>2. LinkOf(p.link) \in Told
    BY DEF LinkOf, Told
  <2>3. sd \in {"nothing", "end", h.status}
    BY DEF Listened
  <2>4. ASSUME ~Free(p), NoDrops(s, c) PROVE u.status = LinkOf(p.link) /\ (u.changed > 0 \/ sd = u.status)
    <3>1. t.status = LinkOf(p.link) /\ (t.changed > 0 \/ sd = t.status)
      BY <2>1, <2>4 DEF Current
    <3>2. t.changed > 0 \/ sd = h.status
      BY <2>2, <2>3, <3>1 DEF Told
    <3> QED BY <2>1, <3>1, <3>2
  <2> QED BY <2>1, <2>4 DEF Current
<1> QED BY <1>1 DEF Listened

\* A listener has nothing more to pass on, or passes a status on to the object, or a
\* status that is none.
LEMMA ListenedPass ==
  ASSUME NEW c, NEW t, NEW u, NEW h, NEW k, NEW sd, NEW p, NEW l, NEW s,
         Listened(c, t, h, sd, p, l, s), t.st = "start", u.st = "start", u.status = t.status, t.changed \in Nat,
         \/ t.changed = 0 /\ u.changed = 0 /\ k = h
         \/ t.changed > 0 /\ t.ready /\ u.ready /\ u.changed = t.changed - 1 /\ t.status \in Told \ {"closed"} /\ k.listen /\ k.status = t.status
         \/ t.changed > 0 /\ t.ready /\ u.ready /\ u.changed = t.changed - 1 /\ t.status \notin Told /\ k = h
  PROVE  Listened(c, u, k, IF t.changed > 0 /\ t.status \in Told THEN t.status ELSE sd, p, l, s)
<1>1. CASE t.changed = 0 /\ u.changed = 0 /\ k = h
  <2>1. Current(c, t, sd, p, s) => Current(c, u, sd, p, s)
    BY <1>1 DEF Current
  <2> QED BY <1>1, <2>1 DEF Listened
<1>2. CASE t.changed > 0 /\ t.ready /\ u.ready /\ u.changed = t.changed - 1 /\ t.status \in Told \ {"closed"} /\ k.listen /\ k.status = t.status
  <2>1. Current(c, t, sd, p, s) => Current(c, u, t.status, p, s)
    BY <1>2 DEF Current, Told
  <2> QED BY <1>2, <2>1 DEF Listened, Told
<1>3. CASE t.changed > 0 /\ t.ready /\ u.ready /\ u.changed = t.changed - 1 /\ t.status \notin Told /\ k = h
  <2>1. ~Current(c, t, sd, p, s)
    BY <1>3 DEF Current
  <2> QED BY <1>3, <2>1 DEF Listened
<1> QED BY <1>1, <1>2, <1>3

\* A listener is done when it has passed on that the connection is closed.
LEMMA ListenedClosed ==
  ASSUME NEW c, NEW u, NEW k, NEW p, NEW l, NEW s, u.st = "done", k.listen, k.status = "closed", Ends(s, c, p)
  PROVE  Listened(c, u, k, "closed", p, l, s)
BY DEF Listened

\* A listener that is done goes, with the key.
LEMMA ListenedEnd ==
  ASSUME NEW c, NEW t, NEW h, NEW sd, NEW p, NEW l, NEW s, Listened(c, t, h, sd, p, l, s), t.st = "done"
  PROVE  Unlistened(c, C!NoKey, "end", p, s)
BY DEF Listened, Unlistened

-----------------------------------------------------------------------------
\* What a task is.
LEMMA TaskIs ==
  ASSUME NEW t \in ConnTask
  PROVE  /\ t.kind \in {"listen", "child", "exe"} /\ t.c \in Conns /\ t.st \in {"init", "start", "done"}
         /\ t.changed \in Nat /\ t.recount \in Nat /\ t.ready \in BOOLEAN /\ t.dozes \in BOOLEAN /\ t.check \in BOOLEAN
         /\ t.status \in Told \union {"unk", "nofind"} /\ t.quit_flag \in {"unk", "normal", "crash"}
         /\ t.kind = "exe" => t.e \in Exes
BY DEF ConnTask, ConnFields

\* Whose key a task has.
LEMMA KeyIs ==
  ASSUME NEW t, NEW c
  PROVE  /\ KeyOf(t) = <<"listen", c>> <=> t.kind = "listen" /\ t.c = c
         /\ KeyOf(t) = <<"exe", c>> <=> t.kind = "exe" /\ t.e = c
BY DEF KeyOf

\* What the steps make of a task.
ToldTask(t, y, n, b) == [t EXCEPT !.status = y, !.changed = n, !.ready = b]
BegunTask(t, y) == [t EXCEPT !.st = "start", !.status = y]
DoneTask(t) == [t EXCEPT !.st = "done", !.ready = FALSE]
IdleTask(t) == [t EXCEPT !.ready = FALSE, !.dozes = TRUE]
BlockedTask(t) == [t EXCEPT !.dozes = FALSE]
PassedTask(t, n) == [t EXCEPT !.changed = n]
FlaggedTask(t, f) == [t EXCEPT !.quit_flag = f]
RunTask(t) == [t EXCEPT !.quit_flag = "crash", !.check = TRUE]
TriedTask(t, n) == [t EXCEPT !.recount = n]

\* A task is told a status.
LEMMA TaskTold ==
  ASSUME NEW t \in ConnTask, NEW y, NEW n, NEW b,
         y \in Told \union {"unk", "nofind"}, n \in Nat, b \in BOOLEAN
  PROVE  LET u == ToldTask(t, y, n, b) IN
         /\ u \in ConnTask /\ KeyOf(u) = KeyOf(t) /\ u.kind = t.kind /\ u.c = t.c /\ u.e = t.e
         /\ u.st = t.st /\ u.status = y /\ u.changed = n /\ u.ready = b /\ u.quit_flag = t.quit_flag
<1> DEFINE u == ToldTask(t, y, n, b)
<1>1. CASE t \in ConnFields({"listen", "child"}, Conns, {Nothing})
  <2>1. u \in ConnFields({"listen", "child"}, Conns, {Nothing})
    BY <1>1 DEF ConnFields, ToldTask
  <2>2. u.kind = t.kind /\ u.c = t.c /\ u.e = t.e /\ u.st = t.st /\ u.status = y /\ u.changed = n /\ u.ready = b /\ u.quit_flag = t.quit_flag
    BY <1>1 DEF ConnFields, ToldTask
  <2> QED BY <2>1, <2>2 DEF ConnTask, KeyOf
<1>2. CASE t \in ConnFields({"exe"}, Conns, Exes)
  <2>1. u \in ConnFields({"exe"}, Conns, Exes)
    BY <1>2 DEF ConnFields, ToldTask
  <2>2. u.kind = t.kind /\ u.c = t.c /\ u.e = t.e /\ u.st = t.st /\ u.status = y /\ u.changed = n /\ u.ready = b /\ u.quit_flag = t.quit_flag
    BY <1>2 DEF ConnFields, ToldTask
  <2> QED BY <2>1, <2>2 DEF ConnTask, KeyOf
<1> QED BY <1>1, <1>2 DEF ConnTask

\* A task starts.
LEMMA TaskInit ==
  ASSUME NEW t \in ConnTask, NEW y \in Told \union {"unk", "nofind"}
  PROVE  LET u == BegunTask(t, y) IN
         /\ u \in ConnTask /\ KeyOf(u) = KeyOf(t) /\ u.kind = t.kind /\ u.c = t.c /\ u.e = t.e
         /\ u.st = "start" /\ u.status = y /\ u.changed = t.changed /\ u.ready = t.ready /\ u.quit_flag = t.quit_flag
<1> DEFINE u == BegunTask(t, y)
<1>1. CASE t \in ConnFields({"listen", "child"}, Conns, {Nothing})
  <2>1. u \in ConnFields({"listen", "child"}, Conns, {Nothing})
    BY <1>1 DEF ConnFields, BegunTask
  <2>2. u.kind = t.kind /\ u.c = t.c /\ u.e = t.e /\ u.st = "start" /\ u.status = y /\ u.changed = t.changed /\ u.ready = t.ready /\ u.quit_flag = t.quit_flag
    BY <1>1 DEF ConnFields, BegunTask
  <2> QED BY <2>1, <2>2 DEF ConnTask, KeyOf
<1>2. CASE t \in ConnFields({"exe"}, Conns, Exes)
  <2>1. u \in ConnFields({"exe"}, Conns, Exes)
    BY <1>2 DEF ConnFields, BegunTask
  <2>2. u.kind = t.kind /\ u.c = t.c /\ u.e = t.e /\ u.st = "start" /\ u.status = y /\ u.changed = t.changed /\ u.ready = t.ready /\ u.quit_flag = t.quit_flag
    BY <1>2 DEF ConnFields, BegunTask
  <2> QED BY <2>1, <2>2 DEF ConnTask, KeyOf
<1> QED BY <1>1, <1>2 DEF ConnTask

\* A task is done.
LEMMA TaskEnds ==
  ASSUME NEW t \in ConnTask
  PROVE  LET u == DoneTask(t) IN
         /\ u \in ConnTask /\ KeyOf(u) = KeyOf(t) /\ u.kind = t.kind /\ u.c = t.c /\ u.e = t.e
         /\ u.st = "done" /\ u.quit_flag = t.quit_flag
<1> DEFINE u == DoneTask(t)
<1>1. CASE t \in ConnFields({"listen", "child"}, Conns, {Nothing})
  <2>1. u \in ConnFields({"listen", "child"}, Conns, {Nothing})
    BY <1>1 DEF ConnFields, DoneTask
  <2>2. u.kind = t.kind /\ u.c = t.c /\ u.e = t.e /\ u.st = "done" /\ u.quit_flag = t.quit_flag
    BY <1>1 DEF ConnFields, DoneTask
  <2> QED BY <2>1, <2>2 DEF ConnTask, KeyOf
<1>2. CASE t \in ConnFields({"exe"}, Conns, Exes)
  <2>1. u \in ConnFields({"exe"}, Conns, Exes)
    BY <1>2 DEF ConnFields, DoneTask
  <2>2. u.kind = t.kind /\ u.c = t.c /\ u.e = t.e /\ u.st = "done" /\ u.quit_flag = t.quit_flag
    BY <1>2 DEF ConnFields, DoneTask
  <2> QED BY <2>1, <2>2 DEF ConnTask, KeyOf
<1> QED BY <1>1, <1>2 DEF ConnTask

\* A task has nothing to do.
LEMMA TaskSleeps ==
  ASSUME NEW t \in ConnTask
  PROVE  LET u == IdleTask(t) IN
         /\ u \in ConnTask /\ KeyOf(u) = KeyOf(t) /\ u.kind = t.kind /\ u.c = t.c /\ u.e = t.e
         /\ u.st = t.st /\ u.status = t.status /\ u.changed = t.changed /\ u.quit_flag = t.quit_flag
<1> DEFINE u == IdleTask(t)
<1>1. CASE t \in ConnFields({"listen", "child"}, Conns, {Nothing})
  <2>1. u \in ConnFields({"listen", "child"}, Conns, {Nothing})
    BY <1>1 DEF ConnFields, IdleTask
  <2>2. u.kind = t.kind /\ u.c = t.c /\ u.e = t.e /\ u.st = t.st /\ u.status = t.status /\ u.changed = t.changed /\ u.quit_flag = t.quit_flag
    BY <1>1 DEF ConnFields, IdleTask
  <2> QED BY <2>1, <2>2 DEF ConnTask, KeyOf
<1>2. CASE t \in ConnFields({"exe"}, Conns, Exes)
  <2>1. u \in ConnFields({"exe"}, Conns, Exes)
    BY <1>2 DEF ConnFields, IdleTask
  <2>2. u.kind = t.kind /\ u.c = t.c /\ u.e = t.e /\ u.st = t.st /\ u.status = t.status /\ u.changed = t.changed /\ u.quit_flag = t.quit_flag
    BY <1>2 DEF ConnFields, IdleTask
  <2> QED BY <2>1, <2>2 DEF ConnTask, KeyOf
<1> QED BY <1>1, <1>2 DEF ConnTask

\* A task sleeps.
LEMMA TaskBlocks ==
  ASSUME NEW t \in ConnTask
  PROVE  LET u == BlockedTask(t) IN
         /\ u \in ConnTask /\ KeyOf(u) = KeyOf(t) /\ u.kind = t.kind /\ u.c = t.c /\ u.e = t.e
         /\ u.st = t.st /\ u.status = t.status /\ u.changed = t.changed /\ u.ready = t.ready /\ u.quit_flag = t.quit_flag
<1> DEFINE u == BlockedTask(t)
<1>1. CASE t \in ConnFields({"listen", "child"}, Conns, {Nothing})
  <2>1. u \in ConnFields({"listen", "child"}, Conns, {Nothing})
    BY <1>1 DEF ConnFields, BlockedTask
  <2>2. u.kind = t.kind /\ u.c = t.c /\ u.e = t.e /\ u.st = t.st /\ u.status = t.status /\ u.changed = t.changed /\ u.ready = t.ready /\ u.quit_flag = t.quit_flag
    BY <1>1 DEF ConnFields, BlockedTask
  <2> QED BY <2>1, <2>2 DEF ConnTask, KeyOf
<1>2. CASE t \in ConnFields({"exe"}, Conns, Exes)
  <2>1. u \in ConnFields({"exe"}, Conns, Exes)
    BY <1>2 DEF ConnFields, BlockedTask
  <2>2. u.kind = t.kind /\ u.c = t.c /\ u.e = t.e /\ u.st = t.st /\ u.status = t.status /\ u.changed = t.changed /\ u.ready = t.ready /\ u.quit_flag = t.quit_flag
    BY <1>2 DEF ConnFields, BlockedTask
  <2> QED BY <2>1, <2>2 DEF ConnTask, KeyOf
<1> QED BY <1>1, <1>2 DEF ConnTask

\* A task passes a status on.
LEMMA TaskLess ==
  ASSUME NEW t \in ConnTask, NEW n, n \in Nat
  PROVE  LET u == PassedTask(t, n) IN
         /\ u \in ConnTask /\ KeyOf(u) = KeyOf(t) /\ u.kind = t.kind /\ u.c = t.c /\ u.e = t.e
         /\ u.st = t.st /\ u.status = t.status /\ u.changed = n /\ u.ready = t.ready /\ u.quit_flag = t.quit_flag
<1> DEFINE u == PassedTask(t, n)
<1>1. CASE t \in ConnFields({"listen", "child"}, Conns, {Nothing})
  <2>1. u \in ConnFields({"listen", "child"}, Conns, {Nothing})
    BY <1>1 DEF ConnFields, PassedTask
  <2>2. u.kind = t.kind /\ u.c = t.c /\ u.e = t.e /\ u.st = t.st /\ u.status = t.status /\ u.changed = n /\ u.ready = t.ready /\ u.quit_flag = t.quit_flag
    BY <1>1 DEF ConnFields, PassedTask
  <2> QED BY <2>1, <2>2 DEF ConnTask, KeyOf
<1>2. CASE t \in ConnFields({"exe"}, Conns, Exes)
  <2>1. u \in ConnFields({"exe"}, Conns, Exes)
    BY <1>2 DEF ConnFields, PassedTask
  <2>2. u.kind = t.kind /\ u.c = t.c /\ u.e = t.e /\ u.st = t.st /\ u.status = t.status /\ u.changed = n /\ u.ready = t.ready /\ u.quit_flag = t.quit_flag
    BY <1>2 DEF ConnFields, PassedTask
  <2> QED BY <2>1, <2>2 DEF ConnTask, KeyOf
<1> QED BY <1>1, <1>2 DEF ConnTask

\* A client process says that it quits, or has been started.
LEMMA TaskFlags ==
  ASSUME NEW t \in ConnTask, NEW f \in {"unk", "normal", "crash"}
  PROVE  LET u == FlaggedTask(t, f) IN
         /\ u \in ConnTask /\ KeyOf(u) = KeyOf(t) /\ u.kind = t.kind /\ u.c = t.c /\ u.e = t.e
         /\ u.quit_flag = f
<1> DEFINE u == FlaggedTask(t, f)
<1>1. CASE t \in ConnFields({"listen", "child"}, Conns, {Nothing})
  <2>1. u \in ConnFields({"listen", "child"}, Conns, {Nothing})
    BY <1>1 DEF ConnFields, FlaggedTask
  <2>2. u.kind = t.kind /\ u.c = t.c /\ u.e = t.e /\ u.quit_flag = f
    BY <1>1 DEF ConnFields, FlaggedTask
  <2> QED BY <2>1, <2>2 DEF ConnTask, KeyOf
<1>2. CASE t \in ConnFields({"exe"}, Conns, Exes)
  <2>1. u \in ConnFields({"exe"}, Conns, Exes)
    BY <1>2 DEF ConnFields, FlaggedTask
  <2>2. u.kind = t.kind /\ u.c = t.c /\ u.e = t.e /\ u.quit_flag = f
    BY <1>2 DEF ConnFields, FlaggedTask
  <2> QED BY <2>1, <2>2 DEF ConnTask, KeyOf
<1> QED BY <1>1, <1>2 DEF ConnTask

\* A client process has been started.
LEMMA TaskRuns ==
  ASSUME NEW t \in ConnTask
  PROVE  LET u == RunTask(t) IN
         /\ u \in ConnTask /\ KeyOf(u) = KeyOf(t) /\ u.kind = t.kind /\ u.c = t.c /\ u.e = t.e
         /\ u.quit_flag = "crash"
<1> DEFINE u == RunTask(t)
<1>1. CASE t \in ConnFields({"listen", "child"}, Conns, {Nothing})
  <2>1. u \in ConnFields({"listen", "child"}, Conns, {Nothing})
    BY <1>1 DEF ConnFields, RunTask
  <2>2. u.kind = t.kind /\ u.c = t.c /\ u.e = t.e /\ u.quit_flag = "crash"
    BY <1>1 DEF ConnFields, RunTask
  <2> QED BY <2>1, <2>2 DEF ConnTask, KeyOf
<1>2. CASE t \in ConnFields({"exe"}, Conns, Exes)
  <2>1. u \in ConnFields({"exe"}, Conns, Exes)
    BY <1>2 DEF ConnFields, RunTask
  <2>2. u.kind = t.kind /\ u.c = t.c /\ u.e = t.e /\ u.quit_flag = "crash"
    BY <1>2 DEF ConnFields, RunTask
  <2> QED BY <2>1, <2>2 DEF ConnTask, KeyOf
<1> QED BY <1>1, <1>2 DEF ConnTask

\* A client process is to be started again.
LEMMA TaskAgain ==
  ASSUME NEW t \in ConnTask, NEW n, n \in Nat
  PROVE  LET u == TriedTask(t, n) IN
         /\ u \in ConnTask /\ KeyOf(u) = KeyOf(t) /\ u.kind = t.kind /\ u.c = t.c /\ u.e = t.e
         /\ u.quit_flag = t.quit_flag
<1> DEFINE u == TriedTask(t, n)
<1>1. CASE t \in ConnFields({"listen", "child"}, Conns, {Nothing})
  <2>1. u \in ConnFields({"listen", "child"}, Conns, {Nothing})
    BY <1>1 DEF ConnFields, TriedTask
  <2>2. u.kind = t.kind /\ u.c = t.c /\ u.e = t.e /\ u.quit_flag = t.quit_flag
    BY <1>1 DEF ConnFields, TriedTask
  <2> QED BY <2>1, <2>2 DEF ConnTask, KeyOf
<1>2. CASE t \in ConnFields({"exe"}, Conns, Exes)
  <2>1. u \in ConnFields({"exe"}, Conns, Exes)
    BY <1>2 DEF ConnFields, TriedTask
  <2>2. u.kind = t.kind /\ u.c = t.c /\ u.e = t.e /\ u.quit_flag = t.quit_flag
    BY <1>2 DEF ConnFields, TriedTask
  <2> QED BY <2>1, <2>2 DEF ConnTask, KeyOf
<1> QED BY <1>1, <1>2 DEF ConnTask

\* One task of a list is changed, or all are: each listener by itself.
LEMMA HeardMapped ==
  ASSUME NEW s, NEW r, SameKeys(s, r),
         NEW c, NEW h, NEW sd, NEW p, NEW l, NEW m, NEW h2, NEW sd2, NEW p2, NEW l2, NEW m2,
         Heard(c, s, h, sd, p, l, m),
         Unlistened(c, h, sd, p, m) => Unlistened(c, h2, sd2, p2, m2),
         \A i \in 1 .. Len(s) : KeyOf(s[i]) = <<"listen", c>> /\ Listened(c, s[i], h, sd, p, l, m) => Listened(c, r[i], h2, sd2, p2, l2, m2)
  PROVE  Heard(c, r, h2, sd2, p2, l2, m2)
<1> DEFINE k == <<"listen", c>>
<1>1. /\ Single(s, k) => Single(r, k)
      /\ With(r, k) = {} <=> With(s, k) = {}
      /\ \A u \in With(r, k) : \E i \in 1 .. Len(s) : KeyOf(s[i]) = k /\ s[i] \in With(s, k) /\ u = r[i]
  BY WithMapped
<1>2. ASSUME NEW u \in With(r, k) PROVE Listened(c, u, h2, sd2, p2, l2, m2)
  BY <1>1, <1>2 DEF Heard
<1> HIDE DEF k
<1>3. Single(r, k) /\ (With(r, k) = {} => Unlistened(c, h2, sd2, p2, m2))
  BY <1>1 DEF Heard, k
<1> QED BY <1>2, <1>3 DEF Heard, k

\* The same for the tasks of client processes.
LEMMA StartedMapped ==
  ASSUME NEW s, NEW r, SameKeys(s, r),
         NEW e, NEW h, NEW sd, NEW pr, NEW h2, NEW sd2, NEW pr2,
         Started(e, s, h, sd, pr),
         With(s, <<"exe", e>>) = {} /\ Untracked(h, sd, pr) => Untracked(h2, sd2, pr2),
         \A i \in 1 .. Len(s) : KeyOf(s[i]) = <<"exe", e>> /\ Tracked(s[i], h, pr) => Tracked(r[i], h2, pr2)
  PROVE  Started(e, r, h2, sd2, pr2)
<1> DEFINE k == <<"exe", e>>
<1>1. /\ Single(s, k) => Single(r, k)
      /\ With(r, k) = {} <=> With(s, k) = {}
      /\ \A u \in With(r, k) : \E i \in 1 .. Len(s) : KeyOf(s[i]) = k /\ s[i] \in With(s, k) /\ u = r[i]
  BY WithMapped
<1>2. ASSUME NEW u \in With(r, k) PROVE Tracked(u, h2, pr2)
  BY <1>1, <1>2 DEF Started
<1> HIDE DEF k
<1>3. Single(r, k) /\ (With(r, k) = {} => Untracked(h2, sd2, pr2))
  BY <1>1 DEF Started, k
<1> QED BY <1>2, <1>3 DEF Started, k

\* ... none of which says more of how its process fared.
SameFlags(s, r) == SameKeys(s, r) /\ \A i \in 1 .. Len(s) : r[i].quit_flag = s[i].quit_flag
LEMMA StartedFlags ==
  ASSUME NEW s, NEW r, SameFlags(s, r), NEW e, NEW h, NEW sd, NEW pr, Started(e, s, h, sd, pr)
  PROVE  Started(e, r, h, sd, pr)
<1>1. \A i \in 1 .. Len(s) : KeyOf(s[i]) = <<"exe", e>> /\ Tracked(s[i], h, pr) => Tracked(r[i], h, pr)
  BY DEF SameFlags, Tracked
<1>2. SameKeys(s, r)
  BY DEF SameFlags
<1> QED BY <1>1, <1>2, StartedMapped, Zenon

\* A task is changed, for a task of its own key.
SetAt(s, i, u) == [s EXCEPT ![i] = u]
LEMMA ChangedIs ==
  ASSUME NEW s \in Seq(ConnTask), NEW i \in 1 .. Len(s), NEW u \in ConnTask, KeyOf(u) = KeyOf(s[i])
  PROVE  LET r == SetAt(s, i, u) IN
         /\ r \in Seq(ConnTask) /\ SameKeys(s, r) /\ r[i] = u
         /\ \A j \in 1 .. Len(s) : j # i => r[j] = s[j]
<1> DEFINE r == SetAt(s, i, u)
<1>1. r \in Seq(ConnTask) /\ Len(r) = Len(s) /\ r[i] = u /\ \A j \in 1 .. Len(s) : j # i => r[j] = s[j]
  BY ExceptSeq DEF SetAt
<1> HIDE DEF r
<1>2. \A j \in 1 .. Len(s) : KeyOf(r[j]) = KeyOf(s[j])
  BY <1>1
<1>3. SameKeys(s, r)
  BY <1>1, <1>2 DEF SameKeys
<1> QED BY <1>1, <1>3 DEF r

-----------------------------------------------------------------------------
\* At first nobody listens and there is no pipe.
LEMMA CFirst ==
  ASSUME IpcAssumption, C!Init PROVE CInv
<1> USE DEF C!Init
<1>1. /\ connHash \in [Conns -> Key] /\ exeHash \in [Exes -> ExeKey] /\ pipes \in [Conns -> PipeOf]
      /\ late \in SUBSET Conns /\ run_flag_ \in BOOLEAN
  BY DEF Key, ExeKey, PipeOf, C!NoKey, C!NoExe, C!NoPipe
<1>2. msgs \in Seq(ConnMessage) /\ port \in Seq(Completion) /\ tasks \in Seq(ConnTask)
  OBVIOUS
<1>9. adds \in [C!Threads -> Call] /\ raced \in SUBSET Conns
  BY DEF Call
<1>3. CTypeOK
  BY <1>1, <1>2, <1>9 DEF CTypeOK, Told, ExeTold, Lives
<1>10. AddsInv
  BY DEF AddsInv, C!NoCall, IpcAssumption
<1>4. \A k : With(tasks, k) = {} /\ Single(tasks, k)
  BY DEF With, Single
<1>5. ExeInv
  BY <1>4 DEF ExeInv, Started, Untracked, C!NoExe
<1>6. \A c \in Conns : Clear(msgs, c, Free(pipes[c]))
  BY DEF Clear, Free
<1>7. ListenInv
  BY <1>4, <1>6 DEF ListenInv, Heard, Unlistened, Ends
<1>8. PortInv
  BY DEF PortInv, C!NoPipe
<1> QED BY <1>3, <1>5, <1>7, <1>8, <1>10 DEF CInv

\* The calls of addListen stay as they are.
LEMMA CallsKept ==
  ASSUME CInv, UNCHANGED <<adds, raced>>, \A c \in Conns : connHash'[c].listen => connHash[c].listen
  PROVE  AddsInv'
BY DEF CInv, AddsInv

\* close, closeAll: the message thread is asked.
LEMMA CAsks ==
  ASSUME CInv, NEW m \in ConnMessage, \A c \in Conns : ~Makes(m, c), msgs' = Append(msgs, m),
         UNCHANGED <<connHash, exeHash, pipes, port, tasks, said, exeSaid, proc, late, adds, raced, run_flag_>>
  PROVE  CInv'
<1>0. msgs \in Seq(ConnMessage)
  BY DEF CInv, CTypeOK
<1>1. msgs' \in Seq(ConnMessage)
  BY <1>0, AppendProperties
<1>2. CTypeOK'
  BY <1>1 DEF CInv, CTypeOK
<1>3. ExeInv' /\ PortInv' /\ AddsInv'
  BY CallsKept DEF CInv, ExeInv, PortInv
<1>4. ASSUME NEW c \in Conns \ raced PROVE Heard(c, tasks, connHash[c], said[c], pipes[c], c \in late, msgs')
  <2>1. Heard(c, tasks, connHash[c], said[c], pipes[c], c \in late, msgs)
    BY DEF CInv, ListenInv
  <2>2. \A t, h, sd, p, l : /\ Listened(c, t, h, sd, p, l, msgs) => Listened(c, t, h, sd, p, l, msgs')
                            /\ Unlistened(c, h, sd, p, msgs) => Unlistened(c, h, sd, p, msgs')
    BY <1>0, ListenedAsked
  <2> QED BY <2>1, <2>2 DEF Heard
<1>5. ListenInv'
  BY <1>4 DEF ListenInv
<1> QED BY <1>2, <1>3, <1>5 DEF CInv

\* A task is added to a list.
LEMMA TaskAdded ==
  ASSUME NEW s \in Seq(ConnTask), NEW t \in ConnTask
  PROVE  LET r == Append(s, t) IN
         /\ r \in Seq(ConnTask)
         /\ \A c, h, sd, p, l, m : (t.kind # "listen" \/ t.c # c) /\ Heard(c, s, h, sd, p, l, m) => Heard(c, r, h, sd, p, l, m)
         /\ \A e, h, sd, pr : (t.kind # "exe" \/ t.e # e) /\ Started(e, s, h, sd, pr) => Started(e, r, h, sd, pr)
<1> DEFINE r == Append(s, t)
<1>1. ASSUME NEW k, KeyOf(t) # k PROVE With(r, k) = With(s, k) /\ (Single(s, k) => Single(r, k))
  <2>1. With(r, k) = With(s, k) \union (IF KeyOf(t) = k THEN {t} ELSE {})
    BY WithAdded
  <2>2. Single(s, k) /\ (KeyOf(t) = k => With(s, k) = {}) => Single(r, k)
    BY WithAdded
  <2> QED BY <2>1, <2>2, <1>1
<1>2. r \in Seq(ConnTask)
  BY AppendProperties
<1> HIDE DEF r
<1>3. ASSUME NEW c, t.kind # "listen" \/ t.c # c PROVE KeyOf(t) # <<"listen", c>>
  BY <1>3, KeyIs
<1>4. ASSUME NEW e, t.kind # "exe" \/ t.e # e PROVE KeyOf(t) # <<"exe", e>>
  BY <1>4, KeyIs
<1>5. \A c, h, sd, p, l, m : (t.kind # "listen" \/ t.c # c) /\ Heard(c, s, h, sd, p, l, m) => Heard(c, r, h, sd, p, l, m)
  BY <1>1, <1>3 DEF Heard
<1>6. \A e, h, sd, pr : (t.kind # "exe" \/ t.e # e) /\ Started(e, s, h, sd, pr) => Started(e, r, h, sd, pr)
  BY <1>1, <1>4 DEF Started
<1> QED BY <1>2, <1>5, <1>6 DEF r

\* The first task of a key is added to a list.
LEMMA FirstWith ==
  ASSUME NEW s \in Seq(ConnTask), NEW t \in ConnTask, NEW k, KeyOf(t) = k, With(s, k) = {}, Single(s, k)
  PROVE  With(Append(s, t), k) = {t} /\ Single(Append(s, t), k)
<1>1. With(Append(s, t), k) = With(s, k) \union (IF KeyOf(t) = k THEN {t} ELSE {})
  BY WithAdded
<1>2. Single(s, k) /\ (KeyOf(t) = k => With(s, k) = {}) => Single(Append(s, t), k)
  BY WithAdded
<1> QED BY <1>1, <1>2

\* A thread looks whether a connection is listened to (addListen).
LEMMA CLooks ==
  ASSUME CInv, NEW th \in C!Threads, NEW op \in {"client", "server"}, NEW d \in Conns, NEW parent \in Conns \union {Nothing},
         C!addListen(th, op, d, parent)
  PROVE  CInv'
<1> DEFINE a == [op |-> op, c |-> d, parent |-> parent, listens |-> connHash[d].listen]
<1>0. adds \in [C!Threads -> Call] /\ raced \in SUBSET Conns /\ connHash \in [Conns -> Key]
  BY DEF CInv, CTypeOK
<1>1. /\ adds' = [adds EXCEPT ![th] = a]
      /\ raced' = IF \E o \in C!Threads \ {th} : adds[o].c = d THEN raced \union {d} ELSE raced
      /\ UNCHANGED <<connHash, exeHash, pipes, msgs, port, tasks, said, exeSaid, proc, late, run_flag_>>
  BY DEF C!addListen, C!isConnectKeyWithListen
<1>2. a \in Call /\ a.c = d /\ a.listens = connHash[d].listen
  BY <1>0 DEF Call, Key
<1> HIDE DEF a
<1>3. adds' \in [C!Threads -> Call] /\ adds'[th] = a /\ \A o \in C!Threads \ {th} : adds'[o] = adds[o]
  BY <1>0, <1>1, <1>2
<1>4. raced' \in SUBSET Conns /\ raced \subseteq raced' /\ (d \notin raced' => \A o \in C!Threads \ {th} : adds[o].c # d)
  BY <1>0, <1>1
<1>5. CTypeOK'
  BY <1>1, <1>3, <1>4 DEF CInv, CTypeOK
<1>6. ExeInv' /\ PortInv'
  BY <1>1 DEF CInv, ExeInv, PortInv
<1>7. ListenInv'
  BY <1>1, <1>4 DEF CInv, ListenInv
<1>8. AddsInv'
  <2> SUFFICES ASSUME NEW c \in Conns \ raced'
               PROVE  /\ \A x, o \in C!Threads : adds'[x].c = c /\ adds'[o].c = c => x = o
                      /\ \A x \in C!Threads : adds'[x].c = c /\ ~adds'[x].listens => ~connHash[c].listen
    BY <1>1 DEF AddsInv
  <2>1. /\ \A x, o \in C!Threads : adds[x].c = c /\ adds[o].c = c => x = o
        /\ \A x \in C!Threads : adds[x].c = c /\ ~adds[x].listens => ~connHash[c].listen
    BY <1>4 DEF CInv, AddsInv
  <2>2. CASE c = d
    BY <2>2, <1>2, <1>3, <1>4
  <2>3. CASE c # d
    BY <2>1, <2>3, <1>2, <1>3
  <2> QED BY <2>2, <2>3
<1> QED BY <1>5, <1>6, <1>7, <1>8 DEF CInv

\* A call of addListen is one, of a connection.
LEMMA CallIs ==
  ASSUME NEW a \in Call, a # C!NoCall
  PROVE  a.op \in {"client", "server"} /\ a.c \in Conns /\ a.parent \in Conns \union {Nothing} /\ a.listens \in BOOLEAN
BY DEF Call

\* A thread goes on: it starts a listening task where it has found none, asks for the
\* pipe, and tells a connected parent of its child.
LEMMA CAdds ==
  ASSUME IpcAssumption, CInv, NEW th \in C!Threads, C!Adds(th)
  PROVE  CInv'
<1> DEFINE d == adds[th].c
           found == adds[th].listens
           n == C!NewTask("listen", d, Nothing)
           b == IF found THEN tasks ELSE Append(tasks, n)
           m == [op |-> adds[th].op, c |-> d]
           more == IF adds[th].parent # Nothing /\ connHash[adds[th].parent].status = "connected"
                   THEN <<C!NewTask("child", adds[th].parent, Nothing)>> ELSE <<>>
<1>0. msgs \in Seq(ConnMessage) /\ tasks \in Seq(ConnTask) /\ connHash \in [Conns -> Key]
      /\ adds \in [C!Threads -> Call] /\ raced \in SUBSET Conns
  BY DEF CInv, CTypeOK
<1>14. adds[th].op \in {"client", "server"} /\ d \in Conns /\ adds[th].parent \in Conns \union {Nothing} /\ found \in BOOLEAN
  <2>1. adds[th] \in Call /\ adds[th] # C!NoCall
    BY <1>0 DEF C!Adds, C!Calls
  <2> QED BY <2>1, CallIs
<1>15. m \in ConnMessage /\ Makes(m, d)
  BY <1>14 DEF ConnMessage, Makes
<1>16. more = <<>> \/ \E x \in Conns : more = <<C!NewTask("child", x, Nothing)>>
  BY <1>14
<1>1. n \in ConnTask /\ n.kind = "listen" /\ n.c = d /\ \A x \in Conns : C!NewTask("child", x, Nothing) \in ConnTask /\ C!NewTask("child", x, Nothing).kind = "child"
  BY <1>14 DEF C!NewTask, ConnTask, ConnFields
<1>2. /\ tasks' = b \o more /\ msgs' = Append(msgs, m) /\ adds' = [adds EXCEPT ![th] = C!NoCall]
      /\ connHash' = IF found THEN connHash ELSE C!startConnectKeyWithListen(d)
      /\ raced' = IF found /\ (~connHash[d].listen \/ C!Ending(d)) THEN raced \union {d} ELSE raced
      /\ UNCHANGED <<exeHash, pipes, port, said, exeSaid, proc, late, run_flag_>>
  <2> HIDE DEF more, n, m
  <2>1. /\ C!Listens(d, found, more) /\ C!Asks(adds[th].op, d) /\ adds' = [adds EXCEPT ![th] = C!NoCall]
        /\ raced' = IF found /\ (~connHash[d].listen \/ C!Ending(d)) THEN raced \union {d} ELSE raced
        /\ UNCHANGED <<exeHash, pipes, port, said, exeSaid, proc, late, run_flag_>>
    BY DEF C!Adds, C!isConnectKeyWithListen, more
  <2>2. msgs' = Append(msgs, m)
    BY <2>1 DEF C!Asks, m
  <2>3. CASE found
    BY <2>1, <2>2, <2>3 DEF C!Listens
  <2>4. CASE ~found
    BY <2>1, <2>2, <2>4 DEF C!Listens, n
  <2> QED BY <2>3, <2>4
<1>17. raced' \in SUBSET Conns /\ raced \subseteq raced' /\ (d \notin raced' => (found <=> connHash[d].listen) /\ (found => ~C!Ending(d)))
  <2>1. raced' \in SUBSET Conns /\ raced \subseteq raced' /\ (d \notin raced' => (found => connHash[d].listen /\ ~C!Ending(d)))
    BY <1>0, <1>2, <1>14
  <2>2. d \notin raced => (~found => ~connHash[d].listen)
    BY <1>14 DEF CInv, AddsInv
  <2> QED BY <2>1, <2>2
<1> HIDE DEF more, m
<1>3. connHash' \in [Conns -> Key] /\ (\A c \in Conns \ {d} : connHash'[c] = connHash[c])
      /\ (~found => connHash'[d].listen) /\ (found => connHash' = connHash)
  <2>1. CASE found
    BY <2>1, <1>0, <1>2
  <2>2. CASE ~found
    <3>1. connHash' = [connHash EXCEPT ![d] = [in |-> TRUE, listen |-> TRUE, status |-> IF connHash[d].in THEN connHash[d].status ELSE "unk"]]
      BY <2>2, <1>2 DEF C!startConnectKeyWithListen
    <3>2. [in |-> TRUE, listen |-> TRUE, status |-> IF connHash[d].in THEN connHash[d].status ELSE "unk"] \in Key
      BY <1>0, <1>14 DEF Key
    <3> QED BY <2>2, <3>1, <3>2, <1>0, <1>14
  <2> QED BY <2>1, <2>2, <1>14
<1> HIDE DEF n
<1>5. b \in Seq(ConnTask)
  BY <1>0, <1>1, TaskAdded
<1>6. ASSUME NEW c \in Conns \ raced' PROVE Heard(c, b, connHash'[c], said[c], pipes[c], c \in late, msgs')
  <2>0. Heard(c, tasks, connHash[c], said[c], pipes[c], c \in late, msgs)
    BY <1>17 DEF CInv, ListenInv
  <2> HIDE DEF d, found
  <2>1. CASE c # d
    <3>1. ~Makes(m, c)
      BY <2>1, <1>15 DEF Makes
    <3>2. \A t, h, sd, p, l : /\ Listened(c, t, h, sd, p, l, msgs) => Listened(c, t, h, sd, p, l, msgs')
                              /\ Unlistened(c, h, sd, p, msgs) => Unlistened(c, h, sd, p, msgs')
      BY <1>0, <1>2, <1>15, <3>1, ListenedAsked
    <3>3. Heard(c, tasks, connHash[c], said[c], pipes[c], c \in late, msgs')
      BY <2>0, <3>2 DEF Heard
    <3>4. Heard(c, b, connHash[c], said[c], pipes[c], c \in late, msgs')
      BY <2>1, <3>3, <1>0, <1>1, TaskAdded
    <3> QED BY <2>1, <3>4, <1>3
  <2>2. CASE c = d /\ found
    <3>0. connHash[c].listen /\ ~C!Ending(c)
      BY <2>2, <1>17
    <3>1. With(tasks, <<"listen", c>>) # {}
      <4>1. ~Unlistened(c, connHash[c], said[c], pipes[c], msgs)
        BY <3>0 DEF Unlistened, C!NoKey
      <4> QED BY <2>0, <4>1 DEF Heard
    <3>2. ASSUME NEW t \in With(tasks, <<"listen", c>>) PROVE t.st # "done"
      <4>1. PICK i \in 1 .. Len(tasks) : KeyOf(tasks[i]) = <<"listen", c>> /\ t = tasks[i]
        BY <3>2 DEF With
      <4>2. tasks[i].kind = "listen" /\ tasks[i].c = c
        BY <4>1, KeyIs
      <4>3. i \in DOMAIN tasks
        BY <1>0, <4>1
      <4> QED BY <4>1, <4>2, <4>3, <3>0 DEF C!Ending
    <3>3. \A t, h, sd, p, l : t.st # "done" /\ Listened(c, t, h, sd, p, l, msgs) => Listened(c, t, h, sd, p, l, msgs')
      BY <1>0, <1>2, <1>15, ListenedAsked
    <3> QED BY <2>0, <2>2, <3>1, <3>2, <3>3, <1>3 DEF Heard
  <2>3. CASE c = d /\ ~found
    <3>0. ~connHash[c].listen
      BY <2>3, <1>17
    <3>1. With(tasks, <<"listen", c>>) = {} /\ Single(tasks, <<"listen", c>>)
      BY <2>0, <3>0 DEF Heard, Listened
    <3>2. KeyOf(n) = <<"listen", c>>
      BY <2>3, <1>1, KeyIs
    <3>3. With(b, <<"listen", c>>) = {n} /\ Single(b, <<"listen", c>>)
      <4>1. b = Append(tasks, n)
        BY <2>3
      <4> HIDE DEF b
      <4> QED BY <4>1, <3>1, <3>2, <1>0, <1>1, FirstWith
    <3>4. Unlistened(c, connHash[c], said[c], pipes[c], msgs)
      BY <2>0, <3>1 DEF Heard
    <3>5. Listened(c, n, connHash'[c], said[c], pipes[c], c \in late, msgs')
      BY <2>3, <3>4, <1>0, <1>2, <1>3, <1>15, ListenedFirst DEF n
    <3> QED BY <3>3, <3>5 DEF Heard
  <2> QED BY <2>1, <2>2, <2>3, <1>14
<1>7. ASSUME NEW e \in Exes PROVE Started(e, b, exeHash[e], exeSaid[e], proc[e])
  <2>1. Started(e, tasks, exeHash[e], exeSaid[e], proc[e])
    BY DEF CInv, ExeInv
  <2> QED BY <2>1, <1>0, <1>1, TaskAdded
<1> HIDE DEF b
<1>8. /\ tasks' \in Seq(ConnTask)
      /\ \A c \in Conns \ raced' : Heard(c, tasks', connHash'[c], said[c], pipes[c], c \in late, msgs')
      /\ \A e \in Exes : Started(e, tasks', exeHash[e], exeSaid[e], proc[e])
  <2>1. CASE more = <<>>
    <3>1. tasks' = b
      BY <2>1, <1>2, <1>5, <1>1, AddedIs
    <3> QED BY <3>1, <1>5, <1>6, <1>7
  <2>2. ASSUME NEW x \in Conns, more = <<C!NewTask("child", x, Nothing)>> PROVE <1>8!:
    <3> DEFINE y == C!NewTask("child", x, Nothing)
    <3>1. tasks' = Append(b, y) /\ y \in ConnTask /\ y.kind = "child"
      BY <2>2, <1>1, <1>2, <1>5, AddedIs
    <3> HIDE DEF y
    <3> QED BY <3>1, <1>5, <1>6, <1>7, TaskAdded
  <2> QED BY <2>1, <2>2, <1>16
<1>9. msgs' \in Seq(ConnMessage)
  BY <1>0, <1>2, <1>15, AppendProperties
<1>18. adds' \in [C!Threads -> Call] /\ adds'[th] = C!NoCall /\ \A o \in C!Threads \ {th} : adds'[o] = adds[o]
  BY <1>0, <1>2 DEF Call
<1>10. CTypeOK'
  BY <1>2, <1>3, <1>8, <1>9, <1>17, <1>18 DEF CInv, CTypeOK
<1>11. ExeInv'
  BY <1>2, <1>8 DEF ExeInv
<1>12. ListenInv'
  BY <1>2, <1>8 DEF ListenInv
<1>13. PortInv'
  BY <1>2 DEF CInv, PortInv
<1>19. AddsInv'
  <2> SUFFICES ASSUME NEW c \in Conns \ raced'
               PROVE  /\ \A x, o \in C!Threads : adds'[x].c = c /\ adds'[o].c = c => x = o
                      /\ \A x \in C!Threads : adds'[x].c = c /\ ~adds'[x].listens => ~connHash'[c].listen
    BY DEF AddsInv
  <2>1. /\ \A x, o \in C!Threads : adds[x].c = c /\ adds[o].c = c => x = o
        /\ \A x \in C!Threads : adds[x].c = c /\ ~adds[x].listens => ~connHash[c].listen
    BY <1>17 DEF CInv, AddsInv
  <2>2. C!NoCall.c # c
    BY DEF C!NoCall, IpcAssumption
  <2>3. \A x \in C!Threads : adds'[x].c = c => x # th /\ adds'[x] = adds[x]
    BY <1>18, <2>2
  <2>4. \A x \in C!Threads : adds'[x].c = c => c # d
    BY <2>1, <2>3
  <2> QED BY <2>1, <2>3, <2>4, <1>3
<1> QED BY <1>10, <1>11, <1>12, <1>13, <1>19 DEF CInv

\* startupClient
LEMMA CStarts ==
  ASSUME IpcAssumption, CInv, NEW e \in Exes, C!startupClient(e) PROVE CInv'
<1> DEFINE n == C!NewTask("exe", ConnOf[e], e)
           x == [in |-> TRUE, task |-> TRUE, status |-> IF exeHash[e].in THEN exeHash[e].status ELSE "unk"]
<1>0. tasks \in Seq(ConnTask) /\ exeHash \in [Exes -> ExeKey] /\ proc \in [Exes -> Lives]
  BY DEF CInv, CTypeOK
<1>1. UNCHANGED <<connHash, pipes, msgs, port, said, exeSaid, late, adds, raced, run_flag_>>
  BY DEF C!startupClient
<1>2. CASE UNCHANGED <<exeHash, tasks, proc>>
  BY <1>1, <1>2 DEF CInv, CTypeOK, ExeInv, ListenInv, PortInv, AddsInv
<1>3. CASE ~exeHash[e].task /\ exeHash' = [exeHash EXCEPT ![e] = x] /\ tasks' = Append(tasks, n) /\ proc' = [proc EXCEPT ![e] = "none"]
  <2>1. n \in ConnTask /\ n.kind = "exe" /\ n.e = e /\ n.quit_flag = "unk"
    BY DEF C!NewTask, ConnTask, ConnFields, IpcAssumption
  <2>2. x \in ExeKey /\ x.task
    BY <1>0 DEF ExeKey
  <2> HIDE DEF n, x
  <2>3. /\ exeHash' \in [Exes -> ExeKey] /\ exeHash'[e].task /\ proc' \in [Exes -> Lives] /\ proc'[e] = "none"
        /\ \A f \in Exes \ {e} : exeHash'[f] = exeHash[f] /\ proc'[f] = proc[f]
    BY <1>0, <1>3, <2>2 DEF Lives
  <2>4. ASSUME NEW f \in Exes PROVE Started(f, tasks', exeHash'[f], exeSaid[f], proc'[f])
    <3>0. Started(f, tasks, exeHash[f], exeSaid[f], proc[f])
      BY DEF CInv, ExeInv
    <3>1. CASE f # e
      BY <3>0, <3>1, <1>0, <1>3, <2>1, <2>3, TaskAdded
    <3>2. CASE f = e
      <4>1. With(tasks, <<"exe", e>>) = {} /\ Single(tasks, <<"exe", e>>)
        BY <3>0, <3>2, <1>3 DEF Started, Tracked
      <4>2. KeyOf(n) = <<"exe", e>>
        BY <2>1, KeyIs
      <4>3. With(tasks', <<"exe", e>>) = {n} /\ Single(tasks', <<"exe", e>>)
        BY <4>1, <4>2, <1>0, <1>3, <2>1, FirstWith
      <4> QED BY <3>2, <4>3, <2>1, <2>3 DEF Started, Tracked
    <3> QED BY <3>1, <3>2
  <2>5. \A c \in Conns \ raced : Heard(c, tasks, connHash[c], said[c], pipes[c], c \in late, msgs)
    BY DEF CInv, ListenInv
  <2>6. tasks' \in Seq(ConnTask) /\ \A c \in Conns \ raced : Heard(c, tasks', connHash[c], said[c], pipes[c], c \in late, msgs)
    BY <2>5, <1>0, <1>3, <2>1, TaskAdded
  <2>7. CTypeOK'
    BY <1>1, <2>3, <2>6 DEF CInv, CTypeOK
  <2>8. ExeInv' /\ ListenInv' /\ PortInv' /\ AddsInv'
    BY <1>1, <2>4, <2>6, CallsKept DEF CInv, ExeInv, ListenInv, PortInv
  <2> QED BY <2>7, <2>8 DEF CInv
<1> QED BY <1>2, <1>3 DEF C!startupClient
-----------------------------------------------------------------------------
\* What has become of a client process does not change where neither its task's flag
\* nor what the object knows of it does.
LEMMA CFlags ==
  ASSUME CInv, SameFlags(tasks, tasks'), UNCHANGED <<exeHash, exeSaid, proc>>
  PROVE  ExeInv'
BY StartedFlags DEF CInv, ExeInv

\* onStatus, for a connection whose pipe and requests are, or become, what is told.
LEMMA CTold ==
  ASSUME CInv, NEW d \in Conns, NEW sts \in Seq(Told), sts # <<>>, C!onEngineStatus(d, sts),
         UNCHANGED <<connHash, exeHash, said, exeSaid, proc, raced>>,
         \A c \in Conns \ {d} : Carries(c, pipes[c], msgs, pipes'[c], msgs'),
         Ends(msgs, d, pipes[d]) => Ends(msgs', d, pipes'[d]),
         ~Free(pipes'[d]) => sts[Len(sts)] = LinkOf(pipes'[d].link)
  PROVE  tasks' \in Seq(ConnTask) /\ late' \in SUBSET Conns /\ ListenInv' /\ ExeInv'
<1> DEFINE x == sts[Len(sts)]
<1>0. tasks \in Seq(ConnTask) /\ late \in SUBSET Conns
  BY DEF CInv, CTypeOK
<1>1. x \in Told /\ Len(sts) \in Nat /\ Len(sts) > 0
  OBVIOUS
<1>2. PICK n \in 0 .. Len(sts) :
        /\ tasks' = [i \in DOMAIN tasks |->
               IF tasks[i].c # d THEN tasks[i]
               ELSE ToldTask(tasks[i], x, tasks[i].changed + Len(sts) - n, tasks[i].ready \/ (tasks[i].st # "done" /\ ~tasks[i].dozes))]
        /\ late' = IF n > 0 \/ \E i \in C!Listening(d) : tasks[i].dozes THEN late \union {d} ELSE late \ {d}
  BY DEF C!onEngineStatus, C!Uncounted, C!Last, ToldTask
<1> DEFINE told1(t) == ToldTask(t, x, t.changed + Len(sts) - n, t.ready \/ (t.st # "done" /\ ~t.dozes))
<1>9. late' \in SUBSET Conns /\ \A c : c # d => (c \in late' <=> c \in late)
  BY <1>0, <1>2
<1>3. ASSUME NEW t \in ConnTask
      PROVE  LET u == told1(t) IN
             /\ u \in ConnTask /\ KeyOf(u) = KeyOf(t) /\ u.kind = t.kind /\ u.c = t.c /\ u.e = t.e
             /\ u.st = t.st /\ u.status = x /\ u.changed = t.changed + Len(sts) - n
             /\ u.ready = (t.ready \/ (t.st # "done" /\ ~t.dozes)) /\ u.quit_flag = t.quit_flag
  <2> DEFINE k == t.changed + Len(sts) - n
             b == t.ready \/ (t.st # "done" /\ ~t.dozes)
  <2>1. k \in Nat /\ b \in BOOLEAN /\ x \in Told \union {"unk", "nofind"}
    BY <1>1, TaskIs
  <2>2. told1(t) = ToldTask(t, x, k, b)
    OBVIOUS
  <2> HIDE DEF x, k, b, told1
  <2>3. LET u == ToldTask(t, x, k, b) IN
        /\ u \in ConnTask /\ KeyOf(u) = KeyOf(t) /\ u.kind = t.kind /\ u.c = t.c /\ u.e = t.e
        /\ u.st = t.st /\ u.status = x /\ u.changed = k /\ u.ready = b /\ u.quit_flag = t.quit_flag
    BY <2>1, TaskTold
  <2> QED BY <2>2, <2>3 DEF k, b
<1>10. tasks' = [i \in DOMAIN tasks |-> IF tasks[i].c # d THEN tasks[i] ELSE told1(tasks[i])]
  BY <1>2
<1> HIDE DEF told1, x
<1>4. /\ tasks' \in Seq(ConnTask) /\ SameKeys(tasks, tasks')
      /\ \A i \in 1 .. Len(tasks) : tasks[i] \in ConnTask /\ tasks'[i] = IF tasks[i].c # d THEN tasks[i] ELSE told1(tasks[i])
  <2>1. DOMAIN tasks = 1 .. Len(tasks) /\ Len(tasks) \in Nat /\ \A i \in 1 .. Len(tasks) : tasks[i] \in ConnTask
    BY <1>0
  <2>2. \A i \in 1 .. Len(tasks) : tasks'[i] = (IF tasks[i].c # d THEN tasks[i] ELSE told1(tasks[i])) /\ tasks'[i] \in ConnTask /\ KeyOf(tasks'[i]) = KeyOf(tasks[i])
    BY <2>1, <1>3, <1>10
  <2>3. tasks' = [i \in 1 .. Len(tasks) |-> tasks'[i]]
    BY <2>1, <1>10
  <2>4. tasks' \in [1 .. Len(tasks) -> ConnTask]
    BY <2>2, <2>3
  <2>5. tasks' \in Seq(ConnTask) /\ Len(tasks') = Len(tasks)
    BY <2>1, <2>4
  <2> QED BY <2>1, <2>2, <2>5 DEF SameKeys
<1>5. ASSUME NEW c \in Conns \ raced PROVE Heard(c, tasks', connHash[c], said[c], pipes'[c], c \in late', msgs')
  <2>0. Heard(c, tasks, connHash[c], said[c], pipes[c], c \in late, msgs)
    BY DEF CInv, ListenInv
  <2>1. ASSUME NEW i \in 1 .. Len(tasks), KeyOf(tasks[i]) = <<"listen", c>>,
               Listened(c, tasks[i], connHash[c], said[c], pipes[c], c \in late, msgs)
        PROVE  Listened(c, tasks'[i], connHash[c], said[c], pipes'[c], c \in late', msgs')
    <3>0. tasks[i].c = c /\ tasks[i] \in ConnTask
      BY <2>1, <1>4, KeyIs
    <3>1. CASE c # d
      <4>1. tasks'[i] = tasks[i] /\ (c \in late' <=> c \in late)
        BY <3>0, <3>1, <1>9, <1>4
      <4> QED BY <4>1, <2>1, <3>1 DEF Carries
    <3>2. CASE c = d
      <4> DEFINE u == tasks'[i]
      <4>1. /\ u.st = tasks[i].st /\ u.status = x /\ u.changed = tasks[i].changed + Len(sts) - n
            /\ u.ready = (tasks[i].ready \/ (tasks[i].st # "done" /\ ~tasks[i].dozes))
        BY <3>0, <3>2, <1>3, <1>4
      <4>2. tasks[i].changed \in Nat
        BY <3>0, TaskIs
      <4>3. Ends(msgs, c, pipes[c]) => Ends(msgs', c, pipes'[c])
        BY <3>2
      <4> HIDE DEF u
      <4> DEFINE lost == n > 0 \/ \E j \in C!Listening(d) : tasks[j].dozes
      <4>4. c \in late' <=> lost
        BY <3>2, <1>2
      <4> HIDE DEF lost
      <4>5. CASE lost
        <5>1. Listened(c, u, connHash[c], said[c], pipes'[c], TRUE, msgs')
          BY <4>1, <4>3, <2>1, ListenedLost
        <5>2. (c \in late') = TRUE
          BY <4>4, <4>5
        <5> QED BY <5>1, <5>2 DEF u
      <4>6. CASE ~lost
        <5>1. n = 0
          BY <4>6 DEF lost
        <5>2. ~tasks[i].dozes
          <6>1. tasks[i].kind = "listen" /\ tasks[i].c = c
            BY <2>1, KeyIs
          <6>2. i \in DOMAIN tasks
            BY <1>0
          <6>3. i \in C!Listening(d)
            BY <6>1, <6>2, <3>2 DEF C!Listening
          <6> QED BY <6>3, <4>6 DEF lost
        <5>3. u.changed \in Nat /\ u.changed > 0
          BY <4>1, <4>2, <5>1, <1>1
        <5>4. u.ready = (tasks[i].ready \/ tasks[i].st # "done")
          BY <4>1, <5>2
        <5>5. ~Free(pipes'[c]) => u.status = LinkOf(pipes'[c].link)
          BY <3>2, <4>1 DEF x
        <5>6. u.status \in Told
          BY <4>1, <1>1
        <5>7. Listened(c, u, connHash[c], said[c], pipes'[c], FALSE, msgs')
          BY <5>3, <5>4, <5>5, <5>6, <4>1, <4>3, <2>1, ListenedTold
        <5>8. (c \in late') = FALSE
          BY <4>4, <4>6
        <5> QED BY <5>7, <5>8 DEF u
      <4> QED BY <4>5, <4>6 DEF u
    <3> QED BY <3>1, <3>2
  <2>2. Unlistened(c, connHash[c], said[c], pipes[c], msgs) => Unlistened(c, connHash[c], said[c], pipes'[c], msgs')
    <3>1. CASE c # d
      BY <3>1 DEF Carries
    <3>2. CASE c = d
      BY <3>2 DEF Unlistened
    <3> QED BY <3>1, <3>2
  <2> QED BY <2>0, <2>1, <2>2, <1>4, HeardMapped
<1>6. SameFlags(tasks, tasks')
  BY <1>3, <1>4 DEF SameFlags
<1>7. ListenInv'
  BY <1>5 DEF ListenInv
<1>8. ExeInv'
  BY <1>4, <1>6, CFlags
<1> QED BY <1>0, <1>9, <1>4, <1>7, <1>8

\* The pipes and what is asked change, and the tasks are not told.
LEMMA CUntold ==
  ASSUME CInv, UNCHANGED <<connHash, exeHash, said, exeSaid, proc, tasks, late, raced>>,
         \A c \in Conns : Carries(c, pipes[c], msgs, pipes'[c], msgs')
  PROVE  ListenInv' /\ ExeInv'
<1>1. ASSUME NEW c \in Conns \ raced PROVE Heard(c, tasks, connHash[c], said[c], pipes'[c], c \in late, msgs')
  <2>1. Heard(c, tasks, connHash[c], said[c], pipes[c], c \in late, msgs)
    BY DEF CInv, ListenInv
  <2> QED BY <2>1 DEF Heard, Carries
<1>2. ListenInv'
  BY <1>1 DEF ListenInv
<1>3. ExeInv'
  BY DEF CInv, ExeInv
<1> QED BY <1>2, <1>3

\* What is on its way to the completion thread stays there when more is.
LEMMA PortMore ==
  ASSUME NEW s \in Seq(Completion), NEW d \in Completion
  PROVE  /\ Append(s, d) \in Seq(Completion)
         /\ \A i \in 1 .. Len(s) : \E j \in 1 .. Len(Append(s, d)) : Append(s, d)[j] = s[i]
         /\ \E j \in 1 .. Len(Append(s, d)) : Append(s, d)[j] = d
<1>1. Append(s, d) \in Seq(Completion) /\ Len(Append(s, d)) = Len(s) + 1 /\ Len(s) \in Nat
      /\ (\A i \in 1 .. Len(s) : Append(s, d)[i] = s[i]) /\ Append(s, d)[Len(s) + 1] = d
  BY AppendProperties
<1>2. \A i \in 1 .. Len(s) : i \in 1 .. Len(Append(s, d))
  BY <1>1
<1>3. Len(s) + 1 \in 1 .. Len(Append(s, d))
  BY <1>1
<1> QED BY <1>1, <1>2, <1>3

\* All but the first stay when the first has been taken.
LEMMA PortLess ==
  ASSUME NEW s \in Seq(Completion), s # <<>>
  PROVE  /\ Tail(s) \in Seq(Completion) /\ Head(s) \in Completion
         /\ \A i \in 1 .. Len(s) : s[i] = Head(s) \/ \E j \in 1 .. Len(Tail(s)) : Tail(s)[j] = s[i]
<1>1. Len(s) \in Nat /\ Len(s) > 0 /\ Len(Tail(s)) = Len(s) - 1 /\ Head(s) = s[1] /\ \A i \in 1 .. Len(s) - 1 : Tail(s)[i] = s[i + 1]
  BY HeadGoes
<1>2. Tail(s) \in Seq(Completion) /\ Head(s) \in Completion
  BY HeadTailProperties
<1>3. ASSUME NEW i \in 1 .. Len(s), i # 1 PROVE i - 1 \in 1 .. Len(Tail(s)) /\ Tail(s)[i - 1] = s[i]
  <2>1. i - 1 \in 1 .. Len(s) - 1 /\ (i - 1) + 1 = i
    BY <1>1, <1>3
  <2> QED BY <2>1, <1>1
<1>4. ASSUME NEW i \in 1 .. Len(s) PROVE s[i] = Head(s) \/ \E j \in 1 .. Len(Tail(s)) : Tail(s)[j] = s[i]
  BY <1>1, <1>3
<1> QED BY <1>2, <1>4
-----------------------------------------------------------------------------
\* The message thread is asked for one thing of one connection.
LEMMA AskIs ==
  ASSUME NEW m \in ConnMessage
  PROVE  /\ m.op \in {"client", "server"} => m.c \in Conns /\ Makes(m, m.c) /\ \A c : c # m.c => ~Makes(m, c) /\ ~Drops(m, c)
         /\ m.op = "destroy" => m.c \in Conns /\ Drops(m, m.c) /\ (\A c : ~Makes(m, c)) /\ \A c : c # m.c => ~Drops(m, c)
         /\ m.op = "stop" => \A c : ~Makes(m, c) /\ ~Drops(m, c)
         /\ m.op \in {"client", "server", "destroy", "stop"}
BY DEF ConnMessage, Makes, Drops

\* The message thread makes a pipe, or finds one, for a client and for a server.
LEMMA CMakes ==
  ASSUME CInv, msgs # <<>>, msgs' = Tail(msgs), NEW d \in Conns, Makes(Head(msgs), d),
         UNCHANGED <<connHash, exeHash, said, exeSaid, proc, adds, raced, run_flag_, port>>,
         \/ C!createClient(d)
         \/ C!createPipe(d)
  PROVE  CInv'
<1> DEFINE m == Head(msgs)
<1>0. msgs \in Seq(ConnMessage) /\ pipes \in [Conns -> PipeOf] /\ m \in ConnMessage /\ msgs' \in Seq(ConnMessage)
  <2>1. msgs \in Seq(ConnMessage) /\ pipes \in [Conns -> PipeOf]
    BY DEF CInv, CTypeOK
  <2> QED BY <2>1, HeadTailProperties
<1>1. \A c \in Conns \ {d} : ~Makes(m, c) /\ ~Drops(m, c)
  BY DEF Makes, Drops
<1>2. ASSUME NEW c \in Conns, c # d \/ pipes[c] # C!NoPipe, pipes'[c] = pipes[c]
      PROVE  Carries(c, pipes[c], msgs, pipes'[c], msgs')
  <2>1. \/ ~Makes(m, c) /\ ~Drops(m, c) /\ pipes'[c] = pipes[c]
        \/ Makes(m, c) /\ ~Free(pipes[c]) /\ pipes'[c] = pipes[c]
    BY <1>1, <1>2 DEF Free
  <2> QED BY <1>0, <2>1, ListenedDone
<1>3. ASSUME NEW q \in PipeOf, pipes' = [pipes EXCEPT ![d] = q], q.link \in {"none", "wait", "up"},
             NEW sts \in Seq(Told), sts # <<>>, C!onEngineStatus(d, sts), ~Free(q) => sts[Len(sts)] = LinkOf(q.link)
      PROVE  CInv'
  <2>1. pipes' \in [Conns -> PipeOf] /\ pipes'[d] = q /\ \A c \in Conns \ {d} : pipes'[c] = pipes[c]
    BY <1>0, <1>3
  <2>2. Ends(msgs, d, pipes[d]) => Ends(msgs', d, pipes'[d])
    BY <1>0, EndsTried
  <2>3. tasks' \in Seq(ConnTask) /\ late' \in SUBSET Conns /\ ListenInv' /\ ExeInv'
    BY <1>2, <1>3, <2>1, <2>2, CTold
  <2>4. CTypeOK'
    BY <1>0, <2>1, <2>3 DEF CInv, CTypeOK
  <2>5. PortInv' /\ AddsInv'
    BY <2>1, <1>3, CallsKept DEF CInv, PortInv
  <2> QED BY <2>3, <2>4, <2>5 DEF CInv
<1>4. ASSUME pipes[d] # C!NoPipe, UNCHANGED <<pipes, tasks, late>> PROVE CInv'
  <2>1. ListenInv' /\ ExeInv'
    BY <1>2, <1>4, CUntold
  <2>2. CTypeOK' /\ PortInv' /\ AddsInv'
    BY <1>0, <1>4, CallsKept DEF CInv, CTypeOK, PortInv
  <2> QED BY <2>1, <2>2 DEF CInv
<1>5. \A a, b \in Told : <<a>> \in Seq(Told) /\ <<a>> # <<>> /\ <<a>>[Len(<<a>>)] = a
                         /\ <<a, b>> \in Seq(Told) /\ <<a, b>> # <<>> /\ <<a, b>>[Len(<<a, b>>)] = b
  OBVIOUS
<1>6. {"connecting", "connected", "closed"} \subseteq Told /\ LinkOf("wait") = "connecting" /\ LinkOf("up") = "connected"
  BY DEF Told, LinkOf
<1>7. /\ [type |-> "client", link |-> "up"] \in PipeOf /\ [type |-> "client", link |-> "up"].link = "up"
      /\ [type |-> "server", link |-> "wait"] \in PipeOf /\ [type |-> "server", link |-> "wait"].link = "wait"
      /\ C!NoPipe \in PipeOf /\ C!NoPipe.link = "none" /\ Free(C!NoPipe)
  BY DEF PipeOf, C!NoPipe, Free
<1>8. pipes[d] = C!NoPipe => pipes = [pipes EXCEPT ![d] = C!NoPipe]
  BY <1>0
<1>9. CASE C!createClient(d)
  <2>1. CASE pipes' = [pipes EXCEPT ![d] = [type |-> "client", link |-> "up"]] /\ C!onEngineStatus(d, <<"connecting", "connected">>)
    BY <2>1, <1>3, <1>5, <1>6, <1>7
  <2>2. CASE pipes[d] = C!NoPipe /\ UNCHANGED pipes /\ C!onEngineStatus(d, <<"connecting", "closed">>)
    <3>1. pipes' = [pipes EXCEPT ![d] = C!NoPipe]
      BY <2>2, <1>8
    <3> QED BY <3>1, <2>2, <1>3, <1>5, <1>6, <1>7
  <2>3. CASE pipes[d] # C!NoPipe /\ UNCHANGED pipes /\ C!NoStatus
    BY <2>3, <1>4 DEF C!NoStatus
  <2> QED BY <1>9, <2>1, <2>2, <2>3 DEF C!createClient
<1>10. CASE C!createPipe(d)
  <2>1. CASE pipes' = [pipes EXCEPT ![d] = [type |-> "server", link |-> "wait"]] /\ C!onEngineStatus(d, <<"connecting">>)
    BY <2>1, <1>3, <1>5, <1>6, <1>7
  <2>2. CASE pipes[d] = C!NoPipe /\ UNCHANGED pipes /\ C!onEngineStatus(d, <<"closed">>)
    <3>1. pipes' = [pipes EXCEPT ![d] = C!NoPipe]
      BY <2>2, <1>8
    <3> QED BY <3>1, <2>2, <1>3, <1>5, <1>6, <1>7
  <2>3. CASE pipes[d] # C!NoPipe /\ UNCHANGED pipes /\ C!NoStatus
    BY <2>3, <1>4 DEF C!NoStatus
  <2> QED BY <1>10, <2>1, <2>2, <2>3 DEF C!createPipe
<1> QED BY <1>9, <1>10

\* The message thread takes a pipe away, or tells the completion thread to stop.
LEMMA CDrops ==
  ASSUME IpcAssumption, CInv, msgs # <<>>, msgs' = Tail(msgs),
         UNCHANGED <<connHash, exeHash, said, exeSaid, proc, adds, raced, run_flag_, tasks, late>>,
         \/ Head(msgs).op = "destroy" /\ C!deatch(Head(msgs).c)
         \/ Head(msgs).op = "stop" /\ port' = Append(port, [c |-> Nothing, what |-> "quit"]) /\ UNCHANGED pipes
  PROVE  CInv'
<1> DEFINE m == Head(msgs)
<1>0. msgs \in Seq(ConnMessage) /\ pipes \in [Conns -> PipeOf] /\ m \in ConnMessage /\ msgs' \in Seq(ConnMessage) /\ port \in Seq(Completion)
  <2>1. msgs \in Seq(ConnMessage) /\ pipes \in [Conns -> PipeOf] /\ port \in Seq(Completion)
    BY DEF CInv, CTypeOK
  <2> QED BY <2>1, HeadTailProperties
<1>1. /\ pipes' \in [Conns -> PipeOf] /\ \A c \in Conns : pipes'[c] \in {pipes[c], C!NoPipe}
      /\ \A c \in Conns : Drops(m, c) => pipes'[c] = C!NoPipe
      /\ \A c \in Conns : ~Drops(m, c) => pipes'[c] = pipes[c]
      /\ \A c : ~Makes(m, c)
  <2>1. CASE m.op = "destroy" /\ C!deatch(m.c)
    <3>1. pipes' = [pipes EXCEPT ![m.c] = C!NoPipe] /\ C!NoPipe \in PipeOf
      BY <2>1 DEF C!deatch, PipeOf
    <3>2. m.c \in Conns /\ Drops(m, m.c) /\ (\A c : ~Makes(m, c)) /\ \A c : c # m.c => ~Drops(m, c)
      BY <2>1, <1>0, AskIs
    <3> QED BY <3>1, <3>2, <1>0
  <2>2. CASE m.op = "stop" /\ UNCHANGED pipes
    BY <2>2, <1>0, AskIs
  <2> QED BY <2>1, <2>2
<1>2. port' = port \/ \E x \in Completion : port' = Append(port, x)
  <2>1. CASE m.op = "destroy" /\ C!deatch(m.c)
    <3>1. m.c \in Conns
      BY <2>1, <1>0, AskIs
    <3>2. [c |-> m.c, what |-> "aborted"] \in Completion
      BY <3>1 DEF Completion
    <3> QED BY <2>1, <3>2 DEF C!deatch
  <2>2. CASE port' = Append(port, [c |-> Nothing, what |-> "quit"])
    BY <2>2 DEF Completion
  <2> QED BY <2>1, <2>2
<1>3. port' \in Seq(Completion) /\ \A i \in 1 .. Len(port) : \E j \in 1 .. Len(port') : port'[j] = port[i]
  <2>1. CASE port' = port
    BY <2>1, <1>0
  <2>2. ASSUME NEW x \in Completion, port' = Append(port, x) PROVE <1>3!:
    BY <2>2, <1>0, PortMore
  <2> QED BY <2>1, <2>2, <1>2
<1>4. ListenInv' /\ ExeInv'
  <2>1. ASSUME NEW c \in Conns
        PROVE  Carries(c, pipes[c], msgs, pipes'[c], msgs')
    <3>1. \/ ~Makes(m, c) /\ ~Drops(m, c) /\ pipes'[c] = pipes[c]
          \/ Drops(m, c) /\ pipes'[c] = C!NoPipe
      BY <1>1
    <3> QED BY <3>1, <1>0, ListenedDone
  <2> QED BY <2>1, CUntold
<1>5. CTypeOK'
  BY <1>0, <1>1, <1>3 DEF CInv, CTypeOK
<1>6. PortInv'
  <2>1. C!NoPipe.link = "none"
    BY DEF C!NoPipe
  <2>2. ASSUME NEW c \in Conns, run_flag_, pipes'[c].link = "joined"
        PROVE  \E i \in 1 .. Len(port') : port'[i].c = c /\ port'[i].what = "conn"
    <3>1. pipes[c].link = "joined"
      BY <1>1, <2>1, <2>2
    <3>2. PICK i \in 1 .. Len(port) : port[i].c = c /\ port[i].what = "conn"
      BY <3>1, <2>2 DEF CInv, PortInv
    <3> QED BY <3>2, <1>3
  <2>3. ASSUME NEW c \in Conns, run_flag_, pipes'[c].link = "failing"
        PROVE  \E i \in 1 .. Len(port') : port'[i].c = c /\ port'[i].what = "down"
    <3>1. pipes[c].link = "failing"
      BY <1>1, <2>1, <2>3
    <3>2. PICK i \in 1 .. Len(port) : port[i].c = c /\ port[i].what = "down"
      BY <3>1, <2>3 DEF CInv, PortInv
    <3> QED BY <3>2, <1>3
  <2> QED BY <2>2, <2>3 DEF PortInv
<1>7. AddsInv'
  BY CallsKept
<1> QED BY <1>4, <1>5, <1>6, <1>7 DEF CInv

\* onMessage
LEMMA CMessage ==
  ASSUME IpcAssumption, CInv, C!onMessage PROVE CInv'
<1> DEFINE m == Head(msgs)
<1>1. msgs # <<>> /\ msgs' = Tail(msgs) /\ UNCHANGED <<connHash, exeHash, said, exeSaid, proc, adds, raced, run_flag_>>
  BY DEF C!onMessage
<1>2. m \in ConnMessage
  <2>1. msgs \in Seq(ConnMessage)
    BY DEF CInv, CTypeOK
  <2> QED BY <2>1, <1>1, HeadTailProperties
<1>3. CASE m.op = "client" /\ C!createClient(m.c) /\ UNCHANGED port
  BY <1>1, <1>2, <1>3, AskIs, CMakes
<1>4. CASE m.op = "server" /\ C!createPipe(m.c) /\ UNCHANGED port
  BY <1>1, <1>2, <1>4, AskIs, CMakes
<1>5. CASE m.op = "destroy" /\ C!deatch(m.c)
  BY <1>1, <1>5, CDrops DEF C!deatch, C!NoStatus
<1>6. CASE m.op = "stop" /\ port' = Append(port, [c |-> Nothing, what |-> "quit"]) /\ UNCHANGED pipes /\ C!NoStatus
  BY <1>1, <1>6, CDrops DEF C!NoStatus
<1> QED BY <1>3, <1>4, <1>5, <1>6 DEF C!onMessage
-----------------------------------------------------------------------------
\* The other end connects, or the connection breaks.
LEMMA CLinks ==
  ASSUME CInv, NEW d \in Conns, C!PeerConnects(d) \/ C!LinkFails(d) PROVE CInv'
<1>0. pipes \in [Conns -> PipeOf] /\ port \in Seq(Completion)
  BY DEF CInv, CTypeOK
<1> SUFFICES ASSUME NEW from, NEW to, NEW what, C!Links(d, from, to, what),
                   (from = "wait" /\ to = "joined" /\ what = "conn") \/ (from = "up" /\ to = "failing" /\ what = "down")
            PROVE  CInv'
  BY DEF C!PeerConnects, C!LinkFails
<1>1. /\ run_flag_ /\ pipes[d].link = from /\ pipes' = [pipes EXCEPT ![d] = LinkedPipe(pipes[d], to)]
      /\ port' = Append(port, [c |-> d, what |-> what])
      /\ UNCHANGED <<connHash, exeHash, msgs, tasks, said, exeSaid, proc, late, adds, raced, run_flag_>>
  BY <1>0 DEF C!Links, LinkedPipe
<1>2. (from = "wait" /\ to = "joined" /\ what = "conn") \/ (from = "up" /\ to = "failing" /\ what = "down")
  OBVIOUS
<1>3. /\ pipes' \in [Conns -> PipeOf] /\ pipes'[d].link = to /\ (Free(pipes'[d]) <=> Free(pipes[d]))
      /\ \A c \in Conns \ {d} : pipes'[c] = pipes[c]
  <2>1. pipes[d] \in PipeOf /\ ~Free(pipes[d])
    BY <1>0, <1>1, <1>2, PipeIs
  <2> DEFINE q == LinkedPipe(pipes[d], to)
  <2>3. pipes' = [pipes EXCEPT ![d] = q]
    BY <1>1
  <2>4. to # "none" /\ q \in PipeOf /\ q.link = to
    BY <2>1, <1>2, PipeIs
  <2> HIDE DEF q
  <2>5. ~Free(q)
    BY <2>4, PipeIs
  <2> QED BY <1>0, <2>1, <2>3, <2>4, <2>5
<1>4. LinkOf(pipes'[d].link) = LinkOf(pipes[d].link)
  BY <1>1, <1>2, <1>3 DEF LinkOf
<1>5. \A c \in Conns : Carries(c, pipes[c], msgs, pipes'[c], msgs)
  <2>1. ASSUME NEW c \in Conns PROVE (Free(pipes[c]) <=> Free(pipes'[c])) /\ LinkOf(pipes[c].link) = LinkOf(pipes'[c].link)
    BY <1>3, <1>4
  <2> QED BY <2>1, ListenedMoved
<1>6. ListenInv' /\ ExeInv'
  BY <1>1, <1>5, CUntold
<1>7. [c |-> d, what |-> what] \in Completion
  BY <1>2 DEF Completion
<1>8. /\ port' \in Seq(Completion)
      /\ \A i \in 1 .. Len(port) : \E j \in 1 .. Len(port') : port'[j] = port[i]
      /\ \E j \in 1 .. Len(port') : port'[j].c = d /\ port'[j].what = what
  <2> DEFINE x == [c |-> d, what |-> what]
  <2>1. x.c = d /\ x.what = what /\ x \in Completion /\ port' = Append(port, x)
    BY <1>1, <1>7
  <2> HIDE DEF x
  <2> QED BY <2>1, <1>0, PortMore
<1>9. CTypeOK'
  BY <1>1, <1>3, <1>8 DEF CInv, CTypeOK
<1>10. PortInv'
  <2>1. ASSUME NEW c \in Conns, NEW k, NEW w, <<k, w>> \in {<<"joined", "conn">>, <<"failing", "down">>}, pipes'[c].link = k
        PROVE  \E i \in 1 .. Len(port') : port'[i].c = c /\ port'[i].what = w
    <3>1. CASE c = d
      BY <2>1, <3>1, <1>2, <1>3, <1>8
    <3>2. CASE c # d
      <4>1. PICK i \in 1 .. Len(port) : port[i].c = c /\ port[i].what = w
        BY <2>1, <3>2, <1>1, <1>3 DEF CInv, PortInv
      <4> QED BY <4>1, <1>8
    <3> QED BY <3>1, <3>2
  <2>2. ASSUME NEW c \in Conns, pipes'[c].link = "joined" PROVE \E i \in 1 .. Len(port') : port'[i].c = c /\ port'[i].what = "conn"
    BY <2>1, <2>2
  <2>3. ASSUME NEW c \in Conns, pipes'[c].link = "failing" PROVE \E i \in 1 .. Len(port') : port'[i].c = c /\ port'[i].what = "down"
    BY <2>1, <2>3
  <2> QED BY <2>2, <2>3 DEF PortInv
<1>11. AddsInv'
  BY <1>1, CallsKept
<1> QED BY <1>6, <1>9, <1>10, <1>11 DEF CInv

\* What the completion thread keeps of what is on its way: all but the first, which
\* is for one connection.
LEMMA PortTaken ==
  ASSUME CInv, port # <<>>, pipes' \in [Conns -> PipeOf], run_flag_, port' \in Seq(Completion),
         \A i \in 1 .. Len(Tail(port)) : \E j \in 1 .. Len(port') : port'[j] = Tail(port)[i],
         \A c \in Conns : pipes'[c] = pipes[c] \/ pipes'[c].link \notin {"joined", "failing"},
         \A c \in Conns : Head(port).c = c => pipes'[c].link \notin {"joined", "failing"}
  PROVE  PortInv'
<1>0. port \in Seq(Completion)
  BY DEF CInv, CTypeOK
<1>1. ASSUME NEW c \in Conns, NEW k, NEW w, <<k, w>> \in {<<"joined", "conn">>, <<"failing", "down">>}, pipes'[c].link = k
      PROVE  \E i \in 1 .. Len(port') : port'[i].c = c /\ port'[i].what = w
  <2>1. pipes[c].link = k /\ Head(port).c # c
    BY <1>1
  <2>2. PICK i \in 1 .. Len(port) : port[i].c = c /\ port[i].what = w
    BY <1>1, <2>1 DEF CInv, PortInv
  <2>3. PICK j \in 1 .. Len(Tail(port)) : Tail(port)[j] = port[i]
    BY <1>0, <2>1, <2>2, PortLess
  <2>4. PICK m \in 1 .. Len(port') : port'[m] = Tail(port)[j]
    OBVIOUS
  <2> QED BY <2>2, <2>3, <2>4
<1>2. ASSUME NEW c \in Conns, pipes'[c].link = "joined" PROVE \E i \in 1 .. Len(port') : port'[i].c = c /\ port'[i].what = "conn"
  BY <1>1, <1>2
<1>3. ASSUME NEW c \in Conns, pipes'[c].link = "failing" PROVE \E i \in 1 .. Len(port') : port'[i].c = c /\ port'[i].what = "down"
  BY <1>1, <1>3
<1> QED BY <1>2, <1>3 DEF PortInv

\* onCompletionStatus
LEMMA CCompletion ==
  ASSUME IpcAssumption, CInv, C!onCompletionStatus PROVE CInv'
<1> DEFINE d == Head(port)
<1>0. /\ run_flag_ /\ port # <<>> /\ UNCHANGED <<connHash, exeHash, msgs, said, exeSaid, proc, adds, raced>>
      /\ pipes \in [Conns -> PipeOf] /\ port \in Seq(Completion) /\ d \in Completion /\ Tail(port) \in Seq(Completion)
  <2>1. run_flag_ /\ port # <<>> /\ UNCHANGED <<connHash, exeHash, msgs, said, exeSaid, proc, adds, raced>>
    BY DEF C!onCompletionStatus
  <2>2. pipes \in [Conns -> PipeOf] /\ port \in Seq(Completion)
    BY DEF CInv, CTypeOK
  <2> QED BY <2>1, <2>2, PortLess
<1>8. AddsInv'
  BY <1>0, CallsKept
<1>1. (d.what = "quit" /\ d.c = Nothing) \/ (d.what \in {"conn", "down", "aborted"} /\ d.c \in Conns)
  BY <1>0 DEF Completion
<1>2. CASE d.what = "quit" /\ run_flag_' = FALSE /\ port' = <<>> /\ UNCHANGED pipes /\ C!NoStatus
  <2>1. CTypeOK'
    <3>1. <<>> \in Seq(Completion)
      OBVIOUS
    <3> QED BY <1>0, <1>2, <3>1 DEF CInv, CTypeOK, C!NoStatus
  <2>2. ExeInv' /\ ListenInv'
    BY <1>0, <1>2 DEF CInv, ExeInv, ListenInv, C!NoStatus
  <2>3. PortInv'
    BY <1>2 DEF PortInv
  <2> QED BY <2>1, <2>2, <2>3, <1>8 DEF CInv
<1>3. CASE d.what # "quit" /\ pipes[d.c].link = "none" /\ port' = Tail(port) /\ UNCHANGED <<pipes, run_flag_>> /\ C!NoStatus
  <2>1. CTypeOK' /\ ExeInv' /\ ListenInv'
    BY <1>0, <1>3 DEF CInv, CTypeOK, ExeInv, ListenInv, C!NoStatus
  <2>2. \A c \in Conns : d.c = c => pipes'[c].link = "none"
    BY <1>3
  <2>3. PortInv'
    BY <1>0, <1>3, <2>2, PortTaken
  <2> QED BY <2>1, <2>3, <1>8 DEF CInv
<1>4. ASSUME d.what # "quit", pipes[d.c].link # "none", NEW x \in Told, C!onEngineStatus(d.c, <<x>>), UNCHANGED run_flag_,
             NEW k \in {"up", "down"}, LinkOf(k) = x, pipes' = [pipes EXCEPT ![d.c].link = k],
             port' = Tail(port) \/ port' = Append(Tail(port), [c |-> d.c, what |-> "aborted"])
      PROVE  CInv'
  <2>1. d.c \in Conns /\ pipes[d.c] \in PipeOf /\ ~Free(pipes[d.c])
    BY <1>0, <1>1, <1>4, PipeIs
  <2> DEFINE q == LinkedPipe(pipes[d.c], k)
  <2>2. q \in PipeOf /\ q.link = k
    BY <2>1, PipeIs
  <2>3. pipes' = [pipes EXCEPT ![d.c] = q]
    BY <1>0, <1>4, <2>1 DEF LinkedPipe
  <2> HIDE DEF q
  <2>4. /\ pipes' \in [Conns -> PipeOf] /\ pipes'[d.c] = q /\ \A c \in Conns \ {d.c} : pipes'[c] = pipes[c]
        /\ ~Free(pipes'[d.c]) /\ pipes'[d.c].link = k
    <3>1. ~Free(q)
      BY <2>2, PipeIs
    <3> QED BY <1>0, <2>1, <2>2, <2>3, <3>1
  <2>5. \A c \in Conns \ {d.c} : Carries(c, pipes[c], msgs, pipes'[c], msgs')
    BY <1>0, <2>4 DEF Carries
  <2>6. Ends(msgs, d.c, pipes[d.c]) => Ends(msgs', d.c, pipes'[d.c])
    BY <1>0, <2>1, <2>4 DEF Ends, Clear
  <2>7. <<x>> \in Seq(Told) /\ <<x>> # <<>> /\ <<x>>[Len(<<x>>)] = x
    OBVIOUS
  <2>8. <<x>>[Len(<<x>>)] = LinkOf(pipes'[d.c].link)
    BY <1>4, <2>4, <2>7
  <2>9. tasks' \in Seq(ConnTask) /\ late' \in SUBSET Conns /\ ListenInv' /\ ExeInv'
    BY <1>0, <1>4, <2>1, <2>5, <2>6, <2>7, <2>8, CTold
  <2>10. [c |-> d.c, what |-> "aborted"] \in Completion
    BY <2>1 DEF Completion
  <2>11. port' \in Seq(Completion) /\ \A i \in 1 .. Len(Tail(port)) : \E j \in 1 .. Len(port') : port'[j] = Tail(port)[i]
    <3>1. CASE port' = Tail(port)
      BY <3>1, <1>0
    <3>2. CASE port' = Append(Tail(port), [c |-> d.c, what |-> "aborted"])
      <4> DEFINE s == Tail(port)
                 a == [c |-> d.c, what |-> "aborted"]
      <4>1. s \in Seq(Completion) /\ a \in Completion /\ port' = Append(s, a)
        BY <3>2, <1>0, <2>10
      <4> HIDE DEF s, a
      <4>2. Append(s, a) \in Seq(Completion) /\ \A i \in 1 .. Len(s) : \E j \in 1 .. Len(Append(s, a)) : Append(s, a)[j] = s[i]
        BY <4>1, PortMore
      <4> QED BY <4>1, <4>2 DEF s
    <3> QED BY <3>1, <3>2, <1>4
  <2>12. \A c \in Conns : /\ pipes'[c] = pipes[c] \/ pipes'[c].link \notin {"joined", "failing"}
                          /\ d.c = c => pipes'[c].link \notin {"joined", "failing"}
    BY <2>4
  <2>13. PortInv'
    BY <1>0, <2>4, <2>11, <2>12, PortTaken
  <2>14. CTypeOK'
    BY <1>0, <1>4, <2>4, <2>9, <2>11 DEF CInv, CTypeOK
  <2> QED BY <2>9, <2>13, <2>14, <1>8 DEF CInv
<1>5. LinkOf("up") = "connected" /\ LinkOf("down") = "closed" /\ {"connected", "closed"} \subseteq Told
  BY DEF LinkOf, Told
<1>6. CASE /\ d.what = "conn" /\ pipes[d.c].link # "none" /\ C!onEngineStatus(d.c, <<"connected">>)
           /\ pipes' = [pipes EXCEPT ![d.c].link = "up"] /\ port' = Tail(port) /\ UNCHANGED run_flag_
  BY <1>4, <1>5, <1>6
<1>7. CASE /\ d.what \in {"down", "aborted"} /\ pipes[d.c].link # "none" /\ C!onEngineStatus(d.c, <<"closed">>)
           /\ pipes' = [pipes EXCEPT ![d.c].link = "down"] /\ UNCHANGED run_flag_
           /\ port' = IF pipes[d.c].link \in {"wait", "up"} THEN Append(Tail(port), [c |-> d.c, what |-> "aborted"]) ELSE Tail(port)
  BY <1>4, <1>5, <1>7
<1> HIDE DEF d
<1> QED BY <1>2, <1>3, <1>6, <1>7 DEF C!onCompletionStatus, d
-----------------------------------------------------------------------------
\* One task is changed, which is none that listens.
LEMMA CTouches ==
  ASSUME CInv, NEW i \in 1 .. Len(tasks), NEW u \in ConnTask, KeyOf(u) = KeyOf(tasks[i]), tasks[i].kind # "listen",
         tasks' = SetAt(tasks, i, u), UNCHANGED <<connHash, said, pipes, msgs, raced>>, late \subseteq late'
  PROVE  tasks' \in Seq(ConnTask) /\ SameKeys(tasks, tasks') /\ ListenInv'
<1>1. tasks \in Seq(ConnTask)
  BY DEF CInv, CTypeOK
<1>2. tasks' \in Seq(ConnTask) /\ SameKeys(tasks, tasks') /\ \A j \in 1 .. Len(tasks) : j # i => tasks'[j] = tasks[j]
  BY <1>1, ChangedIs
<1>3. ASSUME NEW c \in Conns \ raced PROVE Heard(c, tasks', connHash[c], said[c], pipes[c], c \in late', msgs)
  <2>1. Heard(c, tasks, connHash[c], said[c], pipes[c], c \in late, msgs)
    BY DEF CInv, ListenInv
  <2>2. c \in late => c \in late'
    OBVIOUS
  <2>3. Heard(c, tasks, connHash[c], said[c], pipes[c], c \in late', msgs)
    BY <2>1, <2>2 DEF Heard, Listened
  <2>4. ASSUME NEW j \in 1 .. Len(tasks), KeyOf(tasks[j]) = <<"listen", c>> PROVE tasks'[j] = tasks[j]
    <3>1. KeyOf(tasks[i]) # <<"listen", c>>
      BY KeyIs
    <3> QED BY <2>4, <3>1, <1>2
  <2>5. ASSUME NEW j \in 1 .. Len(tasks), KeyOf(tasks[j]) = <<"listen", c>>, Listened(c, tasks[j], connHash[c], said[c], pipes[c], c \in late', msgs)
        PROVE  Listened(c, tasks'[j], connHash[c], said[c], pipes[c], c \in late', msgs)
    BY <2>4, <2>5
  <2>6. Unlistened(c, connHash[c], said[c], pipes[c], msgs) => Unlistened(c, connHash[c], said[c], pipes[c], msgs)
    OBVIOUS
  <2>7. SameKeys(tasks, tasks')
    BY <1>2
  <2> QED BY <2>3, <2>5, <2>6, <2>7, HeardMapped
<1>4. ListenInv'
  BY <1>3 DEF ListenInv
<1> QED BY <1>2, <1>4

\* One task is changed, which listens to a connection.
LEMMA CHears ==
  ASSUME CInv, NEW i \in 1 .. Len(tasks), NEW u \in ConnTask, KeyOf(u) = KeyOf(tasks[i]), tasks[i].kind = "listen",
         tasks' = SetAt(tasks, i, u), UNCHANGED <<pipes, raced>>,
         \A c \in Conns : c # tasks[i].c => connHash'[c] = connHash[c] /\ said'[c] = said[c] /\ (c \in late' <=> c \in late),
         \A c \in Conns : c # tasks[i].c => Carries(c, pipes[c], msgs, pipes[c], msgs'),
         LET c == tasks[i].c IN
         Listened(c, tasks[i], connHash[c], said[c], pipes[c], c \in late, msgs) => Listened(c, u, connHash'[c], said'[c], pipes[c], c \in late', msgs')
  PROVE  tasks' \in Seq(ConnTask) /\ SameKeys(tasks, tasks') /\ ListenInv'
<1> DEFINE d == tasks[i].c
<1>1. tasks \in Seq(ConnTask) /\ tasks[i] \in ConnTask
  BY DEF CInv, CTypeOK
<1>2. tasks' \in Seq(ConnTask) /\ SameKeys(tasks, tasks') /\ tasks'[i] = u /\ \A j \in 1 .. Len(tasks) : j # i => tasks'[j] = tasks[j]
  BY <1>1, ChangedIs
<1>3. ASSUME NEW c \in Conns \ raced PROVE Heard(c, tasks', connHash'[c], said'[c], pipes[c], c \in late', msgs')
  <2>1. Heard(c, tasks, connHash[c], said[c], pipes[c], c \in late, msgs)
    BY DEF CInv, ListenInv
  <2>2. KeyOf(tasks[i]) = <<"listen", d>>
    BY KeyIs
  <2> HIDE DEF d
  <2>3. CASE c # d
    <3>1. ASSUME NEW j \in 1 .. Len(tasks), KeyOf(tasks[j]) = <<"listen", c>> PROVE tasks'[j] = tasks[j]
      BY <2>2, <2>3, <3>1, <1>2
    <3>2. ASSUME NEW j \in 1 .. Len(tasks), KeyOf(tasks[j]) = <<"listen", c>>, Listened(c, tasks[j], connHash[c], said[c], pipes[c], c \in late, msgs)
          PROVE  Listened(c, tasks'[j], connHash'[c], said'[c], pipes[c], c \in late', msgs')
      <4>1. connHash'[c] = connHash[c] /\ said'[c] = said[c] /\ (c \in late' <=> c \in late) /\ Carries(c, pipes[c], msgs, pipes[c], msgs')
        BY <2>3 DEF d
      <4>2. Listened(c, tasks[j], connHash[c], said[c], pipes[c], c \in late, msgs')
        BY <4>1, <3>2 DEF Carries
      <4> QED BY <4>1, <4>2, <3>1, <3>2 DEF Listened
    <3>3. Unlistened(c, connHash[c], said[c], pipes[c], msgs) => Unlistened(c, connHash'[c], said'[c], pipes[c], msgs')
      <4>1. connHash'[c] = connHash[c] /\ said'[c] = said[c] /\ Carries(c, pipes[c], msgs, pipes[c], msgs')
        BY <2>3 DEF d
      <4> QED BY <4>1 DEF Carries
    <3>4. SameKeys(tasks, tasks')
      BY <1>2
    <3> QED BY <2>1, <3>2, <3>3, <3>4, HeardMapped
  <2>4. CASE c = d
    <3>1. Single(tasks, <<"listen", c>>)
      BY <2>1 DEF Heard
    <3>2. \A j \in 1 .. Len(tasks) : KeyOf(tasks[j]) = <<"listen", c>> => j = i
      BY <2>2, <2>4, <3>1 DEF Single
    <3>3. tasks[i] \in With(tasks, <<"listen", c>>)
      BY <2>2, <2>4 DEF With
    <3>4. With(tasks', <<"listen", c>>) # {} /\ Single(tasks', <<"listen", c>>) /\ With(tasks', <<"listen", c>>) \subseteq {u}
      <4>1. SameKeys(tasks, tasks')
        BY <1>2
      <4>2. /\ Single(tasks', <<"listen", c>>) /\ With(tasks', <<"listen", c>>) # {}
            /\ \A x \in With(tasks', <<"listen", c>>) : \E j \in 1 .. Len(tasks) : KeyOf(tasks[j]) = <<"listen", c>> /\ x = tasks'[j]
        BY <4>1, <3>1, <3>3, WithMapped
      <4> QED BY <4>2, <3>2, <1>2
    <3>6. Listened(c, u, connHash'[c], said'[c], pipes[c], c \in late', msgs')
      BY <2>1, <2>4, <3>3 DEF Heard, d
    <3> QED BY <3>4, <3>6 DEF Heard
  <2> QED BY <2>3, <2>4
<1>4. ListenInv'
  BY <1>3 DEF ListenInv
<1> QED BY <1>2, <1>4

\* The message thread is asked to take a pipe away: nothing known of other
\* connections changes.
LEMMA DropCarries ==
  ASSUME NEW s \in Seq(ConnMessage), NEW m \in ConnMessage, NEW c, NEW p, ~Makes(m, c)
  PROVE  Carries(c, p, s, p, s) /\ Carries(c, p, s, p, Append(s, m))
<1>1. Carries(c, p, s, p, s)
  BY DEF Carries
<1> DEFINE r == Append(s, m)
<1>2. /\ \A t, h, sd, l : Listened(c, t, h, sd, p, l, s) => Listened(c, t, h, sd, p, l, r)
      /\ \A h, sd : Unlistened(c, h, sd, p, s) => Unlistened(c, h, sd, p, r)
  BY ListenedAsked
<1>3. Free(p) \in BOOLEAN
  BY DEF Free
<1>4. Ends(s, c, p) => Ends(r, c, p)
  <2>1. /\ Doomed(s, c) /\ ~Makes(m, c) => Doomed(r, c)
        /\ Clear(s, c, Free(p)) /\ ~Makes(m, c) => Clear(r, c, Free(p))
    BY <1>3, AskedIs
  <2> QED BY <2>1 DEF Ends
<1> HIDE DEF r
<1>5. Carries(c, p, s, p, r)
  BY <1>2, <1>4 DEF Carries
<1> QED BY <1>1, <1>5 DEF r
-----------------------------------------------------------------------------
\* A task of the list is one.
LEMMA TaskOf ==
  ASSUME CInv, NEW i \in 1 .. Len(tasks)
  PROVE  tasks \in Seq(ConnTask) /\ tasks[i] \in ConnTask
BY DEF CInv, CTypeOK

\* A task is changed, but for how its process fared.
LEMMA SetFlags ==
  ASSUME NEW s \in Seq(ConnTask), NEW i \in 1 .. Len(s), NEW u \in ConnTask, KeyOf(u) = KeyOf(s[i]), u.quit_flag = s[i].quit_flag
  PROVE  SameFlags(s, SetAt(s, i, u))
<1> DEFINE r == SetAt(s, i, u)
<1>1. SameKeys(s, r) /\ r[i] = u /\ \A j \in 1 .. Len(s) : j # i => r[j] = s[j]
  BY ChangedIs
<1> HIDE DEF r
<1>2. SameFlags(s, r)
  BY <1>1 DEF SameFlags
<1> QED BY <1>2 DEF r

\* The threads that run the tasks do not touch the pipes.
LEMMA CKept ==
  ASSUME CInv, UNCHANGED <<pipes, port, adds, raced, run_flag_>>, tasks' \in Seq(ConnTask), msgs' \in Seq(ConnMessage),
         connHash' \in [Conns -> Key], exeHash' \in [Exes -> ExeKey], late' \in SUBSET Conns,
         said' \in [Conns -> Told \union {"nothing", "end"}],
         exeSaid' \in [Exes -> ExeTold],
         proc' \in [Exes -> Lives], ListenInv', ExeInv',
         \A c \in Conns : connHash'[c].listen => connHash[c].listen
  PROVE  CInv'
<1>1. CTypeOK'
  BY DEF CInv, CTypeOK
<1>2. PortInv'
  BY DEF CInv, PortInv
<1>3. AddsInv'
  BY CallsKept
<1> QED BY <1>1, <1>2, <1>3 DEF CInv

\* processInit
LEMMA CBegins ==
  ASSUME CInv, NEW i \in 1 .. Len(tasks), C!processInit(i) PROVE CInv'
<1> DEFINE t == tasks[i]
           y == connHash[t.c].status
           u == BegunTask(t, y)
<1>0. /\ tasks \in Seq(ConnTask) /\ t \in ConnTask /\ t.c \in Conns /\ t.changed \in Nat
      /\ y \in Told \union {"unk", "nofind"} /\ pipes[t.c] \in PipeOf /\ late \in SUBSET Conns
  <2>1. tasks \in Seq(ConnTask) /\ t \in ConnTask
    BY TaskOf
  <2>2. t.c \in Conns /\ t.changed \in Nat
    BY <2>1, TaskIs
  <2>3. connHash[t.c] \in Key /\ pipes[t.c] \in PipeOf /\ late \in SUBSET Conns
    BY <2>2 DEF CInv, CTypeOK
  <2> QED BY <2>1, <2>2, <2>3 DEF Key
<1>1. /\ t.st = "init" /\ tasks' = SetAt(tasks, i, u)
      /\ late' = IF t.changed > 0 /\ t.status # y THEN late \union {t.c} ELSE late
      /\ UNCHANGED <<connHash, exeHash, msgs, said, exeSaid, proc, pipes, port, adds, raced, run_flag_>>
  BY DEF C!processInit, C!Sets, C!Keeps, C!connectStatus, SetAt, BegunTask
<1>2. /\ u \in ConnTask /\ KeyOf(u) = KeyOf(t) /\ u.st = "start" /\ u.status = y /\ u.changed = t.changed /\ u.ready = t.ready
      /\ u.quit_flag = t.quit_flag
  BY <1>0, TaskInit
<1>3. /\ late' \in SUBSET Conns /\ late \subseteq late' /\ \A c \in Conns : c # t.c => (c \in late' <=> c \in late)
      /\ t.c \in late' <=> (t.c \in late \/ (t.changed > 0 /\ t.status # y))
  BY <1>0, <1>1
<1>4. ExeInv'
  <2> HIDE DEF u
  <2>1. SameFlags(tasks, tasks')
    BY <1>0, <1>1, <1>2, SetFlags
  <2> QED BY <2>1, <1>1, CFlags
<1>5. tasks' \in Seq(ConnTask) /\ ListenInv'
  <2> HIDE DEF u
  <2>1. CASE t.kind # "listen"
    BY <2>1, <1>1, <1>2, <1>3, CTouches
  <2>2. CASE t.kind = "listen"
    <3>1. ASSUME Listened(t.c, t, connHash[t.c], said[t.c], pipes[t.c], t.c \in late, msgs)
          PROVE  Listened(t.c, u, connHash'[t.c], said'[t.c], pipes[t.c], t.c \in late', msgs')
      <4>1. Listened(t.c, u, connHash[t.c], said[t.c], pipes[t.c], t.c \in late', msgs)
        BY <3>1, <1>0, <1>1, <1>2, <1>3, ListenedInit
      <4> QED BY <4>1, <1>1
    <3>2. \A c \in Conns : Carries(c, pipes[c], msgs, pipes[c], msgs')
      BY <1>1 DEF Carries
    <3> QED BY <2>2, <3>1, <3>2, <1>1, <1>2, <1>3, CHears
  <2> QED BY <2>1, <2>2
<1>6. CInv'
  <2> HIDE DEF u, t
  <2>1. CTypeOK
    BY DEF CInv
  <2> QED BY <2>1, <1>1, <1>3, <1>4, <1>5, CKept DEF CTypeOK
<1> QED BY <1>6

\* A listening task is changed, and what the object knows and the owner was told of
\* its connection.
LEMMA CListened ==
  ASSUME CInv, NEW i \in 1 .. Len(tasks), tasks[i].kind = "listen", NEW u \in ConnTask, KeyOf(u) = KeyOf(tasks[i]),
         u.quit_flag = tasks[i].quit_flag, tasks' = SetAt(tasks, i, u),
         NEW k \in Key, k.listen => connHash[tasks[i].c].listen, NEW x \in Told \union {"nothing", "end"},
         connHash' = [connHash EXCEPT ![tasks[i].c] = k], said' = [said EXCEPT ![tasks[i].c] = x], msgs' \in Seq(ConnMessage),
         UNCHANGED <<exeHash, exeSaid, proc, late, pipes, port, adds, raced, run_flag_>>,
         \A c \in Conns : c # tasks[i].c => Carries(c, pipes[c], msgs, pipes[c], msgs'),
         LET c == tasks[i].c IN
         Listened(c, tasks[i], connHash[c], said[c], pipes[c], c \in late, msgs) => Listened(c, u, k, x, pipes[c], c \in late, msgs')
  PROVE  CInv'
<1> DEFINE d == tasks[i].c
<1>0. tasks \in Seq(ConnTask) /\ tasks[i] \in ConnTask /\ d \in Conns
  <2>1. tasks \in Seq(ConnTask) /\ tasks[i] \in ConnTask
    BY TaskOf
  <2> QED BY <2>1, TaskIs
<1>1. connHash' \in [Conns -> Key] /\ connHash'[d] = k /\ \A c \in Conns : c # d => connHash'[c] = connHash[c]
  BY <1>0 DEF CInv, CTypeOK
<1>2. said' \in [Conns -> Told \union {"nothing", "end"}] /\ said'[d] = x /\ \A c \in Conns : c # d => said'[c] = said[c]
  BY <1>0 DEF CInv, CTypeOK
<1>3. ExeInv'
  <2>1. SameFlags(tasks, tasks')
    BY <1>0, SetFlags
  <2> QED BY <2>1, CFlags
<1>4. tasks' \in Seq(ConnTask) /\ ListenInv'
  <2>1. ASSUME Listened(d, tasks[i], connHash[d], said[d], pipes[d], d \in late, msgs)
        PROVE  Listened(d, u, connHash'[d], said'[d], pipes[d], d \in late', msgs')
    BY <2>1, <1>1, <1>2
  <2> QED BY <2>1, <1>1, <1>2, CHears
<1>5. CTypeOK
  BY DEF CInv
<1> QED BY <1>1, <1>2, <1>3, <1>4, <1>5, CKept DEF CTypeOK
-----------------------------------------------------------------------------
\* IPCListenConnectTask
LEMMA CListens ==
  ASSUME CInv, NEW i \in 1 .. Len(tasks), C!ListenConnect(i) PROVE CInv'
<1> DEFINE t == tasks[i]
           d == t.c
           h == connHash[d]
           n == t.changed - 1
           keyed(st) == [in |-> TRUE, listen |-> h.listen, status |-> st]
<1>0. /\ tasks \in Seq(ConnTask) /\ t \in ConnTask /\ d \in Conns /\ t.changed \in Nat /\ (t.changed > 0 => n \in Nat)
      /\ t.status \in Told \union {"unk", "nofind"} /\ h \in Key /\ msgs \in Seq(ConnMessage)
      /\ connHash = [connHash EXCEPT ![d] = h] /\ said = [said EXCEPT ![d] = said[d]] /\ said[d] \in Told \union {"nothing", "end"}
  <2>1. tasks \in Seq(ConnTask) /\ t \in ConnTask
    BY TaskOf
  <2>2. d \in Conns /\ t.changed \in Nat /\ t.status \in Told \union {"unk", "nofind"}
    BY <2>1, TaskIs
  <2> HIDE DEF d
  <2>3. /\ h \in Key /\ msgs \in Seq(ConnMessage) /\ connHash = [connHash EXCEPT ![d] = h]
        /\ said = [said EXCEPT ![d] = said[d]] /\ said[d] \in Told \union {"nothing", "end"}
    BY <2>2 DEF CInv, CTypeOK
  <2> QED BY <2>1, <2>2, <2>3
<1>1. t.kind = "listen" /\ t.st = "start" /\ t.ready /\ UNCHANGED <<exeHash, exeSaid, proc, late, pipes, port, adds, raced, run_flag_>>
  BY DEF C!ListenConnect, C!Keeps
<1>2. \A st \in Told : keyed(st) \in Key /\ keyed(st).listen = h.listen /\ keyed(st).status = st
  BY <1>0 DEF Key
<1>3. \A c : Carries(c, pipes[c], msgs, pipes[c], msgs)
  BY DEF Carries
<1>4. CASE t.changed = 0 /\ tasks' = [tasks EXCEPT ![i] = [t EXCEPT !.ready = FALSE, !.dozes = TRUE]] /\ UNCHANGED <<connHash, msgs, said>>
  <2> DEFINE u == IdleTask(t)
  <2>1. tasks' = SetAt(tasks, i, u)
    BY <1>4 DEF SetAt, IdleTask
  <2>2. u \in ConnTask /\ KeyOf(u) = KeyOf(t) /\ u.st = "start" /\ u.status = t.status /\ u.changed = 0 /\ u.quit_flag = t.quit_flag
    BY <1>0, <1>1, <1>4, TaskSleeps
  <2> HIDE DEF u, keyed, h, d, n
  <2>3. ASSUME Listened(d, t, h, said[d], pipes[d], d \in late, msgs)
        PROVE  Listened(d, u, h, said[d], pipes[d], d \in late, msgs)
    <3>1. Listened(d, u, h, IF t.changed > 0 /\ t.status \in Told THEN t.status ELSE said[d], pipes[d], d \in late, msgs)
      BY <2>2, <2>3, <1>0, <1>1, <1>4, ListenedPass
    <3> QED BY <3>1, <1>4, <1>0
  <2>4. connHash' = [connHash EXCEPT ![d] = h] /\ said' = [said EXCEPT ![d] = said[d]] /\ msgs' = msgs
    BY <1>4, <1>0
  <2> QED BY <2>1, <2>2, <2>3, <2>4, <1>0, <1>1, <1>3, CListened DEF d, h
<1>5. CASE /\ t.changed > 0 /\ t.status \in {"connecting", "connected"}
           /\ tasks' = [tasks EXCEPT ![i] = [t EXCEPT !.changed = n]] /\ C!onConnectStatus(d, t.status)
  <2> DEFINE u == PassedTask(t, n)
             k == keyed(t.status)
  <2>1. tasks' = SetAt(tasks, i, u)
    BY <1>5 DEF SetAt, PassedTask
  <2>2. /\ u \in ConnTask /\ KeyOf(u) = KeyOf(t) /\ u.st = "start" /\ u.status = t.status /\ u.changed = n
        /\ u.quit_flag = t.quit_flag /\ u.ready
    <3> HIDE DEF k, keyed
    <3>1. n \in Nat
      BY <1>0, <1>5
    <3> QED BY <3>1, <1>0, <1>1, TaskLess
  <2>3. connHash' = [connHash EXCEPT ![d] = k] /\ said' = [said EXCEPT ![d] = t.status] /\ msgs' = msgs
    BY <1>0, <1>5 DEF C!onConnectStatus, C!setConnectKeyWithStatus
  <2>4. k \in Key /\ k.listen = h.listen /\ k.status = t.status /\ t.status \in Told \ {"closed"}
    BY <1>2, <1>5 DEF Told
  <2> HIDE DEF u, k, keyed
  <2>5. ASSUME Listened(d, t, h, said[d], pipes[d], d \in late, msgs)
        PROVE  Listened(d, u, k, t.status, pipes[d], d \in late, msgs)
    <3>1. k.listen
      BY <2>4, <2>5 DEF Listened
    <3>2. Listened(d, u, k, IF t.changed > 0 /\ t.status \in Told THEN t.status ELSE said[d], pipes[d], d \in late, msgs)
      BY <3>1, <2>2, <2>4, <2>5, <1>0, <1>1, <1>5, ListenedPass
    <3> QED BY <3>2, <2>4, <1>5
  <2> QED BY <2>1, <2>2, <2>3, <2>4, <2>5, <1>0, <1>1, <1>3, CListened
<1>6. CASE /\ t.changed > 0 /\ t.status = "closed" /\ C!onConnectStatus(d, "closed")
           /\ tasks' = [tasks EXCEPT ![i] = [[t EXCEPT !.changed = n] EXCEPT !.st = "done", !.ready = FALSE]]
  <2> DEFINE v == PassedTask(t, n)
             u == DoneTask(v)
             k == keyed("closed")
             m == [op |-> "destroy", c |-> d]
             r == Append(msgs, m)
  <2>1. tasks' = SetAt(tasks, i, u)
    BY <1>6 DEF SetAt, PassedTask, DoneTask
  <2>2. u \in ConnTask /\ KeyOf(u) = KeyOf(t) /\ u.st = "done" /\ u.quit_flag = t.quit_flag
    <3>1. v \in ConnTask /\ KeyOf(v) = KeyOf(t) /\ v.quit_flag = t.quit_flag
      BY <1>0, <1>6, TaskLess
    <3> HIDE DEF v
    <3> QED BY <3>1, TaskEnds
  <2>3. connHash' = [connHash EXCEPT ![d] = k] /\ said' = [said EXCEPT ![d] = "closed"] /\ msgs' = r
    BY <1>0, <1>6 DEF C!onConnectStatus, C!setConnectKeyWithStatus, C!Asks
  <2>4. k \in Key /\ k.listen = h.listen /\ k.status = "closed" /\ "closed" \in Told
    BY <1>2 DEF Told
  <2>5. m \in ConnMessage /\ Drops(m, d) /\ \A c : ~Makes(m, c)
    BY <1>0 DEF ConnMessage, Drops, Makes
  <2> HIDE DEF u, k, keyed, m
  <2>6. r \in Seq(ConnMessage)
    BY <2>5, <1>0, AppendProperties
  <2>7. \A c : Carries(c, pipes[c], msgs, pipes[c], r)
    BY <2>5, <1>0, DropCarries
  <2>8. ASSUME Listened(d, t, h, said[d], pipes[d], d \in late, msgs)
        PROVE  Listened(d, u, k, "closed", pipes[d], d \in late, r)
    <3>1. k.listen
      BY <2>4, <2>8 DEF Listened
    <3>2. Ends(r, d, pipes[d])
      BY <2>5, <1>0, ListenedAsked
    <3> HIDE DEF r
    <3> QED BY <3>1, <3>2, <2>2, <2>4, ListenedClosed
  <2> HIDE DEF r
  <2> QED BY <2>1, <2>2, <2>3, <2>4, <2>6, <2>7, <2>8, <1>0, <1>1, CListened
<1>7. CASE /\ t.changed > 0 /\ t.status \in {"unk", "nofind"}
           /\ tasks' = [tasks EXCEPT ![i] = [t EXCEPT !.changed = n]] /\ UNCHANGED <<connHash, msgs, said>>
  <2> DEFINE u == PassedTask(t, n)
  <2>1. tasks' = SetAt(tasks, i, u)
    BY <1>7 DEF SetAt, PassedTask
  <2>2. /\ u \in ConnTask /\ KeyOf(u) = KeyOf(t) /\ u.st = "start" /\ u.status = t.status /\ u.changed = n
        /\ u.quit_flag = t.quit_flag /\ u.ready
    BY <1>0, <1>1, <1>7, TaskLess
  <2>3. t.status \notin Told
    BY <1>7 DEF Told
  <2> HIDE DEF u, keyed
  <2>4. ASSUME Listened(d, t, h, said[d], pipes[d], d \in late, msgs)
        PROVE  Listened(d, u, h, said[d], pipes[d], d \in late, msgs)
    <3>1. Listened(d, u, h, IF t.changed > 0 /\ t.status \in Told THEN t.status ELSE said[d], pipes[d], d \in late, msgs)
      BY <2>2, <2>3, <2>4, <1>0, <1>1, <1>7, ListenedPass
    <3> QED BY <3>1, <2>3
  <2>5. connHash' = [connHash EXCEPT ![d] = h] /\ said' = [said EXCEPT ![d] = said[d]] /\ msgs' = msgs
    BY <1>7, <1>0
  <2> QED BY <2>1, <2>2, <2>4, <2>5, <1>0, <1>1, <1>3, CListened
<1> QED BY <1>4, <1>5, <1>6, <1>7 DEF C!ListenConnect, C!Sets, C!Sleeps

\* A task sleeps (Blocks).
LEMMA CBlocks ==
  ASSUME CInv, NEW i \in 1 .. Len(tasks), C!Blocks(i) PROVE CInv'
<1> DEFINE t == tasks[i]
           u == BlockedTask(t)
<1>0. tasks \in Seq(ConnTask) /\ t \in ConnTask
  BY TaskOf
<1>1. /\ tasks' = SetAt(tasks, i, u)
      /\ UNCHANGED <<connHash, exeHash, msgs, said, exeSaid, proc, late, pipes, port, adds, raced, run_flag_>>
  BY DEF C!Blocks, C!Sets, C!Keeps, SetAt, BlockedTask
<1>2. /\ u \in ConnTask /\ KeyOf(u) = KeyOf(t) /\ u.quit_flag = t.quit_flag
      /\ u.st = t.st /\ u.status = t.status /\ u.changed = t.changed /\ u.ready = t.ready
  BY <1>0, TaskBlocks
<1> HIDE DEF u
<1>3. ExeInv'
  <2>1. SameFlags(tasks, tasks')
    BY <1>0, <1>1, <1>2, SetFlags
  <2> QED BY <2>1, <1>1, CFlags
<1>4. tasks' \in Seq(ConnTask) /\ ListenInv'
  <2>1. CASE t.kind # "listen"
    BY <2>1, <1>1, <1>2, CTouches
  <2>2. CASE t.kind = "listen"
    <3>1. ASSUME Listened(t.c, t, connHash[t.c], said[t.c], pipes[t.c], t.c \in late, msgs)
          PROVE  Listened(t.c, u, connHash'[t.c], said'[t.c], pipes[t.c], t.c \in late', msgs')
      <4>1. Listened(t.c, u, connHash[t.c], said[t.c], pipes[t.c], t.c \in late, msgs)
        BY <3>1, <1>2, ListenedSame
      <4> QED BY <4>1, <1>1
    <3>2. \A c \in Conns : Carries(c, pipes[c], msgs, pipes[c], msgs')
      BY <1>1 DEF Carries
    <3>3. late' = late /\ connHash' = connHash /\ said' = said
      BY <1>1
    <3> QED BY <2>2, <3>1, <3>2, <3>3, <1>1, <1>2, CHears
  <2> QED BY <2>1, <2>2
<1>5. CTypeOK
  BY DEF CInv
<1> QED BY <1>1, <1>3, <1>4, <1>5, CKept DEF CTypeOK

\* IPCCreateChildConnectTask
LEMMA CCreates ==
  ASSUME CInv, NEW i \in 1 .. Len(tasks), C!CreateChildConnect(i) PROVE CInv'
<1> DEFINE t == tasks[i]
           u == DoneTask(t)
<1>0. tasks \in Seq(ConnTask) /\ t \in ConnTask
  BY TaskOf
<1>1. /\ t.kind = "child" /\ tasks' = SetAt(tasks, i, u)
      /\ UNCHANGED <<connHash, exeHash, msgs, said, exeSaid, proc, late, pipes, port, adds, raced, run_flag_>>
  BY DEF C!CreateChildConnect, C!Sets, C!Keeps, SetAt, DoneTask
<1>2. u \in ConnTask /\ KeyOf(u) = KeyOf(t) /\ u.quit_flag = t.quit_flag
  BY <1>0, TaskEnds
<1> HIDE DEF u
<1>3. ExeInv'
  <2>1. SameFlags(tasks, tasks')
    BY <1>0, <1>1, <1>2, SetFlags
  <2> QED BY <2>1, <1>1, CFlags
<1>4. tasks' \in Seq(ConnTask) /\ ListenInv'
  BY <1>1, <1>2, CTouches
<1>5. CTypeOK
  BY DEF CInv
<1> QED BY <1>1, <1>3, <1>4, <1>5, CKept DEF CTypeOK

\* The task of a client process is changed, and what is known of its process.
LEMMA CTracks ==
  ASSUME CInv, NEW i \in 1 .. Len(tasks), tasks[i].kind = "exe", NEW u \in ConnTask, KeyOf(u) = KeyOf(tasks[i]),
         tasks' = SetAt(tasks, i, u),
         NEW k \in ExeKey, NEW x \in ExeTold, NEW y \in Lives,
         exeHash' = [exeHash EXCEPT ![tasks[i].e] = k], exeSaid' = [exeSaid EXCEPT ![tasks[i].e] = x],
         proc' = [proc EXCEPT ![tasks[i].e] = y],
         UNCHANGED <<connHash, msgs, said, late, pipes, port, adds, raced, run_flag_>>,
         Tracked(tasks[i], exeHash[tasks[i].e], proc[tasks[i].e]) => Tracked(u, k, y)
  PROVE  CInv'
<1> DEFINE e == tasks[i].e
<1>0. tasks \in Seq(ConnTask) /\ tasks[i] \in ConnTask /\ e \in Exes
  <2>1. tasks \in Seq(ConnTask) /\ tasks[i] \in ConnTask
    BY TaskOf
  <2> QED BY <2>1, TaskIs
<1>1. KeyOf(tasks[i]) = <<"exe", e>>
  BY KeyIs
<1>2. SameKeys(tasks, tasks') /\ tasks'[i] = u /\ \A j \in 1 .. Len(tasks) : j # i => tasks'[j] = tasks[j]
  BY <1>0, ChangedIs
<1>3. tasks' \in Seq(ConnTask) /\ ListenInv'
  BY CTouches
<1>4. /\ exeHash' \in [Exes -> ExeKey] /\ exeHash'[e] = k /\ \A f \in Exes : f # e => exeHash'[f] = exeHash[f]
      /\ exeSaid' \in [Exes -> ExeTold]
      /\ \A f \in Exes : f # e => exeSaid'[f] = exeSaid[f]
      /\ proc' \in [Exes -> Lives] /\ proc'[e] = y /\ \A f \in Exes : f # e => proc'[f] = proc[f]
  BY <1>0 DEF CInv, CTypeOK
<1>5. Tracked(tasks[i], exeHash[e], proc[e]) => Tracked(u, k, y)
  OBVIOUS
<1> HIDE DEF e
<1>6. ASSUME NEW f \in Exes PROVE Started(f, tasks', exeHash'[f], exeSaid'[f], proc'[f])
  <2>0. Started(f, tasks, exeHash[f], exeSaid[f], proc[f])
    BY DEF CInv, ExeInv
  <2>1. SameKeys(tasks, tasks')
    BY <1>2
  <2>2. ASSUME NEW j \in 1 .. Len(tasks), KeyOf(tasks[j]) = <<"exe", f>>, Tracked(tasks[j], exeHash[f], proc[f])
        PROVE  Tracked(tasks'[j], exeHash'[f], proc'[f])
    <3>1. CASE j = i
      <4>1. f = e
        BY <2>2, <3>1, <1>1
      <4> QED BY <4>1, <2>2, <3>1, <1>2, <1>4, <1>5
    <3>2. CASE j # i
      <4>1. f # e
        BY <2>0, <2>2, <3>2, <1>1 DEF Started, Single
      <4> QED BY <4>1, <2>2, <3>2, <1>2, <1>4
    <3> QED BY <3>1, <3>2
  <2>3. ASSUME With(tasks, <<"exe", f>>) = {}, Untracked(exeHash[f], exeSaid[f], proc[f]) PROVE Untracked(exeHash'[f], exeSaid'[f], proc'[f])
    <3>1. f # e
      BY <2>3, <1>1 DEF With
    <3> QED BY <3>1, <2>3, <1>4
  <2>4. \A j \in 1 .. Len(tasks) : KeyOf(tasks[j]) = <<"exe", f>> /\ Tracked(tasks[j], exeHash[f], proc[f]) => Tracked(tasks'[j], exeHash'[f], proc'[f])
    BY <2>2
  <2>5. With(tasks, <<"exe", f>>) = {} /\ Untracked(exeHash[f], exeSaid[f], proc[f]) => Untracked(exeHash'[f], exeSaid'[f], proc'[f])
    BY <2>3
  <2> QED BY ONLY <2>0, <2>1, <2>4, <2>5, StartedMapped
<1>7. ExeInv'
  BY <1>6 DEF ExeInv
<1>8. CTypeOK
  BY DEF CInv
<1> QED BY <1>3, <1>4, <1>7, <1>8, CKept DEF CTypeOK
-----------------------------------------------------------------------------
\* A client process says that it quits (onQuit).
LEMMA CQuits ==
  ASSUME CInv, NEW i \in 1 .. Len(tasks), C!onQuit(i) PROVE CInv'
<1> DEFINE t == tasks[i]
           e == t.e
           u == FlaggedTask(t, "normal")
<1>0. tasks \in Seq(ConnTask) /\ t \in ConnTask
  BY TaskOf
<1>1. /\ t.kind = "exe" /\ tasks' = SetAt(tasks, i, u) /\ proc' = [proc EXCEPT ![e] = "bye"]
      /\ UNCHANGED <<connHash, exeHash, pipes, msgs, port, said, exeSaid, late, adds, raced, run_flag_>>
  BY DEF C!onQuit, SetAt, FlaggedTask
<1>2. u \in ConnTask /\ KeyOf(u) = KeyOf(t) /\ u.quit_flag = "normal"
  BY <1>0, TaskFlags
<1>3. e \in Exes
  BY <1>0, <1>1, TaskIs
<1> HIDE DEF u, e
<1>4. /\ exeHash[e] \in ExeKey /\ exeSaid[e] \in ExeTold
      /\ exeHash = [exeHash EXCEPT ![e] = exeHash[e]] /\ exeSaid = [exeSaid EXCEPT ![e] = exeSaid[e]]
  BY <1>3 DEF CInv, CTypeOK
<1>5. Tracked(t, exeHash[e], proc[e]) => Tracked(u, exeHash[e], "bye")
  BY <1>2 DEF Tracked
<1>6. "bye" \in Lives
  BY DEF Lives
<1> QED BY <1>1, <1>2, <1>4, <1>5, <1>6, CTracks DEF e

\* IPCExeTask
LEMMA CExe ==
  ASSUME CInv, NEW i \in 1 .. Len(tasks), C!Exe(i) PROVE CInv'
<1> DEFINE t == tasks[i]
           e == t.e
           h == exeHash[e]
           keyed(st) == [in |-> TRUE, task |-> h.task, status |-> st]
<1>0. tasks \in Seq(ConnTask) /\ t \in ConnTask
  BY TaskOf
<1>1. t.kind = "exe" /\ UNCHANGED <<connHash, msgs, said, late, pipes, port, adds, raced, run_flag_>>
  BY DEF C!Exe, C!Keeps
<1>2. e \in Exes /\ t.recount \in Nat /\ t.recount + 1 \in Nat
  <2>1. e \in Exes /\ t.recount \in Nat
    BY <1>0, <1>1, TaskIs
  <2> QED BY <2>1
<1>3. /\ h \in ExeKey /\ exeSaid[e] \in ExeTold /\ proc[e] \in Lives
      /\ exeHash = [exeHash EXCEPT ![e] = h] /\ exeSaid = [exeSaid EXCEPT ![e] = exeSaid[e]] /\ proc = [proc EXCEPT ![e] = proc[e]]
  <2> HIDE DEF e
  <2> QED BY <1>2 DEF CInv, CTypeOK
<1>4. \A st \in {"ok", "quit", "crash", "install_fail"} : keyed(st) \in ExeKey /\ keyed(st).task = h.task
  BY <1>3 DEF ExeKey
<1>5. \A st \in {"ok", "quit", "crash", "install_fail"} :
         C!onExeInstalled(e, st) => exeHash' = [exeHash EXCEPT ![e] = keyed(st)] /\ exeSaid' = [exeSaid EXCEPT ![e] = st]
  BY <1>3 DEF C!onExeInstalled
<1>6. \A st \in {"quit", "install_fail"} : C!crashStatus(t, st) \in {"ok", "quit", "crash", "install_fail"}
  BY DEF C!crashStatus
<1>7. ASSUME NEW u \in ConnTask, KeyOf(u) = KeyOf(t), tasks' = SetAt(tasks, i, u), UNCHANGED <<exeHash, exeSaid, proc>>,
             u.quit_flag = t.quit_flag
      PROVE  CInv'
  <2>1. Tracked(t, h, proc[e]) => Tracked(u, h, proc[e])
    BY <1>7 DEF Tracked
  <2>2. exeHash' = [exeHash EXCEPT ![e] = h] /\ exeSaid' = [exeSaid EXCEPT ![e] = exeSaid[e]] /\ proc' = [proc EXCEPT ![e] = proc[e]]
    BY <1>3, <1>7
  <2>3. CInv /\ i \in 1 .. Len(tasks) /\ u \in ConnTask
    OBVIOUS
  <2>4. e = tasks[i].e /\ h = exeHash[e] /\ h \in ExeKey /\ exeSaid[e] \in ExeTold /\ proc[e] \in Lives /\ tasks[i].kind = "exe"
        /\ KeyOf(u) = KeyOf(tasks[i]) /\ tasks' = SetAt(tasks, i, u) /\ UNCHANGED <<connHash, msgs, said, late, pipes, port, adds, raced, run_flag_>>
    BY <1>1, <1>3, <1>7
  <2>5. Tracked(tasks[i], exeHash[tasks[i].e], proc[tasks[i].e]) => Tracked(u, h, proc[e])
    BY <2>1
  <2> HIDE DEF e, h, t
  <2> QED BY ONLY <2>2, <2>3, <2>4, <2>5, CTracks
<1>8. ASSUME NEW u \in ConnTask, KeyOf(u) = KeyOf(t), tasks' = SetAt(tasks, i, u),
             NEW st \in {"ok", "quit", "crash", "install_fail"}, C!onExeInstalled(e, st),
             NEW y \in Lives, proc' = [proc EXCEPT ![e] = y],
             (t.quit_flag = "crash" <=> proc[e] = "runs") => (u.quit_flag = "crash" <=> y = "runs")
      PROVE  CInv'
  <2> DEFINE k == keyed(st)
  <2>1. k \in ExeKey /\ k.task = h.task /\ exeHash' = [exeHash EXCEPT ![e] = k] /\ exeSaid' = [exeSaid EXCEPT ![e] = st] /\ st \in ExeTold
    BY <1>4, <1>5, <1>8 DEF ExeTold
  <2> HIDE DEF k, keyed
  <2>2. Tracked(t, h, proc[e]) => Tracked(u, k, y)
    BY <2>1, <1>8 DEF Tracked
  <2>3. CInv /\ i \in 1 .. Len(tasks) /\ u \in ConnTask
    OBVIOUS
  <2> QED BY ONLY <2>1, <2>2, <2>3, <1>1, <1>3, <1>8, CTracks
<1>9. ASSUME tasks' = [tasks EXCEPT ![i] = [t EXCEPT !.ready = FALSE, !.dozes = TRUE]], UNCHANGED <<exeHash, exeSaid, proc>> PROVE CInv'
  <2> DEFINE u == IdleTask(t)
  <2>1. u \in ConnTask /\ KeyOf(u) = KeyOf(t) /\ u.quit_flag = t.quit_flag
    BY <1>0, TaskSleeps
  <2>2. tasks' = SetAt(tasks, i, u)
    BY <1>9 DEF SetAt, IdleTask
  <2> HIDE DEF u
  <2> QED BY <2>1, <2>2, <1>9, <1>7
<1>10. ASSUME NEW st \in {"quit", "install_fail"}, C!onExeInstalled(e, C!crashStatus(t, st)), UNCHANGED proc,
              tasks' = [tasks EXCEPT ![i] = [t EXCEPT !.st = "done", !.ready = FALSE]]
       PROVE  CInv'
  <2> DEFINE u == DoneTask(t)
  <2>1. u \in ConnTask /\ KeyOf(u) = KeyOf(t) /\ u.quit_flag = t.quit_flag
    BY <1>0, TaskEnds
  <2>2. tasks' = SetAt(tasks, i, u) /\ proc' = [proc EXCEPT ![e] = proc[e]]
    BY <1>3, <1>10 DEF SetAt, DoneTask
  <2> HIDE DEF u
  <2> QED BY <2>1, <2>2, <1>3, <1>6, <1>10, <1>8
<1>11. ASSUME tasks' = [tasks EXCEPT ![i] = [[t EXCEPT !.quit_flag = "crash", !.check = TRUE] EXCEPT !.ready = FALSE, !.dozes = TRUE]],
              C!onExeInstalled(e, "ok"), proc' = [proc EXCEPT ![e] = "runs"]
       PROVE  CInv'
  <2> DEFINE v == RunTask(t)
             u == IdleTask(v)
  <2>1. v \in ConnTask /\ KeyOf(v) = KeyOf(t) /\ v.quit_flag = "crash"
    BY <1>0, TaskRuns
  <2>2. tasks' = SetAt(tasks, i, u)
    BY <1>11 DEF SetAt, RunTask, IdleTask
  <2> HIDE DEF v
  <2>3. u \in ConnTask /\ KeyOf(u) = KeyOf(t) /\ u.quit_flag = "crash"
    BY <2>1, TaskSleeps
  <2> HIDE DEF u
  <2> QED BY <2>2, <2>3, <1>11, <1>8 DEF Lives
<1>12. ASSUME tasks' = [tasks EXCEPT ![i] = [[t EXCEPT !.quit_flag = "crash"] EXCEPT !.st = "done", !.ready = FALSE]],
              C!onExeInstalled(e, "ok"), proc' = [proc EXCEPT ![e] = "runs"]
       PROVE  CInv'
  <2> DEFINE v == FlaggedTask(t, "crash")
             u == DoneTask(v)
  <2>1. v \in ConnTask /\ KeyOf(v) = KeyOf(t) /\ v.quit_flag = "crash"
    BY <1>0, TaskFlags
  <2>2. tasks' = SetAt(tasks, i, u)
    BY <1>12 DEF SetAt, FlaggedTask, DoneTask
  <2> HIDE DEF v
  <2>3. u \in ConnTask /\ KeyOf(u) = KeyOf(t) /\ u.quit_flag = "crash"
    BY <2>1, TaskEnds
  <2> HIDE DEF u
  <2> QED BY <2>2, <2>3, <1>12, <1>8 DEF Lives
<1>13. ASSUME tasks' = [tasks EXCEPT ![i] = [t EXCEPT !.recount = @ + 1]], UNCHANGED <<exeHash, exeSaid, proc>> PROVE CInv'
  <2> DEFINE u == TriedTask(t, t.recount + 1)
  <2>1. u \in ConnTask /\ KeyOf(u) = KeyOf(t) /\ u.quit_flag = t.quit_flag
    BY <1>0, <1>2, TaskAgain
  <2>2. tasks' = SetAt(tasks, i, u)
    BY <1>13 DEF SetAt, TriedTask
  <2> HIDE DEF u
  <2> QED BY <2>1, <2>2, <1>13, <1>7
<1> HIDE DEF t, e, h, keyed
<1>14. \/ tasks' = [tasks EXCEPT ![i] = [t EXCEPT !.ready = FALSE, !.dozes = TRUE]] /\ UNCHANGED <<exeHash, exeSaid, proc>>
       \/ \E st \in {"quit", "install_fail"} :
             /\ C!onExeInstalled(e, C!crashStatus(t, st)) /\ UNCHANGED proc
             /\ tasks' = [tasks EXCEPT ![i] = [t EXCEPT !.st = "done", !.ready = FALSE]]
       \/ /\ tasks' = [tasks EXCEPT ![i] = [[t EXCEPT !.quit_flag = "crash", !.check = TRUE] EXCEPT !.ready = FALSE, !.dozes = TRUE]]
          /\ C!onExeInstalled(e, "ok") /\ proc' = [proc EXCEPT ![e] = "runs"]
       \/ /\ tasks' = [tasks EXCEPT ![i] = [[t EXCEPT !.quit_flag = "crash"] EXCEPT !.st = "done", !.ready = FALSE]]
          /\ C!onExeInstalled(e, "ok") /\ proc' = [proc EXCEPT ![e] = "runs"]
       \/ tasks' = [tasks EXCEPT ![i] = [t EXCEPT !.recount = @ + 1]] /\ UNCHANGED <<exeHash, exeSaid, proc>>
  BY DEF C!Exe, C!Sets, C!Sleeps, t, e
<1> QED BY <1>9, <1>10, <1>11, <1>12, <1>13, <1>14
-----------------------------------------------------------------------------
\* A task is taken out of a list.
LEMMA TaskRemoved ==
  ASSUME NEW s \in Seq(ConnTask), NEW i \in 1 .. Len(s)
  PROVE  LET r == C!RemoveAt(s, i) IN
         /\ r \in Seq(ConnTask)
         /\ \A k : KeyOf(s[i]) # k => With(r, k) = With(s, k)
         /\ \A k : Single(s, k) => Single(r, k) /\ (KeyOf(s[i]) = k => With(r, k) = {})
<1> DEFINE r == SubSeq(s, 1, i - 1) \o SubSeq(s, i + 1, Len(s))
<1>1. C!RemoveAt(s, i) = r
  BY DEF C!RemoveAt
<1>2. r \in Seq(ConnTask)
  BY RemoveAtIs
<1>3. ASSUME NEW k
      PROVE  /\ KeyOf(s[i]) # k => With(r, k) = With(s, k)
             /\ Single(s, k) => Single(r, k) /\ (KeyOf(s[i]) = k => With(r, k) = {})
  BY WithRemoved
<1> HIDE DEF r
<1> QED BY <1>1, <1>2, <1>3

\* The runner deletes a task.
LEMMA CDeletes ==
  ASSUME CInv, NEW i \in 1 .. Len(tasks), C!Deleted(i) PROVE CInv'
<1> DEFINE t == tasks[i]
<1>0. tasks \in Seq(ConnTask) /\ t \in ConnTask
  BY TaskOf
<1>1. t.st = "done" /\ tasks' = C!RemoveAt(tasks, i) /\ UNCHANGED <<proc, late, pipes, port, adds, raced, run_flag_>>
  BY DEF C!Deleted, C!Keeps
<1>2. /\ tasks' \in Seq(ConnTask)
      /\ \A k : KeyOf(t) # k => With(tasks', k) = With(tasks, k)
      /\ \A k : Single(tasks, k) => Single(tasks', k) /\ (KeyOf(t) = k => With(tasks', k) = {})
  <2> DEFINE r == C!RemoveAt(tasks, i)
  <2>1. /\ r \in Seq(ConnTask)
        /\ \A k : KeyOf(tasks[i]) # k => With(r, k) = With(tasks, k)
        /\ \A k : Single(tasks, k) => Single(r, k) /\ (KeyOf(tasks[i]) = k => With(r, k) = {})
    BY ONLY <1>0, i \in 1 .. Len(tasks), TaskRemoved
  <2> HIDE DEF r
  <2>2. tasks' = r
    BY <1>1 DEF r
  <2> QED BY <2>1, <2>2
<1>3. /\ t.kind \in {"listen", "child", "exe"} /\ t.c \in Conns /\ (t.kind = "exe" => t.e \in Exes)
      /\ \A c : KeyOf(t) = <<"listen", c>> <=> t.kind = "listen" /\ t.c = c
      /\ \A e : KeyOf(t) = <<"exe", e>> <=> t.kind = "exe" /\ t.e = e
  <2>1. t.kind \in {"listen", "child", "exe"} /\ t.c \in Conns /\ (t.kind = "exe" => t.e \in Exes)
    BY <1>0, TaskIs
  <2> QED BY <2>1, KeyIs
<1>4. \A k : t \in With(tasks, k) <=> KeyOf(t) = k
  BY DEF With
<1> HIDE DEF t
<1>5. ASSUME NEW c \in Conns \ raced, KeyOf(t) # <<"listen", c>>, connHash'[c] = connHash[c], said'[c] = said[c], msgs' = msgs
      PROVE  Heard(c, tasks', connHash'[c], said'[c], pipes[c], c \in late, msgs')
  <2>1. Heard(c, tasks, connHash[c], said[c], pipes[c], c \in late, msgs)
    BY DEF CInv, ListenInv
  <2> QED BY <2>1, <1>2, <1>5 DEF Heard
<1>6. ASSUME NEW e \in Exes, KeyOf(t) # <<"exe", e>>, exeHash'[e] = exeHash[e], exeSaid'[e] = exeSaid[e]
      PROVE  Started(e, tasks', exeHash'[e], exeSaid'[e], proc[e])
  <2>1. Started(e, tasks, exeHash[e], exeSaid[e], proc[e])
    BY DEF CInv, ExeInv
  <2> QED BY <2>1, <1>2, <1>6 DEF Started
<1>7. ASSUME connHash' \in [Conns -> Key], said' \in [Conns -> Told \union {"nothing", "end"}], msgs' = msgs,
             exeHash' \in [Exes -> ExeKey], exeSaid' \in [Exes -> ExeTold],
             \A c \in Conns \ raced : Heard(c, tasks', connHash'[c], said'[c], pipes[c], c \in late, msgs'),
             \A e \in Exes : Started(e, tasks', exeHash'[e], exeSaid'[e], proc[e]),
             \A c \in Conns : connHash'[c].listen => connHash[c].listen
      PROVE  CInv'
  <2>1. ListenInv'
    BY <1>1, <1>7 DEF ListenInv
  <2>2. ExeInv'
    BY <1>1, <1>7 DEF ExeInv
  <2>3. CTypeOK
    BY DEF CInv
  <2> QED BY <2>1, <2>2, <2>3, <1>1, <1>2, <1>7, CKept DEF CTypeOK
<1>8. /\ connHash \in [Conns -> Key] /\ said \in [Conns -> Told \union {"nothing", "end"}]
      /\ exeHash \in [Exes -> ExeKey] /\ exeSaid \in [Exes -> ExeTold]
  BY DEF CInv, CTypeOK
<1>9. CASE t.kind = "listen" /\ C!onConnectStatus(t.c, "end") /\ UNCHANGED <<exeHash, exeSaid>>
  <2> DEFINE d == t.c
  <2>1. connHash' = [connHash EXCEPT ![d] = C!NoKey] /\ said' = [said EXCEPT ![d] = "end"] /\ msgs' = msgs
    BY <1>9 DEF C!onConnectStatus, C!removeConnectKey
  <2>2. C!NoKey \in Key /\ d \in Conns
    BY <1>3 DEF C!NoKey, Key
  <2> HIDE DEF d
  <2>3. /\ connHash' \in [Conns -> Key] /\ connHash'[d] = C!NoKey /\ \A c \in Conns : c # d => connHash'[c] = connHash[c]
        /\ said' \in [Conns -> Told \union {"nothing", "end"}] /\ said'[d] = "end" /\ \A c \in Conns : c # d => said'[c] = said[c]
    BY <2>1, <2>2, <1>8
  <2>4. ASSUME NEW c \in Conns \ raced PROVE Heard(c, tasks', connHash'[c], said'[c], pipes[c], c \in late, msgs')
    <3>1. CASE c # d
      BY <3>1, <2>1, <2>3, <1>3, <1>5 DEF d
    <3>2. CASE c = d
      <4>1. Heard(c, tasks, connHash[c], said[c], pipes[c], c \in late, msgs)
        BY DEF CInv, ListenInv
      <4>2. KeyOf(t) = <<"listen", c>> /\ t \in With(tasks, <<"listen", c>>)
        BY <3>2, <1>3, <1>4, <1>9 DEF d
      <4>3. Listened(c, t, connHash[c], said[c], pipes[c], c \in late, msgs) /\ Single(tasks, <<"listen", c>>)
        BY <4>1, <4>2 DEF Heard
      <4>4. Unlistened(c, C!NoKey, "end", pipes[c], msgs)
        BY <4>3, <1>1, ListenedEnd
      <4>5. With(tasks', <<"listen", c>>) = {} /\ Single(tasks', <<"listen", c>>)
        BY <4>2, <4>3, <1>2
      <4> QED BY <3>2, <4>4, <4>5, <2>1, <2>3 DEF Heard
    <3> QED BY <3>1, <3>2
  <2>5. ASSUME NEW e \in Exes PROVE Started(e, tasks', exeHash'[e], exeSaid'[e], proc[e])
    BY <1>3, <1>6, <1>9
  <2>6. ~C!NoKey.listen
    BY DEF C!NoKey
  <2>7. \A c \in Conns : connHash'[c].listen => connHash[c].listen
    BY <2>3, <2>6
  <2> QED BY <2>1, <2>3, <2>4, <2>5, <2>7, <1>7, <1>8, <1>9
<1>10. CASE t.kind = "exe" /\ C!onExeInstalled(t.e, C!crashStatus(t, "task_end")) /\ UNCHANGED <<connHash, msgs, said>>
  <2> DEFINE d == t.e
             st == IF t.quit_flag = "crash" THEN "crash" ELSE "task_end"
             k == IF t.quit_flag = "crash" THEN [in |-> TRUE, task |-> exeHash[d].task, status |-> "crash"] ELSE C!NoExe
  <2>1. exeHash' = [exeHash EXCEPT ![d] = k] /\ exeSaid' = [exeSaid EXCEPT ![d] = st]
    <3>1. CASE t.quit_flag = "crash"
      BY <3>1, <1>3, <1>8, <1>10 DEF C!onExeInstalled, C!crashStatus
    <3>2. CASE t.quit_flag # "crash"
      BY <3>2, <1>10 DEF C!onExeInstalled, C!crashStatus
    <3> QED BY <3>1, <3>2
  <2>2. d \in Exes
    BY <1>3, <1>10
  <2>3. k \in ExeKey /\ st \in ExeTold
    BY <2>2, <1>8 DEF ExeKey, ExeTold, C!NoExe
  <2>4. (st = "crash" <=> t.quit_flag = "crash") /\ (k # C!NoExe <=> t.quit_flag = "crash")
    BY DEF C!NoExe
  <2> HIDE DEF d, st, k
  <2>5. /\ exeHash' \in [Exes -> ExeKey] /\ exeHash'[d] = k /\ \A c \in Exes : c # d => exeHash'[c] = exeHash[c]
        /\ exeSaid' \in [Exes -> ExeTold] /\ exeSaid'[d] = st /\ \A c \in Exes : c # d => exeSaid'[c] = exeSaid[c]
    BY <2>1, <2>2, <2>3, <1>8
  <2>6. ASSUME NEW e \in Exes PROVE Started(e, tasks', exeHash'[e], exeSaid'[e], proc[e])
    <3>1. CASE e # d
      BY <3>1, <2>5, <1>3, <1>6 DEF d
    <3>2. CASE e = d
      <4>1. Started(e, tasks, exeHash[e], exeSaid[e], proc[e])
        BY DEF CInv, ExeInv
      <4>2. KeyOf(t) = <<"exe", e>> /\ t \in With(tasks, <<"exe", e>>)
        BY <3>2, <1>3, <1>4, <1>10 DEF d
      <4>3. Tracked(t, exeHash[e], proc[e]) /\ Single(tasks, <<"exe", e>>)
        BY <4>1, <4>2 DEF Started
      <4>4. Untracked(k, st, proc[e])
        BY <4>3, <2>4 DEF Tracked, Untracked
      <4>5. With(tasks', <<"exe", e>>) = {} /\ Single(tasks', <<"exe", e>>)
        BY <4>2, <4>3, <1>2
      <4> QED BY <3>2, <4>4, <4>5, <2>5 DEF Started
    <3> QED BY <3>1, <3>2
  <2>7. ASSUME NEW c \in Conns \ raced PROVE Heard(c, tasks', connHash'[c], said'[c], pipes[c], c \in late, msgs')
    BY <1>3, <1>5, <1>10
  <2> QED BY <2>5, <2>6, <2>7, <1>7, <1>8, <1>10
<1>11. CASE t.kind = "child" /\ UNCHANGED <<connHash, msgs, said, exeHash, exeSaid>>
  <2>1. ASSUME NEW e \in Exes PROVE Started(e, tasks', exeHash'[e], exeSaid'[e], proc[e])
    BY <1>3, <1>6, <1>11
  <2>2. ASSUME NEW c \in Conns \ raced PROVE Heard(c, tasks', connHash'[c], said'[c], pipes[c], c \in late, msgs')
    BY <1>3, <1>5, <1>11
  <2> QED BY <2>1, <2>2, <1>7, <1>8, <1>11
<1> QED BY <1>9, <1>10, <1>11 DEF C!Deleted, t
-----------------------------------------------------------------------------
\* Every step of the connections keeps the invariant.
LEMMA ConnectionsStep ==
  ASSUME CInv, IpcAssumption, C!Next
  PROVE  CInv'
<1>0. DOMAIN tasks = 1 .. Len(tasks)
  BY DEF CInv, CTypeOK
<1>1. "owner" \in C!Threads /\ "completion" \in C!Threads
  BY DEF C!Threads
<1>2. ASSUME NEW th \in C!Threads, NEW c \in Conns, C!connectToServer(th, c) PROVE CInv'
  BY <1>2, CLooks DEF C!connectToServer
<1>3. ASSUME NEW c \in Conns, NEW d \in Conns \union {Nothing}, C!createServer(c, d) PROVE CInv'
  BY <1>1, <1>3, CLooks DEF C!createServer
<1>4. ASSUME NEW c \in Conns, NEW d \in Conns, C!onConnectChild(c, d) PROVE CInv'
  BY <1>1, <1>2, <1>4 DEF C!onConnectChild
<1>11. ASSUME NEW th \in C!Threads, C!Adds(th) PROVE CInv'
  BY <1>11, CAdds
<1>5. ASSUME NEW c \in Conns, C!close(c) PROVE CInv'
  <2> DEFINE m == [op |-> "destroy", c |-> c]
  <2>1. m \in ConnMessage /\ (\A x \in Conns : ~Makes(m, x)) /\ msgs' = Append(msgs, m)
        /\ UNCHANGED <<connHash, exeHash, pipes, port, tasks, said, exeSaid, proc, late, adds, raced, run_flag_>>
    BY <1>5 DEF ConnMessage, Makes, C!close, C!Asks, C!Asked
  <2> HIDE DEF m
  <2> QED BY <2>1, CAsks
<1>6. ASSUME C!closeAll PROVE CInv'
  <2> DEFINE m == [op |-> "stop", c |-> Nothing]
  <2>1. m \in ConnMessage /\ (\A x \in Conns : ~Makes(m, x)) /\ msgs' = Append(msgs, m)
        /\ UNCHANGED <<connHash, exeHash, pipes, port, tasks, said, exeSaid, proc, late, adds, raced, run_flag_>>
    BY <1>6 DEF ConnMessage, Makes, C!closeAll, C!Asks, C!Asked
  <2> HIDE DEF m
  <2> QED BY <2>1, CAsks
<1>7. ASSUME NEW c \in Conns, C!PeerConnects(c) \/ C!LinkFails(c) PROVE CInv'
  BY <1>7, CLinks
<1>8. ASSUME NEW e \in Exes, C!startupClient(e) PROVE CInv'
  BY <1>8, CStarts
<1>9. CASE C!onMessage \/ C!onCompletionStatus
  BY <1>9, CMessage, CCompletion
<1>10. ASSUME NEW i \in 1 .. Len(tasks),
              C!onQuit(i) \/ C!processInit(i) \/ C!ListenConnect(i) \/ C!CreateChildConnect(i) \/ C!Exe(i) \/ C!Blocks(i) \/ C!Deleted(i)
       PROVE  CInv'
  BY <1>10, CQuits, CBegins, CListens, CCreates, CExe, CBlocks, CDeletes
<1> QED BY <1>0, <1>1, <1>2, <1>3, <1>4, <1>5, <1>6, <1>7, <1>8, <1>9, <1>10, <1>11 DEF C!Next

\* So does a step of another part.
LEMMA ConnectionsStutter ==
  ASSUME CInv, UNCHANGED ConnVars
  PROVE  CInv'
BY DEF ConnVars, CInv, CTypeOK, ExeInv, ListenInv, PortInv, AddsInv

\* The invariant of the connections holds in every state.
LEMMA ConnectionsInductive == Spec => []CInv
<1>1. Init => CInv
  BY CFirst, IpcAssumption DEF Init
<1>2. ASSUME CInv, [Next]_vars PROVE CInv'
  <2>1. C!Next \/ UNCHANGED ConnVars
    BY <1>2 DEF Next, vars
  <2> QED BY <1>2, <2>1, ConnectionsStep, ConnectionsStutter, IpcAssumption
<1> QED BY <1>1, <1>2, PTL DEF Spec

\* A set that has no two elements has at most one.
LEMMA AtMostOne ==
  ASSUME NEW T, \A x, y \in T : x = y
  PROVE  C!Cardinality(T) <= 1
<1>1. C!Cardinality(T) = Cardinality(T)
  BY DEF C!Cardinality, Cardinality, C!IsFiniteSet, IsFiniteSet
<1>2. CASE T = {}
  BY <1>1, <1>2, FS_EmptySet
<1>3. ASSUME NEW x \in T PROVE Cardinality(T) = 1
  <2>1. T = {x}
    BY <1>3
  <2> QED BY <2>1, FS_Singleton
<1> QED BY <1>1, <1>2, <1>3

\* There is one task for a client process, which knows whether the process is there;
\* when there is none, the process has quit or never was, and nothing is remembered
\* of it, or it is reported and remembered as crashed: Connections' ExesTracked, of
\* startupClient, IPCExeTask and onExeInstalled (qyipc/ipc-object.cc, ipc-tasks.cc).
THEOREM ProcessesTracked == Spec => []ExesTracked
<1>1. ASSUME CInv, NEW e \in Exes
      PROVE  LET T == {i \in DOMAIN tasks : tasks[i].kind = "exe" /\ tasks[i].e = e} IN
             /\ C!Cardinality(T) <= 1 /\ (T # {} => exeHash[e].task)
             /\ T = {} => (proc[e] = "runs" <=> exeSaid[e] = "crash") /\ (exeSaid[e] = "crash" <=> exeHash[e] # C!NoExe)
  <2> DEFINE T == {i \in DOMAIN tasks : tasks[i].kind = "exe" /\ tasks[i].e = e}
             k == <<"exe", e>>
  <2>1. Started(e, tasks, exeHash[e], exeSaid[e], proc[e]) /\ DOMAIN tasks = 1 .. Len(tasks)
    BY <1>1 DEF CInv, ExeInv, CTypeOK
  <2>2. \A i \in 1 .. Len(tasks) : i \in T <=> KeyOf(tasks[i]) = k
    BY <2>1, KeyIs
  <2>3. T \subseteq 1 .. Len(tasks)
    BY <2>1
  <2> HIDE DEF T, k
  <2>4. \A i, j \in T : i = j
    BY <2>1, <2>2, <2>3 DEF Started, Single, k
  <2>5. T = {} <=> With(tasks, k) = {}
    BY <2>2, <2>3 DEF With
  <2>6. C!Cardinality(T) <= 1
    BY <2>4, AtMostOne
  <2>7. T # {} => exeHash[e].task
    BY <2>1, <2>5 DEF Started, Tracked, k
  <2>8. T = {} => Untracked(exeHash[e], exeSaid[e], proc[e])
    BY <2>1, <2>5 DEF Started, k
  <2>9. T = {} => (proc[e] = "runs" <=> exeSaid[e] = "crash") /\ (exeSaid[e] = "crash" <=> exeHash[e] # C!NoExe)
    BY <2>8 DEF Untracked
  <2> QED BY <2>6, <2>7, <2>9 DEF T
<1>2. ASSUME CInv PROVE ExesTracked
  BY <1>1, <1>2 DEF ExesTracked, C!ExesTracked
<1> QED BY <1>2, ConnectionsInductive, PTL

\* When all threads are at rest, the object, its owner and the pipes agree on each
\* connection, and at any time one task listens to a connection the object has a key
\* for, whatever the connections, the calls and the steps between which the threads
\* act: Connections' ConnectionsAgree, of addListen, IPCListenConnectTask,
\* onConnectStatus and the engine (qyipc/ipc-object.cc, ipc-tasks.cc, ipc-engine.cc).
\* It leaves out the connections whose last status was missed (StatusesTold says
\* that none is, which the code breaks) and those that two calls of addListen have
\* met in (OneListener).
THEOREM OwnersKnow == Spec => []ConnectionsAgree
<1>1. ASSUME CInv, NEW c \in Conns \ raced
      PROVE  LET T == {i \in DOMAIN tasks : tasks[i].kind = "listen" /\ tasks[i].c = c} IN
             C!Cardinality(T) <= 1 /\ (connHash[c].listen <=> T # {})
  <2> DEFINE T == {i \in DOMAIN tasks : tasks[i].kind = "listen" /\ tasks[i].c = c}
             k == <<"listen", c>>
  <2>1. Heard(c, tasks, connHash[c], said[c], pipes[c], c \in late, msgs) /\ DOMAIN tasks = 1 .. Len(tasks)
    BY <1>1 DEF CInv, ListenInv, CTypeOK
  <2>2. \A i \in 1 .. Len(tasks) : i \in T <=> KeyOf(tasks[i]) = k
    BY <2>1, KeyIs
  <2>3. T \subseteq 1 .. Len(tasks)
    BY <2>1
  <2> HIDE DEF T, k
  <2>4. \A i, j \in T : i = j
    BY <2>1, <2>2, <2>3 DEF Heard, Single, k
  <2>5. T = {} <=> With(tasks, k) = {}
    BY <2>2, <2>3 DEF With
  <2>6. C!Cardinality(T) <= 1
    BY <2>4, AtMostOne
  <2>7. T # {} => connHash[c].listen
    BY <2>1, <2>5 DEF Heard, Listened, k
  <2>8. T = {} => ~connHash[c].listen
    BY <2>1, <2>5 DEF Heard, Unlistened, C!NoKey, k
  <2> QED BY <2>6, <2>7, <2>8 DEF T
<1>2. ASSUME CInv, C!Quiet, run_flag_, NEW c \in Conns \ (late \union raced)
      PROVE  /\ pipes[c] # C!NoPipe => said[c] = (IF pipes[c].link = "up" THEN "connected" ELSE "connecting")
             /\ connHash[c].listen => said[c] \in {"nothing", connHash[c].status}
             /\ said[c] # "closed" /\ (said[c] = "end" => pipes[c] = C!NoPipe /\ connHash[c] = C!NoKey)
  <2> DEFINE p == pipes[c]
             k == <<"listen", c>>
  <2>1. /\ Single(tasks, k) /\ (With(tasks, k) = {} => Unlistened(c, connHash[c], said[c], p, msgs))
        /\ \A t \in With(tasks, k) : Listened(c, t, connHash[c], said[c], p, FALSE, msgs)
    BY <1>2 DEF CInv, ListenInv, Heard, Listened
  <2>2. msgs = <<>> /\ port = <<>> /\ p \in PipeOf
    BY <1>2 DEF C!Quiet, CInv, CTypeOK
  <2>3. (Ends(msgs, c, p) => Free(p)) /\ ~Pending(msgs, c, Free(p)) /\ NoDrops(msgs, c)
    BY <2>2 DEF Ends, Doomed, Clear, Pending, NoDrops
  <2>4. p.link \notin {"joined", "failing"}
    BY <1>2, <2>2 DEF CInv, PortInv
  <2>5. ASSUME NEW t \in With(tasks, k) PROVE t.st = "start" /\ t.ready = FALSE /\ t.changed \in Nat
    <3>1. PICK i \in 1 .. Len(tasks) : t = tasks[i]
      BY <2>5 DEF With
    <3>2. tasks[i].st = "start" /\ ~tasks[i].ready
      BY <1>2 DEF C!Quiet, CInv, CTypeOK
    <3>3. tasks[i] \in ConnTask
      BY <1>2 DEF CInv, CTypeOK
    <3> QED BY <3>1, <3>2, <3>3, TaskIs
  <2> HIDE DEF p, k
  <2>6. CASE With(tasks, k) = {}
    BY <2>1, <2>3, <2>6 DEF Unlistened, Free, C!NoKey, p
  <2>7. ASSUME NEW t \in With(tasks, k)
        PROVE  /\ connHash[c].listen /\ said[c] \in {"nothing", connHash[c].status} /\ said[c] # "closed" /\ said[c] # "end"
               /\ ~Free(p) => said[c] = LinkOf(p.link)
    <3>1. t.changed = 0 /\ t.st = "start" /\ Current(c, t, said[c], p, msgs)
      <4>1. (t.changed > 0 => t.ready) /\ Current(c, t, said[c], p, msgs)
        BY <2>1, <2>5, <2>7 DEF Listened
      <4>2. t.changed \in Nat /\ t.ready = FALSE /\ t.st = "start"
        BY <2>5, <2>7
      <4>3. ~(t.changed > 0)
        BY <4>1, <4>2
      <4>4. t.changed = 0
        BY <4>2, <4>3
      <4> QED BY <4>1, <4>2, <4>4
    <3>2. said[c] # "end" /\ (~Free(p) => said[c] = LinkOf(p.link))
      BY <3>1, <2>3 DEF Current
    <3> QED BY <3>1, <3>2, <2>1, <2>7 DEF Listened
  <2>8. ~Free(p) => p.link \in {"wait", "up", "down"}
    BY <2>2, <2>4, PipeIs
  <2>9. ASSUME NEW t \in With(tasks, k), p # C!NoPipe
        PROVE  said[c] = (IF p.link = "up" THEN "connected" ELSE "connecting")
    <3>1. said[c] = LinkOf(p.link) /\ said[c] # "closed" /\ p.link \in {"wait", "up", "down"}
      BY <2>7, <2>8, <2>9 DEF Free
    <3> QED BY <3>1 DEF LinkOf
  <2> QED BY <2>6, <2>7, <2>9 DEF p
<1>3. ASSUME CInv PROVE ConnectionsAgree
  <2>1. \A c \in Conns \ raced : C!Cardinality(C!Listening(c)) <= 1 /\ (connHash[c].listen <=> C!Listening(c) # {})
    BY <1>1, <1>3 DEF C!Listening
  <2> QED BY <2>1, <1>2, <1>3 DEF ConnectionsAgree, C!ConnectionsAgree
<1> QED BY <1>3, ConnectionsInductive, PTL
=============================================================================
