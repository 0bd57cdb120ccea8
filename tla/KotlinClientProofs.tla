------------------------ MODULE KotlinClientProofs -------------------------
(***************************************************************************)
(* What the Kotlin client guarantees for any number of threads and events  *)
(* and any configuration: its type, that a settled event is gone for good, *)
(* that a batch in flight is the head of the queue whatever the trackers   *)
(* insert and trim, when a flush returns, and that the client implements   *)
(* the promise.                                                            *)
(***************************************************************************)
EXTENDS KotlinClient, DeviceQueueTheorems, SequenceTheorems

\* While a task runs it is the first of the executor's tasks.
BusyHasTask == worker.at # "idle" => tasks # <<>>

\* Every key ever handed out is at most lastSeq: a new row's is none of them.
SeqsAreTracked ==
  Seqs(queue) \union Seqs(worker.batch) \union answered \union settled \subseteq 1 .. lastSeq

SeqIsKey == \A r, s \in queue : r.seq = s.seq => r = s

\* The worker deletes only what the server has definitively answered.
SettlingIsAnswered == worker.at = "settling" => Seqs(worker.batch) \subseteq answered

\* The inductive invariants: of the type, and of the events.
Typed == TypeOK /\ BusyHasTask

IInv ==
  /\ Typed /\ SeqsAreTracked /\ SeqIsKey
  /\ BatchIsHeadOfQueue /\ SettlingIsAnswered /\ SettledOnce

-----------------------------------------------------------------------------
(* The state keeps its type.                                               *)

\* Dropping the poll's task keeps the others.
LEMMA RemovingKeepsOthers ==
  ASSUME NEW S, NEW s \in Seq(S), NEW e
  PROVE  /\ RemoveFirst(s, e) \in Seq(S)
         /\ \A i \in 1 .. Len(s) : s[i] # e =>
              \E j \in 1 .. Len(RemoveFirst(s, e)) : RemoveFirst(s, e)[j] = s[i]
<1> DEFINE I == {i \in 1 .. Len(s) : s[i] = e}
<1>1. CASE I = {}
  BY <1>1 DEF RemoveFirst
<1>2. CASE I # {}
  <2> DEFINE k == SelectInSeq(s, LAMBDA v : v = e)
             before == SubSeq(s, 1, k - 1)
             after == SubSeq(s, k + 1, Len(s))
  <2>1. Len(s) \in Nat /\ I \subseteq Nat
    OBVIOUS
  <2>2. \E least \in I : \A i \in I : least <= i
    BY <1>2, <2>1, SmallestNat
  <2>3. k \in 1 .. Len(s) /\ s[k] = e
    BY <1>2, <2>2 DEF SelectInSeq, Min
  <2> HIDE DEF k
  <2>4. /\ before \in Seq(S) /\ Len(before) = k - 1
        /\ \A i \in 1 .. k - 1 : before[i] = s[i]
    <3>1. \A i \in 1 .. k - 1 : s[i] \in S
      BY <2>1, <2>3, ElementOfSeq
    <3>2. QED
      BY <2>1, <2>3, <3>1, SubSeqProperties
  <2>5. /\ after \in Seq(S) /\ Len(after) = Len(s) - k
        /\ \A i \in 1 .. Len(s) - k : after[i] = s[k + i]
    <3>1. \A i \in k + 1 .. Len(s) : s[i] \in S
      BY <2>1, <2>3, ElementOfSeq
    <3>2. QED
      BY <2>1, <2>3, <3>1, SubSeqProperties
  <2>6. RemoveFirst(s, e) = before \o after
    BY <1>2 DEF RemoveFirst, RemoveAt, k
  <2> HIDE DEF before, after
  <2>7. /\ before \o after \in Seq(S) /\ Len(before \o after) = Len(s) - 1
        /\ \A i \in 1 .. Len(s) - 1 : (before \o after)[i] =
             IF i <= k - 1 THEN before[i] ELSE after[i - (k - 1)]
    <3>1. Len(before) + Len(after) = Len(s) - 1
      BY <2>1, <2>3, <2>4, <2>5
    <3>2. /\ before \o after \in Seq(S)
          /\ Len(before \o after) = Len(before) + Len(after)
          /\ \A i \in 1 .. Len(before) + Len(after) : (before \o after)[i] =
               IF i <= Len(before) THEN before[i] ELSE after[i - Len(before)]
      BY <2>4, <2>5, ConcatProperties, Zenon
    <3>3. QED
      BY <2>4, <3>1, <3>2
  <2>8. ASSUME NEW i \in 1 .. Len(s), s[i] # e
        PROVE  \E j \in 1 .. Len(s) - 1 : (before \o after)[j] = s[i]
    <3>1. CASE i < k
      BY <2>1, <2>3, <2>4, <2>7, <3>1
    <3>2. CASE i > k
      <4>1. i - 1 \in 1 .. Len(s) - 1 /\ i - k \in 1 .. Len(s) - k
        BY <2>1, <2>3, <3>2
      <4>2. (before \o after)[i - 1] = after[i - k]
        <5>1. ~ (i - 1 <= k - 1) /\ (i - 1) - (k - 1) = i - k
          BY <2>1, <2>3, <3>2
        <5>2. QED
          BY <2>7, <4>1, <5>1
      <4>3. after[i - k] = s[i]
        BY <2>3, <2>5, <4>1
      <4>4. QED
        BY <4>1, <4>2, <4>3
    <3>3. i # k
      BY <2>3, <2>8
    <3>4. i < k \/ i > k
      BY <2>1, <2>3, <3>3
    <3>5. QED
      BY <3>1, <3>2, <3>4
  <2>9. QED
    BY <2>6, <2>7, <2>8
<1>3. QED
  BY <1>1, <1>2

\* The task that runs ends: the others keep their places.
LEMMA FinishType ==
  ASSUME Typed, worker.at # "idle" \/ tasks # <<>>, Finish
  PROVE  /\ worker' = Resting
         /\ tasks # <<>> /\ tasks' \in Seq(Flushers \union {"poll"})
         /\ BusyHasTask'
<1>1. tasks # <<>>
  BY DEF Typed, BusyHasTask
<1>2. Tail(tasks) \in Seq(Flushers \union {"poll"})
  BY <1>1, HeadTailProperties DEF Typed, TypeOK
<1>3. QED
  BY <1>1, <1>2 DEF Finish, BusyHasTask, Resting

LEMMA RestingType == Resting \in [at : Steps, now : Times, batch : SUBSET Row]
BY QueueAssumption DEF Resting, Steps, Times

EarlierRow(r) == [r EXCEPT !.at = Earlier(r.at)]

\* Moving the origin of time keeps the rows' keys.
LEMMA EarlierType ==
  /\ \A time \in Nat : Earlier(time) \in Nat
  /\ \A time \in Times : Earlier(time) \in Times
  /\ \A r \in Row : EarlierRow(r) \in Row /\ EarlierRow(r).seq = r.seq
  /\ \A rows \in SUBSET Row :
       /\ {EarlierRow(r) : r \in rows} \in SUBSET Row
       /\ Seqs({EarlierRow(r) : r \in rows}) = Seqs(rows)
<1>1. /\ \A time \in Nat : Earlier(time) \in Nat
      /\ \A time \in Times : Earlier(time) \in Times
  BY QueueAssumption DEF Earlier, Times
<1>2. \A r \in Row : EarlierRow(r) \in Row /\ EarlierRow(r).seq = r.seq
  BY <1>1 DEF Row, EarlierRow
<1>3. \A rows \in SUBSET Row :
        /\ {EarlierRow(r) : r \in rows} \in SUBSET Row
        /\ Seqs({EarlierRow(r) : r \in rows}) = Seqs(rows)
  BY <1>2 DEF Seqs
<1>4. QED
  BY <1>1, <1>2, <1>3

LEMMA InitTyped == Init => Typed
BY RestingType, QueueAssumption, EmptySeq DEF Init, Typed, TypeOK, BusyHasTask, None, Times, Resting

LEMMA StepTyped == Typed /\ [Next]_vars => Typed'
<1> SUFFICES ASSUME Typed, [Next]_vars PROVE Typed'
  OBVIOUS
<1> USE DEF store, history
<1>1. ASSUME NEW t \in Trackers, Stamp(t) PROVE Typed'
  BY <1>1 DEF Stamp, Typed, TypeOK, BusyHasTask
<1>2. ASSUME NEW t \in Trackers, TrackFails(t) PROVE Typed'
  BY <1>2 DEF TrackFails, Typed, TypeOK, BusyHasTask
<1>3. ASSUME NEW t \in Trackers, NEW n \in 1 .. MaxPerCall, NEW size \in Sizes,
             Track(t, n, size)
      PROVE  Typed'
  <2>1. n \in Nat /\ trackers[t] \in Times
    BY <1>3, KotlinAssumption DEF Track, Typed, TypeOK
  <2>2. NewRows(lastSeq, n, trackers[t], size) \subseteq Row
    BY <2>1, NewRowsAreRows DEF Typed, TypeOK
  <2>3. queue' \subseteq Row /\ lastSeq' \in Nat
    BY <1>3, <2>1, <2>2 DEF Track, Trimmed, Typed, TypeOK
  <2>4. QED
    BY <1>3, <2>3 DEF Track, Typed, TypeOK, BusyHasTask
<1>4. ASSUME NEW f \in Flushers \union {"poll"}, tasks' = Append(tasks, f),
             UNCHANGED <<store, clock, trackers, life, worker, failures, restarts, history>>
      PROVE  Typed'
  <2>1. tasks' \in Seq(Flushers \union {"poll"}) /\ tasks' # <<>>
    BY <1>4, AppendProperties DEF Typed, TypeOK
  <2>2. QED
    BY <1>4, <2>1 DEF Typed, TypeOK, BusyHasTask
<1>5. CASE Start
  <2>1. CASE Finish
    BY <1>5, <2>1, FinishType, RestingType DEF Start, Typed, TypeOK
  <2>2. CASE worker' = [Resting EXCEPT !.at = "taking", !.now = clock] /\ tasks' = tasks
    BY <1>5, <2>2, RestingType DEF Start, Typed, TypeOK, BusyHasTask, Steps
  <2>3. QED
    BY <1>5, <2>1, <2>2 DEF Start
<1>6. CASE Take
  <2> DEFINE fresh == Fresh(queue, worker.now)
  <2>1. fresh \subseteq Row /\ Batch(fresh) \in SUBSET Row
    BY DEF Fresh, Batch, Typed, TypeOK
  <2>2. queue' = fresh /\ expired' = expired \union Seqs(queue \ fresh)
    BY <1>6 DEF Take
  <2> HIDE DEF fresh
  <2>3. expired' \subseteq Nat
    BY <2>2 DEF Seqs, Row, Typed, TypeOK
  <2>4. CASE Finish
    BY <1>6, <2>1, <2>2, <2>3, <2>4, FinishType, RestingType DEF Take, Typed, TypeOK
  <2>5. CASE worker' = [worker EXCEPT !.at = "posting", !.batch = Batch(fresh)]
             /\ tasks' = tasks
    BY <1>6, <2>1, <2>2, <2>3, <2>5 DEF Take, Typed, TypeOK, BusyHasTask, Steps
  <2>6. QED
    BY <1>6, <2>4, <2>5 DEF Take, fresh
<1>7. ASSUME NEW status \in Statuses, Answered(status) PROVE Typed'
  <2>1. Seqs(worker.batch) \subseteq Nat
    BY DEF Seqs, Row, Typed, TypeOK
  <2>2. QED
    BY <1>7, <2>1 DEF Answered, Typed, TypeOK, BusyHasTask, Steps
<1>8. ASSUME NEW status \in Statuses \union {NoResponse}, NEW advice \in Advices,
             Retry(status, advice)
      PROVE  Typed'
  <2> DEFINE count == IF failures.count < MaxFailures THEN failures.count + 1 ELSE MaxFailures
  <2>1. count \in Nat /\ clock \in Nat /\ advice \in Nat
    BY KotlinAssumption DEF Typed, TypeOK, Times
  <2>2. PICK delay \in Delays(count, advice) :
          failures' = [count |-> count, nextAttemptAt |-> clock + delay]
    BY <1>8 DEF Retry
  <2>3. delay \in Nat
    BY <2>1 DEF Delays
  <2> HIDE DEF count
  <2>4. failures' \in [count : Nat, nextAttemptAt : Nat]
    BY <2>1, <2>2, <2>3
  <2>5. Seqs(worker.batch) \subseteq Nat
    BY DEF Seqs, Row, Typed, TypeOK
  <2>6. QED
    BY <1>8, <2>4, <2>5, FinishType, RestingType DEF Retry, Typed, TypeOK
<1>9. CASE Settle
  <2>1. DeletedThrough(queue, worker.batch) \subseteq Row
    BY DEF DeletedThrough, Typed, TypeOK
  <2>2. Seqs(worker.batch) \subseteq Nat
    BY DEF Seqs, Row, Typed, TypeOK
  <2>3. [Resting EXCEPT !.at = "next"] \in [at : Steps, now : Times, batch : SUBSET Row]
    BY RestingType DEF Steps
  <2>4. None \in [count : Nat, nextAttemptAt : Nat]
    BY DEF None
  <2>5. QED
    BY <1>9, <2>1, <2>2, <2>3, <2>4 DEF Settle, Typed, TypeOK, BusyHasTask
<1>10. CASE Throws
  BY <1>10, FinishType, RestingType DEF Throws, Typed, TypeOK
<1>11. CASE Shutdown
  <2>1. tasks' \in Seq(Flushers \union {"poll"})
    BY <1>11, RemovingKeepsOthers DEF Shutdown, Typed, TypeOK
  <2>2. BusyHasTask'
    <3> SUFFICES ASSUME worker.at # "idle" PROVE tasks' # <<>>
      BY <1>11 DEF Shutdown, BusyHasTask
    <3>1. tasks # <<>> /\ Len(tasks) \in Nat \ {0} /\ Head(tasks) = tasks[1]
      BY EmptySeq DEF Typed, TypeOK, BusyHasTask
    <3>2. CASE tasks' = tasks
      BY <3>1, <3>2
    <3>3. CASE tasks' = RemoveFirst(tasks, "poll") /\ tasks[1] # "poll"
      <4>1. PICK j \in 1 .. Len(tasks') : tasks'[j] = tasks[1]
        BY <3>1, <3>3, RemovingKeepsOthers DEF Typed, TypeOK
      <4>2. Len(<<>>) = 0
        OBVIOUS
      <4>3. QED
        BY <4>1, <4>2
    <3>4. QED
      BY <1>11, <3>1, <3>2, <3>3 DEF Shutdown
  <2>3. QED
    BY <1>11, <2>1, <2>2 DEF Shutdown, Typed, TypeOK
<1>12. CASE CloseQueue
  BY <1>12 DEF CloseQueue, Typed, TypeOK, BusyHasTask
<1>13. CASE Reopen
  <2>1. Seqs(worker.batch) \subseteq Nat
    BY DEF Seqs, Row, Typed, TypeOK
  <2>2. None \in [count : Nat, nextAttemptAt : Nat] /\ Resting.at = "idle"
    BY DEF None, Resting
  <2>3. answered' \subseteq Nat /\ restarts' \in Nat
    <3>1. answered' \subseteq answered \union Seqs(worker.batch)
      BY <1>13 DEF Reopen
    <3>2. restarts' \in Nat
      BY <1>13 DEF Reopen, Typed, TypeOK
    <3>3. QED
      BY <2>1, <3>1, <3>2 DEF Typed, TypeOK
  <2>4. trackers' \in [Trackers -> Times \union {Idle}]
    BY <1>13 DEF Reopen
  <2>5. tasks' \in Seq(Flushers \union {"poll"}) /\ BusyHasTask'
    BY <1>13, <2>2, EmptySeq DEF Reopen, BusyHasTask
  <2>6. QED
    BY <1>13, <2>2, <2>3, <2>4, <2>5, RestingType DEF Reopen, Typed, TypeOK
<1>14. CASE Tick
  <2>1. CASE clock < MaxTime
    BY <1>14, <2>1, QueueAssumption DEF Tick, Typed, TypeOK, BusyHasTask, Times
  <2>2. CASE ~ (clock < MaxTime)
    <3>1. queue' \subseteq Row
      BY <1>14, <2>2, EarlierType DEF Tick, Typed, TypeOK, EarlierRow
    <3>2. trackers' \in [Trackers -> Times \union {Idle}]
      BY <1>14, <2>2, EarlierType DEF Tick, Typed, TypeOK
    <3>3. worker' \in [at : Steps, now : Times, batch : SUBSET Row] /\ worker'.at = worker.at
      BY <1>14, <2>2, EarlierType DEF Tick, Typed, TypeOK, EarlierRow
    <3>4. failures' \in [count : Nat, nextAttemptAt : Nat]
      BY <1>14, <2>2, EarlierType DEF Tick, Typed, TypeOK
    <3>5. QED
      BY <1>14, <2>2, <3>1, <3>2, <3>3, <3>4 DEF Tick, Typed, TypeOK, BusyHasTask
  <2>3. QED
    BY <2>1, <2>2
<1>15. CASE SetClock
  BY <1>15 DEF SetClock, Typed, TypeOK, BusyHasTask
<1>16. CASE UNCHANGED vars
  BY <1>16 DEF vars, Typed, TypeOK, BusyHasTask
<1>17. ASSUME \/ \E f \in Flushers : Flush(f)
              \/ Poll
       PROVE  Typed'
  BY <1>4, <1>17 DEF Flush, Poll
<1>18. QED
  BY <1>1, <1>2, <1>3, <1>5, <1>6, <1>7, <1>8, <1>9, <1>10, <1>11, <1>12,
     <1>13, <1>14, <1>15, <1>16, <1>17 DEF Next, Post

\* Whatever an interleaving of trackers, worker, close and reopen does, the
\* state keeps its type (TypeOK).
THEOREM KotlinTypeCorrect == Spec => []TypeOK
<1>1. Typed => TypeOK
  BY DEF Typed
<1>2. QED
  BY InitTyped, StepTyped, <1>1, PTL DEF Spec

-----------------------------------------------------------------------------
(* The events.                                                             *)

LEMMA InitIInv == Init => IInv
<1> SUFFICES ASSUME Init PROVE IInv
  OBVIOUS
<1>1. Seqs(queue) = {} /\ Seqs(worker.batch) = {} /\ worker.at = "idle"
  BY DEF Init, Seqs, Resting
<1>2. QED
  BY <1>1, InitTyped
     DEF Init, IInv, SeqsAreTracked, SeqIsKey, BatchIsHeadOfQueue,
         SettlingIsAnswered, SettledOnce

LEMMA TrackKeepsIInv ==
  ASSUME IInv, Typed', NEW t \in Trackers, NEW n \in 1 .. MaxPerCall,
         NEW size \in Sizes, Track(t, n, size)
  PROVE  IInv'
<1> DEFINE new == NewRows(lastSeq, n, trackers[t], size)
           all == queue \union new
<1>1. n \in Nat /\ lastSeq \in Nat /\ lastSeq' = lastSeq + n /\ trackers[t] \in Times
  BY KotlinAssumption DEF IInv, Typed, TypeOK, Track
<1>2. /\ new \subseteq Row /\ Seqs(new) = lastSeq + 1 .. lastSeq'
      /\ \A r, s \in new : r.seq = s.seq => r = s
  BY <1>1, NewRowsAreRows
<1>3. queue' \subseteq all /\ UNCHANGED <<worker, answered, settled>>
  BY DEF Track, Trimmed, history
<1>4. /\ \A r \in queue : r.seq \in 1 .. lastSeq
      /\ \A s \in worker.batch : s.seq \in 1 .. lastSeq
      /\ answered \subseteq 1 .. lastSeq /\ settled \subseteq 1 .. lastSeq
  BY DEF IInv, SeqsAreTracked, Seqs
<1>5. \A r \in new : r.seq \in lastSeq + 1 .. lastSeq'
  BY <1>2 DEF Seqs
<1>6. \A r \in all : r \in queue \/ r \in new
  OBVIOUS
<1> HIDE DEF new, all
<1>7. SeqsAreTracked'
  <2>1. 1 .. lastSeq \subseteq 1 .. lastSeq' /\ lastSeq + 1 .. lastSeq' \subseteq 1 .. lastSeq'
    BY <1>1
  <2>2. Seqs(queue') \subseteq 1 .. lastSeq'
    BY <1>3, <1>4, <1>5, <1>6, <2>1 DEF Seqs
  <2>3. Seqs(worker'.batch) \subseteq 1 .. lastSeq'
    BY <1>3, <1>4, <2>1 DEF Seqs
  <2>4. QED
    BY <1>3, <1>4, <2>1, <2>2, <2>3 DEF SeqsAreTracked
<1>8. SeqIsKey'
  <2>1. \A r \in queue, s \in new : r.seq # s.seq
    BY <1>1, <1>4, <1>5
  <2>2. QED
    BY <1>2, <1>3, <1>6, <2>1 DEF IInv, SeqIsKey
<1>9. BatchIsHeadOfQueue'
  <2> SUFFICES ASSUME worker.at \in {"posting", "settling"},
                      NEW r \in queue', NEW s \in worker.batch, r.seq <= s.seq
               PROVE  r \in worker.batch
    BY <1>3 DEF BatchIsHeadOfQueue
  <2>1. r \in queue
    BY <1>1, <1>3, <1>4, <1>5, <1>6
  <2>2. QED
    BY <2>1 DEF IInv, BatchIsHeadOfQueue
<1>10. SettledOnce'
  <2>1. Seqs(queue') \subseteq Seqs(queue) \union (lastSeq + 1 .. lastSeq')
    BY <1>3, <1>5, <1>6 DEF Seqs
  <2>2. settled \intersect (lastSeq + 1 .. lastSeq') = {}
    BY <1>1, <1>4
  <2>3. QED
    BY <1>3, <2>1, <2>2 DEF IInv, SettledOnce
<1>11. SettlingIsAnswered'
  BY <1>3 DEF IInv, SettlingIsAnswered
<1>12. QED
  BY <1>7, <1>8, <1>9, <1>10, <1>11 DEF IInv

LEMMA TakeKeepsIInv ==
  ASSUME IInv, Typed', Take
  PROVE  IInv'
<1> DEFINE fresh == Fresh(queue, worker.now)
<1>1. /\ queue' = fresh /\ fresh \subseteq queue /\ fresh \subseteq Row
      /\ UNCHANGED <<lastSeq, answered, settled>>
  BY DEF Take, Fresh, history, IInv, Typed, TypeOK
<1>2. \/ worker' = Resting
      \/ worker' = [worker EXCEPT !.at = "posting", !.batch = Batch(fresh)]
  BY DEF Take, Finish
<1> HIDE DEF fresh
<1>3. \/ worker'.at = "idle" /\ worker'.batch = {}
      \/ worker'.at = "posting" /\ worker'.batch = Batch(queue')
  <2>1. CASE worker' = Resting
    BY <2>1 DEF Resting
  <2>2. CASE worker' = [worker EXCEPT !.at = "posting", !.batch = Batch(fresh)]
    <3>1. worker'.at = "posting" /\ worker'.batch = Batch(fresh)
      BY <2>2 DEF IInv, Typed, TypeOK
    <3>2. QED
      BY <1>1, <3>1
  <2>3. QED
    BY <1>2, <2>1, <2>2
<1>4. Seqs(queue') \subseteq Seqs(queue) /\ Seqs(worker'.batch) \subseteq Seqs(queue')
  BY <1>1, <1>3 DEF Seqs, Batch
<1>5. SeqsAreTracked' /\ SettledOnce'
  BY <1>1, <1>4 DEF IInv, SeqsAreTracked, SettledOnce
<1>6. BatchIsHeadOfQueue'
  BY <1>1, <1>3, BatchIsPrefix DEF BatchIsHeadOfQueue
<1>7. SeqIsKey' /\ SettlingIsAnswered'
  BY <1>1, <1>3 DEF IInv, SeqIsKey, SettlingIsAnswered
<1>8. QED
  BY <1>5, <1>6, <1>7 DEF IInv

\* A step that ends the task, or starts one, with the queue left alone.
LEMMA RestKeepsIInv ==
  ASSUME IInv, Typed', UNCHANGED <<queue, lastSeq, settled>>,
         \/ worker'.batch = {} /\ worker'.at \notin {"posting", "settling"}
         \/ worker' = worker,
         \/ answered' = answered
         \/ answered' = answered \union Seqs(worker.batch)
  PROVE  IInv'
<1>1. CASE worker' = worker
  BY <1>1 DEF IInv, SeqsAreTracked, SeqIsKey, BatchIsHeadOfQueue, SettlingIsAnswered, SettledOnce
<1>2. CASE worker'.batch = {} /\ worker'.at \notin {"posting", "settling"}
  <2>1. Seqs(worker'.batch) = {}
    BY <1>2 DEF Seqs
  <2>2. QED
    BY <1>2, <2>1
       DEF IInv, SeqsAreTracked, SeqIsKey, BatchIsHeadOfQueue, SettlingIsAnswered, SettledOnce
<1>3. QED
  BY <1>1, <1>2

LEMMA AnsweredKeepsIInv ==
  ASSUME IInv, Typed', NEW status \in Statuses, Answered(status)
  PROVE  IInv'
<1>1. /\ UNCHANGED <<queue, lastSeq, settled>>
      /\ worker.at = "posting" /\ worker'.at = "settling" /\ worker'.batch = worker.batch
  BY DEF Answered, store, IInv, Typed, TypeOK
<1>2. answered' = answered \union Seqs(worker.batch)
  BY QueueAssumption DEF Answered, Outcome, Definitive
<1>3. QED
  BY <1>1, <1>2
     DEF IInv, SeqsAreTracked, SeqIsKey, BatchIsHeadOfQueue, SettlingIsAnswered, SettledOnce

\* The deletion removes rows of the batch only, and every one of them.
LEMMA DeletionIsOfTheBatch ==
  ASSUME IInv, Settle
  PROVE  /\ queue' \subseteq queue
         /\ \A r \in queue \ queue' : r \in worker.batch
         /\ Seqs(queue') \intersect Seqs(worker.batch) = {}
<1>1. queue' = {r \in queue : ~ \E s \in worker.batch : r.seq <= s.seq}
  BY DEF Settle, DeletedThrough
<1>2. \A r \in queue \ queue' : r \in worker.batch
  BY <1>1 DEF Settle, IInv, BatchIsHeadOfQueue
<1>3. \A r \in queue, s \in worker.batch : r.seq = s.seq => r.seq <= s.seq
  BY DEF IInv, Typed, TypeOK, Row
<1>4. QED
  BY <1>1, <1>2, <1>3 DEF Seqs

LEMMA SettleKeepsIInv ==
  ASSUME IInv, Typed', Settle
  PROVE  IInv'
<1>1. /\ worker.at = "settling" /\ worker'.at = "next" /\ worker'.batch = {}
      /\ settled' = settled \union Seqs(worker.batch) /\ UNCHANGED <<lastSeq, answered>>
  BY DEF Settle, Resting
<1>2. Seqs(queue') \subseteq Seqs(queue) /\ Seqs(worker'.batch) = {}
  BY <1>1, DeletionIsOfTheBatch DEF Seqs
<1>3. SeqsAreTracked' /\ SettledOnce'
  BY <1>1, <1>2, DeletionIsOfTheBatch DEF IInv, SeqsAreTracked, SettledOnce
<1>4. SeqIsKey' /\ BatchIsHeadOfQueue' /\ SettlingIsAnswered'
  BY <1>1, DeletionIsOfTheBatch DEF IInv, SeqIsKey, BatchIsHeadOfQueue, SettlingIsAnswered
<1>5. QED
  BY <1>3, <1>4 DEF IInv

LEMMA TickKeepsIInv ==
  ASSUME IInv, Typed', Tick
  PROVE  IInv'
<1>1. UNCHANGED <<lastSeq, answered, settled>>
  BY DEF Tick, history
<1>2. CASE UNCHANGED <<queue, worker>>
  BY <1>1, <1>2 DEF IInv, SeqsAreTracked, SeqIsKey, BatchIsHeadOfQueue, SettlingIsAnswered, SettledOnce
<1>3. CASE /\ queue' = {EarlierRow(r) : r \in queue}
           /\ worker' = [worker EXCEPT !.batch = {EarlierRow(r) : r \in worker.batch}]
  <2>1. worker'.at = worker.at /\ worker'.batch = {EarlierRow(r) : r \in worker.batch}
    BY <1>3 DEF IInv, Typed, TypeOK
  <2>2. queue \subseteq Row /\ worker.batch \subseteq Row
    BY DEF IInv, Typed, TypeOK
  <2>3. Seqs(queue') = Seqs(queue) /\ Seqs(worker'.batch) = Seqs(worker.batch)
    BY <1>3, <2>1, <2>2, EarlierType
  <2>4. SeqsAreTracked' /\ SettlingIsAnswered' /\ SettledOnce'
    BY <1>1, <2>1, <2>3 DEF IInv, SeqsAreTracked, SettlingIsAnswered, SettledOnce
  <2>5. \A r \in queue \union worker.batch : EarlierRow(r).seq = r.seq
    BY <2>2, EarlierType
  <2>6. SeqIsKey'
    BY <1>3, <2>5 DEF IInv, SeqIsKey
  <2>7. BatchIsHeadOfQueue'
    BY <1>3, <2>1, <2>5 DEF IInv, BatchIsHeadOfQueue
  <2>8. QED
    BY <2>4, <2>6, <2>7 DEF IInv
<1>4. QED
  BY <1>2, <1>3 DEF Tick, EarlierRow

LEMMA StepKeepsIInv ==
  ASSUME IInv, Typed', [Next]_vars
  PROVE  IInv'
<1> USE DEF store, history
<1>1. ASSUME NEW t \in Trackers, Stamp(t) \/ TrackFails(t) PROVE IInv'
  BY <1>1, RestKeepsIInv DEF Stamp, TrackFails
<1>2. CASE (\E f \in Flushers : Flush(f)) \/ Poll \/ Shutdown \/ CloseQueue \/ SetClock
           \/ UNCHANGED vars
  BY <1>2, RestKeepsIInv DEF Flush, Poll, Shutdown, CloseQueue, SetClock, vars
<1>3. CASE Start \/ Throws
  <2>1. worker' = Resting \/ worker' = [Resting EXCEPT !.at = "taking", !.now = clock]
    BY <1>3 DEF Start, Throws, Finish
  <2>2. worker'.batch = {} /\ worker'.at \notin {"posting", "settling"}
    <3>1. CASE worker' = Resting
      BY <3>1 DEF Resting
    <3>2. CASE worker' = [Resting EXCEPT !.at = "taking", !.now = clock]
      BY <3>2 DEF Resting
    <3>3. QED
      BY <2>1, <3>1, <3>2
  <2>3. QED
    BY <1>3, <2>2, RestKeepsIInv DEF Start, Throws
<1>4. ASSUME \/ Reopen
             \/ \E status \in Statuses \union {NoResponse}, advice \in Advices :
                  Retry(status, advice)
      PROVE  IInv'
  <2>1. worker'.batch = {} /\ worker'.at = "idle"
    BY <1>4 DEF Reopen, Retry, Finish, Resting
  <2>2. QED
    BY <1>4, <2>1, RestKeepsIInv DEF Reopen, Retry
<1>5. QED
  BY <1>1, <1>2, <1>3, <1>4, TrackKeepsIInv, TakeKeepsIInv, AnsweredKeepsIInv,
     SettleKeepsIInv, TickKeepsIInv DEF Next, Post

\* Every invariant of the client holds in every reachable state (IInv).
THEOREM KotlinInvariance == Spec => []IInv
<1>1. IInv => Typed
  BY DEF IInv
<1>2. IInv /\ [Next]_vars => IInv'
  BY <1>1, StepTyped, StepKeepsIInv
<1>3. QED
  BY InitIInv, <1>2, PTL DEF Spec

\* An event whose batch was settled never waits again and is in no later
\* batch, whatever close, reopen and failed transactions do (SettledOnce).
THEOREM SettledForGood == Spec => []SettledOnce
<1>1. IInv => SettledOnce
  BY DEF IInv
<1>2. QED
  BY KotlinInvariance, <1>1, PTL

\* A batch in flight is the head of the queue, whatever the other threads
\* insert and trim meanwhile (BatchIsHeadOfQueue).
THEOREM KotlinBatchIsHead == Spec => []BatchIsHeadOfQueue
<1>1. IInv => BatchIsHeadOfQueue
  BY DEF IInv
<1>2. QED
  BY KotlinInvariance, <1>1, PTL

-----------------------------------------------------------------------------
(* When a flush returns.                                                   *)

\* A flush that ends with the running task is that task.
LEMMA EndedIsHead ==
  ASSUME Typed, Finish, tasks # <<>>, NEW f, Contains(tasks, f), ~ Contains(tasks', f)
  PROVE  Head(tasks) = f
<1>1. PICK i \in 1 .. Len(tasks) : tasks[i] = f
  BY DEF Contains
<1>2. /\ tasks' = Tail(tasks) /\ Len(tasks') = Len(tasks) - 1 /\ Len(tasks) \in Nat
      /\ \A j \in 1 .. Len(tasks') : tasks'[j] = tasks[j + 1]
  BY HeadTailProperties, EmptySeq DEF Finish, Typed, TypeOK
<1>3. CASE i = 1
  BY <1>1, <1>3 DEF Typed, TypeOK
<1>4. CASE i # 1
  <2>1. i - 1 \in 1 .. Len(tasks')
    BY <1>1, <1>2, <1>4
  <2>2. tasks'[i - 1] = f
    BY <1>1, <1>2, <2>1
  <2>3. QED
    BY <2>1, <2>2 DEF Contains
<1>5. QED
  BY <1>3, <1>4

LEMMA FlushStep ==
  ASSUME ~ StorageFails, IInv, [Next]_vars,
         NEW f \in Flushers, Contains(tasks, f), ~ Contains(tasks', f),
         restarts' = restarts
  PROVE  queue' = {} \/ failures'.count > 0 \/ life = "closed"
<1>1. Typed /\ tasks' # tasks
  BY DEF IInv
<1>2. tasks \in Seq(Flushers \union {"poll"}) /\ f # "poll"
  BY <1>1, KotlinAssumption DEF Typed, TypeOK
<1>3. ASSUME NEW g \in Flushers \union {"poll"}, tasks' = Append(tasks, g) PROVE FALSE
  <2>1. /\ Len(tasks') = Len(tasks) + 1 /\ Len(tasks) \in Nat
        /\ \A i \in 1 .. Len(tasks) : tasks'[i] = tasks[i]
    BY <1>2, <1>3, AppendProperties, LenProperties
  <2>2. \A i \in 1 .. Len(tasks) : i \in 1 .. Len(tasks')
    BY <2>1
  <2>3. QED
    BY <2>1, <2>2 DEF Contains
<1>4. CASE Shutdown
  <2>1. PICK i \in 1 .. Len(tasks) : tasks[i] = f
    BY DEF Contains
  <2>2. tasks' = RemoveFirst(tasks, "poll")
    BY <1>1, <1>4 DEF Shutdown
  <2>3. \E j \in 1 .. Len(tasks') : tasks'[j] = f
    BY <1>2, <2>1, <2>2, RemovingKeepsOthers
  <2>4. QED
    BY <2>3 DEF Contains
<1>5. CASE Start
  BY <1>1, <1>5 DEF Start, BackingOff
<1>6. CASE Take
  <2> DEFINE fresh == Fresh(queue, worker.now)
  <2>1. fresh \in SUBSET Row /\ \A r, s \in fresh : r.seq = s.seq => r = s
    BY DEF Fresh, IInv, Typed, TypeOK, SeqIsKey
  <2>2. Finish /\ ~ (IsDue(fresh, worker.now, Urgency) /\ Batch(fresh) # {}) /\ queue' = fresh
    BY <1>1, <1>6 DEF Take
  <2>3. worker.at # "idle"
    BY <1>6 DEF Take
  <2>4. Head(tasks) = f
    BY <1>1, <2>2, <2>3, EndedIsHead DEF Typed, BusyHasTask
  <2>5. Urgency = "Forced"
    BY <1>2, <2>4 DEF Urgency
  <2> HIDE DEF fresh
  <2>6. IsDue(fresh, worker.now, Urgency) <=> fresh # {}
    BY <2>5 DEF IsDue
  <2>7. QED
    BY <2>1, <2>2, <2>6, BatchIsNotEmpty
<1>7. ASSUME NEW status \in Statuses \union {NoResponse}, NEW advice \in Advices,
             Retry(status, advice)
      PROVE  failures'.count > 0
  <2>1. PICK delay : failures' = [count |-> IF failures.count < MaxFailures
                                           THEN failures.count + 1 ELSE MaxFailures,
                                 nextAttemptAt |-> clock + delay]
    BY <1>7 DEF Retry
  <2>2. failures.count \in Nat
    BY <1>1 DEF Typed, TypeOK
  <2>3. QED
    BY <2>1, <2>2, KotlinAssumption
<1>8. CASE Throws
  BY <1>8 DEF Throws
<1>9. CASE Reopen
  BY <1>1, <1>9 DEF Reopen, Typed, TypeOK
<1>10. ASSUME \/ \E t \in Trackers :
                   \/ Stamp(t) \/ TrackFails(t)
                   \/ \E n \in 1 .. MaxPerCall, size \in Sizes : Track(t, n, size)
              \/ \E status \in Statuses : Answered(status)
              \/ Settle \/ CloseQueue \/ Tick \/ SetClock \/ UNCHANGED vars
       PROVE  FALSE
  BY <1>1, <1>10 DEF Stamp, TrackFails, Track, Answered, Settle, CloseQueue, Tick, SetClock, vars
<1>11. ASSUME (\E g \in Flushers : Flush(g)) \/ Poll PROVE FALSE
  BY <1>3, <1>11 DEF Flush, Poll
<1>12. QED
  BY <1>4, <1>5, <1>6, <1>7, <1>8, <1>9, <1>10, <1>11 DEF Next, Post

\* For storage that does not fail, a flush returns only once the queue is
\* empty or a send failed and waits for its retry, unless the client is closed
\* or killed under it, however large the events are (FlushPostcondition).
THEOREM FlushesDeliver ==
  ASSUME ~ StorageFails
  PROVE  Spec => FlushPostcondition
<1>1. IInv /\ [Next]_vars =>
        [\A f \in Flushers :
           Contains(tasks, f) /\ ~ Contains(tasks', f) /\ restarts' = restarts
             => \/ queue' = {}
                \/ failures'.count > 0
                \/ life = "closed"]_vars
  BY FlushStep
<1>2. QED
  BY KotlinInvariance, <1>1, PTL DEF Spec, FlushPostcondition

-----------------------------------------------------------------------------
(* The client implements the promise.                                      *)

\* The trim keeps of the events exactly those the promise keeps.
LEMMA TrimIsNewest ==
  ASSUME NEW rows
  PROVE  Seqs(Trimmed(rows)) = Promise!Newest(Seqs(rows))
<1>1. \A S : Promise!Cardinality(S) = Cardinality(S)
  BY DEF Promise!Cardinality, Cardinality
<1>2. Promise!Newest(Seqs(rows)) =
        {e \in Seqs(rows) : Cardinality({f \in Seqs(rows) : f > e}) < MaxQueue}
  BY <1>1 DEF Promise!Newest
<1>3. QED
  BY <1>2, SeqsOfTrimmed

LEMMA StepImplements ==
  ASSUME IInv, IInv', [Next]_vars
  PROVE  [Promise!Next]_(Promise!vars)
<1> USE DEF store, history
<1>1. ASSUME NEW t \in Trackers, NEW n \in 1 .. MaxPerCall, NEW size \in Sizes,
             Track(t, n, size)
      PROVE  Promise!Track
  <2> DEFINE new == NewRows(lastSeq, n, trackers[t], size)
  <2>1. n \in Nat /\ lastSeq \in Nat /\ lastSeq' = lastSeq + n /\ trackers[t] \in Times
    BY <1>1, KotlinAssumption DEF IInv, Typed, TypeOK, Track
  <2>2. Seqs(queue \union new) = Seqs(queue) \union (lastSeq + 1 .. lastSeq')
    <3>1. Seqs(new) = lastSeq + 1 .. lastSeq'
      BY <2>1, NewRowsAreRows
    <3>2. QED
      BY <3>1 DEF Seqs
  <2>3. queue' = Trimmed(queue \union new) /\ UNCHANGED <<answered, expired>>
    BY <1>1 DEF Track
  <2>4. Seqs(queue') = Promise!Newest(Seqs(queue) \union (lastSeq + 1 .. lastSeq'))
    BY <2>2, <2>3, TrimIsNewest
  <2>5. lastSeq' >= lastSeq
    BY <2>1
  <2>6. QED
    BY <2>3, <2>4, <2>5 DEF Promise!Track
<1>2. ASSUME Take PROVE Promise!Expire
  <2>1. queue' \subseteq queue /\ UNCHANGED <<lastSeq, answered>>
        /\ expired' = expired \union Seqs(queue \ queue')
    BY <1>2 DEF Take, Fresh
  <2>2. Seqs(queue') \subseteq Seqs(queue) /\ Seqs(queue \ queue') = Seqs(queue) \ Seqs(queue')
    BY <2>1, SeqsOfPart DEF IInv, SeqIsKey
  <2>3. QED
    BY <2>1, <2>2 DEF Promise!Expire
<1>3. ASSUME UNCHANGED <<queue, lastSeq, expired>>, answered \subseteq answered'
      PROVE  Promise!Answer
  BY <1>3 DEF IInv, SeqsAreTracked, Promise!Answer
<1>4. ASSUME NEW status \in Statuses, Answered(status) PROVE Promise!Answer
  BY <1>3, <1>4 DEF Answered
<1>5. ASSUME \/ Reopen
             \/ \E status \in Statuses \union {NoResponse}, advice \in Advices :
                  Retry(status, advice)
      PROVE  Promise!Answer
  <2>1. UNCHANGED <<queue, lastSeq, expired>> /\ answered \subseteq answered'
    BY <1>5 DEF Reopen, Retry
  <2>2. QED
    BY <1>3, <2>1
<1>6. ASSUME Settle PROVE Promise!Leave
  <2>1. UNCHANGED <<lastSeq, answered, expired>> /\ Seqs(worker.batch) \subseteq answered
    BY <1>6 DEF Settle, IInv, SettlingIsAnswered
  <2>2. queue' \subseteq queue /\ \A r \in queue \ queue' : r.seq \in answered
    BY <1>6, <2>1, DeletionIsOfTheBatch DEF Seqs
  <2>3. QED
    BY <2>1, <2>2 DEF Promise!Leave, Seqs
<1>7. ASSUME \/ \E t \in Trackers : Stamp(t) \/ TrackFails(t)
             \/ \E f \in Flushers : Flush(f)
             \/ Poll \/ Start \/ Throws \/ Shutdown \/ CloseQueue \/ SetClock
             \/ UNCHANGED vars
      PROVE  UNCHANGED Promise!vars
  <2>1. UNCHANGED <<queue, lastSeq, answered, expired>>
    BY <1>7 DEF Stamp, TrackFails, Flush, Poll, Start, Throws, Shutdown, CloseQueue,
                SetClock, vars
  <2>2. QED
    BY <2>1 DEF Promise!vars
<1>8. CASE Tick
  <2>1. UNCHANGED <<lastSeq, answered, expired>>
    BY <1>8 DEF Tick
  <2>2. queue \subseteq Row
    BY DEF IInv, Typed, TypeOK
  <2>3. queue' = queue \/ queue' = {EarlierRow(r) : r \in queue}
    BY <1>8 DEF Tick, EarlierRow
  <2>4. Seqs(queue') = Seqs(queue)
    BY <2>2, <2>3, EarlierType
  <2>5. QED
    BY <2>1, <2>4 DEF Promise!vars
<1>9. QED
  BY <1>1, <1>2, <1>4, <1>5, <1>6, <1>7, <1>8 DEF Next, Post, Promise!Next

LEMMA InitImplements == Init => Promise!Init
BY DEF Init, Seqs, Promise!Init

\* Every behaviour of the Kotlin client is one the promise allows
\* (KeepsPromise): an event leaves the device answered, too old, or with
\* MaxQueue newer ones behind it, whatever close, reopen and clocks do.
THEOREM KotlinImplementsPromise == Spec => KeepsPromise
BY KotlinInvariance, InitImplements, StepImplements, PTL DEF Spec, KeepsPromise, Promise!Spec

=============================================================================
