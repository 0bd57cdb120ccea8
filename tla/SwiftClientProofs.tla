------------------------- MODULE SwiftClientProofs -------------------------
(***************************************************************************)
(* What the Swift client guarantees for any number of ClickMan objects over*)
(* one queue file and any configuration: its type, that a batch in flight  *)
(* is the head of the queue although another object may send and delete    *)
(* beside it, when a flush returns, and that the objects together implement*)
(* the promise.                                                            *)
(***************************************************************************)
EXTENDS SwiftClient, DeviceQueueTheorems, SequenceTheorems

\* The drain that runs is the first of those asked for.
BusyHasDrain == \A o \in Objects : objects[o].at # "idle" => objects[o].drains # <<>>

\* Every key ever handed out is at most lastSeq: a new row's is none of them.
SeqsAreTracked ==
  /\ Seqs(queue) \union answered \subseteq 1 .. lastSeq
  /\ \A o \in Objects : Seqs(objects[o].batch) \subseteq 1 .. lastSeq

SeqIsKey == \A r, s \in queue : r.seq = s.seq => r = s

\* An object deletes only what the server has definitively answered.
SettlingIsAnswered ==
  \A o \in Objects :
    objects[o].at = "settling" => Seqs(objects[o].batch) \subseteq answered

\* The inductive invariants: of the type, and of the events.
Typed == TypeOK /\ BusyHasDrain

IInv ==
  /\ Typed /\ SeqsAreTracked /\ SeqIsKey
  /\ BatchIsHeadOfQueue /\ SettlingIsAnswered

-----------------------------------------------------------------------------
(* The state keeps its type.                                               *)

Object ==
  [life : {"unborn", "live", "released"}, drains : Seq({"due", "everything"}),
   pace : [failures : 0 .. MaxFailures, nextAttemptAt : Nat],
   at : Steps, now : Times, batch : SUBSET Row]

LEMMA ObjectsType ==
  /\ TypeOK => objects \in [Objects -> Object]
  /\ TypeOK' <=> /\ queue' \subseteq Row
                 /\ lastSeq' \in Nat
                 /\ clock' \in Times
                 /\ objects' \in [Objects -> Object]
                 /\ answered' \subseteq Nat /\ expired' \subseteq Nat
BY DEF TypeOK, Object

LEMMA UnbornType == Unborn \in Object /\ Unborn.at = "idle" /\ Unborn.batch = {}
<1>1. Open \in [failures : 0 .. MaxFailures, nextAttemptAt : Nat]
  BY SwiftAssumption DEF Open
<1>2. 0 \in Times /\ <<>> \in Seq({"due", "everything"})
  BY QueueAssumption, EmptySeq DEF Times
<1>3. QED
  BY <1>1, <1>2 DEF Unborn, Object, Steps

\* Moving the origin of time keeps the rows' keys.
LEMMA EarlierType ==
  /\ \A time \in Nat : Earlier(time) \in Nat
  /\ \A r \in Row : /\ [r EXCEPT !.at = Earlier(r.at)] \in Row
                    /\ [r EXCEPT !.at = Earlier(r.at)].seq = r.seq
  /\ \A rows \in SUBSET Row :
       EarlierRows(rows) \in SUBSET Row /\ Seqs(EarlierRows(rows)) = Seqs(rows)
<1> DEFINE earlier(r) == [r EXCEPT !.at = Earlier(r.at)]
<1>1. /\ \A time \in Nat : Earlier(time) \in Nat
      /\ \A time \in Times : Earlier(time) \in Times
  BY QueueAssumption DEF Earlier, Times
<1>2. \A r \in Row : earlier(r) \in Row /\ earlier(r).seq = r.seq
  BY <1>1 DEF Row
<1>3. \A rows : EarlierRows(rows) = {earlier(r) : r \in rows}
  BY DEF EarlierRows
<1> HIDE DEF earlier
<1>4. \A rows \in SUBSET Row :
        EarlierRows(rows) \in SUBSET Row /\ Seqs(EarlierRows(rows)) = Seqs(rows)
  BY <1>2, <1>3 DEF Seqs
<1>5. QED
  BY <1>1, <1>2, <1>4 DEF earlier

\* The drain that runs ends: the others keep their places, and the object is
\* otherwise as it was.
LEMMA FinishType ==
  ASSUME Typed, NEW o \in Objects, objects[o].drains # <<>>, Finish(o)
  PROVE  /\ objects' \in [Objects -> Object] /\ BusyHasDrain'
         /\ \A p \in Objects \ {o} : objects'[p] = objects[p]
         /\ objects'[o].at = "idle" /\ objects'[o].batch = {}
         /\ objects'[o].pace = objects[o].pace
<1>1. objects \in [Objects -> Object]
  BY ObjectsType DEF Typed
<1>2. Tail(objects[o].drains) \in Seq({"due", "everything"})
  BY <1>1, HeadTailProperties DEF Object
<1>3. 0 \in Times
  BY QueueAssumption DEF Times
<1>4. /\ objects' \in [Objects -> Object]
      /\ \A p \in Objects \ {o} : objects'[p] = objects[p]
      /\ objects'[o].at = "idle" /\ objects'[o].batch = {}
      /\ objects'[o].pace = objects[o].pace
  BY <1>1, <1>2, <1>3 DEF Finish, Object, Steps
<1>5. BusyHasDrain'
  BY <1>4 DEF Typed, BusyHasDrain
<1>6. QED
  BY <1>4, <1>5

LEMMA InitTyped == Init => Typed
BY UnbornType, ObjectsType, QueueAssumption
   DEF Init, Typed, TypeOK, Object, BusyHasDrain, Times

LEMMA StepTyped == Typed /\ [Next]_vars => Typed'
<1> SUFFICES ASSUME Typed, [Next]_vars PROVE Typed'
  OBVIOUS
<1>1. /\ queue \subseteq Row /\ lastSeq \in Nat /\ clock \in Times
      /\ objects \in [Objects -> Object] /\ answered \subseteq Nat /\ expired \subseteq Nat
  BY ObjectsType DEF Typed, TypeOK
<1>2. ASSUME objects' \in [Objects -> Object], BusyHasDrain',
             queue' \subseteq Row, lastSeq' \in Nat, clock' \in Times,
             answered' \subseteq Nat, expired' \subseteq Nat
      PROVE  Typed'
  BY <1>2, ObjectsType DEF Typed
<1>3. \A o \in Objects : Seqs(objects[o].batch) \subseteq Nat
  BY <1>1 DEF Seqs, Row, Object
<1>4. ASSUME NEW o \in Objects, Finish(o), objects[o].at # "idle" \/ objects[o].drains # <<>>,
             UNCHANGED <<queue, lastSeq, clock, answered, expired>>
      PROVE  Typed'
  BY <1>1, <1>2, <1>4, FinishType DEF Typed, BusyHasDrain
<1>5. ASSUME NEW o \in Objects, Create(o) \/ Release(o) PROVE Typed'
  <2>1. UNCHANGED <<queue, lastSeq, clock, answered, expired>>
    BY <1>5 DEF Create, Release
  <2>2. PICK life \in {"live", "released"} : objects' = [objects EXCEPT ![o].life = life]
    BY <1>5 DEF Create, Release
  <2>3. /\ objects' \in [Objects -> Object]
        /\ \A p \in Objects : objects'[p].at = objects[p].at
                              /\ objects'[p].drains = objects[p].drains
    BY <1>1, <2>2 DEF Object
  <2>4. QED
    BY <1>1, <1>2, <2>1, <2>3 DEF Typed, BusyHasDrain
<1>6. ASSUME NEW o \in Objects, Poll(o) \/ Flush(o) PROVE Typed'
  <2>1. UNCHANGED <<queue, lastSeq, clock, answered, expired>>
    BY <1>6 DEF Poll, Flush
  <2>2. PICK urgency \in {"due", "everything"} :
          objects' = [objects EXCEPT ![o].drains = Append(objects[o].drains, urgency)]
    BY <1>6 DEF Poll, Flush
  <2>3. /\ Append(objects[o].drains, urgency) \in Seq({"due", "everything"})
        /\ Append(objects[o].drains, urgency) # <<>>
    BY <1>1, AppendProperties DEF Object
  <2>4. /\ objects' \in [Objects -> Object] /\ objects'[o].drains # <<>>
        /\ \A p \in Objects \ {o} : objects'[p] = objects[p]
    BY <1>1, <2>2, <2>3 DEF Object
  <2>5. QED
    BY <1>1, <1>2, <2>1, <2>4 DEF Typed, BusyHasDrain
<1>7. ASSUME NEW o \in Objects, NEW n \in 1 .. MaxPerCall, NEW size \in Sizes,
             Track(o, n, size)
      PROVE  Typed'
  <2>1. n \in Nat
    BY SwiftAssumption
  <2>2. NewRows(lastSeq, n, clock, size) \subseteq Row
    BY <1>1, <2>1, NewRowsAreRows
  <2>3. queue' \subseteq Row /\ lastSeq' \in Nat
    BY <1>1, <1>7, <2>1, <2>2 DEF Track, Trimmed
  <2>4. QED
    BY <1>1, <1>2, <1>7, <2>3 DEF Track, Typed, BusyHasDrain
<1>8. ASSUME NEW o \in Objects, NEW step \in Steps \ {"idle"}, NEW now \in Times,
             NEW batch \in SUBSET Row, objects[o].drains # <<>>,
             objects' = [objects EXCEPT ![o].at = step, ![o].now = now, ![o].batch = batch],
             queue' \subseteq Row, expired' \subseteq Nat, answered' \subseteq Nat,
             UNCHANGED <<lastSeq, clock>>
      PROVE  Typed'
  <2>1. /\ objects' \in [Objects -> Object] /\ objects'[o].drains # <<>>
        /\ \A p \in Objects \ {o} : objects'[p] = objects[p]
    BY <1>1, <1>8 DEF Object
  <2>2. QED
    BY <1>1, <1>2, <1>8, <2>1 DEF Typed, BusyHasDrain
<1>9. \A o \in Objects : objects[o] \in Object
  BY <1>1
<1>10. ASSUME NEW o \in Objects, Start(o) PROVE Typed'
  <2>1. CASE Finish(o)
    BY <1>4, <1>10, <2>1 DEF Start
  <2>2. CASE objects' = [objects EXCEPT ![o].at = "checking", ![o].now = clock]
    <3>1. objects' = [objects EXCEPT ![o].at = "checking", ![o].now = clock,
                                     ![o].batch = objects[o].batch]
      BY <1>1, <2>2 DEF Object
    <3>2. QED
      BY <1>1, <1>8, <1>9, <1>10, <3>1 DEF Start, Steps, Object
  <2>3. QED
    BY <1>10, <2>1, <2>2 DEF Start
<1>11. ASSUME NEW o \in Objects, Check(o) PROVE Typed'
  <2>1. objects[o].at # "idle" /\ UNCHANGED <<queue, lastSeq, clock, answered, expired>>
    BY <1>11 DEF Check
  <2>2. CASE Finish(o)
    BY <1>4, <2>1, <2>2
  <2>3. CASE Goto(o, "purging")
    <3>1. objects' = [objects EXCEPT ![o].at = "purging", ![o].now = objects[o].now,
                                     ![o].batch = objects[o].batch]
      BY <1>1, <2>3 DEF Object, Goto
    <3>2. QED
      BY <1>1, <1>8, <1>9, <2>1, <3>1 DEF Typed, BusyHasDrain, Steps, Object
  <2>4. QED
    BY <1>11, <2>2, <2>3 DEF Check
<1>12. ASSUME NEW o \in Objects, Purge(o) PROVE Typed'
  <2>1. queue' \subseteq queue /\ expired' = expired \union Seqs(queue \ queue')
    BY <1>12 DEF Purge, Fresh
  <2>2. expired' \subseteq Nat
    BY <1>1, <2>1 DEF Seqs, Row
  <2>3. objects' = [objects EXCEPT ![o].at = "reading", ![o].now = 0,
                                   ![o].batch = objects[o].batch]
    BY <1>1, <1>12 DEF Object, Purge
  <2>4. 0 \in Times
    BY QueueAssumption DEF Times
  <2>5. objects[o].drains # <<>> /\ UNCHANGED <<lastSeq, clock, answered>>
    BY <1>12 DEF Purge, Typed, BusyHasDrain
  <2>6. queue' \subseteq Row /\ "reading" \in Steps \ {"idle"} /\ objects[o].batch \in SUBSET Row
    BY <1>1, <2>1 DEF Steps, Object
  <2>7. QED
    BY <1>1, <1>8, <2>2, <2>3, <2>4, <2>5, <2>6
<1>13. ASSUME NEW o \in Objects, Read(o) PROVE Typed'
  <2>1. objects[o].at # "idle" /\ UNCHANGED <<queue, lastSeq, clock, answered, expired>>
    BY <1>13 DEF Read
  <2>2. CASE Finish(o)
    BY <1>4, <2>1, <2>2
  <2>3. CASE objects' = [objects EXCEPT ![o].at = "posting", ![o].batch = Batch(queue)]
    <3>1. objects' = [objects EXCEPT ![o].at = "posting", ![o].now = objects[o].now,
                                     ![o].batch = Batch(queue)]
      BY <1>1, <2>3 DEF Object
    <3>2. Batch(queue) \in SUBSET Row
      BY <1>1 DEF Batch
    <3>3. QED
      BY <1>1, <1>8, <1>9, <2>1, <3>1, <3>2 DEF Typed, BusyHasDrain, Steps, Object
  <2>4. QED
    BY <1>13, <2>2, <2>3 DEF Read
<1>14. ASSUME NEW o \in Objects, NEW status \in Statuses, Answered(o, status) PROVE Typed'
  <2>1. objects[o].at # "idle" /\ UNCHANGED <<queue, lastSeq, clock, expired>>
    BY <1>14 DEF Answered
  <2>2. answered' \subseteq Nat
    BY <1>1, <1>3, <1>14 DEF Answered
  <2>3. objects' = [objects EXCEPT ![o].at = "settling", ![o].now = objects[o].now,
                                   ![o].batch = objects[o].batch]
    BY <1>1, <1>14 DEF Object, Answered, Goto
  <2>4. QED
    BY <1>1, <1>8, <1>9, <2>1, <2>2, <2>3 DEF Typed, BusyHasDrain, Steps, Object
<1>15. ASSUME NEW o \in Objects, NEW status \in Statuses \union {NoResponse},
              NEW advice \in Advices, Retry(o, status, advice)
       PROVE  Typed'
  <2> DEFINE failures == IF objects[o].pace.failures < MaxFailures
                         THEN objects[o].pace.failures + 1 ELSE MaxFailures
  <2>1. failures \in 0 .. MaxFailures /\ clock \in Nat /\ advice \in Nat
    BY <1>1, SwiftAssumption DEF Object, Times
  <2>2. PICK delay \in Delays(failures, advice) :
          objects' = [objects EXCEPT
            ![o].pace = [failures |-> failures, nextAttemptAt |-> clock + delay],
            ![o].at = "idle", ![o].batch = {},
            ![o].drains = Tail(objects[o].drains)]
    BY <1>15 DEF Retry
  <2>3. delay \in Nat
    BY <2>1 DEF Delays
  <2> HIDE DEF failures
  <2>4. [failures |-> failures, nextAttemptAt |-> clock + delay]
          \in [failures : 0 .. MaxFailures, nextAttemptAt : Nat]
    BY <2>1, <2>3
  <2>5. Tail(objects[o].drains) \in Seq({"due", "everything"})
    BY <1>1, <1>15, HeadTailProperties DEF Retry, Typed, BusyHasDrain, Object
  <2>6. /\ objects' \in [Objects -> Object] /\ objects'[o].at = "idle"
        /\ \A p \in Objects \ {o} : objects'[p] = objects[p]
    BY <1>1, <2>2, <2>4, <2>5 DEF Object, Steps
  <2>7. answered' \subseteq Nat /\ UNCHANGED <<queue, lastSeq, clock, expired>>
    BY <1>1, <1>3, <1>15 DEF Retry
  <2>8. QED
    BY <1>1, <1>2, <2>6, <2>7 DEF Typed, BusyHasDrain
<1>16. ASSUME NEW o \in Objects, Settle(o) PROVE Typed'
  <2>1. Open \in [failures : 0 .. MaxFailures, nextAttemptAt : Nat]
    BY SwiftAssumption DEF Open
  <2>2. /\ objects' \in [Objects -> Object] /\ objects'[o].drains = objects[o].drains
        /\ \A p \in Objects \ {o} : objects'[p] = objects[p]
    <3>1. objects' = [objects EXCEPT ![o].pace = Open, ![o].at = "next", ![o].batch = {}]
      BY <1>16 DEF Settle
    <3>2. {} \in SUBSET Row /\ "next" \in Steps
      BY DEF Steps
    <3>3. \A p \in Objects \ {o} : objects'[p] = objects[p]
      BY <1>1, <3>1
    <3>4. objects'[o] \in Object /\ objects'[o].drains = objects[o].drains
      <4>1. objects'[o] = [objects[o] EXCEPT !.pace = Open, !.at = "next", !.batch = {}]
        BY <1>1, <3>1 DEF Object
      <4>2. QED
        BY <1>9, <2>1, <3>2, <4>1 DEF Object
    <3>5. objects' \in [Objects -> Object]
      BY <1>1, <3>1, <3>3, <3>4
    <3>6. QED
      BY <3>3, <3>4, <3>5
  <2>3. queue' \subseteq Row
    BY <1>1, <1>16 DEF Settle, DeletedThrough
  <2>4. objects[o].drains # <<>>
    BY <1>16 DEF Settle, Typed, BusyHasDrain
  <2>5. QED
    BY <1>1, <1>2, <1>16, <2>2, <2>3, <2>4 DEF Settle, Typed, BusyHasDrain
<1>17. ASSUME NEW o \in Objects, Throws(o) PROVE Typed'
  BY <1>4, <1>17 DEF Throws
<1>18. CASE Crash
  <2>1. PICK heard \in SUBSET Objects :
          answered' = answered \union UNION {Seqs(objects[o].batch) : o \in heard}
    BY <1>18 DEF Crash
  <2>2. answered' \subseteq Nat
    BY <1>1, <1>3, <2>1
  <2>3. objects' \in [Objects -> Object] /\ BusyHasDrain'
    BY <1>18, UnbornType DEF Crash, BusyHasDrain
  <2>4. QED
    BY <1>1, <1>2, <1>18, <2>2, <2>3 DEF Crash
<1>19. CASE Tick
  <2>1. CASE clock' = clock + 1 /\ clock < MaxTime /\ UNCHANGED <<queue, objects>>
    <3>1. clock' \in Times
      BY <1>1, <2>1, QueueAssumption DEF Times
    <3>2. QED
      BY <1>1, <1>2, <1>19, <2>1, <3>1 DEF Tick, Typed, BusyHasDrain
  <2>2. CASE /\ clock' = clock /\ queue' = EarlierRows(queue)
             /\ objects' = [o \in Objects |->
                  [objects[o] EXCEPT !.batch = EarlierRows(@),
                                     !.pace.nextAttemptAt = Earlier(@)]]
    <3>1. queue' \subseteq Row
      BY <1>1, <2>2, EarlierType
    <3>2. ASSUME NEW o \in Objects
          PROVE  objects'[o] \in Object /\ objects'[o].at = objects[o].at
                 /\ objects'[o].drains = objects[o].drains
      BY <1>1, <2>2, EarlierType DEF Object
    <3>3. objects' \in [Objects -> Object]
      BY <2>2, <3>2
    <3>4. QED
      BY <1>1, <1>2, <1>19, <2>2, <3>1, <3>2, <3>3 DEF Tick, Typed, BusyHasDrain
  <2>3. QED
    BY <1>19, <2>1, <2>2 DEF Tick
<1>20. CASE SetClock \/ UNCHANGED vars
  BY <1>1, <1>2, <1>20 DEF SetClock, vars, Typed, BusyHasDrain
<1>21. QED
  BY <1>5, <1>6, <1>7, <1>10, <1>11, <1>12, <1>13, <1>14, <1>15, <1>16, <1>17,
     <1>18, <1>19, <1>20 DEF Next, Work, Post, Hear

\* Whatever an interleaving of objects, drains and the host does, the state
\* keeps its type (TypeOK).
THEOREM SwiftTypeCorrect == Spec => []TypeOK
<1>1. Typed => TypeOK
  BY DEF Typed
<1>2. QED
  BY InitTyped, StepTyped, <1>1, PTL DEF Spec

-----------------------------------------------------------------------------
(* The events.                                                             *)

LEMMA InitIInv == Init => IInv
<1> SUFFICES ASSUME Init PROVE IInv
  OBVIOUS
<1>1. Seqs(queue) = {} /\ \A o \in Objects : Seqs(objects[o].batch) = {} /\ objects[o].at = "idle"
  BY UnbornType DEF Init, Seqs
<1>2. QED
  BY <1>1, InitTyped
     DEF Init, IInv, SeqsAreTracked, SeqIsKey, BatchIsHeadOfQueue, InFlight, SettlingIsAnswered

\* A step of one object that leaves the queue alone and is no send.
LEMMA RestKeepsIInv ==
  ASSUME IInv, Typed', UNCHANGED <<queue, lastSeq>>,
         answered \subseteq answered', answered' \subseteq 1 .. lastSeq,
         \A o \in Objects :
           \/ objects'[o].batch = {} /\ objects'[o].at \notin {"posting", "settling"}
           \/ /\ objects'[o].batch = objects[o].batch
              /\ \/ objects'[o].at \notin {"posting", "settling"}
                 \/ objects'[o].at = objects[o].at
  PROVE  IInv'
<1>1. \A o \in Objects : objects'[o].batch = {} => Seqs(objects'[o].batch) = {}
  BY DEF Seqs
<1>2. SeqsAreTracked' /\ SeqIsKey'
  BY <1>1 DEF IInv, SeqsAreTracked, SeqIsKey
<1>3. BatchIsHeadOfQueue'
  BY DEF IInv, BatchIsHeadOfQueue, InFlight
<1>4. SettlingIsAnswered'
  BY DEF IInv, SettlingIsAnswered
<1>5. QED
  BY <1>2, <1>3, <1>4 DEF IInv

LEMMA TrackKeepsIInv ==
  ASSUME IInv, Typed', NEW o \in Objects, NEW n \in 1 .. MaxPerCall,
         NEW size \in Sizes, Track(o, n, size)
  PROVE  IInv'
<1> DEFINE new == NewRows(lastSeq, n, clock, size)
           all == queue \union new
<1>1. n \in Nat /\ lastSeq \in Nat /\ lastSeq' = lastSeq + n /\ clock \in Times
  BY SwiftAssumption DEF IInv, Typed, TypeOK, Track
<1>2. /\ new \subseteq Row /\ Seqs(new) = lastSeq + 1 .. lastSeq'
      /\ \A r, s \in new : r.seq = s.seq => r = s
  BY <1>1, NewRowsAreRows
<1>3. queue' \subseteq all /\ UNCHANGED <<objects, answered>>
  BY DEF Track, Trimmed
<1>4. /\ \A r \in queue : r.seq \in 1 .. lastSeq
      /\ \A p \in Objects : \A s \in objects[p].batch : s.seq \in 1 .. lastSeq
      /\ answered \subseteq 1 .. lastSeq
  BY DEF IInv, SeqsAreTracked, Seqs
<1>5. \A r \in new : r.seq \in lastSeq + 1 .. lastSeq'
  BY <1>2 DEF Seqs
<1>6. \A r \in all : r \in queue \/ r \in new
  OBVIOUS
<1> HIDE DEF new, all
<1>7. SeqsAreTracked'
  <2>1. 1 .. lastSeq \subseteq 1 .. lastSeq' /\ lastSeq + 1 .. lastSeq' \subseteq 1 .. lastSeq'
    BY <1>1
  <2>2. Seqs(queue') \subseteq 1 .. lastSeq'
    BY <1>3, <1>4, <1>5, <1>6, <2>1 DEF Seqs
  <2>3. \A p \in Objects : Seqs(objects'[p].batch) \subseteq 1 .. lastSeq'
    BY <1>3, <1>4, <2>1 DEF Seqs
  <2>4. QED
    BY <1>3, <1>4, <2>1, <2>2, <2>3 DEF SeqsAreTracked
<1>8. SeqIsKey'
  <2>1. \A r \in queue, s \in new : r.seq # s.seq
    BY <1>1, <1>4, <1>5
  <2>2. QED
    BY <1>2, <1>3, <1>6, <2>1 DEF IInv, SeqIsKey
<1>9. BatchIsHeadOfQueue'
  <2> SUFFICES ASSUME NEW p \in Objects, InFlight(p),
                      NEW r \in queue', NEW s \in objects[p].batch, r.seq <= s.seq
               PROVE  r \in objects[p].batch
    BY <1>3 DEF BatchIsHeadOfQueue, InFlight
  <2>1. s.seq \in 1 .. lastSeq
    BY <1>4
  <2>2. r \in queue
    BY <1>1, <1>3, <1>5, <1>6, <2>1
  <2>3. QED
    BY <2>2 DEF IInv, BatchIsHeadOfQueue
<1>10. SettlingIsAnswered'
  BY <1>3 DEF IInv, SettlingIsAnswered
<1>11. QED
  BY <1>7, <1>8, <1>9, <1>10 DEF IInv

LEMMA PurgeKeepsIInv ==
  ASSUME IInv, Typed', NEW o \in Objects, Purge(o)
  PROVE  IInv'
<1>1. queue' \subseteq queue /\ UNCHANGED <<lastSeq, answered>>
  BY DEF Purge, Fresh
<1>2. Seqs(queue') \subseteq Seqs(queue)
  BY <1>1 DEF Seqs
<1>3. \A p \in Objects : /\ objects'[p].batch = objects[p].batch
                         /\ objects'[p].at = objects[p].at \/ objects'[p].at = "reading"
  BY ObjectsType DEF Purge, IInv, Typed, Object
<1>4. SeqsAreTracked' /\ SettlingIsAnswered'
  BY <1>1, <1>2, <1>3 DEF IInv, SeqsAreTracked, SettlingIsAnswered
<1>5. BatchIsHeadOfQueue' /\ SeqIsKey'
  BY <1>1, <1>3 DEF IInv, BatchIsHeadOfQueue, InFlight, SeqIsKey
<1>6. QED
  BY <1>4, <1>5 DEF IInv

\* A drain that ended holds no batch.
LEMMA FinishKeepsIInv ==
  ASSUME IInv, Typed', NEW o \in Objects, Finish(o),
         objects[o].at # "idle" \/ objects[o].drains # <<>>,
         UNCHANGED <<queue, lastSeq, answered>>
  PROVE  IInv'
<1>1. /\ \A p \in Objects \ {o} : objects'[p] = objects[p]
      /\ objects'[o].at = "idle" /\ objects'[o].batch = {}
  BY FinishType DEF IInv, Typed, BusyHasDrain
<1>2. answered' \subseteq 1 .. lastSeq
  BY DEF IInv, SeqsAreTracked
<1>3. QED
  BY <1>1, <1>2, RestKeepsIInv

LEMMA ReadKeepsIInv ==
  ASSUME IInv, Typed', NEW o \in Objects, Read(o)
  PROVE  IInv'
<1>1. UNCHANGED <<queue, lastSeq, answered>> /\ queue \in SUBSET Row /\ objects[o].at # "idle"
  BY DEF Read, IInv, Typed, TypeOK
<1>2. CASE Finish(o)
  BY <1>1, <1>2, FinishKeepsIInv
<1>3. CASE objects' = [objects EXCEPT ![o].at = "posting", ![o].batch = Batch(queue)]
  <2>1. /\ objects'[o].at = "posting" /\ objects'[o].batch = Batch(queue)
        /\ \A p \in Objects \ {o} : objects'[p] = objects[p]
    BY <1>3, ObjectsType DEF IInv, Typed, Object
  <2>2. Seqs(Batch(queue)) \subseteq Seqs(queue)
    BY DEF Batch, Seqs
  <2>3. SeqsAreTracked' /\ SeqIsKey' /\ SettlingIsAnswered'
    BY <1>1, <2>1, <2>2 DEF IInv, SeqsAreTracked, SeqIsKey, SettlingIsAnswered
  <2>4. BatchIsHeadOfQueue'
    BY <1>1, <2>1, BatchIsPrefix DEF IInv, BatchIsHeadOfQueue, InFlight
  <2>5. QED
    BY <2>3, <2>4 DEF IInv
<1>4. QED
  BY <1>2, <1>3 DEF Read

LEMMA AnsweredKeepsIInv ==
  ASSUME IInv, Typed', NEW o \in Objects, NEW status \in Statuses, Answered(o, status)
  PROVE  IInv'
<1>1. UNCHANGED <<queue, lastSeq>> /\ objects[o].at = "posting"
  BY DEF Answered
<1>2. answered' = answered \union Seqs(objects[o].batch)
  BY QueueAssumption DEF Answered, Outcome, Definitive
<1>3. /\ objects'[o].at = "settling"
      /\ \A p \in Objects : objects'[p].batch = objects[p].batch
      /\ \A p \in Objects \ {o} : objects'[p].at = objects[p].at
  BY ObjectsType DEF Answered, Goto, IInv, Typed, Object
<1>4. SeqsAreTracked' /\ SeqIsKey' /\ SettlingIsAnswered'
  BY <1>1, <1>2, <1>3 DEF IInv, SeqsAreTracked, SeqIsKey, SettlingIsAnswered
<1>5. BatchIsHeadOfQueue'
  BY <1>1, <1>3 DEF IInv, BatchIsHeadOfQueue, InFlight
<1>6. QED
  BY <1>4, <1>5 DEF IInv

\* The deletion removes only rows of the batch, which the server answered: the
\* other object's rows stay.
LEMMA DeletionIsOfTheBatch ==
  ASSUME IInv, NEW o \in Objects, Settle(o)
  PROVE  /\ queue' \subseteq queue
         /\ \A r \in queue \ queue' : r.seq \in answered
<1>1. queue' = {r \in queue : ~ \E s \in objects[o].batch : r.seq <= s.seq}
  BY DEF Settle, DeletedThrough
<1>2. \A r \in queue \ queue' : r \in objects[o].batch
  BY <1>1 DEF Settle, IInv, BatchIsHeadOfQueue, InFlight
<1>3. Seqs(objects[o].batch) \subseteq answered
  BY DEF Settle, IInv, SettlingIsAnswered
<1>4. QED
  BY <1>1, <1>2, <1>3 DEF Seqs

LEMMA SettleKeepsIInv ==
  ASSUME IInv, Typed', NEW o \in Objects, Settle(o)
  PROVE  IInv'
<1>1. queue' \subseteq queue /\ UNCHANGED <<lastSeq, answered>>
  BY DeletionIsOfTheBatch DEF Settle
<1>2. /\ objects'[o].at = "next" /\ objects'[o].batch = {}
      /\ \A p \in Objects \ {o} : objects'[p] = objects[p]
  BY ObjectsType DEF Settle, IInv, Typed, Object
<1>3. Seqs(queue') \subseteq Seqs(queue) /\ Seqs(objects'[o].batch) = {}
  BY <1>1, <1>2 DEF Seqs
<1>4. SeqsAreTracked' /\ SettlingIsAnswered'
  BY <1>1, <1>2, <1>3 DEF IInv, SeqsAreTracked, SettlingIsAnswered
<1>5. BatchIsHeadOfQueue' /\ SeqIsKey'
  BY <1>1, <1>2 DEF IInv, BatchIsHeadOfQueue, InFlight, SeqIsKey
<1>6. QED
  BY <1>4, <1>5 DEF IInv

\* What a killed process had sent may have been answered: of events tracked.
LEMMA CrashAnswers ==
  ASSUME IInv, Crash
  PROVE  answered \subseteq answered' /\ answered' \subseteq 1 .. lastSeq
<1>1. PICK heard \in SUBSET Objects :
        answered' = answered \union UNION {Seqs(objects[o].batch) : o \in heard}
  BY DEF Crash
<1>2. UNION {Seqs(objects[o].batch) : o \in heard} \subseteq 1 .. lastSeq
  BY DEF IInv, SeqsAreTracked
<1>3. QED
  BY <1>1, <1>2 DEF IInv, SeqsAreTracked

LEMMA TickKeepsIInv ==
  ASSUME IInv, Typed', Tick
  PROVE  IInv'
<1>1. UNCHANGED <<lastSeq, answered>> /\ objects \in [Objects -> Object] /\ queue \subseteq Row
  BY ObjectsType DEF Tick, IInv, Typed, TypeOK
<1>2. CASE UNCHANGED <<queue, objects>>
  BY <1>1, <1>2
     DEF IInv, SeqsAreTracked, SeqIsKey, BatchIsHeadOfQueue, InFlight, SettlingIsAnswered
<1>3. CASE /\ queue' = EarlierRows(queue)
           /\ objects' = [o \in Objects |->
                [objects[o] EXCEPT !.batch = EarlierRows(@),
                                   !.pace.nextAttemptAt = Earlier(@)]]
  <2> DEFINE earlier(r) == [r EXCEPT !.at = Earlier(r.at)]
  <2>1. \A o \in Objects : /\ objects'[o].at = objects[o].at
                           /\ objects'[o].batch = EarlierRows(objects[o].batch)
                           /\ objects[o].batch \subseteq Row
    BY <1>1, <1>3 DEF Object
  <2>2. /\ Seqs(queue') = Seqs(queue)
        /\ \A o \in Objects : Seqs(objects'[o].batch) = Seqs(objects[o].batch)
    BY <1>1, <1>3, <2>1, EarlierType
  <2>3. SeqsAreTracked' /\ SettlingIsAnswered'
    BY <1>1, <2>1, <2>2 DEF IInv, SeqsAreTracked, SettlingIsAnswered
  <2>4. \A r \in Row : earlier(r).seq = r.seq
    BY EarlierType
  <2>5. \A rows : EarlierRows(rows) = {earlier(r) : r \in rows}
    BY DEF EarlierRows
  <2> HIDE DEF earlier
  <2>6. SeqIsKey'
    <3> SUFFICES ASSUME NEW r \in EarlierRows(queue), NEW s \in EarlierRows(queue),
                        r.seq = s.seq
                 PROVE  r = s
      BY <1>3 DEF SeqIsKey
    <3>1. PICK x \in queue, y \in queue : r = earlier(x) /\ s = earlier(y)
      BY <2>5
    <3>2. x = y
      BY <1>1, <2>4, <3>1 DEF IInv, SeqIsKey
    <3>3. QED
      BY <3>1, <3>2
  <2>7. BatchIsHeadOfQueue'
    <3> SUFFICES ASSUME NEW o \in Objects, InFlight(o),
                        NEW r \in EarlierRows(queue),
                        NEW s \in EarlierRows(objects[o].batch), r.seq <= s.seq
                 PROVE  r \in EarlierRows(objects[o].batch)
      BY <1>3, <2>1 DEF BatchIsHeadOfQueue, InFlight
    <3>1. PICK x \in queue, y \in objects[o].batch : r = earlier(x) /\ s = earlier(y)
      BY <2>5
    <3>2. x.seq <= y.seq
      BY <1>1, <2>1, <2>4, <3>1
    <3>3. x \in objects[o].batch
      BY <3>2 DEF IInv, BatchIsHeadOfQueue
    <3>4. QED
      BY <2>5, <3>1, <3>3
  <2>8. QED
    BY <2>3, <2>6, <2>7 DEF IInv
<1>4. QED
  BY <1>2, <1>3 DEF Tick

LEMMA StepKeepsIInv ==
  ASSUME IInv, Typed', [Next]_vars
  PROVE  IInv'
<1>1. objects \in [Objects -> Object] /\ answered \subseteq 1 .. lastSeq
  BY ObjectsType DEF IInv, Typed, SeqsAreTracked
<1>2. ASSUME NEW o \in Objects, Create(o) \/ Release(o) \/ Poll(o) \/ Flush(o)
      PROVE  IInv'
  <2>1. UNCHANGED <<queue, lastSeq, answered>>
    BY <1>2 DEF Create, Release, Poll, Flush
  <2>2. \A p \in Objects : objects'[p].at = objects[p].at /\ objects'[p].batch = objects[p].batch
    <3>1. CASE Create(o)
      BY <1>1, <3>1 DEF Create, Object
    <3>2. CASE Release(o)
      BY <1>1, <3>2 DEF Release, Object
    <3>3. CASE Poll(o)
      BY <1>1, <3>3 DEF Poll, Object
    <3>4. CASE Flush(o)
      BY <1>1, <3>4 DEF Flush, Object
    <3>5. QED
      BY <1>2, <3>1, <3>2, <3>3, <3>4
  <2>3. QED
    BY <1>1, <2>1, <2>2, RestKeepsIInv
<1>3. ASSUME NEW o \in Objects, Start(o) \/ Check(o) \/ Throws(o) PROVE IInv'
  <2>1. UNCHANGED <<queue, lastSeq, answered>>
        /\ (objects[o].at # "idle" \/ objects[o].drains # <<>>)
    BY <1>3 DEF Start, Check, Throws
  <2>2. CASE Finish(o)
    BY <2>1, <2>2, FinishKeepsIInv
  <2>3. CASE ~ Finish(o)
    <3>1. \A p \in Objects : /\ objects'[p].batch = objects[p].batch
                             /\ objects'[p].at \in {objects[p].at, "checking", "purging"}
      <4>1. CASE Start(o)
        <5>1. objects' = [objects EXCEPT ![o].at = "checking", ![o].now = clock]
          BY <2>3, <4>1 DEF Start
        <5>2. QED
          BY <1>1, <5>1 DEF Object
      <4>2. CASE Check(o)
        <5>1. objects' = [objects EXCEPT ![o].at = "purging"]
          BY <2>3, <4>2 DEF Check, Goto
        <5>2. QED
          BY <1>1, <5>1 DEF Object
      <4>3. QED
        BY <1>3, <2>3, <4>1, <4>2 DEF Throws
    <3>2. QED
      BY <1>1, <2>1, <3>1, RestKeepsIInv
  <2>4. QED
    BY <2>2, <2>3
<1>4. ASSUME NEW o \in Objects, NEW status \in Statuses \union {NoResponse},
             NEW advice \in Advices, Retry(o, status, advice)
      PROVE  IInv'
  <2>1. /\ UNCHANGED <<queue, lastSeq>> /\ answered \subseteq answered'
        /\ answered' \subseteq answered \union Seqs(objects[o].batch)
    BY <1>4 DEF Retry
  <2>2. /\ \A p \in Objects \ {o} : objects'[p] = objects[p]
        /\ objects'[o].at = "idle" /\ objects'[o].batch = {}
    BY <1>1, <1>4 DEF Retry, Object
  <2>3. answered' \subseteq 1 .. lastSeq
    BY <2>1 DEF IInv, SeqsAreTracked
  <2>4. QED
    BY <2>1, <2>2, <2>3, RestKeepsIInv
<1>5. CASE Crash
  <2>1. UNCHANGED <<queue, lastSeq>>
        /\ \A o \in Objects : objects'[o].at = "idle" /\ objects'[o].batch = {}
    BY <1>5, UnbornType DEF Crash
  <2>2. QED
    BY <1>5, <2>1, CrashAnswers, RestKeepsIInv
<1>6. CASE SetClock \/ UNCHANGED vars
  BY <1>1, <1>6, RestKeepsIInv DEF SetClock, vars
<1>7. QED
  BY <1>2, <1>3, <1>4, <1>5, <1>6, TrackKeepsIInv, PurgeKeepsIInv, ReadKeepsIInv,
     AnsweredKeepsIInv, SettleKeepsIInv, TickKeepsIInv DEF Next, Work, Post, Hear

\* Every invariant of the objects over a file holds in every reachable state
\* (IInv).
THEOREM SwiftInvariance == Spec => []IInv
<1>1. IInv => Typed
  BY DEF IInv
<1>2. IInv /\ [Next]_vars => IInv'
  BY <1>1, StepTyped, StepKeepsIInv
<1>3. QED
  BY InitIInv, <1>2, PTL DEF Spec

\* However many objects send from one file, a batch in flight is the head of
\* the queue (BatchIsHeadOfQueue).
THEOREM SwiftBatchIsHead == Spec => []BatchIsHeadOfQueue
<1>1. IInv => BatchIsHeadOfQueue
  BY DEF IInv
<1>2. QED
  BY SwiftInvariance, <1>1, PTL

-----------------------------------------------------------------------------
(* When a flush returns.                                                   *)

LEMMA FlushStep ==
  ASSUME ~ StorageFails, IInv, [Next]_vars, NEW o \in Objects, FlushEnds(o)
  PROVE  queue' = {} \/ objects'[o].pace.failures > 0
<1>1. /\ objects \in [Objects -> Object] /\ Typed
      /\ queue \in SUBSET Row /\ \A r, s \in queue : r.seq = s.seq => r = s
  BY ObjectsType DEF IInv, Typed, TypeOK, SeqIsKey
<1>2. /\ objects'[o].life # "unborn" /\ Head(objects[o].drains) = "everything"
      /\ Len(objects'[o].drains) < Len(objects[o].drains)
      /\ Len(objects[o].drains) \in Nat
  BY <1>1, LenProperties DEF FlushEnds, Object
<1>3. objects'[o].drains # objects[o].drains
  BY <1>2
<1>4. ASSUME NEW p \in Objects, Create(p) \/ Release(p) \/ Purge(p) PROVE FALSE
  <2>1. CASE Create(p)
    BY <1>1, <1>3, <2>1 DEF Create, Object
  <2>2. CASE Release(p)
    BY <1>1, <1>3, <2>2 DEF Release, Object
  <2>3. CASE Purge(p)
    BY <1>1, <1>3, <2>3 DEF Purge, Object
  <2>4. QED
    BY <1>4, <2>1, <2>2, <2>3
<1>5. ASSUME NEW p \in Objects,
             \/ Settle(p)
             \/ \E status \in Statuses : Answered(p, status)
      PROVE  FALSE
  <2>1. CASE Settle(p)
    BY <1>1, <1>3, <2>1 DEF Settle, Object
  <2>2. CASE \E status \in Statuses : Answered(p, status)
    BY <1>1, <1>3, <2>2 DEF Answered, Goto, Object
  <2>3. QED
    BY <1>5, <2>1, <2>2
<1>6. ASSUME NEW p \in Objects, Poll(p) \/ Flush(p) PROVE FALSE
  <2>1. PICK urgency \in {"due", "everything"} :
          objects' = [objects EXCEPT ![p].drains = Append(objects[p].drains, urgency)]
    BY <1>6 DEF Poll, Flush
  <2>2. p = o /\ objects'[o].drains = Append(objects[o].drains, urgency)
    BY <1>1, <1>3, <2>1 DEF Object
  <2>3. Len(objects'[o].drains) = Len(objects[o].drains) + 1
    BY <1>1, <2>2, AppendProperties DEF Object
  <2>4. QED
    BY <1>2, <2>3
<1>7. ASSUME NEW p \in Objects, Finish(p), objects[p].at # "idle" \/ objects[p].drains # <<>>
      PROVE  p = o /\ objects'[o].pace = objects[o].pace
  BY <1>1, <1>3, <1>7, FinishType DEF Typed, BusyHasDrain
<1>8. ASSUME NEW p \in Objects, Start(p) PROVE objects'[o].pace.failures > 0
  <2>1. CASE Finish(p) /\ ~ MayAttempt(p, clock)
    BY <1>7, <1>8, <2>1 DEF Start, MayAttempt
  <2>2. CASE objects' = [objects EXCEPT ![p].at = "checking", ![p].now = clock]
    BY <1>1, <1>3, <2>2 DEF Object
  <2>3. QED
    BY <1>8, <2>1, <2>2 DEF Start
<1>9. ASSUME NEW p \in Objects, Check(p) PROVE queue' = {}
  <2>1. CASE Goto(p, "purging")
    BY <1>1, <1>3, <2>1 DEF Goto, Object
  <2>2. CASE Finish(p) /\ ~ IsDue(queue, objects[p].now, Urgency(p))
    <3>1. p = o
      BY <1>7, <1>9, <2>2 DEF Check
    <3>2. Urgency(p) = "Forced"
      BY <1>2, <3>1 DEF Urgency
    <3>3. queue = {}
      BY <2>2, <3>2 DEF IsDue
    <3>4. QED
      BY <1>9, <3>3 DEF Check
  <2>3. QED
    BY <1>9, <2>1, <2>2 DEF Check
<1>10. ASSUME NEW p \in Objects, Read(p) PROVE queue' = {}
  <2>1. CASE objects' = [objects EXCEPT ![p].at = "posting", ![p].batch = Batch(queue)]
    BY <1>1, <1>3, <2>1 DEF Object
  <2>2. CASE Batch(queue) = {}
    BY <1>1, <1>10, <2>2, BatchIsNotEmpty DEF Read
  <2>3. QED
    BY <1>10, <2>1, <2>2 DEF Read
<1>11. ASSUME NEW p \in Objects, NEW status \in Statuses \union {NoResponse},
              NEW advice \in Advices, Retry(p, status, advice)
       PROVE  objects'[o].pace.failures > 0
  <2> DEFINE failures == IF objects[p].pace.failures < MaxFailures
                         THEN objects[p].pace.failures + 1 ELSE MaxFailures
  <2>1. PICK delay :
          objects' = [objects EXCEPT
            ![p].pace = [failures |-> failures, nextAttemptAt |-> clock + delay],
            ![p].at = "idle", ![p].batch = {},
            ![p].drains = Tail(objects[p].drains)]
    BY <1>11 DEF Retry
  <2>2. failures > 0
    BY <1>1, SwiftAssumption DEF Object
  <2> HIDE DEF failures
  <2>3. p = o
    BY <1>1, <1>3, <2>1
  <2>4. objects'[o].pace.failures = failures
    BY <1>1, <2>1, <2>3 DEF Object
  <2>5. QED
    BY <2>2, <2>4
<1>12. ASSUME NEW p \in Objects, Throws(p) PROVE FALSE
  BY <1>12 DEF Throws
<1>13. CASE Crash
  BY <1>2, <1>13 DEF Crash, Unborn
<1>14. CASE Tick
  <2>1. CASE objects' = objects
    BY <1>3, <2>1
  <2>2. CASE objects' = [p \in Objects |->
                  [objects[p] EXCEPT !.batch = EarlierRows(@),
                                     !.pace.nextAttemptAt = Earlier(@)]]
    BY <1>1, <1>3, <2>2 DEF Object
  <2>3. QED
    BY <1>14, <2>1, <2>2 DEF Tick
<1>15. ASSUME \/ SetClock \/ UNCHANGED vars
              \/ \E p \in Objects, n \in 1 .. MaxPerCall, size \in Sizes : Track(p, n, size)
       PROVE  FALSE
  BY <1>3, <1>15 DEF SetClock, vars, Track
<1>16. QED
  BY <1>4, <1>5, <1>6, <1>8, <1>9, <1>10, <1>11, <1>12, <1>13, <1>14, <1>15
     DEF Next, Work, Post, Hear

\* For storage that does not fail, the drain of a flush ends only once the
\* queue is empty or a send has failed and waits for its retry, whatever is
\* tracked and sent beside it (FlushPostcondition).
THEOREM DrainsDeliver ==
  ASSUME ~ StorageFails
  PROVE  Spec => FlushPostcondition
<1>1. IInv /\ [Next]_vars =>
        [\A o \in Objects :
           FlushEnds(o) => queue' = {} \/ objects'[o].pace.failures > 0]_vars
  BY FlushStep
<1>2. QED
  BY SwiftInvariance, <1>1, PTL DEF Spec, FlushPostcondition

-----------------------------------------------------------------------------
(* The objects implement the promise.                                      *)

\* The trim keeps of the events exactly those the promise keeps.
LEMMA TrimIsNewest ==
  ASSUME NEW rows
  PROVE  Seqs(Trimmed(rows)) = Promise!Newest(Seqs(rows))
<1>1. \A S : Promise!Cardinality(S) = Cardinality(S)
  BY DEF Promise!Cardinality, Cardinality
<1>2. Promise!Newest(Seqs(rows)) =
        {e \in Seqs(rows) : Cardinality({f \in Seqs(rows) : f > e}) < MaxQueue}
  BY <1>1 DEF Promise!Newest
<1>3. QED
  BY <1>2, SeqsOfTrimmed

LEMMA InitImplements == Init => Promise!Init
BY DEF Init, Seqs, Promise!Init

LEMMA StepImplements ==
  ASSUME IInv, IInv', [Next]_vars
  PROVE  [Promise!Next]_(Promise!vars)
<1>1. ASSUME NEW o \in Objects, NEW n \in 1 .. MaxPerCall, NEW size \in Sizes,
             Track(o, n, size)
      PROVE  Promise!Track
  <2> DEFINE new == NewRows(lastSeq, n, clock, size)
  <2>1. n \in Nat /\ lastSeq \in Nat /\ lastSeq' = lastSeq + n /\ clock \in Times
    BY <1>1, SwiftAssumption DEF IInv, Typed, TypeOK, Track
  <2>2. Seqs(queue \union new) = Seqs(queue) \union (lastSeq + 1 .. lastSeq')
    <3>1. Seqs(new) = lastSeq + 1 .. lastSeq'
      BY <2>1, NewRowsAreRows
    <3>2. QED
      BY <3>1 DEF Seqs
  <2>3. queue' = Trimmed(queue \union new) /\ UNCHANGED <<answered, expired>>
    BY <1>1 DEF Track
  <2>4. Seqs(queue') = Promise!Newest(Seqs(queue) \union (lastSeq + 1 .. lastSeq'))
    BY <2>2, <2>3, TrimIsNewest
  <2>5. lastSeq' >= lastSeq
    BY <2>1
  <2>6. QED
    BY <2>3, <2>4, <2>5 DEF Promise!Track
<1>2. ASSUME NEW o \in Objects, Purge(o) PROVE Promise!Expire
  <2>1. queue' \subseteq queue /\ UNCHANGED <<lastSeq, answered>>
        /\ expired' = expired \union Seqs(queue \ queue')
    BY <1>2 DEF Purge, Fresh
  <2>2. Seqs(queue') \subseteq Seqs(queue) /\ Seqs(queue \ queue') = Seqs(queue) \ Seqs(queue')
    BY <2>1, SeqsOfPart DEF IInv, SeqIsKey
  <2>3. QED
    BY <2>1, <2>2 DEF Promise!Expire
<1>3. ASSUME UNCHANGED <<queue, lastSeq, expired>>, answered \subseteq answered'
      PROVE  Promise!Answer
  BY <1>3 DEF IInv, SeqsAreTracked, Promise!Answer
<1>4. ASSUME NEW o \in Objects, NEW status \in Statuses, Answered(o, status)
      PROVE  Promise!Answer
  BY <1>3, <1>4 DEF Answered
<1>5. ASSUME NEW o \in Objects, NEW status \in Statuses \union {NoResponse},
             NEW advice \in Advices, Retry(o, status, advice)
      PROVE  Promise!Answer
  <2>1. UNCHANGED <<queue, lastSeq, expired>> /\ answered \subseteq answered'
    BY <1>5 DEF Retry
  <2>2. QED
    BY <1>3, <2>1
<1>6. ASSUME Crash PROVE Promise!Answer
  BY <1>3, <1>6, CrashAnswers DEF Crash
<1>7. ASSUME NEW o \in Objects, Settle(o) PROVE Promise!Leave
  <2>1. UNCHANGED <<lastSeq, answered, expired>>
    BY <1>7 DEF Settle
  <2>2. queue' \subseteq queue /\ \A r \in queue \ queue' : r.seq \in answered
    BY <1>7, DeletionIsOfTheBatch
  <2>3. QED
    BY <2>1, <2>2 DEF Promise!Leave, Seqs
<1>8. ASSUME \/ \E o \in Objects :
                  \/ Create(o) \/ Release(o) \/ Poll(o) \/ Flush(o) \/ Start(o)
                  \/ Check(o) \/ Read(o) \/ Throws(o)
             \/ SetClock \/ UNCHANGED vars
      PROVE  UNCHANGED Promise!vars
  <2>1. UNCHANGED <<queue, lastSeq, answered, expired>>
    BY <1>8 DEF Create, Release, Poll, Flush, Start, Check, Read, Throws, SetClock, vars
  <2>2. QED
    BY <2>1 DEF Promise!vars
<1>9. CASE Tick
  <2>1. UNCHANGED <<lastSeq, answered, expired>> /\ queue \in SUBSET Row
    BY <1>9 DEF Tick, IInv, Typed, TypeOK
  <2>2. queue' = queue \/ queue' = EarlierRows(queue)
    BY <1>9 DEF Tick
  <2>3. Seqs(queue') = Seqs(queue)
    BY <2>1, <2>2, EarlierType
  <2>4. QED
    BY <2>1, <2>3 DEF Promise!vars
<1>10. QED
  BY <1>1, <1>2, <1>4, <1>5, <1>6, <1>7, <1>8, <1>9
     DEF Next, Work, Post, Hear, Promise!Next

\* Every behaviour of the objects over a file is one the promise allows
\* (KeepsPromise): no object deletes what another has yet to send.
THEOREM SwiftImplementsPromise == Spec => KeepsPromise
BY SwiftInvariance, InitImplements, StepImplements, PTL DEF Spec, KeepsPromise, Promise!Spec

=============================================================================
