------------------------- MODULE RustClientProofs --------------------------
(***************************************************************************)
(* What the Rust client guarantees for any number of callers and events    *)
(* and any configuration.  TypeOK is inductive by itself; the safety       *)
(* invariants need each other: the inductive invariant IInv joins them     *)
(* with the bound of the keys and with what the outcome of a settling call *)
(* says about the server.                                                  *)
(***************************************************************************)
EXTENDS RustClient, DeviceQueueTheorems

LEMMA NoCallType ==
  NoCall \in [at : Phases, urgency : Urgencies, now : Times,
              batch : SUBSET Row, outcome : Outcomes, advice : Nat]
BY QueueAssumption DEF NoCall, Phases, Urgencies, Times, Outcomes

\* Whatever an interleaving does, the state keeps its type (TypeOK).
THEOREM TypeCorrect == Spec => []TypeOK
<1>1. Init => TypeOK
  BY NoCallType, QueueAssumption, RustAssumption
     DEF Init, TypeOK, Clear, Times
<1>2. TypeOK /\ [Next]_vars => TypeOK'
  <2> SUFFICES ASSUME TypeOK, [Next]_vars PROVE TypeOK'
    OBVIOUS
  <2> USE NoCallType DEF TypeOK, store, sender, Return, DropGuard, Goto
  <2>1. ASSUME NEW c \in Callers, Stamp(c) PROVE TypeOK'
    BY <2>1 DEF Stamp, Phases
  <2>2. ASSUME NEW c \in Callers, RecordFails(c) PROVE TypeOK'
    BY <2>2 DEF RecordFails
  <2>3. ASSUME NEW c \in Callers, NEW n \in 1 .. MaxPerCall, NEW size \in Sizes,
               Record(c, n, size)
        PROVE  TypeOK'
    <3>1. NewRows(lastSeq, n, calls[c].now, size) \subseteq Row
      BY NewRowsAreRows
    <3>2. queue' \subseteq Row
      BY <2>3, <3>1 DEF Record, Trimmed
    <3>3. lastSeq + n \in Nat
      BY RustAssumption
    <3>4. QED
      BY <2>3, <3>2, <3>3 DEF Record
  <2>4. ASSUME NEW c \in Callers, NEW urgency \in Urgencies, Begin(c, urgency)
        PROVE  TypeOK'
    BY <2>4 DEF Begin, Phases
  <2>5. ASSUME NEW c \in Callers, Reserve(c) PROVE TypeOK'
    BY <2>5 DEF Reserve, Phases
  <2>6. ASSUME NEW c \in Callers, Take(c) PROVE TypeOK'
    <3>1. Fresh(queue, calls[c].now) \subseteq Row
      BY DEF Fresh
    <3>2. Batch(Fresh(queue, calls[c].now)) \in SUBSET Row
      BY <3>1 DEF Batch
    <3>3. Seqs(queue \ Fresh(queue, calls[c].now)) \subseteq Nat
      BY DEF Seqs, Row
    <3>4. queue' \subseteq Row /\ expired' \subseteq Nat
      BY <2>6, <3>1, <3>3 DEF Take
    <3>5. CASE calls' = [calls EXCEPT ![c].at = "posting",
                                      ![c].batch = Batch(Fresh(queue, calls[c].now))]
               /\ flight' = flight
      BY <2>6, <3>2, <3>4, <3>5 DEF Take, Phases
    <3>6. CASE DropGuard(c)
      BY <2>6, <3>4, <3>6 DEF Take
    <3>7. QED
      BY <2>6, <3>5, <3>6 DEF Take
  <2>7. ASSUME NEW c \in Callers, TakeFails(c) PROVE TypeOK'
    BY <2>7 DEF TakeFails
  <2>8. ASSUME NEW c \in Callers, Cancel(c) PROVE TypeOK'
    <3>1. Seqs(calls[c].batch) \subseteq Nat
      BY DEF Seqs, Row
    <3>2. QED
      BY <2>8, <3>1 DEF Cancel
  <2>9. ASSUME NEW c \in Callers, NEW status \in Statuses, NEW advice \in Advices,
               NEW heard \in BOOLEAN, Post(c, status, advice, heard)
        PROVE  TypeOK'
    <3>1. Seqs(calls[c].batch) \subseteq Nat
      BY DEF Seqs, Row
    <3>2. Outcome(IF heard THEN status ELSE NoResponse) \in Outcomes
      BY DEF Outcome, Outcomes
    <3>3. advice \in Nat
      BY RustAssumption
    <3>4. QED
      BY <2>9, <3>1, <3>2, <3>3 DEF Post, Phases
  <2>10. ASSUME NEW c \in Callers, Leave(c) PROVE TypeOK'
    <3>1. Removed(queue, calls[c].batch) \subseteq Row
      BY DEF Removed
    <3>2. Clear \in [failures : 0 .. MaxFailures, until : Nat]
      BY RustAssumption DEF Clear
    <3>3. [NoCall EXCEPT !.at = "reserving", !.urgency = calls[c].urgency, !.now = clock]
            \in [at : Phases, urgency : Urgencies, now : Times,
                 batch : SUBSET Row, outcome : Outcomes, advice : Nat]
      BY DEF Phases
    <3>4. QED
      BY <2>10, <3>1, <3>2, <3>3 DEF Leave
  <2>11. ASSUME NEW c \in Callers, LeaveFails(c) PROVE TypeOK'
    BY <2>11 DEF LeaveFails
  <2>12. ASSUME NEW c \in Callers, BackOff(c) PROVE TypeOK'
    <3> DEFINE failures == Counted(backoff.failures)
    <3>1. failures \in 0 .. MaxFailures
      BY RustAssumption DEF Counted
    <3>2. calls[c].advice \in Nat /\ clock \in Nat
      BY DEF Times
    <3>3. Delays(failures, calls[c].advice) \subseteq Nat
      BY <3>2 DEF Delays
    <3>4. PICK delay \in Delays(failures, calls[c].advice) :
            backoff' = [failures |-> failures, until |-> clock + delay]
      BY <2>12 DEF BackOff
    <3>5. clock + delay \in Nat
      BY <3>2, <3>3
    <3> HIDE DEF failures
    <3>6. backoff' \in [failures : 0 .. MaxFailures, until : Nat]
      BY <3>1, <3>4, <3>5
    <3>7. QED
      BY <2>12, <3>6 DEF BackOff
  <2>13. CASE Crash
    BY <2>13, RustAssumption DEF Crash, Clear
  <2>14. CASE ClockMoves
    BY <2>14 DEF ClockMoves
  <2>15. CASE UNCHANGED vars
    BY <2>15 DEF vars
  <2>16. QED
    BY <2>1, <2>2, <2>3, <2>4, <2>5, <2>6, <2>7, <2>8, <2>9, <2>10, <2>11,
       <2>12, <2>13, <2>14, <2>15 DEF Next, Draining
<1>3. QED
  BY <1>1, <1>2, PTL DEF Spec

-----------------------------------------------------------------------------

\* Returning drops the caller's batch and guard and no one else's.
LEMMA Returns ==
  ASSUME TypeOK, NEW c \in Callers, Return(c)
  PROVE  /\ calls'[c].at = "idle"
         /\ \A d \in Callers \ {c} : calls'[d] = calls[d]
         /\ \A d \in Callers : Holding(d)' <=> d # c /\ Holding(d)
<1>1. calls'[c].at = "idle" /\ \A d \in Callers \ {c} : calls'[d] = calls[d]
  BY DEF TypeOK, Return, NoCall
<1>2. QED
  BY <1>1 DEF Holding

\* Once the one call that held the guard drops it, no one holds it.
LEMMA GuardDropped ==
  ASSUME IInv, NEW c \in Callers, Holding(c), DropGuard(c)
  PROVE  OneFlight' /\ RetryWaits'
<1>1. \A d \in Callers : ~ Holding(d)'
  BY Returns DEF IInv, OneFlight, DropGuard
<1>2. QED
  BY <1>1 DEF DropGuard, OneFlight, RetryWaits

\* Ending a call that leaves the store alone disturbs nothing.
LEMMA ReturnKeepsStore ==
  ASSUME IInv, NEW c \in Callers, Return(c),
         UNCHANGED <<queue, lastSeq, answered, expired>>
  PROVE  /\ BatchIsHeadOfQueue' /\ NothingLost' /\ SentInOrder'
         /\ SeqsAreTracked' /\ SeqIsKey' /\ OutcomeIsTheServers'
<1>1. NothingLost' /\ SentInOrder' /\ SeqIsKey'
  BY DEF IInv, NothingLost, SentInOrder, SeqIsKey
<1>2. BatchIsHeadOfQueue' /\ SeqsAreTracked' /\ OutcomeIsTheServers'
  BY Returns DEF IInv, BatchIsHeadOfQueue, SeqsAreTracked, OutcomeIsTheServers
<1>3. QED
  BY <1>1, <1>2

\* Marking the batch of c answered keeps the order: what is older than one of
\* its events and still waits belongs to the batch too.
LEMMA AnsweringKeepsOrder ==
  ASSUME IInv, NEW c \in Callers, calls[c].at = "posting",
         queue' = queue, answered' = answered \union Seqs(calls[c].batch)
  PROVE  SentInOrder'
<1> SUFFICES ASSUME NEW r \in queue, r.seq \notin answered', NEW s \in answered'
             PROVE  s < r.seq
  BY DEF SentInOrder, Seqs
<1>1. CASE s \in answered
  BY <1>1 DEF IInv, SentInOrder, Seqs
<1>2. CASE s \in Seqs(calls[c].batch)
  <2>1. PICK t \in calls[c].batch : s = t.seq
    BY <1>2 DEF Seqs
  <2>2. t.seq \in Nat /\ r.seq \in Nat
    BY DEF IInv, TypeOK, Row
  <2>3. CASE r.seq <= t.seq
    BY <2>1, <2>3 DEF IInv, BatchIsHeadOfQueue, Seqs
  <2>4. QED
    BY <2>1, <2>2, <2>3
<1>3. QED
  BY <1>1, <1>2

-----------------------------------------------------------------------------

LEMMA InitIInv == Init => IInv
<1> SUFFICES ASSUME Init PROVE IInv
  OBVIOUS
<1>1. TypeOK
  BY NoCallType, QueueAssumption, RustAssumption DEF Init, TypeOK, Clear, Times
<1>2. \A c \in Callers : calls[c].at = "idle"
  BY DEF Init, NoCall
<1>3. Seqs(queue) = {} /\ 1 .. lastSeq = {}
  BY DEF Init, Seqs
<1>4. QED
  BY <1>1, <1>2, <1>3
     DEF IInv, Init, OneFlight, Holding, BatchIsHeadOfQueue, NothingLost,
         RetryWaits, SentInOrder, SeqsAreTracked, SeqIsKey, OutcomeIsTheServers

LEMMA RecordKeepsIInv ==
  ASSUME IInv, TypeOK', NEW c \in Callers, NEW n \in 1 .. MaxPerCall,
         NEW size \in Sizes, Record(c, n, size)
  PROVE  IInv'
<1> DEFINE new == NewRows(lastSeq, n, calls[c].now, size)
           all == queue \union new
<1>1. n \in Nat /\ lastSeq \in Nat /\ lastSeq' = lastSeq + n
  BY RustAssumption DEF IInv, TypeOK, Record
<1>2. new \subseteq Row /\ Seqs(new) = lastSeq + 1 .. lastSeq'
  BY <1>1, NewRowsAreRows DEF IInv, TypeOK
<1>3. all \subseteq Row /\ Seqs(all) \subseteq 1 .. lastSeq'
  <2>1. Seqs(all) = Seqs(queue) \union Seqs(new)
    BY DEF Seqs
  <2>2. Seqs(queue) \subseteq 1 .. lastSeq
    BY DEF IInv, SeqsAreTracked
  <2>3. 1 .. lastSeq \subseteq 1 .. lastSeq' /\ lastSeq + 1 .. lastSeq' \subseteq 1 .. lastSeq'
    BY <1>1
  <2>4. Seqs(all) \subseteq 1 .. lastSeq'
    BY <1>2, <2>1, <2>2, <2>3
  <2>5. QED
    BY <1>2, <2>4 DEF IInv, TypeOK
<1>4. queue' = Trimmed(all) /\ queue' \subseteq all
  BY DEF Record, Trimmed
<1>5. \A d \in Callers : Holding(d)' <=> d # c /\ Holding(d)
  BY Returns DEF IInv, Record
<1>6. \A d \in Callers : calls'[d] = calls[d] \/ calls'[d].at = "idle"
  BY Returns DEF IInv, Record
<1>7. ~ Holding(c)
  BY DEF Record, Holding
<1> HIDE DEF new, all
<1>8. OneFlight'
  BY <1>5, <1>7 DEF IInv, OneFlight, Record, sender
<1>9. RetryWaits'
  BY <1>5, <1>6 DEF IInv, RetryWaits, Record, sender, Holding
<1>10. \A r \in all : r \in queue \/ r.seq > lastSeq
  BY <1>1, <1>2 DEF all, Seqs
<1>11. BatchIsHeadOfQueue'
  <2> SUFFICES ASSUME NEW d \in Callers, calls'[d].at \in {"posting", "settling"},
                      NEW r \in queue', NEW s \in calls'[d].batch, r.seq <= s.seq
               PROVE  r \in calls'[d].batch
    BY DEF BatchIsHeadOfQueue
  <2>1. calls'[d] = calls[d]
    BY <1>6
  <2>2. s.seq \in 1 .. lastSeq
    BY <2>1 DEF IInv, SeqsAreTracked, Seqs
  <2>3. r \in all /\ r.seq \in Nat
    BY <1>3, <1>4 DEF Row
  <2>4. r \in queue
    BY <1>1, <1>10, <2>2, <2>3
  <2>5. QED
    BY <2>1, <2>4 DEF IInv, BatchIsHeadOfQueue
<1>12. NothingLost'
  <2> SUFFICES ASSUME NEW s \in 1 .. lastSeq'
               PROVE  s \in Seqs(queue') \union answered' \union expired'
                        \/ lastSeq' - s >= MaxQueue
    BY DEF NothingLost
  <2>1. CASE s \in Seqs(all)
    <3>1. PICK r \in all : r.seq = s
      BY <2>1 DEF Seqs
    <3>2. CASE r \in Trimmed(all)
      BY <1>4, <3>1, <3>2 DEF Seqs
    <3>3. CASE r \notin Trimmed(all)
      BY <1>1, <1>3, <3>1, <3>3, TrimmedAreOldest
    <3>4. QED
      BY <3>2, <3>3
  <2>2. CASE s \notin Seqs(all)
    <3>1. s \in 1 .. lastSeq /\ s \notin Seqs(queue)
      <4>1. Seqs(all) = Seqs(queue) \union Seqs(new)
        BY DEF all, Seqs
      <4>2. QED
        BY <1>1, <1>2, <2>2, <4>1
    <3>2. CASE lastSeq - s >= MaxQueue
      BY <1>1, <3>1, <3>2, QueueAssumption
    <3>3. QED
      BY <3>1, <3>2 DEF IInv, NothingLost, Record
  <2>3. QED
    BY <2>1, <2>2
<1>13. SentInOrder'
  <2> SUFFICES ASSUME NEW r \in queue', r.seq \notin answered', NEW s \in answered'
               PROVE  s < r.seq
    BY DEF SentInOrder, Seqs
  <2>1. answered' = answered /\ s \in 1 .. lastSeq /\ r.seq \in Nat
    BY <1>3, <1>4 DEF Record, IInv, SeqsAreTracked, Row
  <2>2. QED
    BY <1>1, <1>4, <1>10, <2>1 DEF IInv, SentInOrder, Seqs
<1>14. SeqsAreTracked'
  <2>1. Seqs(queue') \subseteq 1 .. lastSeq'
    BY <1>3, <1>4 DEF Seqs
  <2>2. answered' \subseteq 1 .. lastSeq'
    BY <1>1 DEF Record, IInv, SeqsAreTracked
  <2>3. \A d \in Callers : calls'[d].at \in {"posting", "settling"} =>
          Seqs(calls'[d].batch) \subseteq 1 .. lastSeq'
    BY <1>1, <1>6 DEF IInv, SeqsAreTracked
  <2>4. QED
    BY <2>1, <2>2, <2>3 DEF SeqsAreTracked
<1>15. OutcomeIsTheServers'
  BY <1>6 DEF IInv, OutcomeIsTheServers, Record
<1>16. SeqIsKey'
  <2>1. \A r, s \in new : r.seq = s.seq => r = s
    BY <1>1, NewRowsAreRows DEF IInv, TypeOK, new
  <2>2. \A r \in new : r.seq > lastSeq
    <3>1. \A r \in new : r.seq \in Seqs(new)
      BY DEF Seqs
    <3>2. QED
      BY <1>1, <1>2, <3>1
  <2>3. \A r \in queue : r.seq <= lastSeq /\ r.seq \in Nat
    BY DEF IInv, SeqsAreTracked, Seqs
  <2>4. \A r \in all : r \in queue \/ r \in new
    BY DEF all
  <2>5. \A r, s \in all : r.seq = s.seq => r = s
    BY <1>1, <2>1, <2>2, <2>3, <2>4 DEF IInv, SeqIsKey
  <2>6. QED
    BY <1>4, <2>5 DEF SeqIsKey
<1>17. QED
  BY <1>8, <1>9, <1>11, <1>12, <1>13, <1>14, <1>15, <1>16 DEF IInv

LEMMA ReserveKeepsIInv ==
  ASSUME IInv, TypeOK', NEW c \in Callers, Reserve(c)
  PROVE  IInv'
<1>1. UNCHANGED <<queue, lastSeq, backoff, answered, expired>>
  BY DEF Reserve, store
<1>2. CASE MayReserve(calls[c].now) /\ flight' = "InFlight" /\ Goto(c, "taking")
  <2>1. /\ calls'[c].at = "taking" /\ calls'[c].now = calls[c].now
        /\ \A d \in Callers \ {c} : calls'[d] = calls[d]
    BY <1>2 DEF IInv, TypeOK, Goto
  <2>2. \A d \in Callers : ~ Holding(d)
    BY <1>2 DEF IInv, OneFlight, MayReserve
  <2>3. \A d \in Callers : Holding(d)' <=> d = c
    BY <2>1, <2>2 DEF Holding
  <2>4. OneFlight'
    BY <1>2, <2>3 DEF OneFlight
  <2>5. backoff.failures > 0 => calls[c].now >= backoff.until
    BY <1>2 DEF MayReserve, IInv, TypeOK, Times
  <2>6. RetryWaits'
    BY <1>1, <2>1, <2>3, <2>5 DEF RetryWaits
  <2>7. BatchIsHeadOfQueue' /\ SeqsAreTracked' /\ OutcomeIsTheServers'
    BY <1>1, <2>1 DEF IInv, BatchIsHeadOfQueue, SeqsAreTracked, OutcomeIsTheServers
  <2>8. NothingLost' /\ SentInOrder' /\ SeqIsKey'
    BY <1>1 DEF IInv, NothingLost, SentInOrder, SeqIsKey
  <2>9. QED
    BY <2>4, <2>6, <2>7, <2>8 DEF IInv
<1>3. CASE flight' = flight /\ Return(c)
  <2>1. ~ Holding(c)
    BY DEF Reserve, Holding
  <2>2. OneFlight' /\ RetryWaits'
    BY <1>1, <1>3, <2>1, Returns DEF IInv, OneFlight, RetryWaits, Holding
  <2>3. QED
    BY <1>1, <1>3, <2>2, ReturnKeepsStore DEF IInv
<1>4. QED
  BY <1>2, <1>3 DEF Reserve

LEMMA TakeKeepsIInv ==
  ASSUME IInv, TypeOK', NEW c \in Callers, Take(c)
  PROVE  IInv'
<1> DEFINE fresh == Fresh(queue, calls[c].now)
<1>1. /\ queue' = fresh /\ queue' \subseteq queue /\ fresh \subseteq Row
      /\ expired' = expired \union Seqs(queue \ fresh)
      /\ UNCHANGED <<lastSeq, backoff, answered>>
  BY DEF Take, Fresh, IInv, TypeOK
<1>2. Holding(c)
  BY DEF Take, Holding
<1>3. \A d \in Callers \ {c} : ~ Holding(d)
  BY <1>2 DEF IInv, OneFlight
<1>4. NothingLost'
  <2>1. Seqs(queue) \subseteq Seqs(queue') \union expired'
    BY <1>1 DEF Seqs
  <2>2. QED
    BY <1>1, <2>1 DEF IInv, NothingLost
<1>5. SentInOrder' /\ SeqIsKey' /\ Seqs(queue') \subseteq Seqs(queue)
  BY <1>1 DEF IInv, SentInOrder, SeqIsKey, Seqs
<1> HIDE DEF fresh
<1>6. CASE calls' = [calls EXCEPT ![c].at = "posting", ![c].batch = Batch(fresh)]
           /\ flight' = flight
  <2>1. /\ calls'[c].at = "posting" /\ calls'[c].now = calls[c].now
        /\ calls'[c].batch = Batch(fresh)
        /\ \A d \in Callers \ {c} : calls'[d] = calls[d]
    BY <1>6 DEF IInv, TypeOK
  <2>2. \A d \in Callers : Holding(d)' <=> Holding(d)
    BY <1>2, <2>1 DEF Holding
  <2>3. OneFlight' /\ RetryWaits'
    BY <1>1, <1>6, <2>1, <2>2 DEF IInv, OneFlight, RetryWaits
  <2>4. \A d \in Callers : calls'[d].at \in {"posting", "settling"} => d = c
    BY <1>3, <2>1 DEF Holding
  <2>5. BatchIsHeadOfQueue'
    BY <1>1, <2>1, <2>4, BatchIsPrefix DEF BatchIsHeadOfQueue
  <2>6. Seqs(Batch(fresh)) \subseteq Seqs(queue')
    BY <1>1 DEF Batch, Seqs
  <2>7. SeqsAreTracked'
    BY <1>1, <1>5, <2>1, <2>4, <2>6 DEF IInv, SeqsAreTracked
  <2>8. OutcomeIsTheServers'
    BY <2>1, <2>4 DEF OutcomeIsTheServers
  <2>9. QED
    BY <1>4, <1>5, <2>3, <2>5, <2>7, <2>8 DEF IInv
<1>7. CASE DropGuard(c)
  <2>1. OneFlight' /\ RetryWaits'
    BY <1>2, <1>7, GuardDropped
  <2>2. \A d \in Callers : calls'[d].at \notin {"posting", "settling"}
    BY <1>3, <1>7, Returns DEF IInv, DropGuard, Holding
  <2>3. BatchIsHeadOfQueue' /\ SeqsAreTracked' /\ OutcomeIsTheServers'
    BY <1>1, <1>5, <2>2
       DEF IInv, BatchIsHeadOfQueue, SeqsAreTracked, OutcomeIsTheServers
  <2>4. QED
    BY <1>4, <1>5, <2>1, <2>3 DEF IInv
<1>8. QED
  BY <1>6, <1>7 DEF Take, fresh

LEMMA PostKeepsIInv ==
  ASSUME IInv, TypeOK', NEW c \in Callers, NEW status \in Statuses,
         NEW advice \in Advices, NEW heard \in BOOLEAN,
         Post(c, status, advice, heard)
  PROVE  IInv'
<1> DEFINE outcome == Outcome(IF heard THEN status ELSE NoResponse)
           batch == calls[c].batch
<1>1. /\ calls[c].at = "posting"
      /\ calls'[c].at = "settling" /\ calls'[c].now = calls[c].now
      /\ calls'[c].batch = batch /\ calls'[c].outcome = outcome
      /\ \A d \in Callers \ {c} : calls'[d] = calls[d]
  BY DEF IInv, TypeOK, Post
<1>2. UNCHANGED <<queue, lastSeq, flight, backoff, expired>>
  BY DEF Post, store, sender
<1>3. \A d \in Callers : Holding(d)' <=> Holding(d)
  BY <1>1 DEF Holding
<1>4. answered' = answered \/ answered' = answered \union Seqs(batch)
  BY DEF Post
<1>5. outcome # "Retry" => answered' = answered \union Seqs(batch)
  <2>1. outcome # "Retry" => heard = TRUE
    BY DEF Outcome, NoResponse
  <2>2. Outcome(status) # "Retry" => status \in Definitive
    BY QueueAssumption DEF Outcome, Definitive
  <2>3. QED
    BY <2>1, <2>2 DEF Post
<1>6. Seqs(batch) \subseteq 1 .. lastSeq
  BY <1>1 DEF IInv, SeqsAreTracked
<1>7. SentInOrder'
  BY <1>1, <1>2, <1>4, AnsweringKeepsOrder DEF IInv, SentInOrder
<1> HIDE DEF outcome, batch
<1>8. OneFlight' /\ RetryWaits'
  BY <1>1, <1>2, <1>3 DEF IInv, OneFlight, RetryWaits
<1>9. BatchIsHeadOfQueue'
  BY <1>1, <1>2 DEF IInv, BatchIsHeadOfQueue, batch
<1>10. NothingLost' /\ SeqIsKey'
  BY <1>2, <1>4 DEF IInv, NothingLost, SeqIsKey
<1>11. SeqsAreTracked'
  BY <1>1, <1>2, <1>4, <1>6 DEF IInv, SeqsAreTracked
<1>12. OutcomeIsTheServers'
  BY <1>1, <1>4, <1>5 DEF IInv, OutcomeIsTheServers
<1>13. QED
  BY <1>7, <1>8, <1>9, <1>10, <1>11, <1>12 DEF IInv

LEMMA CancelKeepsIInv ==
  ASSUME IInv, TypeOK', NEW c \in Callers, Cancel(c)
  PROVE  IInv'
<1>1. /\ calls[c].at = "posting" /\ Holding(c) /\ DropGuard(c)
      /\ UNCHANGED <<queue, lastSeq, backoff, expired>>
      /\ answered' = answered \/ answered' = answered \union Seqs(calls[c].batch)
  BY DEF Cancel, Holding, store
<1>2. OneFlight' /\ RetryWaits'
  BY <1>1, GuardDropped
<1>3. \A d \in Callers : calls'[d] = calls[d] \/ calls'[d].at = "idle"
  BY <1>1, Returns DEF IInv, DropGuard
<1>4. SentInOrder'
  BY <1>1, AnsweringKeepsOrder DEF IInv, SentInOrder
<1>5. Seqs(calls[c].batch) \subseteq 1 .. lastSeq
  BY <1>1 DEF IInv, SeqsAreTracked
<1>6. BatchIsHeadOfQueue' /\ OutcomeIsTheServers' /\ SeqsAreTracked'
  BY <1>1, <1>3, <1>5
     DEF IInv, BatchIsHeadOfQueue, OutcomeIsTheServers, SeqsAreTracked
<1>7. NothingLost' /\ SeqIsKey'
  BY <1>1 DEF IInv, NothingLost, SeqIsKey
<1>8. QED
  BY <1>2, <1>4, <1>6, <1>7 DEF IInv

LEMMA LeaveKeepsIInv ==
  ASSUME IInv, TypeOK', NEW c \in Callers, Leave(c)
  PROVE  IInv'
<1>1. /\ calls[c].at = "settling" /\ calls[c].outcome # "Retry" /\ Holding(c)
      /\ queue' = Removed(queue, calls[c].batch) /\ queue' \subseteq queue
      /\ backoff' = Clear /\ flight' = "Idle"
      /\ UNCHANGED <<lastSeq, answered, expired>>
  BY DEF Leave, Holding, Removed
<1>2. calls'[c].at = "reserving" /\ \A d \in Callers \ {c} : calls'[d] = calls[d]
  BY DEF Leave, IInv, TypeOK, NoCall
<1>3. \A d \in Callers : ~ Holding(d)'
  BY <1>1, <1>2 DEF IInv, OneFlight, Holding
<1>4. OneFlight' /\ RetryWaits'
  BY <1>1, <1>3 DEF OneFlight, RetryWaits
<1>5. \A d \in Callers : calls'[d].at \notin {"posting", "settling"}
  BY <1>3 DEF Holding
<1>6. Seqs(queue) \subseteq Seqs(queue') \union answered
  <2> SUFFICES ASSUME NEW r \in queue, r \notin queue' PROVE r.seq \in answered
    BY DEF Seqs
  <2>1. PICK s \in calls[c].batch : r.seq < s.seq
    BY <1>1 DEF Removed
  <2>2. r \in calls[c].batch
    BY <1>1, <2>1 DEF IInv, TypeOK, BatchIsHeadOfQueue, Row
  <2>3. QED
    BY <1>1, <2>2 DEF IInv, OutcomeIsTheServers, Seqs
<1>7. NothingLost' /\ SeqIsKey'
  BY <1>1, <1>6 DEF IInv, NothingLost, SeqIsKey
<1>8. Seqs(queue') \subseteq Seqs(queue)
  BY <1>1 DEF Seqs
<1>9. SentInOrder'
  BY <1>1, <1>8 DEF IInv, SentInOrder
<1>10. BatchIsHeadOfQueue' /\ OutcomeIsTheServers' /\ SeqsAreTracked'
  BY <1>1, <1>5, <1>8
     DEF IInv, BatchIsHeadOfQueue, OutcomeIsTheServers, SeqsAreTracked
<1>11. QED
  BY <1>4, <1>7, <1>9, <1>10 DEF IInv

\* Starting, ending and failing calls, crashes and clock changes keep the
\* store and hand out no guard.
LEMMA OtherStepsKeepIInv ==
  ASSUME IInv, TypeOK',
         \/ \E c \in Callers :
              \/ Stamp(c) \/ RecordFails(c) \/ TakeFails(c) \/ LeaveFails(c) \/ BackOff(c)
              \/ \E urgency \in Urgencies : Begin(c, urgency)
         \/ Crash \/ ClockMoves \/ UNCHANGED vars
  PROVE  IInv'
<1>1. UNCHANGED <<queue, lastSeq, answered, expired>>
  BY DEF Stamp, RecordFails, TakeFails, LeaveFails, BackOff, Begin, Crash,
         ClockMoves, vars, store
<1>2. NothingLost' /\ SentInOrder' /\ SeqIsKey'
  BY <1>1 DEF IInv, NothingLost, SentInOrder, SeqIsKey
<1>3. ASSUME NEW c \in Callers,
             Stamp(c) \/ \E urgency \in Urgencies : Begin(c, urgency)
      PROVE  IInv'
  <2>1. /\ calls[c].at = "idle" /\ calls'[c].at \in {"stamped", "reserving"}
        /\ \A d \in Callers \ {c} : calls'[d] = calls[d]
        /\ UNCHANGED <<flight, backoff>>
    <3>1. CASE Stamp(c)
      BY <3>1 DEF Stamp, IInv, TypeOK, sender
    <3>2. CASE \E urgency \in Urgencies : Begin(c, urgency)
      <4>1. PICK urgency \in Urgencies : Begin(c, urgency)
        BY <3>2
      <4>2. calls' = [calls EXCEPT ![c] = [calls[c] EXCEPT
                        !.at = "reserving", !.urgency = urgency, !.now = clock]]
        BY <4>1 DEF Begin, IInv, TypeOK
      <4>3. QED
        <5>1. calls[c].at = "idle" /\ UNCHANGED <<flight, backoff>>
          BY <4>1 DEF Begin, sender
        <5>2. calls'[c].at = "reserving"
          BY <4>2 DEF IInv, TypeOK
        <5>3. \A d \in Callers \ {c} : calls'[d] = calls[d]
          BY <4>2 DEF IInv, TypeOK
        <5>4. QED
          BY <5>1, <5>2, <5>3
    <3>3. QED
      BY <1>3, <3>1, <3>2
  <2>2. \A d \in Callers : Holding(d)' <=> Holding(d)
    BY <2>1 DEF Holding
  <2>3. OneFlight'
    BY <2>1, <2>2 DEF IInv, OneFlight
  <2>4. RetryWaits'
    BY <2>1, <2>2 DEF IInv, RetryWaits, Holding
  <2>5. BatchIsHeadOfQueue' /\ SeqsAreTracked' /\ OutcomeIsTheServers'
    BY <1>1, <2>1 DEF IInv, BatchIsHeadOfQueue, SeqsAreTracked, OutcomeIsTheServers
  <2>6. QED
    BY <1>2, <2>3, <2>4, <2>5 DEF IInv
<1>4. ASSUME NEW c \in Callers, RecordFails(c) PROVE IInv'
  <2>1. Return(c) /\ ~ Holding(c) /\ UNCHANGED <<flight, backoff>>
    BY <1>4 DEF RecordFails, Holding, sender
  <2>2. OneFlight' /\ RetryWaits'
    BY <2>1, Returns DEF IInv, OneFlight, RetryWaits, Holding
  <2>3. QED
    BY <1>1, <2>1, <2>2, ReturnKeepsStore DEF IInv
<1>5. ASSUME NEW c \in Callers, TakeFails(c) \/ LeaveFails(c) \/ BackOff(c)
      PROVE  IInv'
  <2>1. DropGuard(c) /\ Return(c) /\ Holding(c)
    BY <1>5 DEF TakeFails, LeaveFails, BackOff, Holding, DropGuard
  <2>2. OneFlight' /\ RetryWaits'
    BY <2>1, GuardDropped
  <2>3. QED
    BY <1>1, <2>1, <2>2, ReturnKeepsStore DEF IInv
<1>6. CASE Crash
  <2>1. \A d \in Callers : calls'[d].at = "idle"
    BY <1>6 DEF Crash, NoCall
  <2>2. OneFlight' /\ RetryWaits'
    BY <1>6, <2>1 DEF Crash, OneFlight, RetryWaits, Holding
  <2>3. BatchIsHeadOfQueue' /\ SeqsAreTracked' /\ OutcomeIsTheServers'
    BY <1>1, <2>1 DEF IInv, BatchIsHeadOfQueue, SeqsAreTracked, OutcomeIsTheServers
  <2>4. QED
    BY <1>2, <2>2, <2>3 DEF IInv
<1>7. CASE ClockMoves \/ UNCHANGED vars
  <2>1. UNCHANGED <<calls, flight, backoff>>
    BY <1>7 DEF ClockMoves, vars, sender
  <2>2. OneFlight' /\ RetryWaits'
    BY <2>1 DEF IInv, OneFlight, RetryWaits, Holding
  <2>3. BatchIsHeadOfQueue' /\ SeqsAreTracked' /\ OutcomeIsTheServers'
    BY <1>1, <2>1 DEF IInv, BatchIsHeadOfQueue, SeqsAreTracked, OutcomeIsTheServers
  <2>4. QED
    BY <1>2, <2>2, <2>3 DEF IInv
<1>8. QED
  BY <1>3, <1>4, <1>5, <1>6, <1>7

\* Every invariant of the client holds in every reachable state (IInv).
THEOREM Invariance == Spec => []IInv
<1>1. IInv /\ TypeOK' /\ [Next]_vars => IInv'
  BY RecordKeepsIInv, ReserveKeepsIInv, TakeKeepsIInv, PostKeepsIInv,
     CancelKeepsIInv, LeaveKeepsIInv, OtherStepsKeepIInv DEF Next, Draining
<1>2. QED
  BY InitIInv, TypeCorrect, <1>1, PTL DEF Spec

\* No interleaving, failure, cancellation, clock change or crash loses an
\* event: what left the device was answered, purged for its age, or has
\* MaxQueue newer events after it (NothingLost).
THEOREM NoEventIsLost == Spec => []NothingLost
<1>1. IInv => NothingLost
  BY DEF IInv
<1>2. QED
  BY Invariance, <1>1, PTL

\* The batch in flight holds every row up to its newest, whatever is recorded,
\* trimmed and purged meanwhile (BatchIsHeadOfQueue).
THEOREM RustBatchIsHead == Spec => []BatchIsHeadOfQueue
<1>1. IInv => BatchIsHeadOfQueue
  BY DEF IInv
<1>2. QED
  BY Invariance, <1>1, PTL

\* However many calls drain the queue at once, one batch is in flight, and the
\* flight is given back however its call ends (OneFlight).
THEOREM OneBatchInFlight == Spec => []OneFlight
<1>1. IInv => OneFlight
  BY DEF IInv
<1>2. QED
  BY Invariance, <1>1, PTL

\* The server answers events in the order they were tracked (SentInOrder).
THEOREM AnsweredInOrder == Spec => []SentInOrder
<1>1. IInv => SentInOrder
  BY DEF IInv
<1>2. QED
  BY Invariance, <1>1, PTL

\* No batch goes out before the retry of a failed one is due (RetryWaits).
THEOREM RetriesArePaced == Spec => []RetryWaits
<1>1. IInv => RetryWaits
  BY DEF IInv
<1>2. QED
  BY Invariance, <1>1, PTL

-----------------------------------------------------------------------------
(* The client implements the promise.                                      *)

\* The trim keeps of the events exactly those the promise keeps.
LEMMA TrimIsNewest ==
  ASSUME NEW rows
  PROVE  Seqs(Trimmed(rows)) = Promise!Newest(Seqs(rows))
<1>1. \A S : Promise!Cardinality(S) = Cardinality(S)
  BY DEF Promise!Cardinality, Cardinality
<1>2. Promise!Newest(Seqs(rows)) =
        {e \in Seqs(rows) : Cardinality({f \in Seqs(rows) : f > e}) < MaxQueue}
  BY <1>1 DEF Promise!Newest
<1>3. QED
  BY <1>2, SeqsOfTrimmed

LEMMA InitImplements == Init => Promise!Init
<1>1. Init => Seqs(queue) = {}
  BY DEF Init, Seqs
<1>2. QED
  BY <1>1 DEF Init, Promise!Init

LEMMA StepImplements ==
  ASSUME IInv, IInv', [Next]_vars
  PROVE  [Promise!Next]_(Promise!vars)
<1>1. ASSUME NEW c \in Callers, NEW n \in 1 .. MaxPerCall, NEW size \in Sizes,
             Record(c, n, size)
      PROVE  Promise!Track
  <2> DEFINE new == NewRows(lastSeq, n, calls[c].now, size)
  <2>1. n \in Nat /\ lastSeq \in Nat /\ lastSeq' = lastSeq + n
    BY <1>1, RustAssumption DEF IInv, TypeOK, Record
  <2>2. Seqs(new) = lastSeq + 1 .. lastSeq'
    BY <2>1, NewRowsAreRows DEF IInv, TypeOK
  <2>3. Seqs(queue \union new) = Seqs(queue) \union (lastSeq + 1 .. lastSeq')
    BY <2>2 DEF Seqs
  <2>4. queue' = Trimmed(queue \union new) /\ UNCHANGED <<answered, expired>>
    BY <1>1 DEF Record
  <2>5. Seqs(queue') = Promise!Newest(Seqs(queue) \union (lastSeq + 1 .. lastSeq'))
    BY <2>3, <2>4, TrimIsNewest
  <2>6. lastSeq' >= lastSeq
    BY <2>1
  <2>7. QED
    BY <2>4, <2>5, <2>6 DEF Promise!Track
<1>2. ASSUME NEW c \in Callers, Take(c) PROVE Promise!Expire
  <2> DEFINE fresh == Fresh(queue, calls[c].now)
  <2>1. /\ queue' = fresh /\ fresh \subseteq queue
        /\ expired' = expired \union Seqs(queue \ fresh)
        /\ UNCHANGED <<lastSeq, answered>>
    BY <1>2 DEF Take, Fresh
  <2> HIDE DEF fresh
  <2>2. Seqs(queue \ fresh) = Seqs(queue) \ Seqs(fresh)
    BY <2>1 DEF IInv, SeqIsKey, Seqs
  <2>3. Seqs(fresh) \subseteq Seqs(queue)
    BY <2>1 DEF Seqs
  <2>4. QED
    BY <2>1, <2>2, <2>3 DEF Promise!Expire
<1>3. ASSUME NEW c \in Callers,
             \/ Cancel(c)
             \/ \E status \in Statuses, advice \in Advices, heard \in BOOLEAN :
                  Post(c, status, advice, heard)
      PROVE  Promise!Answer
  <2>1. UNCHANGED <<queue, lastSeq, expired>> /\ answered \subseteq answered'
    BY <1>3 DEF Cancel, Post, store
  <2>2. answered' \subseteq 1 .. lastSeq
    BY <2>1 DEF IInv, SeqsAreTracked
  <2>3. QED
    BY <2>1, <2>2 DEF Promise!Answer
<1>4. ASSUME NEW c \in Callers, Leave(c) PROVE Promise!Leave
  <2>1. /\ queue' = Removed(queue, calls[c].batch) /\ queue' \subseteq queue
        /\ calls[c].at = "settling" /\ calls[c].outcome # "Retry"
        /\ UNCHANGED <<lastSeq, answered, expired>>
    BY <1>4 DEF Leave, Removed
  <2>2. \A r \in queue \ queue' : r \in calls[c].batch
    BY <2>1 DEF Removed, IInv, TypeOK, BatchIsHeadOfQueue, Row
  <2>3. \A r \in queue \ queue' : r.seq \in answered
    BY <2>1, <2>2 DEF IInv, OutcomeIsTheServers, Seqs
  <2>4. Seqs(queue) \ Seqs(queue') \subseteq answered
    BY <2>3 DEF Seqs
  <2>5. Seqs(queue') \subseteq Seqs(queue)
    BY <2>1 DEF Seqs
  <2>6. QED
    BY <2>1, <2>4, <2>5 DEF Promise!Leave
<1>5. ASSUME \/ \E c \in Callers :
                  \/ Stamp(c) \/ RecordFails(c) \/ Reserve(c)
                  \/ TakeFails(c) \/ LeaveFails(c) \/ BackOff(c)
                  \/ \E urgency \in Urgencies : Begin(c, urgency)
             \/ Crash \/ ClockMoves \/ UNCHANGED vars
      PROVE  UNCHANGED Promise!vars
  <2>1. UNCHANGED <<queue, lastSeq, answered, expired>>
    BY <1>5 DEF Stamp, RecordFails, Reserve, TakeFails, LeaveFails, BackOff,
                Begin, Crash, ClockMoves, vars, store
  <2>2. QED
    BY <2>1 DEF Promise!vars
<1>6. QED
  BY <1>1, <1>2, <1>3, <1>4, <1>5 DEF Next, Draining, Promise!Next

\* Every behaviour of the Rust client is one the promise allows (KeepsPromise).
THEOREM ImplementsPromise == Spec => KeepsPromise
<1>1. Spec => []IInv
  BY Invariance
<1>2. QED
  BY <1>1, InitImplements, StepImplements, PTL DEF Spec, KeepsPromise, Promise!Spec

=============================================================================
