---------------------------- MODULE RustClient -----------------------------
(***************************************************************************)
(* The Rust client (crates/clickman): any number of threads and tasks of   *)
(* the host share one Client and call track, send_due and flush.  A store  *)
(* behind a mutex holds the queue; a SenderState behind another allows one *)
(* flight at a time and paces retries.  A call that drains the queue goes  *)
(* round  reserving -> taking -> posting -> settling  until nothing is due *)
(* or a send fails; a call that tracks reads the clock before it waits for *)
(* the store.  A draining call may be cancelled wherever it awaits, and    *)
(* the process may be killed anywhere.                                     *)
(***************************************************************************)
EXTENDS DeviceQueue

CONSTANTS
  Callers,        \* the host's concurrent calls into the client
  MaxPerCall,     \* bound: a call records at most this many events
  MaxEvents,      \* bound: events tracked in a behaviour
  MaxFailures,    \* where the failure counter saturates (u32::MAX)
  Advices         \* bound: the Retry-After seconds, 0 for none

ASSUME RustAssumption ==
  /\ {MaxPerCall, MaxEvents} \subseteq Nat
  /\ MaxFailures \in Nat \ {0}
  /\ Advices \subseteq Nat /\ 0 \in Advices

VARIABLES
  queue,      \* the events table
  lastSeq,    \* its AUTOINCREMENT counter
  clock,      \* the device's wall clock; it may be set to anything
  flight,     \* SenderState.flight: Idle or InFlight
  backoff,    \* SenderState.backoff; no failures stands for Clear
  calls,      \* where each caller is, and the local variables of its call
  answered,   \* history: the events the server accepted or refused
  expired     \* history: the events purged for their age

store == <<queue, lastSeq>>
sender == <<flight, backoff>>
vars == <<queue, lastSeq, clock, flight, backoff, calls, answered, expired>>

Phases == {"idle", "stamped", "reserving", "taking", "posting", "settling"}

NoCall == [at |-> "idle", urgency |-> "Due", now |-> 0, batch |-> {},
           outcome |-> "Retry", advice |-> 0]

Clear == [failures |-> 0, until |-> 0]

\* The phases in which a call holds the FlightGuard.
Holding(c) == calls[c].at \in {"taking", "posting", "settling"}

Init ==
  /\ queue = {} /\ lastSeq = 0
  /\ clock = 0
  /\ flight = "Idle"
  /\ backoff = Clear
  /\ calls = [c \in Callers |-> NoCall]
  /\ answered = {} /\ expired = {}

Goto(c, phase) == calls' = [calls EXCEPT ![c].at = phase]

Return(c) == calls' = [calls EXCEPT ![c] = NoCall]

\* Mutant: an early return forgets the flight.
KeepGuard(c) ==
  /\ flight' = flight
  /\ Return(c)

\* FlightGuard::drop, when the call that holds the guard returns.
DropGuard(c) ==
  /\ flight' = "Idle"
  /\ Return(c)

-----------------------------------------------------------------------------
(* Recording: track and app_launched.                                      *)

\* The call reads the clock before it waits for the store's mutex.
Stamp(c) ==
  /\ calls[c].at = "idle"
  /\ calls' = [calls EXCEPT ![c].at = "stamped", ![c].now = clock]
  /\ UNCHANGED <<store, clock, sender, answered, expired>>

\* One transaction inserts the call's events and trims the queue.
Record(c, n, size) ==
  /\ calls[c].at = "stamped"
  /\ lastSeq + n <= MaxEvents
  /\ queue' = Trimmed(queue \union NewRows(lastSeq, n, calls[c].now, size))
  /\ lastSeq' = lastSeq + n
  /\ Return(c)
  /\ UNCHANGED <<clock, sender, answered, expired>>

\* An invalid event or a failed transaction records nothing.
RecordFails(c) ==
  /\ calls[c].at = "stamped"
  /\ Return(c)
  /\ UNCHANGED <<store, clock, sender, answered, expired>>

-----------------------------------------------------------------------------
(* Draining: send_due and flush.                                           *)

\* send_next reads the clock it will use throughout.
Begin(c, urgency) ==
  /\ calls[c].at = "idle"
  /\ calls' = [calls EXCEPT ![c].at = "reserving", ![c].urgency = urgency,
                            ![c].now = clock]
  /\ UNCHANGED <<store, clock, sender, answered, expired>>

\* Mutant: the reservation overlooks the flight.
MayReserveWhileInFlight(now) ==
  ~(backoff.failures > 0 /\ now < backoff.until)

MayReserve(now) ==
  /\ flight = "Idle"
  /\ ~(backoff.failures > 0 /\ now < backoff.until)

Reserve(c) ==
  /\ calls[c].at = "reserving"
  /\ \/ /\ MayReserve(calls[c].now)
        /\ flight' = "InFlight"
        /\ Goto(c, "taking")
     \/ /\ ~MayReserve(calls[c].now)
        /\ flight' = flight
        /\ Return(c)
  /\ UNCHANGED <<store, clock, backoff, answered, expired>>

\* One transaction purges the expired events and takes the oldest others;
\* nothing due ends the call.
Take(c) ==
  LET fresh == Fresh(queue, calls[c].now)
      due   == IsDue(fresh, calls[c].now, calls[c].urgency) /\ Batch(fresh) # {}
  IN /\ calls[c].at = "taking"
     /\ queue' = fresh
     /\ expired' = expired \union Seqs(queue \ fresh)
     /\ \/ /\ due
           /\ calls' = [calls EXCEPT ![c].at = "posting", ![c].batch = Batch(fresh)]
           /\ flight' = flight
        \/ ~due /\ DropGuard(c)
     /\ UNCHANGED <<lastSeq, clock, backoff, answered>>

\* The transaction fails and rolls back: the call returns the error.
TakeFails(c) ==
  /\ calls[c].at = "taking"
  /\ DropGuard(c)
  /\ UNCHANGED <<store, clock, backoff, answered, expired>>

\* The batch is posted: the server answers it, or never sees it, and the
\* answer reaches the call or is lost on the way.
Post(c, status, advice, heard) ==
  /\ calls[c].at = "posting"
  /\ advice # 0 => heard /\ Outcome(status) = "Retry"
  /\ calls' = [calls EXCEPT ![c].at = "settling", ![c].advice = advice,
                            ![c].outcome = Outcome(IF heard THEN status ELSE NoResponse)]
  /\ answered' = IF status \in Definitive
                 THEN answered \union Seqs(calls[c].batch) ELSE answered
  /\ UNCHANGED <<store, clock, sender, expired>>

\* The host drops the future while it awaits the answer (or the body cannot
\* be compressed); the server may have handled the batch all the same.
Cancel(c) ==
  /\ calls[c].at = "posting"
  /\ \/ answered' = answered
     \/ answered' = answered \union Seqs(calls[c].batch)
  /\ DropGuard(c)
  /\ UNCHANGED <<store, clock, backoff, expired>>

\* Mutant: everything waiting is deleted, also what was tracked meanwhile.
RemovedAll(rows, batch) == {}

\* DELETE ... WHERE seq < last_seq, last_seq being the newest of the batch.
Removed(rows, batch) == {r \in rows : ~ \E s \in batch : r.seq < s.seq}

\* A delivered or refused batch leaves the queue, which ends any run of
\* failures, and the call goes on with the next batch.
Leave(c) ==
  /\ calls[c].at = "settling"
  /\ calls[c].outcome \in {"Delivered", "Refused"}
  /\ queue' = Removed(queue, calls[c].batch)
  /\ backoff' = Clear
  /\ flight' = "Idle"
  /\ calls' = [calls EXCEPT ![c] = [NoCall EXCEPT !.at = "reserving",
                                       !.urgency = calls[c].urgency, !.now = clock]]
  /\ UNCHANGED <<lastSeq, clock, answered, expired>>

\* The transaction fails: the error leaves the batch and the pace alone.
LeaveFails(c) ==
  /\ calls[c].at = "settling"
  /\ calls[c].outcome \in {"Delivered", "Refused"}
  /\ DropGuard(c)
  /\ UNCHANGED <<store, clock, backoff, answered, expired>>

\* failures.saturating_add(1)
Counted(failures) == IF failures < MaxFailures THEN failures + 1 ELSE MaxFailures

\* Any other answer keeps the batch and sets the time of the next attempt.
BackOff(c) ==
  LET failures == Counted(backoff.failures)
  IN /\ calls[c].at = "settling"
     /\ calls[c].outcome = "Retry"
     /\ \E delay \in Delays(failures, calls[c].advice) :
          backoff' = [failures |-> failures, until |-> clock + delay]
     /\ DropGuard(c)
     /\ UNCHANGED <<store, clock, answered, expired>>

-----------------------------------------------------------------------------
(* The environment.                                                        *)

\* The process is killed and started again: committed transactions survive,
\* the SenderState and every call do not.
Crash ==
  /\ flight' = "Idle"
  /\ backoff' = Clear
  /\ calls' = [c \in Callers |-> NoCall]
  /\ UNCHANGED <<store, clock, answered, expired>>

\* The wall clock advances, or is set by the user or the network.
ClockMoves ==
  /\ clock' \in Times
  /\ UNCHANGED <<store, sender, calls, answered, expired>>

Draining(c) ==
  \/ Reserve(c) \/ Take(c) \/ TakeFails(c) \/ Cancel(c)
  \/ \E status \in Statuses, advice \in Advices, heard \in BOOLEAN :
       Post(c, status, advice, heard)
  \/ Leave(c) \/ LeaveFails(c) \/ BackOff(c)

Next ==
  \/ \E c \in Callers :
       \/ Stamp(c) \/ RecordFails(c)
       \/ \E n \in 1 .. MaxPerCall, size \in Sizes : Record(c, n, size)
       \/ \E urgency \in Urgencies : Begin(c, urgency)
       \/ Draining(c)
  \/ Crash
  \/ ClockMoves

Spec == Init /\ [][Next]_vars

-----------------------------------------------------------------------------
(* Properties.                                                             *)

\* Type invariant of the client's state.
TypeOK ==
  /\ queue \subseteq Row
  /\ lastSeq \in Nat
  /\ clock \in Times
  /\ flight \in {"Idle", "InFlight"}
  /\ backoff \in [failures : 0 .. MaxFailures, until : Nat]
  /\ calls \in [Callers -> [at : Phases, urgency : Urgencies, now : Times,
                             batch : SUBSET Row, outcome : Outcomes, advice : Nat]]
  /\ answered \subseteq Nat
  /\ expired \subseteq Nat

\* However the calls interleave, fail or are cancelled, at most one of them
\* is between its reservation and the end of its send, and the flight is
\* marked exactly while one is: a leaked mark would stop delivery for good
\* (reserve, FlightGuard).
OneFlight ==
  /\ \A c, d \in Callers : Holding(c) /\ Holding(d) => c = d
  /\ flight = "InFlight" <=> \E c \in Callers : Holding(c)

\* While a batch is out, whatever is tracked, trimmed or purged meanwhile,
\* no row up to its newest is on the device but its own: the deletion by
\* seq in `remove` can then hit no event that was not sent.
BatchIsHeadOfQueue ==
  \A c \in Callers : calls[c].at \in {"posting", "settling"} =>
    \A r \in queue, s \in calls[c].batch : r.seq <= s.seq => r \in calls[c].batch

\* An event that is no longer on the device was answered by the server, or
\* purged for its age, or at least MaxQueue events were tracked after it:
\* no interleaving, failed transaction, lost answer, cancellation or crash
\* loses one (docs/PROTOCOL.md, "Sending").
NothingLost ==
  \A s \in 1 .. lastSeq :
    s \in Seqs(queue) \union answered \union expired \/ lastSeq - s >= MaxQueue

\* No call sends at a clock reading earlier than the time a failed batch set
\* for its retry, also when another caller's batch failed and the wall clock
\* jumps (reserve, back_off).
RetryWaits ==
  \A c \in Callers :
    Holding(c) /\ backoff.failures > 0 => calls[c].now >= backoff.until

\* Events reach the server in the order they were tracked: none is answered
\* while an older one still waits unanswered, whatever the wall clock stamped
\* on them and however often batches are retried (`oldest`, `cut`).
SentInOrder ==
  \A w \in Seqs(queue) \ answered, s \in answered : s < w

\* Of what the device and the calls hold, nothing is numbered past the last
\* event tracked.
SeqsAreTracked ==
  /\ Seqs(queue) \union answered \subseteq 1 .. lastSeq
  /\ \A c \in Callers : calls[c].at \in {"posting", "settling"} =>
       Seqs(calls[c].batch) \subseteq 1 .. lastSeq

\* No two rows on the device have one key.
SeqIsKey == \A r, s \in queue : r.seq = s.seq => r = s

\* A call that heard a definitive answer heard the server's.
OutcomeIsTheServers ==
  \A c \in Callers :
    calls[c].at = "settling" /\ calls[c].outcome # "Retry"
      => Seqs(calls[c].batch) \subseteq answered

\* The inductive invariant the proofs rest on.
IInv ==
  /\ TypeOK /\ OneFlight /\ BatchIsHeadOfQueue /\ NothingLost /\ RetryWaits
  /\ SentInOrder /\ SeqsAreTracked /\ SeqIsKey /\ OutcomeIsTheServers

\* The client implements the promise a ClickMan client makes of its events.
Promise == INSTANCE ClientPromise WITH
             tracked <- lastSeq, waiting <- Seqs(queue)

KeepsPromise == Promise!Spec

\* "Deletes a delivered or refused batch" (batch.rs:77): once a call has
\* settled a delivered or refused batch, none of its events is on the device.
AnsweredBatchLeaves ==
  [][\A c \in Callers :
       calls[c].at = "settling" /\ calls'[c].at = "reserving"
         => Seqs(queue') \intersect Seqs(calls[c].batch) = {}]_vars

=============================================================================
