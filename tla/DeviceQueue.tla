---------------------------- MODULE DeviceQueue ----------------------------
(***************************************************************************)
(* The `events` table every ClickMan client keeps on the device, and the   *)
(* queries the clients run on it.  A row is an event: `seq` is its         *)
(* AUTOINCREMENT key, `at` its created_at (a reading of the device's wall  *)
(* clock) and `size` the bytes of its body.  The table is a set of rows;   *)
(* a transaction is an expression over it.                                 *)
(*                                                                         *)
(* The Rust, Kotlin and Swift clients each extend this module and add how  *)
(* their threads, tasks and actors interleave these transactions.          *)
(***************************************************************************)
EXTENDS Integers, FiniteSets, FiniteSetsExt

CONSTANTS
  MaxQueue,        \* the most events kept (config.max_queue)
  MaxAge,          \* events that waited longer are deleted unsent (max_age)
  FlushAt,         \* a batch is due once this many events wait (flush_at)
  FlushInterval,   \* ... or once the oldest waited this long (flush_interval)
  MaxBatchEvents,  \* the most events in one batch
  MaxBatchBytes,   \* the most bytes in one batch, commas included
  FirstDelay,      \* the wait after one failure (FIRST_DELAY, 5 s)
  LongestDelay,    \* the cap of the doubled wait (MAX_DELAY, 600 s)
  Sizes,           \* bound: the sizes of event bodies
  Statuses,        \* bound: the statuses the server answers with
  MaxTime          \* bound: the wall clock reads 0..MaxTime

ASSUME QueueAssumption ==
  /\ {MaxQueue, MaxAge, FlushAt, FlushInterval, MaxTime} \subseteq Nat
  /\ MaxBatchEvents \in Nat \ {0}
  /\ {MaxBatchBytes, FirstDelay, LongestDelay} \subseteq Nat
  /\ Sizes \subseteq Nat
  /\ Statuses \subseteq 100 .. 599

Times == 0 .. MaxTime

Row == [seq : Nat \ {0}, at : Times, size : Sizes]

Seqs(rows) == {r.seq : r \in rows}

-----------------------------------------------------------------------------
(* Writing.                                                                *)

\* The keys of n new rows: SQLite's AUTOINCREMENT never hands one out again.
NewSeqs(last, n) == last + 1 .. last + n

NewRows(last, n, at, size) ==
  {[seq |-> s, at |-> at, size |-> size] : s \in NewSeqs(last, n)}

\* Mutant: the trim counts one row too few.
TrimOneTooMany(rows) ==
  {r \in rows : Cardinality({s \in Seqs(rows) : s > r.seq}) + 1 < MaxQueue}

\* The trim after an insert: the newest MaxQueue rows stay.
Trimmed(rows) ==
  {r \in rows : Cardinality({s \in Seqs(rows) : s > r.seq}) < MaxQueue}

\* The purge before a batch is taken: rows older than MaxAge go unsent.
Fresh(rows, now) == {r \in rows : r.at >= now - MaxAge}

-----------------------------------------------------------------------------
(* Taking a batch.                                                         *)

Urgencies == {"Due", "Forced"}

\* Mutant: a forced send waits like any other.
IsDueUnforced(rows, now, urgency) ==
  rows # {} /\ (Cardinality(rows) >= FlushAt \/ \E r \in rows : now - r.at >= FlushInterval)

\* Mutant: a short queue waits for more events however old its oldest is.
IsDueByCount(rows, now, urgency) ==
  rows # {} /\ (urgency = "Forced" \/ Cardinality(rows) >= FlushAt)

IsDue(rows, now, urgency) ==
  /\ rows # {}
  /\ \/ urgency = "Forced"
     \/ Cardinality(rows) >= FlushAt
     \/ \E r \in rows : now - r.at >= FlushInterval

\* Mutant: the oldest by created_at, not by seq.
UpToByCreation(rows, r) == {s \in rows : s.at <= r.at}

\* Mutant: the newest first.
DownTo(rows, r) == {s \in rows : s.seq >= r.seq}

\* The rows up to r in the order of their keys.
UpTo(rows, r) == {s \in rows : s.seq <= r.seq}

\* The bytes of the rows up to r, joined by commas.
Joined(rows, r) ==
  MapThenSumSet(LAMBDA s : s.size, UpTo(rows, r)) + Cardinality(UpTo(rows, r)) - 1

Fits(rows, r) ==
  /\ Cardinality(UpTo(rows, r)) <= MaxBatchEvents
  /\ \/ Cardinality(UpTo(rows, r)) = 1
     \/ Joined(rows, r) <= MaxBatchBytes

\* The oldest rows, as long as they fit; the oldest goes even alone over the
\* byte limit.
Batch(rows) == {r \in rows : \A s \in UpTo(rows, r) : Fits(rows, s)}

-----------------------------------------------------------------------------
(* What an answer does to its batch.                                       *)

Outcomes == {"Delivered", "Refused", "Retry"}

\* The status that stands for no response at all.
NoResponse == 0

\* The answers after which the server is done with the batch: it has the
\* events, or will never take them.
Definitive == 200 .. 299 \union {400, 413, 415}

Outcome(status) ==
  CASE status \in 200 .. 299      -> "Delivered"
    [] status \in {400, 413, 415} -> "Refused"
    [] OTHER                      -> "Retry"

\* The waits the clients may choose after this many consecutive failures:
\* FirstDelay doubled per failure up to LongestDelay, times a random factor
\* in [0.8, 1.2], or the server's advice when that is longer.
Delays(failures, advice) ==
  LET doubled == FirstDelay * 2^(failures - 1)
      base    == IF doubled < LongestDelay THEN doubled ELSE LongestDelay
      jittered == {d \in 0 .. 2 * LongestDelay : 4 * base <= 5 * d /\ 5 * d <= 6 * base}
  IN {IF advice > d THEN advice ELSE d : d \in jittered}

=============================================================================
