# ClickMan, specified

ClickMan is an analytics pipeline: clients in Rust, Kotlin and Swift queue
events on the device and send them in batches; an ingest server validates the
batches and inserts them into a database; a Rails engine rotates the raw events
into a compressed matrix, prunes them, forwards them to destinations and answers
reports. This directory models it in TLA+: what is concurrent, may fail, or
depends on an order.

`PROJECT.json` maps every definition to the lines of `src/` it stands for.
Paths below are relative to `src/`.

## 1. Inventory

### 1.1 Parts

| Part | Code | State it keeps | Operations |
|---|---|---|---|
| Rust client | `rust/crates/clickman` | SQLite file (`events`, `identity`, launches), `SenderState` (flight, backoff) | `track`, `identify`, `reset`, `app_launched`, `send_due`, `flush`, `pending` |
| Kotlin client | `kotlin/libraries/clickman` | SQLite file, a single-thread executor with a poll schedule, `Failures` | `track`, `flush`, `close`, poll |
| Swift client | `swift/Sources/ClickMan` | GRDB file, a `Sender` actor with a chain of drains, a poll task | `track`, `flush`, release, poll |
| Lifecycle | Android and iOS glue | the platform's foreground state | flush in background, launch events |
| Ingest server | `rust/crates/clickman-ingest` | connection pool, rate limiter's buckets, settings swapped by a refresh task | `POST /v1/batch`, health, refresh, shutdown |
| Protocol crate | `rust/crates/clickman-protocol` | none | decode, normalize, flatten, sanitize |
| Event store | `ruby/lib/click_man/stores` | `clickman_events` (raw), `_cursors`, `_matrix`, `_active_days`, `_actors`, daily counts, partitions, an advisory lock | `rotate!`, `prune!`, `erase!`, `deliver`, reads |
| Delivery | `ruby/lib/click_man/delivery.rb`, `destinations/` | one cursor per destination | `deliver!` |
| Settings | `ruby/lib/click_man/settings.rb`, `configuration.rb` | one published row | publish |
| Columns codec | `ruby/lib/click_man/columns.rb` | none | pack, unpack |
| Reports | `ruby/lib/click_man/reports`, `funnel.rb` | none | actives, retention, cohorts, funnels |
| Inline supervisor | `ruby/lib/click_man/inline_supervisor.rb` | the child's pid, a monitor thread | start, stop, respawn |
| Dashboard, generators, tasks | `ruby/app`, `ruby/lib/generators` | none | views and wiring |

### 1.2 How they interact

* Host threads and tasks call a client; inside a client they meet at the store's
  mutex (Rust), the worker thread (Kotlin) or the actor (Swift). Between two
  transactions anything else may run.
* A client posts a batch over HTTP. A status 2xx, or 400/413/415, ends the
  batch; anything else, silence included, makes it wait and try again. So the
  server may see a batch any number of times.
* The server inserts rows `ON CONFLICT (message_id) DO NOTHING`. Every batch is
  one statement. Requests overlap, and commit in any order.
* Rotation and every destination read the raw rows in the order of
  `(received_at, message_id)`, behind a cursor of their own, and only rows older
  than `rotation_lag`. Pruning deletes what is out of `dedup_window` and behind
  every cursor.
* Settings go from the engine to the server through a row that is polled.

### 1.3 What is hard, and what makes each part correct

| Part | What is hard | What must hold |
|---|---|---|
| Clients | events tracked, trimmed and expired while a batch is out; cancelled calls, failed transactions, crashes and lost answers between any two steps; a wall clock that jumps; a queue closed or reopened under a send | no event leaves the device unanswered, unless too old or one too many; a batch is the head of the queue until its answer is settled, so that deleting a key range hits nothing else; order; one flight; paced retries; flushes return, and only when nothing that waited is left or a send failed |
| Device's launches and identity | a transaction that fails, a store another core wrote, a first entry told twice; threads that identify, set traits, reset and track | every change of the release is told once; no event carries one user's traits under the id of another who came after a reset |
| Event store | requests that commit out of order; jobs that overlap or die between two pages; late rows behind a cursor; erasure in the middle | nothing accepted is lost; nothing is counted twice; everything is rotated in the end; raw rows are pruned |
| Delivery | two runs at once that set one cursor over the other; a destination that takes a part of a page | nothing skipped; no destination holds up another |
| Matrix | chunks topped up in place, emptied and dropped; counts and bits derived from them; a memo of partitions beside retention | every event is in one row; summaries and reported actives agree with the rows; a job that fails over the memo does not fail for ever |
| Ingest server | devices whose clocks are off, connections that break, failures after the commit, overlapping retries, settings swapped in flight | no event is dropped for a failure that passes; times are corrected; nothing is reported twice |
| Settings | refreshes that fail, a row that is spoilt and repaired | what is published arrives |
| Protocol crate | contexts that collide, numbers in the middle of texts | the event's own value wins and nothing else is lost; a text with a number is filtered (section 5: not every one is), and no other |
| Limiter | time read before the lock, idle buckets pruned | no client over its rate; who waits as told is let in |
| Supervisor | respawn beside stop; wrappers and owners that die alone | nothing is left after stop; the port is freed; a server comes up again |

`PROJECT.json` lists the single hazards under `hazards`, each at its line, with
the properties that watch it, or why none does.

## 2. The modules

```
DeviceQueue        the table on the device and the queries on it
  RustClient       threads and tasks of the host over mutex and flight
  KotlinClient     worker thread, flushes, polls, close and reopen
  SwiftClient      several objects over one file, chained drains
ClientPromise      what a client promises its host; each client implements it
DeviceQueueTheorems                        lemmas about the queue's queries
RustClientProofs, KotlinClientProofs, SwiftClientProofs      proofs on them
EventStore         requests, rotation and pruning, delivery, erasure
StorePromise       what the store promises of an accepted event; EventStore implements it
Pipeline           a device that keeps ClientPromise, a network and EventStore together
EventStoreProofs   proofs about EventStore and Pipeline
EventStoreProgress ... and what it does in the end, once failures are over
Matrix             what rotation, erasure and retention write, and reports read
MatrixProofs       proofs
IngestServer       the handler, from the settings it goes by to its answer
  Protocol         what it makes of a batch: the checks of an event, its clock
  Contexts         how contexts are merged and objects flattened
Sanitizer          card and phone numbers in a text
RateLimiter        token buckets
IngestSettings     publishing, loading and refreshing
Supervisor         the server as a child process
Launches           what a device's store tells of launches
Identity           whom a device's events are about
ServerProofs       proofs about IngestServer, Supervisor, RateLimiter and Sanitizer
DeviceProofs       proofs about Launches and Identity
MC*                small instances
```

Definitions kept only to be exchanged for the code's form are marked "Mutant" at
their comment; each says which mistake it stands for.

### 2.1 `DeviceQueue`

A row is `[seq, at, size]`: its key, its `created_at`, the length of its body.
What is inside the body has no effect on the queue. A transaction is an
expression over the set of rows: `NewRows` and `Trimmed` (insert and trim),
`Fresh` (purge), `IsDue` and `Batch` (due check and cut by count and bytes),
`Outcome` (what a status does to the batch), `Delays` (the set of waits the
jitter may choose, in whole units of time, with the factor's bounds as
4/5 and 6/5). What differs between clients (the deletion after an answer, the
pace's reset) is in the clients.

### 2.2 `RustClient`

`calls[c]` is where the call of host thread `c` is, with its local variables.

| Phase | Meaning | Actions out of it |
|---|---|---|
| idle | no call | `Stamp` (track or launch reads the clock), `Begin` (`send_next` reads the clock) |
| stamped | waits for the store's mutex | `Record`, `RecordFails` |
| reserving | asks `SenderState` for the flight | `Reserve` |
| taking | in the purge-and-take transaction | `Take`, `TakeFails` |
| posting | awaits the answer | `Post`, `Cancel` |
| settling | has an outcome | `Leave`, `LeaveFails`, and the back-off |

Each action is one critical section: the code holds a mutex for just that long.
The guard `FlightGuard` is dropped on every way out (`DropGuard`). The wall clock
is set to anything at any time, and the process is killed at any time: memory
goes, the file stays. `answered` and `expired` are history: what the server is
done with, what the purge took. The model keeps the code's `seq < last_seq` (see
section 5).

### 2.3 `KotlinClient`

One worker thread takes tasks (polls and flushes) from the executor's queue in
order; trackers write from their own threads, having read the clock before the
database's lock. `close` stops the executor and waits a limited time; when that
runs out the queue is closed under the running send, whose transactions then
throw. A new client over the same file may be opened after that. Being killed
loses everything but the file.

### 2.4 `SwiftClient`

Several `ClickMan` objects may stand over one file, for a released one goes on
with its drains while its successor works. Each has an actor whose drains are
chained: every one awaits the one before it. Check, purge and read are three
transactions, and other objects and trackers come between them.

### 2.5 `ClientPromise`

The abstract client: events are numbered as they are tracked; `waiting` loses an
event only by `Leave` (it was answered), `Expire` (it was too old) or by `Track`
(newer ones took its place). No sender, no threads, no retry. Each client states
`KeepsPromise`, with `tracked <- lastSeq` and `waiting <- Seqs(queue)`.

### 2.6 `EventStore`

A message is a raw row from its insert until it is pruned; `matrix` counts how
often the chunks hold it; `stored` and `forwarded` are history.

| Process | Actions | Code |
|---|---|---|
| request | `Receive`, `Commit`, `Drop` | `app.rs` takes `received_at` first, `database.rs` inserts last |
| rotation job | `StartRotation` (cutoff), per page `ReadRotation`/`WriteRotation` (transaction under the lock) or `LockBusy`, as `TryLock` finds the lock; then `ReadCursors`, `DeleteRaw` per batch; `JobFails` | `relational.rb` `rotate!`, `rotate_page`, `prune!`, `delete_raw` |
| delivery job | `StartDelivery`, per page `ReadDelivery`, `Deliver`, `Advance`; `DeliverFails`, `DeliveryDies` | `delivery.rb` |
| erasure | `Erase` | `erase!` |

Other sessions may insert between the read of a page and its write, and pruning
works from cursors read earlier: both are apart in the model. The lock is a
session-wide try-lock, as on PostgreSQL; SQLite's `BEGIN IMMEDIATE`, which waits
instead of giving up, has a subset of these behaviours.

`StorePromise` says what all this promises of an accepted event. It is uncounted
until the step that counts it, and waits for each destination until it was sent there; it
may wait once more when an overlapping delivery sets the cursor back. An erased
event is in none of these, though a delivery may still send what it read before (`out`).
`KeepsPromise` maps `uncounted` and `waiting` to the raw rows ahead of a cursor.

### 2.7 `Matrix`

One action per transaction of `relational.rb` and `postgres.rb`: the advisory
lock lets no two of them overlap, and `EventStore` has what happens outside of
it. `waiting` is what is ahead of the rotation's cursor; `chunks[p]` maps the
seqs in use of a day and name to their rows, so that an emptied chunk leaves a
gap, as in the table; `counts`, `bits` and `actors` are the three summaries. A
rotation job is apart from its pages for the sake of its memo of partitions: it
lives as long as the job's store, while retention (`DropMonths`) drops
partitions between two pages. A page whose insert finds no partition rolls back
and fails the job (`PageFails`). `Actives` is the report's algorithm
(`active_offsets`, `spread`, `running_sums`), compared with the rows.
A year is a number of months of equal length. A list is sorted, or some of its
rows are taken out of it, by their places (`Ordered`, `Kept`): who precedes whom
is what the proofs go by.

### 2.8 `IngestServer`, `Protocol` and `Contexts`

`requests[c]` is the request on connection `c`: sent, reading, inserting,
answered. The handler reads its time and takes its settings at once (`Receive`);
after that they may be swapped. A body is what the checks tell apart: how it is
encoded and which of its items is invalid for what. `Post` and `Respond` are the
device: it sends its batch until it has a final answer, with a new `sentAt` each
time, and may give up on a request the server still works on (`GiveUp`), which
is cancelled (`Cancelled`) or goes on. `InsertFails` may have committed. Whether
a request is limited is free here (`RateLimited`).

`Protocol` takes how two contexts are merged (`Merge`) and how an object is
flattened (`Flat`) as constants: the checks of an event count the pairs and look
at their keys, and go by nothing else of them. `Contexts` has the crate's merging and
flattening, which the runs give to these constants. They are apart because they
are recursive: what is proved of the handler holds for any way of merging.

In `Contexts` a JSON object is the sequence of its pairs, since order decides who
wins a collision (the crate builds serde_json with `preserve_order`), and a key
the sequence of the parts its dots separate, so that `{"a": {"b": 1}}` and
`{"a.b": 1}` meet at one key. `MergedAndFlattened` says what merging must come to
by the places of the values, without merging.

### 2.9 `Sanitizer`

The scans of `contains_card` and `contains_phone` over sequences of characters,
and what `docs/PROTOCOL.md` calls a number, told by the stretches of a text
(`IsCard`, `IsPhone`): so many digits, grouped so, glued to no letter or digit. A
text that holds one is to be filtered. The code's reading is narrower: the digits
of a number go on as far as groups follow, so that a card number with one more
group behind it is one longer run, and not found. `NumbersFiltered` is the
documented rule, which the code breaks (section 5). `SanitizerFinds` is what the
scans do give: a filtered text holds a number, and a number that is missed is one
that more digits follow (`CardGoesOn`, `PhoneGoesOn`). A text is looked at once and changes nothing, so the
specification has one variable, the text, and no step but a stutter; digits
are told by their places, so that a scan is an interval of them and no recursion
is needed. "x" stands for all letters: both the code and the rule ask of a
character only whether it is a digit, a separator, a plus sign or a letter.

### 2.10 `RateLimiter`

A request reads the clock (`Measure`) before it has the mutex (`Allow`,
`Refuse`), so requests are checked out of order and a bucket's time is set back.
Tokens are counted in units of `1/Unit`. `watch` is the account of one client
from some instant on, `promised` what a refused client was told; both are
history.

### 2.11 `IngestSettings`, `Supervisor`

`IngestSettings` has the row, the server's life and its refresher: a reading and
the swap are two steps (`Fetch`, `Swap`), and a failed reading leaves the
settings as they are. `Supervisor` has the owner's thread, one monitor per
child, and per child a leader and a server, which are one process unless
`Wrapped` (`cargo run`). The port can be had by one server at a time. The group
is signalled, the lifeline is held by the supervisor alone. A KILL takes effect
before `settled?` gives up; a `stop` that waits in vain for processes no signal
ends is not in the model.

### 2.12 `Launches`, `Identity`

Both are about the `identity` row. `Launches` has the release the store
remembers, the binary that is installed, and lifecycle tracking, which on a
scene-based iOS app is told of the first entry as well. `Identity` has threads
whose calls change the row in one transaction each, or record an event with the
context they copied before their transaction.

### 2.13 `Pipeline`

`EventStore` assumes that a batch is sent again for `MaxResend` at most, and the clients
promise only not to forget an event. `Pipeline` puts the two ends together. The device
is any client that keeps `ClientPromise`, not one of the three: it tracks, trims,
purges what is older than `MaxAge`, and takes any set of waiting events that are not to
send it (`Post`). They may be trimmed or answered while the post is out. What was posted
arrives any number of times, or not at all: each arrival becomes a request of the store (`Arrive`),
with no condition on what the store has of it. The server refuses a batch or some of its
events (`Refuse`), commits (`Accept`), or fails (`Fail`); the device may hear of an
answer (`Leave`) or never. A commit whose answer is lost is an `Accept` without a
`Leave`. Other devices' events, the jobs, erasure and time go on as in `EventStore`.

Two things are assumed of the world. What is posted arrives within `MaxTransit` or never: an
HTTP request is not kept by the network for days. And the device's clock is not set while an
event waits, since its age is measured with it; the clients' own modules have
clocks that jump, where an event may be kept for longer.

As shipped, a device sends an event for 30 days (`docs/PROTOCOL.md:188`) and the
store tells a repetition for 7 (`configuration.rb:26`). So an event whose answer was lost
may come again when its raw row is pruned, and is then stored, and counted, a second time.
`late`, a history variable of `EventStore`, has the messages that were written again so
late. `CountedOnce` and the "at most once" of `OnceInTheStore` are about all others; that an event
which left its device is in the store is about these as well.

## 3. The runs

| Run | Instance | What it shows |
|---|---|---|
| `rust_safety` | 2 callers, 3 events, queue of 2, batches of 2, jumps, crashes | `OneFlight`, `BatchIsHeadOfQueue`, `RetryWaits`, `SentInOrder`; the client implements `ClientPromise` (`KeepsPromise`) |
| `rust_removal` | the same | violation: a settled batch leaves an event behind |
| `kotlin_safety` | 1 tracker, 1 flusher, 1 restart, batches of 2 or cut by bytes, failing storage, jumps | `SettledOnce`, `BatchIsHeadOfQueue`, `KeepsPromise` |
| `kotlin_flush` | 2 flushers, storage works | `FlushReturns`, `EventuallyLeaves`, `FlushPostcondition` |
| `swift_safety` | 2 objects over a file, queue of 2, batches of 1, failing storage, jumps | `BatchIsHeadOfQueue`, `KeepsPromise` |
| `swift_flush` | 1 object, 2 drains, storage works | `FlushPostcondition`, `ReleasedEnds`, `EventuallyLeaves` |
| `store_pipeline` | a device's event and another's, sent for longer than the store remembers it, 2 requests, 2 jobs, pages of 1 | `NothingLost`, `CountedOnce`, `OnceInTheStore` |
| `store_late_insert` | requests as long as the lag | violation: an accepted event is lost |
| `store_delivery` | 2 deliveries at once, 1 job | the store implements `StorePromise` (`KeepsPromise`) |
| `store_progress` | 2 destinations, fair jobs | `EventuallyRotated`, `EventuallyForwarded`, `RawIsPruned` |
| `sanitizer_numbers` | card and phone numbers of the shipped lengths, with and without an extension | violation: a text that holds a number is not filtered |
| `parts` | nine parts, each on its own | limiter: `AdmissionBounded`, `RetryAfterSuffices`; protocol: `ContextsMerge`; sanitizer: `SanitizerFinds`; handler: `NothingSwallowed`, `ClockCorrected`, `ReportedOnce`; settings: `SettingsArrive`; supervisor: `NoneForgotten`, `PortIsFreed`, `ServesAgain`; launches: `LaunchesAreTold`; identity: `EventsCarryTheirActor`; matrix (5 events of 3 actors, chunks and pages of 2, one job): `RotatedOnce`, `SummariesAgree`, `ActivesAreRight`, `RotationCatchesUp` |

`parts` is one run because its parts do not interact: the variable `part` says
whose behaviour a behaviour is, and the others stand still; the fairness of a part
is asked for while it is the one that runs. Deadlock is not checked there, for
most parts stop at their bounds.

`KeepsPromise` includes that nothing is lost (an event leaves by an answer, for
its age, or for newer ones); the Kotlin and Swift clients state it in this form.
The type invariants are not repeated by a run, except as part of what is proved
(section 4). `KeepsPromise` of the store includes `NothingSkipped`, which is proved
by itself (section 4.3).

### 3.1 Bounds, and why they are enough

* **Queue.** Three events against a queue of two: the trim hits, also while a
  batch with the trimmed event is out. Batches of one and of two: after an
  answer, events remain that a wrong range would take. Bodies of two sizes
  against `MaxBatchBytes` make the byte limit cut where the count would not,
  and one larger body goes alone.
* **Time.** Instants 0 to 2 with an age limit and an interval of 1 give all
  comparisons both results, and equality. `kotlin_safety` and `swift_safety`, whose
  clocks jump, have instants 0 and 1 and an age limit of 0; the batch that is due
  for its age alone is in the flush runs, whose age limit exceeds the interval.
  A delay of 1 doubled to a cap of 2 reaches the cap (the cap is 1 in
  `swift_safety`); `MaxFailures` 2 reaches saturation.
* **Statuses.** 202, 413, 503 (429 in some runs) and no response: one of each class, with and
  without advice.
* **Processes.** The hazards are between two: two callers, two objects, a
  flush beside a poll, two requests, two jobs, two deliveries. Where two runs of
  a job meet, more of them add no new pair.
* **Pages.** All limits of the store are 1 with two messages, so every page is
  full, and every loop goes round once more and meets the empty page.
* **Store's clock.** Long enough for an event to arrive, leave the lag, leave the
  window, and be pruned, with its batch sent again in between. `rotation_lag`
  and `dedup_window` keep their order to each other as in the default
  configuration as far as the comparison matters: lag ≤ window.

* **Pipeline.** One event of the device's own, which is what a repetition needs, and one
  of another device that shares the pages and the clock and is sent whenever the store
  allows it. The durations compare as shipped: a lag and a window of 1, an age limit of 2
  beyond the window, and instants to 3, so that an event stored at 0 may be rotated,
  pruned, sent again at 2 and counted a second time. A post arrives, and a request
  commits, in the instant it was sent in, with steps of everyone else in between (a
  flight must stay below the lag of 1); longer ones are in the proofs, and in
  `store_late_insert`. So is trimming: a queue of 1 holds the one event.
* **Matrix.** Three rows of one day and name against chunks of two: a chunk is
  topped up to its limit, and the next begun; an actor with rows in both is
  erased from both, and one of the chunks may become empty while the other
  stays. Rows of a later page precede earlier ones in time. A year is two months
  of two days: the days 3, 4 and 6 lie on both sides of a month's and a year's
  end, and a week of 2 and a month of 3 days overlap both. The report's period
  begins and ends beside them.
* **Limiter.** Two requests of a client in flight, two limits whose rates differ,
  a burst that is no multiple of the rate, a threshold that always prunes.
* **Handler.** One device with two connections, so that a batch overlaps with
  its own repetition; clocks off by twice what is let through into the future; two
  editions of the settings, one without the device's key; an age limit that is
  exceeded by one instant. A second device would share nothing with the first
  but the settings.
* **Contexts.** The keys `a`, `b` and `a.b` in every order, with texts, arrays and
  objects of depth 2 and 3 at a `MAX_DEPTH` of 2.
* **Texts.** Every text of at most 5 of 7 characters (three digits, a letter, a
  space, a dot, a plus), with numbers of 2 or 3 digits: grouped, glued on either
  side, followed by more digits. `sanitizer_numbers` has four texts, with numbers of 13 to
  19 and 10 to 15 digits.
* **Supervisor.** A wrapped child, two starts, four children, two faults and a
  limit of two respawns: the limit is reached, and a stop overlaps a respawn.
* **Launches, identity.** Two releases, four entries, two failures; two threads,
  three changes and an event, among them identify, traits and reset in any order.

`MaxFlight` and `MaxResend` are assumptions and not only bounds: a request
commits within `MaxFlight` of its arrival, a client sends an event again for
`MaxResend`. What the passing runs have of these, and the proofs take as hypotheses:

* `Punctual`: `MaxFlight < Lag`. No code enforces it; `store_late_insert` drops it.
* `Deduplicated`: `MaxResend + MaxFlight <= DedupWindow`, for a batch sent again, and
  `2 * MaxFlight <= DedupWindow`, for two requests under way beside each other:
  the event of the one that arrived first may commit last, when the other's
  row is `MaxFlight` old, and then its own `received_at` counts. Of the runs
  `store_delivery` and `store_progress` have it, of the theorems
  `StoreImplementsPromise` alone: an abstract store that counts an event twice would
  promise nothing. The defaults, 30 days against 7, do not have it.
* `Resending`: `MaxAge + MaxTransit <= MaxResend`: how long the store's clients are
  taken to send an event is no shorter than what a device does. Together with
  `Deduplicated` it would keep `late` empty; `OnceInTheStore` goes without
  `Deduplicated`. `docs/PROTOCOL.md:139` promises deduplication for as long as raw events are
  kept, and `:199` says of a resend, without that limit, that it is counted as a
  duplicate: read with the former it is no disagreement, and so no finding.

### 3.2 Fairness

* Kotlin and Swift clients: the worker and the actors run (weak), polls come
  (weak; the schedule repeats for ever), a request is answered or times out
  (weak), the clock advances and a server that is asked again and again gives a
  definitive answer in the end (strong). The host need not track, flush, open or
  close. Storage works in the liveness runs: with transactions that fail for ever
  nothing can be promised.
* Store: requests end, jobs are scheduled again and go on (weak), time passes
  (strong), and failures cease at some point (`failing`): jobs are run by a
  scheduler that repeats them (`README.md:98`, `:101`), and a job that always dies promises
  nothing.
* Matrix (in `parts`): rotation is scheduled again and again (weak), and not every job dies
  before its page (strong; `README.md:98`). Retention may be run at any time.
* Settings: the ticker repeats and a reading ends (weak on `Fetch` and `Swap`).
  Publishing, failures and restarts need not happen; failures are bounded.
* Supervisor: monitors, `stop` and processes go on (weak): a server binds or
  fails, sees its lifeline close, hits its hard exit. That it drains, dies or is
  killed need not happen; a server that drains has freed its port, and one whose
  TERM came before its lifeline closed has no hard exit (`main.rs:162`): it
  may drain for ever, which `stop` ends with a KILL.
* Rust client: no liveness is stated, since the host drives it (`send_due`), and
  because a forced flush need not end (section 5).

## 4. What is proved

Every theorem holds for all values of the constants that meet the modules'
assumptions, the bounds of the counters included; a further hypothesis is named
where there is one. An inductive invariant is checked by TLC on the run's
instance before it is proved, quantifiers without a bound in a form with one.

### 4.1 The clients

`RustClientProofs` proves about `RustClient`, for every value of the constants
that meets `QueueAssumption` and `RustAssumption` (natural numbers, at least one
failure counted, 0 among the advices), any number of callers, any sizes, statuses
and times:

| Theorem | States |
|---|---|
| `TypeCorrect` | `TypeOK` |
| `Invariance` | `IInv`, the inductive invariant |
| `OneBatchInFlight` | `OneFlight` |
| `RustBatchIsHead` | `BatchIsHeadOfQueue` |
| `NoEventIsLost` | `NothingLost` (which `KeepsPromise` implies, so that no run checks it) |
| `AnsweredInOrder` | `SentInOrder` |
| `RetriesArePaced` | `RetryWaits` |
| `ImplementsPromise` | `Spec => Promise!Spec` |

None of the invariants is inductive alone. `NothingLost` needs that a deletion
hits answered events only, hence that the range deleted is the batch
(`BatchIsHeadOfQueue`), that the batch of a call which settles was answered
(`OutcomeIsTheServers`), and that keys are unique and not reused (`SeqIsKey`,
`SeqsAreTracked`). That a batch stays the head of the queue needs that no one
else inserts below it. `RetryWaits` needs `OneFlight`: a call under way read its
clock before the back-off another one would set. `IInv` joins them; the proof
goes action by action. `DeviceQueueTheorems` has the lemmas about `NewRows`,
`Trimmed` and `Batch` that the three clients share: which rows a trim leaves, that
a batch is a prefix of the queue, and that it is not empty when the queue is not.

`ImplementsPromise` is proved step by step: `Record` maps to `Track`, `Post`
and `Cancel` to `Answer`, `Take` to `Expire`, the deletion to `Leave`, everything
else stutters.

`KotlinClientProofs` and `SwiftClientProofs` prove, for any number of threads,
flushers, objects and restarts:

| Kotlin | Swift | States |
|---|---|---|
| `KotlinTypeCorrect` | `SwiftTypeCorrect` | `TypeOK` |
| `SettledForGood` | | `SettledOnce` |
| `KotlinBatchIsHead` | `SwiftBatchIsHead` | `BatchIsHeadOfQueue` |
| `FlushesDeliver` | `DrainsDeliver` | `FlushPostcondition`, if `~ StorageFails` |
| `KotlinImplementsPromise` | `SwiftImplementsPromise` | `KeepsPromise` |

Both invariants have a part about the process (a task that runs is the first of
its executor's or actor's, without which taking the next one would drop another)
and a part about the events: keys are unique and at most `lastSeq`, a batch is the
head of the queue until its answer is settled, what is settled was answered. In
Swift this holds for every object over the file at once: one may delete the rows
another has out, and the other's deletion then finds fewer, never others.
`~ StorageFails` is not an assumption about the device: a flush whose
transaction fails returns by an error, and `FlushPostcondition` is about the
others; the model does not tell the two apart. That a batch of a queue that is
not empty is not empty needs `MaxBatchEvents >= 1`; with 0 the code would take
empty batches and a flush would return with everything left.

### 4.2 The ingest server

`ServerProofs` proves about `RateLimiter`, for any clients, requests, limits
and times that meet `RateLimiterAssumption` (rates and bursts within their bounds,
a burst of at least one request) and `IdleAssumption` (a bucket idle for `IDLE`
would be full again; 600 s in the code):

| Theorem | States |
|---|---|
| `LimiterTypeCorrect` | `LimiterTypeOK` |
| `AdmissionIsBounded` | `AdmissionBounded` |
| `RetryAfterIsEnough` | `RetryAfterSuffices` |

The inductive invariant `LimiterInv` keeps an account of the watched client:
what it was allowed and what its bucket holds together never exceed a burst and
the rate times the time up to which the bucket was last filled, plus the time it
was set back by (`Account`); the bucket's time is not ahead of the clock
(`InThePast`, `Span`). A pruned bucket was idle for so long that the account of
an empty place is the account of a full one: this is where `IdleAssumption` is
needed, and `AdmissionBounded` fails without it. For `RetryAfterSuffices`
checks in between may only set a bucket's time back, which refills more, and
pruning leaves a full one.

The same module proves about `IngestServer`, for any devices, connections, bodies,
clocks and editions of the settings (`IngestAssumption`, `ProtocolAssumption`):

| Theorem | States |
|---|---|
| `NoEventIsSwallowed` | `NothingSwallowed` |
| `ClocksAreCorrected` | `ClockCorrected` |
| `NothingIsReportedTwice` | `ReportedOnce` |

The properties are about batches that are over; the invariant, `HandlerInv`, is
about requests that are not. It says at each stage of a request what makes its
answer true (`IsTrue`): the times it was sent and received at lie as the
device's clock has it; a reason given to an event before the insert is one its
device may be told; an answer that ends a batch is `Justified`. The steps in between change
the world and not the request: settings are swapped, rows stored by other
requests, the device answered on its other connection. So what a request knows must be
stable under them, and this is most of the proof. `ReportedOnce` is an inequality
because an insert that fails after its commit has stored what no answer reports.

It also proves `NothingIsForgotten` (`NoneForgotten`) about `Supervisor`. A
`stop` waits for the current child alone; the invariant (`SupervisorInv`) says why that is
enough: a monitor with something left to do, and a lifeline, belong to the
current child and no other, through every respawn.

About `Sanitizer` it proves `NumbersAreFound` (`SanitizerFinds`), for any texts and
any admissible numbers of digits; the runs have texts of five characters. It says
what the scans find of the numbers `docs/PROTOCOL.md` describes, and of what they miss that more
digits follow it; that nothing is missed is false (section 5). The scan from a digit goes
over the longest stretch that is grouped as a card is, no shorter one and no longer
(`CardStretch`, `PhoneStretch`, from `ScanStops`: a scan ends at the first place
where it does not go on). So the scan from its first character finds a number that no
digits follow (`CardIsScanned`, `PhoneIsScanned`). Subtracting 9 from a double is adding up its
digits, and an odd number of digits behind one is an even place from the right
(`LuhnIsLuhn`): the two sums add up the same function, so that nothing need be known of
`SumFunction`.

### 4.3 The event store

`EventStoreProofs` proves about `EventStore`, for any messages, actors, requests,
jobs, destinations and page sizes:

| Theorem | States | If |
|---|---|---|
| `StoreTypeCorrect` | `TypeOK` | |
| `NothingIsLost` | `NothingLost` | `Punctual` |
| `NothingIsSkipped` | `NothingSkipped` | `Punctual` |
| `NothingIsCountedTwice` | `CountedOnce` | `Punctual` |
| `StoreImplementsPromise` | `KeepsPromise` | `Punctual`, `Deduplicated` |

`StoreInv` is the invariant of the first two. Whatever a cursor, a page or a job
holds was read at least `Lag` ago (`PositionsAreSettled`), and no request that is
under way is that old (`RequestsAreYoung`): so nobody inserts behind it.
Hence a page that is written leaves nothing behind it (`RotationIsComplete`,
`DeliveryIsComplete`), though it was read in another transaction, and what a pruning
job deletes by cursors it read earlier was rotated and delivered (`PrunedIsDone`).
A second delivery that sets a cursor back is harmless: what a cursor has passed was
forwarded, whoever moved it.

`CountInv` adds what `CountedOnce` needs, of events that are not `late`: one in the
chunks is behind the rotation's cursor or its raw row is gone (`CountedIsBehind`), and
a row that is gone was out of the window (`RawIsFirst`, `PruningIsLate`), so that
whoever brings it back is late. The window may be any: late events are what the
documentation allows to be counted again.

`StoreImplementsPromise` takes every step of `EventStore` from `CountInv` to a step of
`StorePromise`: `Commit` to `Accept`, `WriteRotation` to `Count`, `Deliver` and
`DeliverFails` to `Send`, `Advance` and `DeleteRaw` to `Move`, `Erase` to `Erase`, the
start, the read and the death of a delivery to `Read`, the rest to a stutter. It says what no
state invariant does: the chunks lose nothing but by erasure, rotation never goes
back to an event it passed, and a batch that is sent again moves nothing. Here
`Deduplicated` is needed, and makes that nothing is late (`InTimeInv`): a row that comes back
waits for rotation again, which `StorePromise` excludes.

The same module proves about `Pipeline`, for any events, queue and durations:

| Theorem | States | If |
|---|---|---|
| `PipelineRunsTheStore` | `PipelineSpec => Spec` | `Resending` |
| `PipelineKeepsClientPromise` | `PipelineSpec => Client!Spec` | `Resending` |
| `EventsAreOnceInTheStore` | `OnceInTheStore` | `Punctual`, `Resending` |

The first makes everything proved of `EventStore` hold of the composition: what the
store assumed of its clients (`Receive`'s guard) is a consequence of what devices do.
`DeviceInv` is why. A post holds only events that were not too old when it was sent, and is
not old itself (`PostsAreYoung`); nothing of an event is at the server, stored or on its way, from
before it was tracked (`RequestsAreLater`, `StoredIsLater`). So an event that arrives was stored
at most `MaxAge + MaxTransit` ago. `OnceInTheStore` then joins the two ends: an event that
left was answered (`NoneForgotten`), one that was answered and not refused is stored
(`AnsweredAreStored`), and what is stored is counted or ahead of the
cursor, and unless it is late not both and not twice (`NothingLost`, `CountedIsBehind`, `CountedOnce`). The second
theorem ties the device to 4.1: it makes no move that `ClientPromise` excludes, and what it adds
to the promise is the purge before each post, which all three clients do.

### 4.4 The matrix

`MatrixProofs` proves about `Matrix`, for any events, actors, days, times, sizes of
pages and chunks, and any calendar of `MatrixAssumption` (months of at least a day,
years of at least a month, a `WEEK` no longer than a `MONTH`):

| Theorem | States |
|---|---|
| `MatrixTypeCorrect` | `MatrixTypeOK` |
| `EveryEventIsHeldOnce` | `RotatedOnce` |
| `SummariesSayTheChunks` | `SummariesAgree` |
| `ReportedActivesAreRight` | `ActivesAreRight` |

`held` is history: the events rotated and neither erased nor dropped. The
invariant, `MatrixInv`, says everything of it. The chunks of a day and name have
one row of each event held of that day and name, for the actor who bears the
event's name (`Holds`); an actor has a bit for the day of each event held of it
and no other (`BitsRight`), and was first seen no later (`ActorsRight`); the counts are
what a recount of the chunks would give (`CountsRight`); what waits is not held
(`QueueRight`).

* A page keeps `Holds` because cutting the sorted rows of the last chunk and the new
  ones into chunks neither loses nor repeats a row (`Slices`, `Upserted`), whether
  the last chunk is topped up or a new one begun.
* Erasure looks only at the chunks of the days its actor has bits for. That these
  are all chunks with rows of it is `BitsRight` and `Holds` together, and needs that a
  day can be told from its bit (year and day of the year), for any calendar.
* An erased actor's name becomes NULL, and an event that comes later under the same
  name makes a new actor: names other than NULL are unique (`OneName`), which
  is why no row changes its owner.
* Retention drops chunks by day, bits by year and day, and events held by month:
  the three agree on what is before a month.

The reports are a function of that state, and their proof is about arithmetic:

* Two marks, one at each end of an interval, add one to the running sums inside it
  and nothing elsewhere (`MarksAdd`).
* After each offset, taken in ascending order, the loop of `spread` has covered the days of the
  windows so far and no other (`CoveredBy`): where two windows overlap a day counts
  once, and a window that would leave the array is cut off at its end. So an actor adds one to
  each day whose window holds an active day of it (`OneMore`), and the actors together
  add up to those who are active in the window (`ActiveIn`, `WindowsFacts`).
* The bits of each year within that year's window are the active days of the period,
  each at its distance from the start, also when the period starts before day 0
  (`YearBounds`, `WindowOfYear`, `ActiveOffsetsFacts`).
* The loops are recursive functions. That such a function exists and runs step by
  step is `LoopRuns`, from `Upwards`: a set of numbers that has the first and, with each, the
  next, has all up to a bound, since there is no least one it lacks.

### 4.5 The device's launches and identity

`DeviceProofs` proves `LaunchesAreToldOnce` (`LaunchesAreTold`) about `Launches` and
`EventsAreOfTheirActor` (`EventsCarryTheirActor`) about `Identity`, for any releases, threads,
users, traits and contexts. The invariant of the first joins file and history (the
store remembers the release that was told last, `RemembersTheLast`) and says that
lifecycle tracking cannot take a launch for a return (`LaunchIsNoReturn`), which is what
the first entry, told twice, would otherwise be. The second has the row as the
last effects left it (`RowIsTrue`): the actor of the last `identify` after the last
`reset`, each trait by the last change since. What an event says of a past
moment stays true because effects are only appended.

### 4.6 What is model-checked only

* All liveness, and everything that rests on fairness or `ENABLED`:
  `FlushReturns`, `EventuallyLeaves`, `ReleasedEnds`, the
  properties of `store_progress`, `RotationCatchesUp`, `SettingsArrive`, `PortIsFreed`,
  `ServesAgain`.
* `ContextsMerge`: what recursive definitions compute over trees, which needs
  induction over data. It is the only invariant of a run that no theorem states.

Where a definition could be stated without a recursive operator or a filter over
a sequence, it is: what is left of a list is what it has at some places
(`Matrix!Kept`), the first failed check of an event is a least number
(`Protocol!Reason`), the last effect of a kind a greatest place (`Identity!LastOf`,
`Launches!ReleaseAfter`). The loops of a report are recursive functions
(`Matrix!Spread`, `Matrix!Windows`), with sets of numbers in place of a schema of induction.

## 5. Findings

1. **A settled batch leaves its last event behind**
   (`rust/crates/clickman/src/batch.rs:79`). `last_seq` is the key of the newest
   event of the batch and the deletion is `seq < last_seq`. The doc comment says
   that a delivered or refused batch is deleted, and so does
   `docs/PROTOCOL.md`; the Kotlin and Swift clients use `<=`. Run
   `rust_removal`. Nothing is lost by it, as the proofs show of this very code:
   events are sent twice, and a forced flush repeats its last event.
2. **A slow request's events are lost** (`rust/crates/clickman-ingest/src/app.rs:51`).
   `received_at` is taken before the body is read and a connection is had;
   nothing bounds the time until the insert. A request that takes longer than
   `rotation_lag` commits behind the rotation's cursor, is acknowledged, and its
   events are never rotated. `docs/STORAGE.md` says that nothing is lost on the
   way. Run `store_late_insert`.
3. **Numbers with digits behind them are stored** (`rust/crates/clickman-protocol/src/sanitize.rs:102`,
   `:152`). `docs/PROTOCOL.md:107` has every text filtered that contains a card or phone
   number not glued to a letter or a digit. The scans take each group of digits that
   follows for a part of the number and try no shorter one, so that
   `4111 1111 1111 1111 123` and `+44 1111 1111 1111 123` are numbers too long or with a wrong
   check digit, and go through. Run `sanitizer_numbers`.

## 6. What is not modelled, and why

* What is inside an event (names, properties), past what merging, flattening
  and the scans of a text see of it.
* E-mail addresses in texts (a regular expression) and filtered keys (a
  substring test): data, best tested. Times at the end of the calendar, where
  `timestamp + skew` panics (`batch.rs:174`): see the hazards.
* Cohorts, event totals and funnels: a SQL query and walks over rows that no one
  changes meanwhile.
* The columns codec: a byte layout, covered by fixtures and round trips.
* How the Mixpanel destination splits a page into bodies: a delivery takes the
  page or fails after a part of it.
* HTTP, TLS, compression, SQL plans, views, generators, scripts, end-to-end
  workers: no state of their own. A compression failure is an early end of a
  send (`Cancel`).
* Disk corruption and a database restored from a backup.

## 7. Plan

Still to be modelled: the walk of a funnel, and how a Mixpanel page is cut into bodies,
each against a reference definition.
