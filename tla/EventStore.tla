----------------------------- MODULE EventStore -----------------------------
(***************************************************************************)
(* The server's event store.  Ingest requests stamp the time they arrive   *)
(* and insert their events a while later; rotation jobs copy raw events    *)
(* into the matrix behind a cursor and then prune what is old and passed;  *)
(* delivery jobs forward raw events to destinations, each behind a cursor  *)
(* of its own; an actor is erased at any time.  Every process may fail     *)
(* between two transactions, and several jobs of a kind may run at once.   *)
(***************************************************************************)
EXTENDS Integers, FiniteSets, Sequences, Functions

CONSTANTS
  Messages,      \* message ids, ordered as the database orders them
  Actors,
  ActorOf,       \* the actor of a message
  Requests,      \* ingest requests served at a time
  Jobs,          \* rotation jobs that may run at a time
  Deliverers,    \* delivery jobs that may run at a time
  Destinations,  \* the configured destinations, in their order
  Lag,           \* rotation_lag
  DedupWindow,   \* dedup_window
  RotationPage,  \* ROTATION_PAGE
  PruneBatch,    \* PRUNE_BATCH
  BatchSize,     \* a destination's batch_size
  MaxFlight,     \* a request commits within this time of its arrival, or never
  MaxResend,     \* a client sends an event again for this long
  MaxTime        \* bound: the last instant

\* The advisory lock is held by no job.
Free == "free"

ASSUME EventStoreAssumption ==
  /\ Messages \subseteq Nat /\ IsFiniteSet(Messages)
  /\ ActorOf \in [Messages -> Actors]
  /\ Destinations \in Seq(Range(Destinations))
  /\ "rotation" \notin Range(Destinations)
  /\ Free \notin Jobs
  /\ {Lag, DedupWindow, MaxFlight, MaxResend, MaxTime} \subseteq Nat
  /\ {RotationPage, PruneBatch, BatchSize} \subseteq Nat \ {0}

VARIABLES
  clock,        \* the servers' wall clock
  raw,          \* clickman_events: when each message was received, or Never
  cursors,      \* clickman_cursors: positions of rotation and the destinations
  lock,         \* who holds the advisory lock
  requests,     \* per request: its events and arrival, between Receive and the insert
  jobs,         \* per rotation job: where it is and its local variables
  deliverers,   \* per delivery job: likewise
  stored,       \* history: when a message was first received, or Never
  late,         \* history: the messages written again after dedup_window
  matrix,       \* how often the chunks hold a message
  forwarded     \* history: per destination, the messages it was sent

vars == <<clock, raw, cursors, lock, requests, jobs, deliverers, stored, late, matrix, forwarded>>

Never == -1
Time == 0 .. MaxTime
Instants == {Never} \union Time

Position == Instants \X (Messages \union {Never})
NoCursor == <<Never, Never>>
Names == {"rotation"} \union Range(Destinations)

\* (received_at, message_id) > (?, ?)
After(p, q) == p[1] > q[1] \/ (p[1] = q[1] /\ p[2] > q[2])

NoBatch == [batch |-> {}, received |-> Never]
IdleJob == [at |-> "idle", cutoff |-> Never, passed |-> NoCursor, page |-> {}]
IdleDelivery == [at |-> "idle", left |-> <<>>, cutoff |-> Never, page |-> {}]

Init ==
  /\ clock = 0
  /\ raw = [m \in Messages |-> Never]
  /\ cursors = [n \in Names |-> NoCursor]
  /\ lock = Free
  /\ requests = [r \in Requests |-> NoBatch]
  /\ jobs = [j \in Jobs |-> IdleJob]
  /\ deliverers = [p \in Deliverers |-> IdleDelivery]
  /\ stored = [m \in Messages |-> Never]
  /\ late = {}
  /\ matrix = [m \in Messages |-> 0]
  /\ forwarded = [d \in Range(Destinations) |-> {}]

-----------------------------------------------------------------------------
(* What the store is asked for.                                            *)

\* (received_at, message_id) of the raw events
Rows == {<<raw[m], m>> : m \in {n \in Messages : raw[n] # Never}}

\* The first `limit` rows between a cursor and a cutoff.
Pending(name, before, limit) ==
  LET rows == {p \in Rows : p[1] <= before /\ After(p, cursors[name])}
  IN {p \in rows : Cardinality({q \in rows : After(p, q)}) < limit}

LastOf(page) == CHOOSE p \in page : ~ \E q \in page : After(q, p)

Ids(page) == {p[2] : p \in page}

\* Mutant: ON CONFLICT (message_id) DO UPDATE.
InsertedOver(batch, received) ==
  [m \in Messages |-> IF m \in batch THEN received ELSE raw[m]]

\* ON CONFLICT (message_id) DO NOTHING
Inserted(batch, received) ==
  [m \in Messages |-> IF m \in batch /\ raw[m] = Never THEN received ELSE raw[m]]

\* Mutant: the lag is left out.
CutoffNow == clock

\* Rotation and delivery leave younger events to transactions in flight.
Cutoff == clock - Lag

-----------------------------------------------------------------------------
(* Ingest.                                                                 *)

\* A batch arrives: its receive time is taken before anything else, while it
\* is read, decoded, normalized and waits for a connection.
Receive(r, batch) ==
  /\ requests[r] = NoBatch
  /\ batch # {}
  /\ \A m \in batch : stored[m] # Never => clock - stored[m] <= MaxResend
  /\ requests' = [requests EXCEPT ![r] = [batch |-> batch, received |-> clock]]
  /\ UNCHANGED <<clock, raw, cursors, lock, jobs, deliverers, stored, late, matrix, forwarded>>

\* The insert, one statement.
Commit(r) ==
  LET batch == requests[r].batch  received == requests[r].received IN
  /\ batch # {}
  /\ raw' = Inserted(batch, received)
  /\ stored' = [m \in Messages |->
                  IF m \in batch /\ stored[m] = Never THEN received ELSE stored[m]]
  /\ late' = late \union
       {m \in batch : stored[m] # Never /\ clock - stored[m] > DedupWindow}
  /\ requests' = [requests EXCEPT ![r] = NoBatch]
  /\ UNCHANGED <<clock, cursors, lock, jobs, deliverers, matrix, forwarded>>

\* The request is refused, or the insert fails, or the server dies.
Drop(r) ==
  /\ requests[r] # NoBatch
  /\ requests' = [requests EXCEPT ![r] = NoBatch]
  /\ UNCHANGED <<clock, raw, cursors, lock, jobs, deliverers, stored, late, matrix, forwarded>>

-----------------------------------------------------------------------------
(* The rotation job: rotate!, then prune!.                                 *)

StartRotation(j) ==
  /\ jobs[j].at = "idle"
  /\ jobs' = [jobs EXCEPT ![j].at = "rotating", ![j].cutoff = Cutoff]
  /\ UNCHANGED <<clock, raw, cursors, lock, requests, deliverers, stored, late, matrix, forwarded>>

\* Mutant: the lock is not taken.
LockedByNone(j) == Free

LockedBy(j) == j

\* A page's transaction begins: it takes the lock and reads the page.
ReadRotation(j) ==
  /\ jobs[j].at = "rotating" /\ lock = Free
  /\ lock' = LockedBy(j)
  /\ jobs' = [jobs EXCEPT ![j].at = "writing",
                          ![j].page = Pending("rotation", jobs[j].cutoff, RotationPage)]
  /\ UNCHANGED <<clock, raw, cursors, requests, deliverers, stored, late, matrix, forwarded>>

\* Another session holds the lock: the rotation is over.
LockBusy(j) ==
  /\ jobs[j].at = "rotating" /\ lock # Free
  /\ jobs' = [jobs EXCEPT ![j].at = "pruning", ![j].cutoff = Never]
  /\ UNCHANGED <<clock, raw, cursors, lock, requests, deliverers, stored, late, matrix, forwarded>>

\* next 0 unless try_lock
TryLock(j) == IF lock = Free THEN ReadRotation(j) ELSE LockBusy(j)

\* The page's transaction commits: chunks, bits, counts and the cursor.
WriteRotation(j) ==
  LET page == jobs[j].page IN
  /\ jobs[j].at = "writing"
  /\ lock' = Free
  /\ matrix' = [m \in Messages |->
                  IF m \in Ids(page) THEN matrix[m] + 1 ELSE matrix[m]]
  /\ cursors' = IF page = {} THEN cursors
                ELSE [cursors EXCEPT !["rotation"] = LastOf(page)]
  /\ jobs' = [jobs EXCEPT ![j] =
       IF Cardinality(page) < RotationPage
       THEN [IdleJob EXCEPT !.at = "pruning"]
       ELSE [@ EXCEPT !.at = "rotating", !.page = {}]]
  /\ UNCHANGED <<clock, raw, requests, deliverers, stored, late, forwarded>>

\* Mutant: only the rotation's cursor holds a raw event.
SlowestOfRotation == cursors["rotation"]

\* The slowest cursor of rotation and the destinations; NoCursor as long as
\* one of them has none.
SlowestCursor ==
  CHOOSE p \in Range(cursors) : \A q \in Range(cursors) : ~ After(p, q)

\* prune! reads the cursors; with none it returns.
ReadCursors(j) ==
  /\ jobs[j].at = "pruning"
  /\ jobs' = [jobs EXCEPT ![j] =
       IF SlowestCursor = NoCursor THEN IdleJob
       ELSE [@ EXCEPT !.at = "deleting", !.cutoff = clock - DedupWindow,
                      !.passed = SlowestCursor]]
  /\ UNCHANGED <<clock, raw, cursors, lock, requests, deliverers, stored, late, matrix, forwarded>>

\* Mutant: the row the slowest cursor is at stays.
ExpiredBefore(j) ==
  Ids({p \in Rows : p[1] < jobs[j].cutoff /\ After(jobs[j].passed, p)})

\* The rows out of the window that every cursor read has passed.
Expired(j) ==
  Ids({p \in Rows : p[1] < jobs[j].cutoff /\ ~ After(p, jobs[j].passed)})

\* One batch of delete_raw, in no order; a full batch is followed by another.
DeleteRaw(j) ==
  /\ jobs[j].at = "deleting"
  /\ \E gone \in SUBSET Expired(j) :
       /\ \/ gone = Expired(j) /\ Cardinality(gone) <= PruneBatch
          \/ Cardinality(gone) = PruneBatch
       /\ raw' = [m \in Messages |-> IF m \in gone THEN Never ELSE raw[m]]
       /\ jobs' = IF Cardinality(gone) < PruneBatch
                  THEN [jobs EXCEPT ![j] = IdleJob] ELSE jobs
  /\ UNCHANGED <<clock, cursors, lock, requests, deliverers, stored, late, matrix, forwarded>>

\* Mutant: the lock is the session's, not the transaction's.
StillLocked(j) == lock

LockAfterFailure(j) == IF lock = j THEN Free ELSE lock

\* The job fails or dies; its open transaction is rolled back.
JobFails(j) ==
  /\ jobs[j].at # "idle"
  /\ jobs' = [jobs EXCEPT ![j] = IdleJob]
  /\ lock' = LockAfterFailure(j)
  /\ UNCHANGED <<clock, raw, cursors, requests, deliverers, stored, late, matrix, forwarded>>

-----------------------------------------------------------------------------
(* The delivery job: deliver!, one destination after the other.            *)

StartDelivery(p) ==
  /\ deliverers[p].at = "idle" /\ Destinations # <<>>
  /\ deliverers' = [deliverers EXCEPT ![p].at = "reading", ![p].cutoff = Cutoff,
                                      ![p].left = Destinations]
  /\ UNCHANGED <<clock, raw, cursors, lock, requests, jobs, stored, late, matrix, forwarded>>

Destination(p) == Head(deliverers[p].left)

\* Mutant: the first destination that is done ends the job.
DeliveryOver(p) == deliverers' = [deliverers EXCEPT ![p] = IdleDelivery]

\* A destination is done, or failed, and the next one follows.
NextDestination(p) ==
  deliverers' = [deliverers EXCEPT ![p] =
    IF Len(deliverers[p].left) = 1 THEN IdleDelivery
    ELSE [@ EXCEPT !.at = "reading", !.left = Tail(deliverers[p].left), !.page = {}]]

ReadDelivery(p) ==
  /\ deliverers[p].at = "reading"
  /\ LET page == Pending(Destination(p), deliverers[p].cutoff, BatchSize)
     IN IF page = {} THEN NextDestination(p)
        ELSE deliverers' = [deliverers EXCEPT ![p].at = "delivering", ![p].page = page]
  /\ UNCHANGED <<clock, raw, cursors, lock, requests, jobs, stored, late, matrix, forwarded>>

Deliver(p) ==
  /\ deliverers[p].at = "delivering"
  /\ forwarded' = [forwarded EXCEPT ![Destination(p)] = @ \union Ids(deliverers[p].page)]
  /\ deliverers' = [deliverers EXCEPT ![p].at = "advancing"]
  /\ UNCHANGED <<clock, raw, cursors, lock, requests, jobs, stored, late, matrix>>

\* The destination takes a part of the page, in bodies of its own, and then
\* fails: the cursor stays.
DeliverFails(p) ==
  /\ deliverers[p].at = "delivering"
  /\ \E taken \in SUBSET Ids(deliverers[p].page) :
       forwarded' = [forwarded EXCEPT ![Destination(p)] = @ \union taken]
  /\ NextDestination(p)
  /\ UNCHANGED <<clock, raw, cursors, lock, requests, jobs, stored, late, matrix>>

\* The cursor is set, whatever another delivery set it to meanwhile; a full
\* page is followed by another.
Advance(p) ==
  LET page == deliverers[p].page IN
  /\ deliverers[p].at = "advancing"
  /\ cursors' = [cursors EXCEPT ![Destination(p)] = LastOf(page)]
  /\ IF Cardinality(page) < BatchSize THEN NextDestination(p)
     ELSE deliverers' = [deliverers EXCEPT ![p].at = "reading", ![p].page = {}]
  /\ UNCHANGED <<clock, raw, lock, requests, jobs, stored, late, matrix, forwarded>>

\* The job dies, at worst between a delivery and the advance.
DeliveryDies(p) ==
  /\ deliverers[p].at # "idle"
  /\ deliverers' = [deliverers EXCEPT ![p] = IdleDelivery]
  /\ UNCHANGED <<clock, raw, cursors, lock, requests, jobs, stored, late, matrix, forwarded>>

-----------------------------------------------------------------------------
(* Erasure and time.                                                       *)

\* erase! waits for the lock; raw rows and chunk rows of the actor go.
Erase(actor) ==
  LET kept == {m \in Messages : ActorOf[m] # actor} IN
  /\ lock = Free
  /\ raw' = [m \in Messages |-> IF m \in kept THEN raw[m] ELSE Never]
  /\ matrix' = [m \in Messages |-> IF m \in kept THEN matrix[m] ELSE 0]
  /\ stored' = [m \in Messages |-> IF m \in kept THEN stored[m] ELSE Never]
  /\ late' = late \intersect kept
  /\ forwarded' = [d \in Range(Destinations) |-> forwarded[d] \intersect kept]
  /\ UNCHANGED <<clock, cursors, lock, requests, jobs, deliverers>>

Tick ==
  /\ clock < MaxTime
  /\ \A r \in Requests : requests[r] # NoBatch => clock - requests[r].received < MaxFlight
  /\ clock' = clock + 1
  /\ UNCHANGED <<raw, cursors, lock, requests, jobs, deliverers, stored, late, matrix, forwarded>>

Rotation(j) ==
  \/ StartRotation(j) \/ TryLock(j) \/ WriteRotation(j)
  \/ ReadCursors(j) \/ DeleteRaw(j)

Delivery(p) == StartDelivery(p) \/ ReadDelivery(p) \/ Deliver(p) \/ Advance(p)

Fails ==
  \/ \E j \in Jobs : JobFails(j)
  \/ \E p \in Deliverers : DeliverFails(p) \/ DeliveryDies(p)

Works ==
  \/ \E r \in Requests :
       \/ \E batch \in SUBSET Messages : Receive(r, batch)
       \/ Commit(r) \/ Drop(r)
  \/ \E j \in Jobs : Rotation(j)
  \/ \E p \in Deliverers : Delivery(p)
  \/ \E actor \in Actors : Erase(actor)
  \/ Tick

Next == Works \/ Fails

Spec == Init /\ [][Next]_vars

-----------------------------------------------------------------------------
(* Properties.                                                             *)

Cutoffs == {Never} \union (-(Lag + DedupWindow) .. MaxTime)

\* Type invariant of the store and the processes at it.
TypeOK ==
  /\ clock \in Time
  /\ raw \in [Messages -> Instants]
  /\ cursors \in [Names -> Position]
  /\ lock \in Jobs \union {Free}
  /\ requests \in [Requests -> [batch : SUBSET Messages, received : Instants]]
  /\ jobs \in [Jobs -> [at : {"idle", "rotating", "writing", "pruning", "deleting"},
                        cutoff : Cutoffs, passed : Position, page : SUBSET Position]]
  /\ deliverers \in [Deliverers ->
       [at : {"idle", "reading", "delivering", "advancing"},
        left : Seq(Range(Destinations)), cutoff : Cutoffs, page : SUBSET Position]]
  /\ stored \in [Messages -> Instants]
  /\ late \subseteq Messages
  /\ matrix \in [Messages -> Nat]
  /\ forwarded \in [Range(Destinations) -> SUBSET Messages]

\* An event of an accepted batch is ahead of a cursor, so that it will be
\* read there.
Ahead(m, name) == raw[m] # Never /\ After(<<raw[m], m>>, cursors[name])

\* "Nothing is lost on the way" (STORAGE.md): an event the server accepted is
\* in the chunks, or a raw row ahead of the rotation's cursor, however slow
\* its request was and whenever it was pruned.
NothingLost ==
  \A m \in Messages : stored[m] # Never => matrix[m] > 0 \/ Ahead(m, "rotation")

\* A destination that keeps failing keeps its raw events (STORAGE.md,
\* Retention): every accepted event was forwarded to each destination or is a
\* raw row ahead of its cursor, although deliveries run at once and set the
\* cursor over one another.
NothingSkipped ==
  \A m \in Messages, d \in Range(Destinations) :
    stored[m] # Never => m \in forwarded[d] \/ Ahead(m, d)

\* An event is in the chunks at most once: a batch that is sent again, also
\* after its rows were rotated, two rotations at once, or a rotation that dies
\* between its pages do not count it twice.  Duplicates are told for as long as
\* dedup_window (PROTOCOL.md, Delivery): an event that was written again after
\* that may be counted again.
CountedOnce == \A m \in Messages \ late : matrix[m] <= 1

Accepted == {m \in Messages : stored[m] # Never}

Rotated == {m \in Messages : matrix[m] > 0}

AheadOf(name) == {m \in Messages : Ahead(m, name)}

\* What deliveries have read and may send.
OnPages == UNION {Ids(deliverers[p].page) : p \in Deliverers}

Promise == INSTANCE StorePromise
  WITH Events <- Messages, Owners <- Actors, OwnerOf <- ActorOf,
       Destinations <- Range(Destinations),
       accepted <- Accepted, uncounted <- AheadOf("rotation"), counted <- Rotated,
       waiting <- [d \in Range(Destinations) |-> AheadOf(d)],
       sent <- forwarded, out <- OnPages

\* The store implements StorePromise: an event is counted in the very step in
\* which it stops waiting to be, is never uncounted but by erasure, and stops
\* waiting for a destination only once it was sent there.
KeepsPromise == Promise!Spec

=============================================================================
