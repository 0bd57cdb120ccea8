--------------------------- MODULE KotlinClient ----------------------------
(***************************************************************************)
(* The Kotlin client: threads of the host track events into a queue behind *)
(* a lock, and one worker thread runs the sends, one task after another:   *)
(* the poll and the flushes callers asked for.  close() lets the worker    *)
(* finish for a while, then closes the queue under it; a later instance or *)
(* process opens the same file again.                                      *)
(***************************************************************************)
EXTENDS DeviceQueue, SequencesExt

CONSTANTS
  Trackers,      \* the host's threads that track
  Flushers,      \* the host's threads that flush
  MaxPerCall,    \* bound: a call records at most this many events
  MaxEvents,     \* bound: events tracked in a behaviour
  MaxRestarts,   \* bound: how often the client is opened again
  MaxFailures,   \* bound: failures past this count are not told apart
  Advices,       \* bound: the Retry-After seconds, 0 for none
  ClockJumps,    \* bound: whether the wall clock may be set
  StorageFails   \* bound: whether transactions may fail

ASSUME KotlinAssumption ==
  /\ {MaxPerCall, MaxEvents, MaxRestarts} \subseteq Nat
  /\ MaxFailures \in Nat \ {0}
  /\ FirstDelay * 2^(MaxFailures - 1) >= LongestDelay
  /\ Advices \subseteq Nat /\ 0 \in Advices
  /\ {ClockJumps, StorageFails} \subseteq BOOLEAN
  /\ "poll" \notin Flushers

VARIABLES
  queue,      \* the events table
  lastSeq,    \* its AUTOINCREMENT counter
  clock,      \* the device's wall clock
  trackers,   \* per tracker: the clock reading of its call, or Idle
  life,       \* open, closing (worker shut down) or closed (queue closed)
  tasks,      \* the executor's tasks, the running one first
  worker,     \* where the running task is, and its local variables
  failures,   \* Delivery.failures; count 0 stands for None
  restarts,   \* how often the client was opened again
  answered,   \* history: the events the server accepted or refused
  expired,    \* history: the events purged for their age
  settled     \* history: the events whose batch was answered and removed

store == <<queue, lastSeq, expired>>
history == <<answered, settled>>
vars == <<queue, lastSeq, clock, trackers, life, tasks, worker, failures,
          restarts, answered, expired, settled>>

Idle == -1

None == [count |-> 0, nextAttemptAt |-> 0]

Resting == [at |-> "idle", now |-> 0, batch |-> {}]

Steps == {"idle", "next", "taking", "posting", "settling"}

Init ==
  /\ queue = {} /\ lastSeq = 0
  /\ clock = 0
  /\ trackers = [t \in Trackers |-> Idle]
  /\ life = "open"
  /\ tasks = <<>>
  /\ worker = Resting
  /\ failures = None
  /\ restarts = 0
  /\ answered = {} /\ expired = {} /\ settled = {}

-----------------------------------------------------------------------------
(* Tracking, on any thread.                                                *)

\* The call reads the clock before it waits for the queue's lock.
Stamp(t) ==
  /\ trackers[t] = Idle
  /\ trackers' = [trackers EXCEPT ![t] = clock]
  /\ UNCHANGED <<store, clock, life, tasks, worker, failures, restarts, history>>

\* One transaction inserts the call's events, trimming after each.
Track(t, n, size) ==
  /\ trackers[t] # Idle
  /\ life # "closed"
  /\ lastSeq + n <= MaxEvents
  /\ queue' = Trimmed(queue \union NewRows(lastSeq, n, trackers[t], size))
  /\ lastSeq' = lastSeq + n
  /\ trackers' = [trackers EXCEPT ![t] = Idle]
  /\ UNCHANGED <<clock, life, tasks, worker, failures, restarts, expired, history>>

\* The queue is closed, or the transaction fails: nothing is recorded.
TrackFails(t) ==
  /\ trackers[t] # Idle
  /\ trackers' = [trackers EXCEPT ![t] = Idle]
  /\ UNCHANGED <<store, clock, life, tasks, worker, failures, restarts, history>>

-----------------------------------------------------------------------------
(* Asking for a send.                                                      *)

\* flush and flushInBackground: refused once the worker is shut down.
Flush(f) ==
  /\ life = "open"
  /\ ~ Contains(tasks, f)
  /\ tasks' = Append(tasks, f)
  /\ UNCHANGED <<store, clock, trackers, life, worker, failures, restarts, history>>

\* The poll comes due, a while after the last one finished.
Poll ==
  /\ life = "open"
  /\ ~ Contains(tasks, "poll")
  /\ tasks' = Append(tasks, "poll")
  /\ UNCHANGED <<store, clock, trackers, life, worker, failures, restarts, history>>

-----------------------------------------------------------------------------
(* The worker.                                                             *)

\* The task ends; the executor goes to the next one.
Finish ==
  /\ worker' = Resting
  /\ tasks' = Tail(tasks)

Urgency == IF Head(tasks) = "poll" THEN "Due" ELSE "Forced"

BackingOff(now) == failures.count > 0 /\ now < failures.nextAttemptAt

\* A task starts, or goes on after a batch that left: nothing is sent while a
\* retry waits.
Start ==
  /\ worker.at \in {"idle", "next"} /\ tasks # <<>>
  /\ \/ BackingOff(clock) /\ Finish
     \/ /\ ~ BackingOff(clock)
        /\ worker' = [Resting EXCEPT !.at = "taking", !.now = clock]
        /\ tasks' = tasks
  /\ UNCHANGED <<store, clock, trackers, life, failures, restarts, history>>

\* One transaction purges the expired events and reads the oldest others.
Take ==
  LET fresh == Fresh(queue, worker.now)
      due   == IsDue(fresh, worker.now, Urgency) /\ Batch(fresh) # {}
  IN /\ worker.at = "taking" /\ life # "closed"
     /\ queue' = fresh
     /\ expired' = expired \union Seqs(queue \ fresh)
     /\ \/ /\ due
           /\ worker' = [worker EXCEPT !.at = "posting", !.batch = Batch(fresh)]
           /\ tasks' = tasks
        \/ ~due /\ Finish
     /\ UNCHANGED <<lastSeq, clock, trackers, life, failures, restarts, history>>

\* A definitive answer arrives.
Answered(status) ==
  /\ worker.at = "posting"
  /\ Outcome(status) \in {"Delivered", "Refused"}
  /\ worker' = [worker EXCEPT !.at = "settling"]
  /\ answered' = IF status \in Definitive
                 THEN answered \union Seqs(worker.batch) ELSE answered
  /\ UNCHANGED <<store, clock, trackers, life, tasks, failures, restarts, settled>>

\* Any other answer, or none (though the server may have taken the batch):
\* the next attempt waits.
Retry(status, advice) ==
  LET count == IF failures.count < MaxFailures THEN failures.count + 1
                                               ELSE MaxFailures IN
  /\ worker.at = "posting"
  /\ Outcome(status) = "Retry"
  /\ \E delay \in Delays(count, advice) :
       failures' = [count |-> count, nextAttemptAt |-> clock + delay]
  /\ Finish
  /\ \/ answered' = answered
     \/ status = NoResponse /\ answered' = answered \union Seqs(worker.batch)
  /\ UNCHANGED <<store, clock, trackers, life, restarts, settled>>

\* Mutant: the deletion stops short of the batch's last event.
DeletedBefore(rows, batch) == {r \in rows : ~ \E s \in batch : r.seq < s.seq}

\* DELETE ... WHERE seq <= the seq of the batch's last event.
DeletedThrough(rows, batch) == {r \in rows : ~ \E s \in batch : r.seq <= s.seq}

\* The batch leaves the queue and the task goes on with the next one.
Settle ==
  /\ worker.at = "settling" /\ life # "closed"
  /\ queue' = DeletedThrough(queue, worker.batch)
  /\ settled' = settled \union Seqs(worker.batch)
  /\ failures' = None
  /\ worker' = [Resting EXCEPT !.at = "next"]
  /\ UNCHANGED <<lastSeq, clock, trackers, life, tasks, restarts, answered, expired>>

\* Mutant: a failed transaction leaves the task running.
ThrowsUncaught ==
  /\ worker.at \in {"taking", "settling"}
  /\ life = "closed" \/ StorageFails
  /\ UNCHANGED <<store, clock, trackers, life, failures, restarts, history, worker, tasks>>

\* The transaction throws, the queue being closed or failing: the task ends
\* with its events still queued, and the worker goes on.
Throws ==
  /\ worker.at \in {"taking", "settling"}
  /\ life = "closed" \/ StorageFails
  /\ Finish
  /\ UNCHANGED <<store, clock, trackers, life, failures, restarts, history>>

-----------------------------------------------------------------------------
(* Closing, opening again, and the environment.                            *)

\* close() shuts the worker down: its tasks still run, the poll no more.
Shutdown ==
  /\ life = "open"
  /\ life' = "closing"
  /\ tasks' = IF worker.at # "idle" /\ Head(tasks) = "poll"
              THEN tasks ELSE RemoveFirst(tasks, "poll")
  /\ UNCHANGED <<store, clock, trackers, worker, failures, restarts, history>>

\* close() has waited for the worker, or given up waiting.
CloseQueue ==
  /\ life = "closing"
  /\ life' = "closed"
  /\ UNCHANGED <<store, clock, trackers, tasks, worker, failures, restarts, history>>

\* The file is opened again, by a new client after close() or by a new process
\* after the old one was killed; what was in flight may have been answered.
Reopen ==
  /\ restarts < MaxRestarts
  /\ restarts' = restarts + 1
  /\ life' = "open"
  /\ trackers' = [t \in Trackers |-> Idle]
  /\ tasks' = <<>> /\ worker' = Resting /\ failures' = None
  /\ \/ answered' = answered
     \/ worker.at = "posting" /\ answered' = answered \union Seqs(worker.batch)
  /\ UNCHANGED <<store, clock, settled>>

Earlier(time) == IF time > 0 THEN time - 1 ELSE 0

\* Time passes.  Bound: past MaxTime the origin of time moves instead, except
\* between the worker's reading of the clock and its use, and what is older
\* than the window counts as that old.
Tick ==
  /\ IF clock < MaxTime
     THEN /\ clock' = clock + 1
          /\ UNCHANGED <<queue, trackers, worker, failures>>
     ELSE /\ worker.at # "taking"
          /\ clock' = clock
          /\ queue' = {[r EXCEPT !.at = Earlier(r.at)] : r \in queue}
          /\ trackers' = [t \in Trackers |-> IF trackers[t] = Idle THEN Idle
                                             ELSE Earlier(trackers[t])]
          /\ worker' = [worker EXCEPT !.batch =
                          {[r EXCEPT !.at = Earlier(r.at)] : r \in worker.batch}]
          /\ failures' = [failures EXCEPT !.nextAttemptAt =
                             Earlier(failures.nextAttemptAt)]
  /\ UNCHANGED <<lastSeq, life, tasks, restarts, expired, history>>

\* The user or the network sets the wall clock.
SetClock ==
  /\ ClockJumps
  /\ clock' \in Times
  /\ UNCHANGED <<store, trackers, life, tasks, worker, failures, restarts, history>>

Post ==
  \/ \E status \in Statuses : Answered(status)
  \/ \E status \in Statuses \union {NoResponse}, advice \in Advices : Retry(status, advice)

Next ==
  \/ \E t \in Trackers :
       \/ Stamp(t) \/ TrackFails(t)
       \/ \E n \in 1 .. MaxPerCall, size \in Sizes : Track(t, n, size)
  \/ \E f \in Flushers : Flush(f)
  \/ Poll \/ Start \/ Take \/ Post \/ Settle \/ Throws
  \/ Shutdown \/ CloseQueue \/ Reopen \/ Tick \/ SetClock

(***************************************************************************)
(* The worker thread runs whenever it can, time passes, polls come due, a  *)
(* request is answered or times out, close() gives up waiting, and a       *)
(* server that is asked again and again answers definitively in the end.   *)
(* Nothing obliges the host to track, flush, close or open.                *)
(***************************************************************************)
Fairness ==
  /\ WF_vars(Start) /\ WF_vars(Take) /\ WF_vars(Settle) /\ WF_vars(Throws /\ life = "closed")
  /\ WF_vars(Post) /\ SF_vars(\E status \in Statuses : Answered(status))
  /\ WF_vars(Poll) /\ SF_vars(Tick) /\ WF_vars(CloseQueue)

Spec == Init /\ [][Next]_vars

FairSpec == Spec /\ Fairness

-----------------------------------------------------------------------------
(* Properties.                                                             *)

\* Type invariant of the client's state.
TypeOK ==
  /\ queue \subseteq Row
  /\ lastSeq \in Nat
  /\ clock \in Times
  /\ trackers \in [Trackers -> Times \union {Idle}]
  /\ life \in {"open", "closing", "closed"}
  /\ tasks \in Seq(Flushers \union {"poll"})
  /\ worker \in [at : Steps, now : Times, batch : SUBSET Row]
  /\ failures \in [count : Nat, nextAttemptAt : Nat]
  /\ restarts \in Nat
  /\ answered \subseteq Nat /\ expired \subseteq Nat /\ settled \subseteq Nat

\* An event whose batch was settled is gone for good: it never waits again and
\* is in no later batch, whatever close and reopen do (deleteThrough; the key
\* is AUTOINCREMENT).
SettledOnce ==
  settled \intersect (Seqs(queue) \union
    (IF worker.at \in {"posting", "settling"} THEN Seqs(worker.batch) ELSE {})) = {}

\* A batch in flight holds every row up to its newest, whatever the other
\* threads insert and trim meanwhile.
BatchIsHeadOfQueue ==
  worker.at \in {"posting", "settling"} =>
    \A r \in queue, s \in worker.batch : r.seq <= s.seq => r \in worker.batch

\* A flush returns "once the queue is empty or a send failed and waits for its
\* retry" (ClickMan.flush), unless the client is closed or killed under it;
\* for storage that does not fail.
FlushPostcondition ==
  [][\A f \in Flushers :
       Contains(tasks, f) /\ ~ Contains(tasks', f) /\ restarts' = restarts
         => \/ queue' = {}
            \/ failures'.count > 0
            \/ life = "closed"]_vars

\* The client implements the promise a ClickMan client makes of its events.
Promise == INSTANCE ClientPromise WITH
             tracked <- lastSeq, waiting <- Seqs(queue)

KeepsPromise == Promise!Spec

\* Every flush returns, also one waiting behind others when the client closes.
FlushReturns ==
  \A f \in Flushers : Contains(tasks, f) ~> ~ Contains(tasks, f)

\* Every event leaves the device in the end unless the client is closed: the
\* poll sends it although no one flushes, and the backoff always ends.
EventuallyLeaves ==
  \A s \in 1 .. MaxEvents :
    s \in Seqs(queue) ~> s \notin Seqs(queue) \/ life # "open"

=============================================================================
