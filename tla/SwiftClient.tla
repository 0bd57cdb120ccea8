---------------------------- MODULE SwiftClient ----------------------------
(***************************************************************************)
(* The Swift client.  Threads of the host track events straight into the   *)
(* database; the actor Sender runs drains one after the other, each waiting*)
(* for the one asked for before it.  A drain checks, purges and reads the  *)
(* queue in transactions of their own, between which events are tracked.   *)
(* A ClickMan object that is released lets its drains end, so a second one *)
(* over the same file may send beside it.                                  *)
(***************************************************************************)
EXTENDS DeviceQueue, SequencesExt

CONSTANTS
  Objects,       \* the ClickMan objects over one queue file
  MaxPerCall,    \* bound: a call records at most this many events
  MaxEvents,     \* bound: events tracked in a behaviour
  MaxDrains,     \* bound: drains an object has waiting
  MaxFailures,   \* bound: failures past this count are not told apart
  Advices,       \* bound: the Retry-After seconds, 0 for none
  ClockJumps,    \* bound: whether the wall clock may be set
  StorageFails   \* bound: whether transactions may fail

ASSUME SwiftAssumption ==
  /\ {MaxPerCall, MaxEvents, MaxDrains} \subseteq Nat
  /\ MaxFailures \in Nat \ {0}
  /\ FirstDelay * 2^(MaxFailures - 1) >= LongestDelay
  /\ Advices \subseteq Nat /\ 0 \in Advices
  /\ {ClockJumps, StorageFails} \subseteq BOOLEAN

VARIABLES
  queue,      \* the events table
  lastSeq,    \* its AUTOINCREMENT counter
  clock,      \* the device's wall clock
  objects,    \* per object: its life, its drains and its Sender's state
  answered,   \* history: the events the server accepted or refused
  expired     \* history: the events purged for their age

vars == <<queue, lastSeq, clock, objects, answered, expired>>

Steps == {"idle", "next", "checking", "purging", "reading", "posting", "settling"}

Open == [failures |-> 0, nextAttemptAt |-> 0]   \* Pace.open

\* life: unborn, live, or released; drains: the drains asked for, the running
\* one first; at, now, batch: where that one is and its local variables.
Unborn == [life |-> "unborn", drains |-> <<>>, pace |-> Open,
           at |-> "idle", now |-> 0, batch |-> {}]

Init ==
  /\ queue = {} /\ lastSeq = 0
  /\ clock = 0
  /\ objects = [o \in Objects |-> Unborn]
  /\ answered = {} /\ expired = {}

Goto(o, step) == objects' = [objects EXCEPT ![o].at = step]

\* Mutant: a drain that ended still holds up those after it.
FinishForgotten(o) ==
  objects' = [objects EXCEPT ![o].at = "idle", ![o].batch = {}, ![o].now = 0]

\* The drain ends; the next one asked for goes on.
Finish(o) ==
  objects' = [objects EXCEPT ![o].at = "idle", ![o].batch = {}, ![o].now = 0,
                             ![o].drains = Tail(objects[o].drains)]

-----------------------------------------------------------------------------
(* The host.                                                               *)

Create(o) ==
  /\ objects[o].life = "unborn"
  /\ objects' = [objects EXCEPT ![o].life = "live"]
  /\ UNCHANGED <<queue, lastSeq, clock, answered, expired>>

\* The last reference goes: deinit cancels the poller, the drains run on.
Release(o) ==
  /\ objects[o].life = "live"
  /\ objects' = [objects EXCEPT ![o].life = "released"]
  /\ UNCHANGED <<queue, lastSeq, clock, answered, expired>>

\* track and recordLaunch: one transaction reads the clock, inserts the call's
\* events and trims the queue after each.
Track(o, n, size) ==
  /\ objects[o].life = "live"
  /\ lastSeq + n <= MaxEvents
  /\ queue' = Trimmed(queue \union NewRows(lastSeq, n, clock, size))
  /\ lastSeq' = lastSeq + n
  /\ UNCHANGED <<clock, objects, answered, expired>>

\* The poller asks for a drain, once its last one ended and it slept.
Poll(o) ==
  /\ objects[o].life = "live"
  /\ ~ Contains(objects[o].drains, "due")
  /\ objects' = [objects EXCEPT ![o].drains = Append(@, "due")]
  /\ UNCHANGED <<queue, lastSeq, clock, answered, expired>>

\* flush, entering the background, or the network's return.
Flush(o) ==
  /\ objects[o].life = "live"
  /\ Len(objects[o].drains) < MaxDrains
  /\ objects' = [objects EXCEPT ![o].drains = Append(@, "everything")]
  /\ UNCHANGED <<queue, lastSeq, clock, answered, expired>>

-----------------------------------------------------------------------------
(* The drain.                                                              *)

MayAttempt(o, now) ==
  objects[o].pace.failures > 0 => now >= objects[o].pace.nextAttemptAt

\* A drain's turn comes, or it goes on after a batch that left.
Start(o) ==
  /\ objects[o].at \in {"idle", "next"} /\ objects[o].drains # <<>>
  /\ \/ /\ MayAttempt(o, clock)
        /\ objects' = [objects EXCEPT ![o].at = "checking", ![o].now = clock]
     \/ ~ MayAttempt(o, clock) /\ Finish(o)
  /\ UNCHANGED <<queue, lastSeq, clock, answered, expired>>

Urgency(o) == IF Head(objects[o].drains) = "due" THEN "Due" ELSE "Forced"

\* Whether anything is due is read before the purge.
Check(o) ==
  LET due == IsDue(queue, objects[o].now, Urgency(o))
  IN /\ objects[o].at = "checking"
     /\ IF due THEN Goto(o, "purging") ELSE Finish(o)
     /\ UNCHANGED <<queue, lastSeq, clock, answered, expired>>

Purge(o) ==
  LET fresh == Fresh(queue, objects[o].now)
  IN /\ objects[o].at = "purging"
     /\ queue' = fresh
     /\ expired' = expired \union Seqs(queue \ fresh)
     /\ objects' = [objects EXCEPT ![o].at = "reading", ![o].now = 0]
     /\ UNCHANGED <<lastSeq, clock, answered>>

Read(o) ==
  /\ objects[o].at = "reading"
  /\ \/ /\ Batch(queue) # {}
        /\ objects' = [objects EXCEPT ![o].at = "posting", ![o].batch = Batch(queue)]
     \/ Batch(queue) = {} /\ Finish(o)
  /\ UNCHANGED <<queue, lastSeq, clock, answered, expired>>

\* A definitive answer arrives.
Answered(o, status) ==
  /\ objects[o].at = "posting"
  /\ Outcome(status) \in {"Delivered", "Refused"}
  /\ Goto(o, "settling")
  /\ answered' = IF status \in Definitive
                 THEN answered \union Seqs(objects[o].batch) ELSE answered
  /\ UNCHANGED <<queue, lastSeq, clock, expired>>

\* Any other answer, or none (though the server may have taken the batch):
\* the drain ends and the next attempt waits.
Retry(o, status, advice) ==
  LET failures == IF objects[o].pace.failures < MaxFailures
                  THEN objects[o].pace.failures + 1 ELSE MaxFailures IN
  /\ objects[o].at = "posting"
  /\ Outcome(status) = "Retry"
  /\ \E delay \in Delays(failures, advice) :
       objects' = [objects EXCEPT
         ![o].pace = [failures |-> failures, nextAttemptAt |-> clock + delay],
         ![o].at = "idle", ![o].batch = {},
         ![o].drains = Tail(objects[o].drains)]
  /\ \/ answered' = answered
     \/ status = NoResponse /\ answered' = answered \union Seqs(objects[o].batch)
  /\ UNCHANGED <<queue, lastSeq, clock, expired>>

\* DELETE ... WHERE seq <= lastSeq
DeletedThrough(rows, batch) == {r \in rows : ~ \E s \in batch : r.seq <= s.seq}

\* The batch leaves the queue and the drain goes on with the next one.
Settle(o) ==
  /\ objects[o].at = "settling"
  /\ queue' = DeletedThrough(queue, objects[o].batch)
  /\ objects' = [objects EXCEPT ![o].pace = Open, ![o].at = "next",
                                ![o].batch = {}]
  /\ UNCHANGED <<lastSeq, clock, answered, expired>>

\* A transaction throws: the drain is over, its events stay.
Throws(o) ==
  /\ StorageFails
  /\ objects[o].at \in {"checking", "purging", "reading", "settling"}
  /\ Finish(o)
  /\ UNCHANGED <<queue, lastSeq, clock, answered, expired>>

-----------------------------------------------------------------------------
(* The environment.                                                        *)

\* The process is killed; what its senders had posted may have been answered.
Crash ==
  /\ objects' = [o \in Objects |-> Unborn]
  /\ \E heard \in SUBSET {o \in Objects : objects[o].at = "posting"} :
       answered' = answered \union UNION {Seqs(objects[o].batch) : o \in heard}
  /\ UNCHANGED <<queue, lastSeq, clock, expired>>

Earlier(time) == IF time > 0 THEN time - 1 ELSE 0

EarlierRows(rows) == {[r EXCEPT !.at = Earlier(r.at)] : r \in rows}

\* Time passes.  Bound: past MaxTime the origin of time moves instead, except
\* between a drain's reading of the clock and its use, and what is older than
\* the window counts as that old.
Tick ==
  /\ IF clock < MaxTime
     THEN /\ clock' = clock + 1
          /\ UNCHANGED <<queue, objects>>
     ELSE /\ \A o \in Objects : objects[o].at \notin {"checking", "purging"}
          /\ clock' = clock
          /\ queue' = EarlierRows(queue)
          /\ objects' = [o \in Objects |->
               [objects[o] EXCEPT !.batch = EarlierRows(@),
                                  !.pace.nextAttemptAt = Earlier(@)]]
  /\ UNCHANGED <<lastSeq, answered, expired>>

SetClock ==
  /\ ClockJumps
  /\ clock' \in Times
  /\ UNCHANGED <<queue, lastSeq, objects, answered, expired>>

Hear(o) == \E status \in Statuses : Answered(o, status)

Post(o) ==
  \/ Hear(o)
  \/ \E status \in Statuses \union {NoResponse}, advice \in Advices : Retry(o, status, advice)

Work(o) == Start(o) \/ Check(o) \/ Purge(o) \/ Read(o) \/ Settle(o)

Next ==
  \/ \E o \in Objects :
       \/ Create(o) \/ Release(o) \/ Poll(o) \/ Flush(o)
       \/ \E n \in 1 .. MaxPerCall, size \in Sizes : Track(o, n, size)
       \/ Work(o) \/ Post(o) \/ Throws(o)
  \/ Crash \/ Tick \/ SetClock

(***************************************************************************)
(* The runtime runs every task that can go on, the poller wakes, time      *)
(* passes, a request is answered or times out, and a server that is asked  *)
(* again and again answers definitively in the end.                        *)
(***************************************************************************)
Fairness ==
  /\ SF_vars(Tick)
  /\ \A o \in Objects :
       /\ WF_vars(Work(o)) /\ WF_vars(Post(o)) /\ SF_vars(Hear(o)) /\ WF_vars(Poll(o))

Spec == Init /\ [][Next]_vars

FairSpec == Spec /\ Fairness

-----------------------------------------------------------------------------
(* Properties.                                                             *)

\* Type invariant of the queue and the objects over it.
TypeOK ==
  /\ queue \subseteq Row
  /\ lastSeq \in Nat
  /\ clock \in Times
  /\ objects \in [Objects ->
       [life : {"unborn", "live", "released"}, drains : Seq({"due", "everything"}),
        pace : [failures : 0 .. MaxFailures, nextAttemptAt : Nat],
        at : Steps, now : Times, batch : SUBSET Row]]
  /\ answered \subseteq Nat /\ expired \subseteq Nat

InFlight(o) == objects[o].at \in {"posting", "settling"}

\* A batch in flight holds every row up to its newest, whatever is tracked,
\* trimmed or purged meanwhile, and whatever another object over the same
\* file sends and deletes: the deletion through lastSeq hits nothing unsent.
BatchIsHeadOfQueue ==
  \A o \in Objects : InFlight(o) =>
    \A r \in queue, s \in objects[o].batch : r.seq <= s.seq => r \in objects[o].batch

\* The objects together implement the promise of a ClickMan client.
Promise == INSTANCE ClientPromise WITH
             tracked <- lastSeq, waiting <- Seqs(queue)

KeepsPromise == Promise!Spec

FlushEnds(o) ==
  /\ objects'[o].life # "unborn"
  /\ Len(objects'[o].drains) < Len(objects[o].drains)
  /\ Head(objects[o].drains) = "everything"

\* flush returns "once the queue is empty or a send has failed and waits for
\* its retry" (ClickMan.flush), for storage that does not fail.
FlushPostcondition ==
  [][\A o \in Objects :
       FlushEnds(o) => queue' = {} \/ objects'[o].pace.failures > 0]_vars

\* A released object sends on until the drains asked of it have ended, and
\* holds the queue no longer than that (ClickMan.deinit, Sender.drain).
ReleasedEnds ==
  \A o \in Objects : objects[o].life = "released" ~> objects[o].drains = <<>>

\* Every event leaves the device in the end while an object over it lives:
\* the poller sends it although no one flushes, and the backoff ends.
EventuallyLeaves ==
  \A s \in 1 .. MaxEvents :
    s \in Seqs(queue) ~>
      s \notin Seqs(queue) \/ \A o \in Objects : objects[o].life # "live"

=============================================================================
