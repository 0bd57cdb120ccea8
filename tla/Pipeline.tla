------------------------------- MODULE Pipeline -------------------------------
(***************************************************************************)
(* A device and the event store, with an unreliable network between them.  *)
(* The device is any client that keeps ClientPromise; the store is         *)
(* EventStore, which other devices use as well.  The device sends an event *)
(* as long as it is not older than MaxAge, whatever it heard of it; what   *)
(* is posted is lost, arrives late, or more than once; an answer may be    *)
(* lost too.                                                               *)
(***************************************************************************)
EXTENDS EventStore

CONSTANTS
  IdOf,         \* the message ids of the device's events, in the order they are tracked
  MaxQueue,     \* the client's max_queue
  MaxAge,       \* the client's max_age
  MaxTransit    \* what is posted arrives within this time of the age's check, or never

Events == DOMAIN IdOf

ASSUME PipelineAssumption ==
  /\ IdOf \in Seq(Messages)
  /\ \A e, f \in Events : IdOf[e] = IdOf[f] => e = f
  /\ {MaxQueue, MaxAge, MaxTransit} \subseteq Nat

VARIABLES
  tracked, waiting, answered, expired,   \* the client, as in ClientPromise
  created,      \* when an event was tracked
  posts,        \* the batches on their way to the server
  trimmed,      \* history: the events given up for newer ones
  refused,      \* history: the events the server refused, alone or with their batch
  erased        \* history: the events whose actor was erased after they were tracked

storeVars == vars
deviceVars == <<tracked, waiting, expired, created, trimmed>>
pipelineVars == <<storeVars, deviceVars, answered, posts, refused, erased>>

Client == INSTANCE ClientPromise

IdsOf(events) == {IdOf[e] : e \in events}
EventsIn(batch) == {e \in Events : IdOf[e] \in batch}

PipelineInit ==
  /\ Init /\ Client!Init
  /\ created = [e \in Events |-> Never]
  /\ posts = {} /\ trimmed = {} /\ refused = {} /\ erased = {}

-----------------------------------------------------------------------------
(* The device.                                                             *)

Track ==
  LET event == tracked + 1
      kept == Client!Newest(waiting \union {event})
  IN /\ event \in Events
     /\ tracked' = event
     /\ created' = [created EXCEPT ![event] = clock]
     /\ waiting' = kept
     /\ trimmed' = trimmed \union ((waiting \union {event}) \ kept)
     /\ UNCHANGED <<storeVars, expired, answered, posts, refused, erased>>

\* created_at < now - max_age
TooOld(event) == clock - created[event] > MaxAge

Expire ==
  LET old == {e \in waiting : TooOld(e)} IN
  /\ old # {}
  /\ waiting' = waiting \ old
  /\ expired' = expired \union old
  /\ UNCHANGED <<storeVars, tracked, created, trimmed, answered, posts, refused, erased>>

\* A batch of what waits is taken and sent, maybe again.
Post(events) ==
  /\ events # {} /\ events \subseteq waiting /\ \A e \in events : ~TooOld(e)
  /\ posts' = posts \union {[events |-> events, at |-> clock]}
  /\ UNCHANGED <<storeVars, deviceVars, answered, refused, erased>>

\* The device hears an answer, and the events leave its queue.
Leave(events) ==
  /\ events # {} /\ events \subseteq waiting \intersect answered
  /\ waiting' = waiting \ events
  /\ UNCHANGED <<storeVars, tracked, expired, created, trimmed, answered, posts, refused, erased>>

-----------------------------------------------------------------------------
(* The network and the server.                                             *)

\* A post arrives, now or once more later; the events that are valid are to
\* be inserted.
Arrive(post, r, valid) ==
  /\ requests[r] = NoBatch
  /\ valid # {} /\ valid \subseteq post.events
  /\ requests' = [requests EXCEPT ![r] = [batch |-> IdsOf(valid), received |-> clock]]
  /\ UNCHANGED <<clock, raw, cursors, lock, jobs, deliverers, stored, late, matrix, forwarded,
                 deviceVars, answered, posts, refused, erased>>

\* A batch, or some events of it, are refused.
Refuse(post, events) ==
  /\ events # {} /\ events \subseteq post.events
  /\ answered' = answered \union events
  /\ refused' = refused \union events
  /\ UNCHANGED <<storeVars, deviceVars, posts, erased>>

Accept(r) ==
  /\ Commit(r)
  /\ answered' = answered \union EventsIn(requests[r].batch)
  /\ UNCHANGED <<deviceVars, posts, refused, erased>>

\* A request that fails is answered so that the device tries again.
Fail(r) ==
  /\ Drop(r)
  /\ UNCHANGED <<deviceVars, answered, posts, refused, erased>>

\* Another device's events.
ReceiveOthers(r, batch) ==
  /\ batch \intersect IdsOf(Events) = {} /\ Receive(r, batch)
  /\ UNCHANGED <<deviceVars, answered, posts, refused, erased>>

-----------------------------------------------------------------------------
(* The store's jobs, erasure and time.                                     *)

Work ==
  /\ \/ \E j \in Jobs : Rotation(j)
     \/ \E p \in Deliverers : Delivery(p)
     \/ Fails
  /\ UNCHANGED <<deviceVars, answered, posts, refused, erased>>

EraseActor(actor) ==
  /\ Erase(actor)
  /\ erased' = erased \union {e \in 1 .. tracked : ActorOf[IdOf[e]] = actor}
  /\ UNCHANGED <<deviceVars, answered, posts, refused>>

\* What does not arrive in time is lost.
Pass ==
  /\ Tick
  /\ posts' = {post \in posts : clock - post.at < MaxTransit}
  /\ UNCHANGED <<deviceVars, answered, refused, erased>>

Device ==
  \/ Track \/ Expire
  \/ \E events \in SUBSET Events : Post(events) \/ Leave(events)

Network ==
  \E post \in posts : \E events \in SUBSET post.events :
    Refuse(post, events) \/ \E r \in Requests : Arrive(post, r, events)

Server ==
  \E r \in Requests :
    \/ Accept(r) \/ Fail(r)
    \/ \E batch \in SUBSET Messages : ReceiveOthers(r, batch)

PipelineNext ==
  \/ Device \/ Network \/ Server \/ Work \/ Pass
  \/ \E actor \in Actors : EraseActor(actor)

PipelineSpec == PipelineInit /\ [][PipelineNext]_pipelineVars

-----------------------------------------------------------------------------
(* Properties.                                                             *)

\* How often an event is in the store: as a raw row that rotation will come to,
\* and in the chunks.
Copies(m) == matrix[m] + (IF Ahead(m, "rotation") THEN 1 ELSE 0)

\* From end to end: an event that has left its device, and was neither given up
\* there for its age or for newer ones, nor refused, nor erased, is in the store;
\* and however often an event was posted, it is there once, unless a post of it
\* was written when dedup_window was over since the first.  Clients send events
\* for 30 days (PROTOCOL.md, Clients) and the window is 7 by default, so that
\* a retry so late does happen; it may count an event again, never lose it.
OnceInTheStore ==
  /\ \A m \in Messages \ late : Copies(m) <= 1
  /\ \A e \in 1 .. tracked :
       e \notin waiting \union expired \union trimmed \union refused \union erased
         => Copies(IdOf[e]) >= 1

=============================================================================
