----------------------------- MODULE IngestServer ------------------------------
(***************************************************************************)
(* The ingest server's handler: it takes batches from devices whose clocks *)
(* are off, over connections that break, while settings are swapped, the   *)
(* database fails and the server dies.                                     *)
(***************************************************************************)
EXTENDS Protocol

CONSTANTS
  Devices,        \* each with one batch of events to deliver
  KeyOf,          \* a device's write key
  Bodies,         \* what a device may post: how it is encoded, and what is in it
  Connections,    \* requests served at a time
  Editions,       \* settings the server may go by,
  KeysOf, AgeOf,  \* with their write keys and max_event_age
  Offsets,        \* what a device's clock may be off by
  LastTime, MaxPosts, MaxOutages     \* bounds

ASSUME IngestAssumption ==
  /\ IsFiniteSet(Devices) /\ Offsets \subseteq Int
  /\ \A edition \in Editions : AgeOf[edition] \in Nat
  /\ \A name \in DOMAIN Bodies :
       LET items == Bodies[name].items IN items \in Seq({items[i] : i \in DOMAIN items})

None == "none"

VARIABLES
  now, offset,    \* the server's clock and what each device's is off by
  recorded,       \* per device: when, and at which offset, its events were recorded
  cell,           \* the settings the server goes by
  requests,       \* per connection: the request on it
  stored,         \* per message: when it occurred and was received
  settled,        \* history: per device, the answer it dropped its batch for
  reported,       \* history: events reported as accepted
  posts, outages  \* counted for the bounds

clockVars == <<now, offset, recorded>>
requestVars == <<requests, stored, settled, reported, posts>>
ingestVars == <<clockVars, cell, requestVars, outages>>

NotYet == -1
Unrecorded == [at |-> NotYet, offset |-> 0, steady |-> TRUE, body |-> None]
NotStored == [occurred |-> NotYet, received |-> NotYet]
NoRequest == [stage |-> None]
NoAnswer == [status |-> 0, reasons |-> << >>]

DeviceMessages == {<<d, i>> : d \in Devices, i \in 1 .. MaxEvents}

IngestInit ==
  /\ now = 0
  /\ offset \in [Devices -> Offsets]
  /\ recorded = [d \in Devices |-> Unrecorded]
  /\ cell \in Editions
  /\ requests = [c \in Connections |-> NoRequest]
  /\ stored = [m \in DeviceMessages |-> NotStored]
  /\ settled = [d \in Devices |-> NoAnswer]
  /\ reported = 0 /\ posts = 0 /\ outages = 0

-----------------------------------------------------------------------------
(* Devices.                                                                *)

\* The device records its events, by its own clock.
Record(d, body) ==
  /\ recorded[d] = Unrecorded
  /\ recorded' = [recorded EXCEPT ![d] =
       [at |-> now, offset |-> offset[d], steady |-> TRUE, body |-> body]]
  /\ UNCHANGED <<now, offset, cell, requestVars, outages>>

BodyOf(d) == Bodies[recorded[d].body]

\* The device's clock is set: what it recorded by the old one stays as it was.
SetClock(d, off) ==
  /\ recorded[d] # Unrecorded /\ recorded[d].steady /\ off # offset[d]
  /\ offset' = [offset EXCEPT ![d] = off]
  /\ recorded' = [recorded EXCEPT ![d].steady = FALSE]
  /\ UNCHANGED <<now, cell, requestVars, outages>>

TimePasses ==
  /\ now < LastTime
  /\ now' = now + 1
  /\ UNCHANGED <<offset, recorded, cell, requestVars, outages>>

Awaiting(d) ==
  \E c \in Connections :
    requests[c] # NoRequest /\ requests[c].device = d /\ requests[c].awaited

\* A device posts its batch until it has a final answer, one request at a time.
Post(c, d) ==
  /\ requests[c] = NoRequest /\ posts < MaxPosts
  /\ recorded[d] # Unrecorded /\ settled[d] = NoAnswer /\ ~Awaiting(d)
  /\ posts' = posts + 1
  /\ requests' = [requests EXCEPT ![c] =
       [stage |-> "sent", device |-> d, sent |-> now + offset[d], awaited |-> TRUE]]
  /\ UNCHANGED <<clockVars, cell, stored, settled, reported, outages>>

\* The connection breaks or the device waits no longer; the server may go on.
GiveUp(c) ==
  /\ requests[c] # NoRequest /\ requests[c].awaited
  /\ requests' = [requests EXCEPT ![c].awaited = FALSE]
  /\ UNCHANGED <<clockVars, cell, stored, settled, reported, posts, outages>>

-----------------------------------------------------------------------------
(* The handler of POST /v1/batch.                                          *)

LimitsOf(edition) == [maxAge |-> AgeOf[edition]]

Unchanging == UNCHANGED <<clockVars, cell, stored, settled, posts>>

Answered(c, status, reasons) ==
  requests' = [requests EXCEPT ![c] =
    [stage |-> "answered", device |-> @.device, awaited |-> @.awaited,
     answer |-> [status |-> status, reasons |-> reasons]]]

\* source_for
KeyIsKnown(c) == KeyOf[requests[c].device] \in KeysOf[cell]

\* The request is received: its time is read and the settings it will go by.
Unauthorized(c) ==
  /\ requests[c].stage = "sent" /\ ~KeyIsKnown(c)
  /\ Answered(c, 401, << >>)
  /\ Unchanging /\ UNCHANGED <<reported, outages>>

\* Whether the rate limiter lets a request in is its own module's affair.
RateLimited(c) ==
  /\ requests[c].stage = "sent" /\ KeyIsKnown(c)
  /\ Answered(c, 429, << >>)
  /\ Unchanging /\ UNCHANGED <<reported, outages>>

Receive(c) ==
  /\ requests[c].stage = "sent" /\ KeyIsKnown(c)
  /\ requests' = [requests EXCEPT ![c] =
       [stage |-> "reading", device |-> @.device, awaited |-> @.awaited, sent |-> @.sent,
        received |-> now, edition |-> cell]]
  /\ Unchanging /\ UNCHANGED <<reported, outages>>

\* What decoding the body comes to: its status, or 0 where it can be read.
Decoded(body) ==
  CASE body.wire = "over" -> 413
    [] body.encoding = "gzip" /\ body.gzip = "broken" -> 400
    [] body.encoding = "gzip" /\ body.gzip = "expands" -> 413
    [] body.encoding = "br" -> 415
    [] OTHER -> 0

StatusOf(body) == IF Decoded(body) = 0 /\ Malformed(body) THEN 400 ELSE Decoded(body)

\* The body has come: it is refused as a whole,
RefuseBody(c) ==
  LET status == StatusOf(BodyOf(requests[c].device))
  IN /\ requests[c].stage = "reading" /\ status # 0
     /\ Answered(c, status, << >>)
     /\ Unchanging /\ UNCHANGED <<reported, outages>>

\* or its events are accepted or rejected one by one.
ReadBody(c) ==
  LET request == requests[c]
      body == BodyOf(request.device)
      stamped == recorded[request.device].at + recorded[request.device].offset
  IN /\ request.stage = "reading" /\ StatusOf(body) = 0
     /\ requests' = [requests EXCEPT ![c] =
          [stage |-> "inserting", device |-> @.device, awaited |-> @.awaited,
           occurred |-> OccurredAt(stamped, @.received - @.sent), received |-> @.received,
           reasons |-> Normalize(body, stamped, @.sent, @.received, LimitsOf(@.edition))]]
     /\ Unchanging /\ UNCHANGED <<reported, outages>>

Valid(request) ==
  {<<request.device, i>> : i \in {j \in DOMAIN request.reasons : request.reasons[j] = Accepted}}

\* ON CONFLICT (message_id) DO NOTHING
New(request) == {m \in Valid(request) : stored[m] = NotStored}

StoredWith(request) ==
  [m \in DeviceMessages |-> IF m \in New(request)
                            THEN [occurred |-> request.occurred, received |-> request.received]
                            ELSE stored[m]]

\* Mutant: duplicates are counted too.
AcceptedWithDuplicates(request) == Cardinality(Valid(request))

AcceptedCount(request) == Cardinality(New(request))

\* A batch without a valid event is not taken to the database.
Insert(c) ==
  /\ requests[c].stage = "inserting"
  /\ stored' = StoredWith(requests[c])
  /\ reported' = reported + AcceptedCount(requests[c])
  /\ Answered(c, 202, requests[c].reasons)
  /\ UNCHANGED <<clockVars, cell, settled, posts, outages>>

\* Mutant: the device is told that the batch is bad.
RefusalStatus == 400

FailureStatus == 503

\* The database fails, and the statement may have been committed all the same.
InsertFails(c, committed) ==
  /\ requests[c].stage = "inserting" /\ Valid(requests[c]) # {} /\ outages < MaxOutages
  /\ stored' = IF committed THEN StoredWith(requests[c]) ELSE stored
  /\ Answered(c, FailureStatus, << >>)
  /\ outages' = outages + 1
  /\ UNCHANGED <<clockVars, cell, settled, reported, posts>>

\* The answer comes back, if it is awaited still; 202 and what can never be
\* taken make the device drop its batch.
Respond(c) ==
  LET request == requests[c]
  IN /\ request.stage = "answered"
     /\ settled' = IF request.awaited /\ request.answer.status \in {202, 400, 413, 415}
                   THEN [settled EXCEPT ![request.device] = request.answer] ELSE settled
     /\ requests' = [requests EXCEPT ![c] = NoRequest]
     /\ UNCHANGED <<clockVars, cell, stored, reported, posts, outages>>

\* A handler whose connection broke may be dropped wherever it waits, with the
\* statement committed or not.
Cancelled(c, committed) ==
  /\ requests[c].stage \in {"reading", "inserting"} /\ ~requests[c].awaited
  /\ stored' = IF committed /\ requests[c].stage = "inserting"
               THEN StoredWith(requests[c]) ELSE stored
  /\ requests' = [requests EXCEPT ![c] = NoRequest]
  /\ UNCHANGED <<clockVars, cell, settled, reported, posts, outages>>

Handle(c) ==
  /\ requests[c] # NoRequest
  /\ \/ Unauthorized(c) \/ RateLimited(c) \/ Receive(c)
     \/ RefuseBody(c) \/ ReadBody(c) \/ Insert(c) \/ Respond(c)
     \/ \E committed \in BOOLEAN : InsertFails(c, committed) \/ Cancelled(c, committed)

(* The server as its requests see it.                                      *)

\* The settings are swapped whole; how is the module IngestSettings' affair.
Swapped(edition) ==
  /\ cell # edition
  /\ cell' = edition
  /\ UNCHANGED <<clockVars, requestVars, outages>>

\* The server dies and is started again; what it was doing is lost.
Die ==
  /\ outages < MaxOutages /\ requests # [c \in Connections |-> NoRequest]
  /\ outages' = outages + 1
  /\ requests' = [c \in Connections |-> NoRequest]
  /\ UNCHANGED <<clockVars, cell, stored, settled, reported, posts>>

IngestNext ==
  \/ \E d \in Devices, body \in DOMAIN Bodies : Record(d, body)
  \/ \E d \in Devices, off \in Offsets : SetClock(d, off)
  \/ TimePasses
  \/ \E c \in Connections, d \in Devices : Post(c, d)
  \/ \E c \in Connections : GiveUp(c) \/ Handle(c)
  \/ \E edition \in Editions : Swapped(edition)
  \/ Die

IngestSpec == IngestInit /\ [][IngestNext]_ingestVars

-----------------------------------------------------------------------------
(* Properties.                                                             *)

Steady(d) == recorded[d].steady

\* Why an event may be rejected: what is wrong with itself, its age where the
\* device's clock ran on undisturbed, and any time where it was set.
MayBeRejected(d, i) ==
  \/ Reason(BodyOf(d).items[i], 0, PairsOf(BodyOf(d).context), 0, 0, [maxAge |-> 0]) # Accepted
  \/ ~Steady(d)
  \/ \E edition \in Editions : now - recorded[d].at > AgeOf[edition]

\* A device drops its batch only when each event is stored, or rejected for a
\* reason of its own, or the body can never be read: neither a failure of the
\* database, nor a clock that is off, nor a change of settings loses an event.
NothingSwallowed ==
  \A d \in Devices : settled[d] # NoAnswer =>
    IF settled[d].status = 202
    THEN \A i \in DOMAIN BodyOf(d).items : stored[<<d, i>>] # NotStored \/ MayBeRejected(d, i)
    ELSE StatusOf(BodyOf(d)) # 0

\* An event is stored at a time between its recording and its receipt, however
\* far off the device's clock is, unless it was set in between.
ClockCorrected ==
  \A m \in DeviceMessages : stored[m] # NotStored /\ Steady(m[1]) =>
    recorded[m[1]].at <= stored[m].occurred /\ stored[m].occurred <= stored[m].received

\* The counts the server answers with never make more events accepted than are
\* stored, though requests with the same events overlap.
ReportedOnce == reported <= Cardinality({m \in DeviceMessages : stored[m] # NotStored})

=============================================================================
