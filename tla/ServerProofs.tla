----------------------------- MODULE ServerProofs -----------------------------
(***************************************************************************)
(* What is proved about the ingest server's handler, its supervisor, its   *)
(* rate limiter and its sanitizer, for any number of devices, connections, *)
(* clients and settings, any clocks, limits and bounds, and any texts.     *)
(***************************************************************************)
EXTENDS IngestServer, Supervisor, RateLimiter, Sanitizer, FiniteSetTheorems, WellFoundedInduction, TLAPS

-----------------------------------------------------------------------------
(* The handler.  What is known of a request at each stage of it.           *)

\* A request was sent between the recording of its events and a time, by a
\* clock that was not set in between.
Posted(d, sent, by) ==
  /\ sent \in Int
  /\ Steady(d) => /\ recorded[d].at <= sent - recorded[d].offset
                  /\ sent - recorded[d].offset <= by

\* Events occurred between their recording and their receipt.
Timely(d, occurred, received) ==
  /\ occurred \in Int /\ received \in Nat
  /\ Steady(d) => recorded[d].at <= occurred /\ occurred <= received

\* What makes a device drop its batch is true of the batch.
Justified(d, answer) ==
  /\ answer.status = 202 =>
       /\ StatusOf(BodyOf(d)) = 0
       /\ \A i \in DOMAIN BodyOf(d).items : stored[<<d, i>>] # NotStored \/ MayBeRejected(d, i)
  /\ answer.status \in {400, 413, 415} => StatusOf(BodyOf(d)) # 0

\* The reasons of a batch that is on its way to the database.
Reasoned(d, reasons) ==
  /\ StatusOf(BodyOf(d)) = 0
  /\ DOMAIN reasons = DOMAIN BodyOf(d).items
  /\ \A i \in DOMAIN reasons : reasons[i] # Accepted => MayBeRejected(d, i)

Types ==
  /\ now \in Nat /\ offset \in [Devices -> Offsets] /\ cell \in Editions
  /\ DOMAIN recorded = Devices /\ DOMAIN requests = Connections /\ DOMAIN settled = Devices
  /\ DOMAIN stored = DeviceMessages

RecordedByClock ==
  \A d \in Devices :
    \/ recorded[d] = Unrecorded
    \/ /\ recorded[d] \in [at : 0 .. now, offset : Int, steady : BOOLEAN, body : DOMAIN Bodies]
       /\ Steady(d) => recorded[d].offset = offset[d]

\* What is known of a request.
IsTrue(request) ==
  LET d == request.device
  IN \/ request = NoRequest
     \/ /\ d \in Devices /\ recorded[d] # Unrecorded
        /\ \/ request.stage = "sent" /\ Posted(d, request.sent, now)
           \/ /\ request.stage = "reading" /\ request.edition \in Editions
              /\ request.received \in 0 .. now /\ Posted(d, request.sent, request.received)
           \/ /\ request.stage = "inserting"
              /\ Timely(d, request.occurred, request.received)
              /\ Reasoned(d, request.reasons)
           \/ request.stage = "answered" /\ Justified(d, request.answer)

RequestsAreTrue == \A c \in Connections : IsTrue(requests[c])

StoredInTime ==
  \A m \in DeviceMessages :
    stored[m] # NotStored =>
      recorded[m[1]] # Unrecorded /\ Timely(m[1], stored[m].occurred, stored[m].received)

SettledWithReason ==
  \A d \in Devices :
    settled[d] # NoAnswer =>
      /\ recorded[d] # Unrecorded /\ settled[d].status \in {202, 400, 413, 415}
      /\ Justified(d, settled[d])

Counted == reported \in Nat /\ ReportedOnce

HandlerInv ==
  Types /\ RecordedByClock /\ RequestsAreTrue /\ StoredInTime /\ SettledWithReason /\ Counted

-----------------------------------------------------------------------------
(* The checks of one event.                                                *)

LEMMA LeastNat ==
  ASSUME NEW S \in SUBSET Nat, S # {}
  PROVE  Min(S) \in S
<1>1. PICK n \in S : \A m \in S : ~ (<<m, n>> \in OpToRel(<, Nat))
  BY NatLessThanWellFounded, WFMin
<1>2. \A m \in S : ~ (m < n)
  BY <1>1 DEF OpToRel
<1>3. \A m \in S : n <= m
  BY <1>2
<1> QED  BY <1>3 DEF Min

\* A check tells whether it fails, and its reason is never "accepted".
LEMMA ReasonsAreReasons ==
  ASSUME NEW item, NEW timestamp, NEW context, NEW skew, NEW received, NEW limits
  PROVE  LET failures == Failures(item, timestamp, context, skew, received, limits)
         IN DOMAIN failures = 1 .. 13 /\ \A i \in 1 .. 13 : failures[i][2] # Accepted
  BY DEF Failures, Accepted

\* An event that nothing is wrong with at the beginning of time is rejected for
\* its time alone.
LEMMA RejectedForItsTime ==
  ASSUME NEW item, NEW timestamp, NEW context, NEW skew, NEW received, NEW limits,
         Reason(item, 0, context, 0, 0, [maxAge |-> 0]) = Accepted,
         Reason(item, timestamp, context, skew, received, limits) # Accepted
  PROVE  OutOfRange(OccurredAt(timestamp, skew), received, limits)
<1> DEFINE plain == Failures(item, 0, context, 0, 0, [maxAge |-> 0])
           timed == Failures(item, timestamp, context, skew, received, limits)
<1>1. \A i \in 1 .. 13 : ~plain[i][1]
  <2> DEFINE failed == {i \in DOMAIN plain : plain[i][1]}
  <2>1. DOMAIN plain = 1 .. 13 /\ \A i \in 1 .. 13 : plain[i][2] # Accepted
    BY ReasonsAreReasons
  <2>2. failed # {} => Min(failed) \in failed
    <3> HIDE DEF plain
    <3> QED  BY <2>1, LeastNat
  <2>3. Reason(item, 0, context, 0, 0, [maxAge |-> 0])
          = IF failed = {} THEN Accepted ELSE plain[Min(failed)][2]
    BY DEF Reason
  <2> HIDE DEF plain
  <2> QED  BY <2>1, <2>2, <2>3
<1>2. PICK i \in 1 .. 13 : timed[i][1]
  <2>1. DOMAIN timed = 1 .. 13
    BY ReasonsAreReasons
  <2>2. Reason(item, timestamp, context, skew, received, limits)
          = IF {i \in DOMAIN timed : timed[i][1]} = {} THEN Accepted
            ELSE timed[Min({i \in DOMAIN timed : timed[i][1]})][2]
    BY DEF Reason
  <2> HIDE DEF timed
  <2> QED  BY <2>1, <2>2
<1>3. i # 7 => (timed[i][1] <=> plain[i][1])
  BY DEF Failures
<1>4. timed[7][1] <=> OutOfRange(OccurredAt(timestamp, skew), received, limits)
  BY DEF Failures
<1> QED  BY <1>1, <1>2, <1>3, <1>4

-----------------------------------------------------------------------------
(* What a step never takes back: time passed, batches recorded, events     *)
(* stored.  What is known of requests and answers outlives such steps.     *)

Onward ==
  /\ now' \in Nat /\ now <= now'
  /\ \A d \in Devices :
       recorded[d] # Unrecorded =>
         /\ recorded'[d] # Unrecorded
         /\ recorded'[d].at = recorded[d].at /\ recorded'[d].offset = recorded[d].offset
         /\ recorded'[d].body = recorded[d].body
         /\ recorded'[d].steady => recorded[d].steady
  /\ \A m \in DeviceMessages : stored[m] # NotStored => stored'[m] = stored[m]

\* A batch that was recorded has its body's events.
LEMMA ItemsAreMessages ==
  ASSUME HandlerInv, NEW d \in Devices, recorded[d] # Unrecorded
  PROVE  /\ recorded[d].at \in Nat /\ recorded[d].at <= now /\ recorded[d].offset \in Int
         /\ recorded[d].steady \in BOOLEAN /\ recorded[d].body \in DOMAIN Bodies
         /\ Len(BodyOf(d).items) \in Nat /\ DOMAIN BodyOf(d).items = 1 .. Len(BodyOf(d).items)
         /\ StatusOf(BodyOf(d)) = 0 => \A i \in DOMAIN BodyOf(d).items : <<d, i>> \in DeviceMessages
<1>1. recorded[d] \in [at : 0 .. now, offset : Int, steady : BOOLEAN, body : DOMAIN Bodies]
  BY DEF HandlerInv, RecordedByClock
<1>2. now \in Nat
  BY DEF HandlerInv, Types
<1>3. /\ Len(BodyOf(d).items) \in Nat
      /\ DOMAIN BodyOf(d).items = 1 .. Len(BodyOf(d).items)
  <2> DEFINE items == BodyOf(d).items
             Item == {items[i] : i \in DOMAIN items}
  <2>1. items \in Seq(Item)
    BY <1>1, IngestAssumption DEF BodyOf
  <2> HIDE DEF items, Item
  <2> QED  BY <2>1
<1>4. StatusOf(BodyOf(d)) = 0 => Len(BodyOf(d).items) \in 1 .. MaxEvents
  <2>1. Malformed(BodyOf(d)) \/ Len(BodyOf(d).items) \in 1 .. MaxEvents
    BY DEF Malformed
  <2> QED  BY <2>1 DEF StatusOf
<1>5. StatusOf(BodyOf(d)) = 0 => \A i \in DOMAIN BodyOf(d).items : <<d, i>> \in DeviceMessages
  <2>1. MaxEvents \in Nat
    BY ProtocolAssumption
  <2> QED  BY <1>3, <1>4, <2>1 DEF DeviceMessages
<1> QED  BY <1>1, <1>2, <1>3, <1>5

LEMMA StaysRejected ==
  ASSUME HandlerInv, Onward, NEW d \in Devices, recorded[d] # Unrecorded, NEW i,
         MayBeRejected(d, i)
  PROVE  MayBeRejected(d, i)'
<1>1. BodyOf(d)' = BodyOf(d)
  BY DEF Onward, BodyOf
<1>2. CASE Reason(BodyOf(d).items[i], 0, PairsOf(BodyOf(d).context), 0, 0, [maxAge |-> 0])
             # Accepted
  BY <1>1, <1>2 DEF MayBeRejected
<1>3. CASE ~Steady(d)
  BY <1>3 DEF MayBeRejected, Steady, Onward
<1>4. CASE \E edition \in Editions : now - recorded[d].at > AgeOf[edition]
  <2>1. PICK edition \in Editions : now - recorded[d].at > AgeOf[edition]
    BY <1>4
  <2>2. now' - recorded'[d].at > AgeOf[edition]
    BY <2>1, ItemsAreMessages, IngestAssumption DEF Onward, HandlerInv, Types
  <2> QED  BY <2>2 DEF MayBeRejected
<1> QED  BY <1>2, <1>3, <1>4 DEF MayBeRejected

LEMMA StaysPosted ==
  ASSUME HandlerInv, Onward, NEW d \in Devices, recorded[d] # Unrecorded,
         NEW sent, NEW by \in Int, NEW later \in Int, by <= later, Posted(d, sent, by)
  PROVE  /\ sent \in Int
         /\ recorded'[d].steady => /\ recorded'[d].at <= sent - recorded'[d].offset
                                   /\ sent - recorded'[d].offset <= later
  BY ItemsAreMessages DEF Onward, Posted, Steady

LEMMA StaysTimely ==
  ASSUME HandlerInv, Onward, NEW d \in Devices, recorded[d] # Unrecorded,
         NEW occurred, NEW received, Timely(d, occurred, received)
  PROVE  Timely(d, occurred, received)'
  BY DEF Onward, Timely, Steady

LEMMA StaysJustified ==
  ASSUME HandlerInv, Onward, NEW d \in Devices, recorded[d] # Unrecorded,
         NEW answer, Justified(d, answer)
  PROVE  Justified(d, answer)'
<1>1. BodyOf(d)' = BodyOf(d)
  BY DEF Onward, BodyOf
<1>2. ASSUME answer.status = 202
      PROVE  /\ StatusOf(BodyOf(d)) = 0
             /\ \A i \in DOMAIN BodyOf(d).items :
                  stored'[<<d, i>>] # NotStored \/ MayBeRejected(d, i)'
  <2>1. StatusOf(BodyOf(d)) = 0
    BY <1>2 DEF Justified
  <2>2. ASSUME NEW i \in DOMAIN BodyOf(d).items, stored[<<d, i>>] # NotStored
        PROVE  stored'[<<d, i>>] # NotStored
    BY <2>1, <2>2, ItemsAreMessages DEF Onward
  <2>3. ASSUME NEW i \in DOMAIN BodyOf(d).items, MayBeRejected(d, i)
        PROVE  MayBeRejected(d, i)'
    BY <2>3, StaysRejected
  <2> QED  BY <1>2, <2>1, <2>2, <2>3 DEF Justified
<1>3. StatusOf(BodyOf(d))' = StatusOf(BodyOf(d))
  BY <1>1 DEF StatusOf, Decoded, Malformed, ObjectOrNull
<1> QED  BY <1>1, <1>2, <1>3 DEF Justified

LEMMA StaysReasoned ==
  ASSUME HandlerInv, Onward, NEW d \in Devices, recorded[d] # Unrecorded,
         NEW reasons, Reasoned(d, reasons)
  PROVE  Reasoned(d, reasons)'
<1>1. BodyOf(d)' = BodyOf(d)
  BY DEF Onward, BodyOf
<1>2. StatusOf(BodyOf(d))' = StatusOf(BodyOf(d))
  BY <1>1 DEF StatusOf, Decoded, Malformed, ObjectOrNull
<1>3. ASSUME NEW i \in DOMAIN reasons, reasons[i] # Accepted
      PROVE  MayBeRejected(d, i)'
  BY <1>3, StaysRejected DEF Reasoned
<1> QED  BY <1>1, <1>2, <1>3 DEF Reasoned

LEMMA StaysTrue ==
  ASSUME HandlerInv, Onward, NEW request, IsTrue(request)
  PROVE  IsTrue(request)'
<1> DEFINE d == request.device
<1>1. IsTrue(request)
  OBVIOUS
<1>2. CASE request = NoRequest
  BY <1>2 DEF IsTrue
<1>3. CASE /\ d \in Devices /\ recorded[d] # Unrecorded
           /\ request.stage = "sent" /\ Posted(d, request.sent, now)
  <2>1. now \in Int /\ now' \in Int /\ now <= now'
    BY DEF Onward, HandlerInv, Types
  <2>2. /\ request.sent \in Int
        /\ recorded'[d].steady => /\ recorded'[d].at <= request.sent - recorded'[d].offset
                                  /\ request.sent - recorded'[d].offset <= now'
    BY <1>3, <2>1, StaysPosted
  <2>3. Posted(d, request.sent, now)'
    BY <2>2 DEF Posted, Steady
  <2> QED  BY <1>3, <2>3 DEF IsTrue, Onward
<1>4. CASE /\ d \in Devices /\ recorded[d] # Unrecorded
           /\ request.stage = "reading" /\ request.edition \in Editions
           /\ request.received \in 0 .. now /\ Posted(d, request.sent, request.received)
  <2>1. request.received \in Int /\ request.received <= request.received
    BY <1>4 DEF HandlerInv, Types
  <2>2. /\ request.sent \in Int
        /\ recorded'[d].steady => /\ recorded'[d].at <= request.sent - recorded'[d].offset
                                  /\ request.sent - recorded'[d].offset <= request.received
    BY <1>4, <2>1, StaysPosted
  <2>3. Posted(d, request.sent, request.received)'
    BY <2>2 DEF Posted, Steady
  <2>4. request.received \in 0 .. now'
    BY <1>4 DEF Onward, HandlerInv, Types
  <2> QED  BY <1>4, <2>3, <2>4 DEF IsTrue, Onward
<1>5. CASE /\ d \in Devices /\ recorded[d] # Unrecorded /\ request.stage = "inserting"
           /\ Timely(d, request.occurred, request.received) /\ Reasoned(d, request.reasons)
  <2>1. Timely(d, request.occurred, request.received)'
    BY <1>5, StaysTimely DEF Timely, Steady
  <2>2. Reasoned(d, request.reasons)'
    BY <1>5, StaysReasoned
  <2> QED  BY <1>5, <2>1, <2>2 DEF IsTrue, Onward
<1>6. CASE /\ d \in Devices /\ recorded[d] # Unrecorded
           /\ request.stage = "answered" /\ Justified(d, request.answer)
  <2>1. Justified(d, request.answer)'
    BY <1>6, StaysJustified
  <2> QED  BY <1>6, <2>1 DEF IsTrue, Onward
<1> QED  BY <1>1, <1>2, <1>3, <1>4, <1>5, <1>6 DEF IsTrue

LEMMA SettledStays ==
  ASSUME HandlerInv, Onward, settled' = settled
  PROVE  SettledWithReason'
<1> SUFFICES ASSUME NEW d \in Devices, settled[d] # NoAnswer
             PROVE  /\ recorded'[d] # Unrecorded /\ settled[d].status \in {202, 400, 413, 415}
                    /\ Justified(d, settled[d])'
  BY DEF SettledWithReason
<1>1. /\ recorded[d] # Unrecorded /\ settled[d].status \in {202, 400, 413, 415}
      /\ Justified(d, settled[d])
  BY DEF HandlerInv, SettledWithReason
<1>2. Justified(d, settled[d])'
  BY <1>1, StaysJustified
<1> QED  BY <1>1, <1>2 DEF Onward

LEMMA StoredStays ==
  ASSUME HandlerInv, Onward, stored' = stored
  PROVE  StoredInTime'
<1> SUFFICES ASSUME NEW m \in DeviceMessages, stored[m] # NotStored
             PROVE  /\ recorded'[m[1]] # Unrecorded
                    /\ Timely(m[1], stored[m].occurred, stored[m].received)'
  BY DEF StoredInTime, DeviceMessages
<1>1. m[1] \in Devices
  BY DEF DeviceMessages
<1>2. /\ recorded[m[1]] # Unrecorded
      /\ Timely(m[1], stored[m].occurred, stored[m].received)
  BY DEF HandlerInv, StoredInTime
<1>3. Timely(m[1], stored[m].occurred, stored[m].received)'
  BY <1>1, <1>2, StaysTimely DEF Timely, Steady
<1> QED  BY <1>1, <1>2, <1>3 DEF Onward

\* A step that changes neither the clocks nor the store takes nothing back.
LEMMA NothingTakenBack ==
  ASSUME HandlerInv, UNCHANGED clockVars, UNCHANGED stored
  PROVE  Onward /\ RecordedByClock'
<1>1. now' = now /\ offset' = offset /\ recorded' = recorded /\ stored' = stored
  BY DEF clockVars
<1> QED  BY <1>1 DEF HandlerInv, Types, RecordedByClock, Onward, Steady

\* A step of one request alone, which leaves it true.
LEMMA OneRequestMoves ==
  ASSUME HandlerInv, NEW c \in Connections, NEW request,
         requests' = [requests EXCEPT ![c] = request],
         UNCHANGED <<clockVars, cell, stored, settled, reported>>,
         IsTrue(request)
  PROVE  HandlerInv'
<1>1. Onward /\ RecordedByClock'
  BY NothingTakenBack
<1>2. now' = now /\ recorded' = recorded /\ offset' = offset /\ cell' = cell
      /\ stored' = stored /\ settled' = settled /\ reported' = reported
  BY DEF clockVars
<1>3. Types'
  BY <1>2 DEF HandlerInv, Types
<1>4. ASSUME NEW n \in Connections
      PROVE  IsTrue(requests[n])'
  <2>1. CASE n = c
    <3>1. requests'[n] = request
      BY <2>1 DEF HandlerInv, Types
    <3>2. IsTrue(request)'
      BY <1>1, StaysTrue
    <3> QED  BY <3>1, <3>2 DEF IsTrue
  <2>2. CASE n # c
    <3>1. requests'[n] = requests[n]
      BY <2>2 DEF HandlerInv, Types
    <3>2. IsTrue(requests[n])
      BY DEF HandlerInv, RequestsAreTrue
    <3> QED  BY <1>1, <3>1, <3>2, StaysTrue DEF IsTrue
  <2> QED  BY <2>1, <2>2
<1>5. RequestsAreTrue'
  BY <1>4 DEF RequestsAreTrue
<1>6. StoredInTime' /\ SettledWithReason'
  BY <1>1, <1>2, StoredStays, SettledStays
<1>7. Counted'
  BY <1>2 DEF HandlerInv, Counted, ReportedOnce
<1> QED  BY <1>1, <1>3, <1>5, <1>6, <1>7 DEF HandlerInv

-----------------------------------------------------------------------------
(* The steps of a request that reach neither store nor device.             *)

\* Requests at the stages, from what is known of all of them.
LEMMA Stages ==
  ASSUME HandlerInv, NEW c \in Connections, requests[c] # NoRequest
  PROVE  LET request == requests[c]
             d == request.device
         IN /\ d \in Devices /\ recorded[d] # Unrecorded
            /\ request.stage = "sent" => Posted(d, request.sent, now)
            /\ request.stage = "reading" =>
                 /\ request.edition \in Editions /\ request.received \in 0 .. now
                 /\ Posted(d, request.sent, request.received)
            /\ request.stage = "inserting" =>
                 /\ Timely(d, request.occurred, request.received)
                 /\ Reasoned(d, request.reasons)
            /\ request.stage = "answered" => Justified(d, request.answer)
  BY DEF HandlerInv, RequestsAreTrue, IsTrue

LEMMA PostKeeps ==
  ASSUME HandlerInv, NEW c \in Connections, NEW d \in Devices, Post(c, d)
  PROVE  HandlerInv'
<1> DEFINE request == [stage |-> "sent", device |-> d, sent |-> now + offset[d],
                       awaited |-> TRUE]
<1>1. Posted(d, now + offset[d], now)
  <2>1. now \in Nat /\ offset[d] \in Int
    BY IngestAssumption DEF HandlerInv, Types
  <2>2. recorded[d] # Unrecorded
    BY DEF Post
  <2>3. Steady(d) => recorded[d].offset = offset[d]
    BY <2>2 DEF HandlerInv, RecordedByClock
  <2>4. recorded[d].at \in Nat /\ recorded[d].at <= now
    BY <2>2, ItemsAreMessages
  <2> QED  BY <2>1, <2>3, <2>4 DEF Posted
<1>2. IsTrue(request)
  BY <1>1 DEF IsTrue, Post
<1> HIDE DEF request
<1> QED  BY <1>2, OneRequestMoves DEF Post, request

LEMMA GiveUpKeeps ==
  ASSUME HandlerInv, NEW c \in Connections, GiveUp(c)
  PROVE  HandlerInv'
<1> DEFINE request == [requests[c] EXCEPT !.awaited = FALSE]
<1>1. requests' = [requests EXCEPT ![c] = request]
  BY DEF GiveUp, HandlerInv, Types
<1>2. requests[c] # NoRequest
  BY DEF GiveUp
<1>3. /\ request.stage = requests[c].stage /\ request.device = requests[c].device
      /\ request.stage = "sent" => request.sent = requests[c].sent
      /\ request.stage = "reading" => /\ request.sent = requests[c].sent
                                      /\ request.received = requests[c].received
                                      /\ request.edition = requests[c].edition
      /\ request.stage = "inserting" => /\ request.occurred = requests[c].occurred
                                        /\ request.received = requests[c].received
                                        /\ request.reasons = requests[c].reasons
      /\ request.stage = "answered" => request.answer = requests[c].answer
  OBVIOUS
<1>4. IsTrue(request)
  <2>1. IsTrue(requests[c])
    BY DEF HandlerInv, RequestsAreTrue
  <2> HIDE DEF request
  <2> QED  BY <1>2, <1>3, <2>1 DEF IsTrue
<1> HIDE DEF request
<1> QED  BY <1>1, <1>4, OneRequestMoves DEF GiveUp

\* A request is answered, for whatever is true of the batch.
LEMMA AnsweredKeeps ==
  ASSUME HandlerInv, NEW c \in Connections, NEW status, NEW reasons,
         requests[c] # NoRequest, Answered(c, status, reasons),
         UNCHANGED <<clockVars, cell, stored, settled, reported>>,
         Justified(requests[c].device, [status |-> status, reasons |-> reasons])
  PROVE  HandlerInv'
<1> DEFINE request == [stage |-> "answered", device |-> requests[c].device,
                       awaited |-> requests[c].awaited,
                       answer |-> [status |-> status, reasons |-> reasons]]
<1>1. requests' = [requests EXCEPT ![c] = request]
  BY DEF Answered
<1>2. IsTrue(request)
  BY Stages DEF IsTrue
<1> HIDE DEF request
<1> QED  BY <1>1, <1>2, OneRequestMoves

LEMMA RefusalsKeep ==
  ASSUME HandlerInv, NEW c \in Connections, requests[c] # NoRequest,
         Unauthorized(c) \/ RateLimited(c) \/ RefuseBody(c)
  PROVE  HandlerInv'
<1>1. CASE Unauthorized(c)
  <2>1. Justified(requests[c].device, [status |-> 401, reasons |-> << >>])
    BY DEF Justified
  <2> QED  BY <1>1, <2>1, AnsweredKeeps DEF Unauthorized, Unchanging
<1>2. CASE RateLimited(c)
  <2>1. Justified(requests[c].device, [status |-> 429, reasons |-> << >>])
    BY DEF Justified
  <2> QED  BY <1>2, <2>1, AnsweredKeeps DEF RateLimited, Unchanging
<1>3. CASE RefuseBody(c)
  <2> DEFINE status == StatusOf(BodyOf(requests[c].device))
  <2>1. status # 0 /\ status # 202
    <3>1. status # 0
      BY <1>3 DEF RefuseBody
    <3>2. \A body : Decoded(body) # 202
      BY DEF Decoded
    <3>3. \A body : StatusOf(body) # 202
      BY <3>2 DEF StatusOf
    <3> QED  BY <3>1, <3>3
  <2>2. Justified(requests[c].device, [status |-> status, reasons |-> << >>])
    BY <2>1 DEF Justified
  <2> QED  BY <1>3, <2>2, AnsweredKeeps DEF RefuseBody, Unchanging
<1> QED  BY <1>1, <1>2, <1>3

LEMMA ReceiveKeeps ==
  ASSUME HandlerInv, NEW c \in Connections, requests[c] # NoRequest, Receive(c)
  PROVE  HandlerInv'
<1> DEFINE request == [stage |-> "reading", device |-> requests[c].device,
                       awaited |-> requests[c].awaited, sent |-> requests[c].sent,
                       received |-> now, edition |-> cell]
<1>1. requests' = [requests EXCEPT ![c] = request]
  BY DEF Receive
<1>2. now \in 0 .. now /\ cell \in Editions
  BY DEF HandlerInv, Types
<1>3. IsTrue(request)
  BY <1>2, Stages DEF IsTrue, Receive
<1> HIDE DEF request
<1> QED  BY <1>1, <1>3, OneRequestMoves DEF Receive, Unchanging

\* The clocks' difference is told by when the device sent and the server
\* received: by the server's clock, an event occurred when it was recorded.
LEMMA TimeIsCorrected ==
  ASSUME HandlerInv, NEW d \in Devices, recorded[d] # Unrecorded, NEW sent,
         NEW received \in 0 .. now, Posted(d, sent, received)
  PROVE  LET stamped == recorded[d].at + recorded[d].offset
             occurred == OccurredAt(stamped, received - sent)
         IN /\ Timely(d, occurred, received)
            /\ \A edition \in Editions :
                 Steady(d) /\ OutOfRange(occurred, received, LimitsOf(edition)) =>
                   now - recorded[d].at > AgeOf[edition]
<1>1. now \in Nat /\ recorded[d].at \in Nat /\ recorded[d].offset \in Int /\ sent \in Int
  BY ItemsAreMessages DEF HandlerInv, Types, Posted
<1>2. Timely(d, OccurredAt(recorded[d].at + recorded[d].offset, received - sent), received)
  BY <1>1 DEF Timely, OccurredAt, Posted
<1>3. ASSUME NEW edition \in Editions, Steady(d),
             OutOfRange(OccurredAt(recorded[d].at + recorded[d].offset, received - sent),
                        received, LimitsOf(edition))
      PROVE  now - recorded[d].at > AgeOf[edition]
  <2>1. AgeOf[edition] \in Nat /\ MAX_FUTURE \in Nat
    BY IngestAssumption, ProtocolAssumption
  <2>2. LimitsOf(edition).maxAge = AgeOf[edition]
    BY DEF LimitsOf
  <2> QED  BY <1>1, <1>2, <1>3, <2>1, <2>2 DEF Timely, OutOfRange, OccurredAt
<1> QED  BY <1>2, <1>3

LEMMA ReadBodyKeeps ==
  ASSUME HandlerInv, NEW c \in Connections, requests[c] # NoRequest, ReadBody(c)
  PROVE  HandlerInv'
<1> DEFINE old == requests[c]
           d == old.device
           body == BodyOf(d)
           stamped == recorded[d].at + recorded[d].offset
           occurred == OccurredAt(stamped, old.received - old.sent)
           reasons == Normalize(body, stamped, old.sent, old.received, LimitsOf(old.edition))
           request == [stage |-> "inserting", device |-> d, awaited |-> old.awaited,
                       occurred |-> occurred, received |-> old.received, reasons |-> reasons]
<1>1. requests' = [requests EXCEPT ![c] = request]
  BY DEF ReadBody
<1>2. /\ d \in Devices /\ recorded[d] # Unrecorded /\ old.edition \in Editions
      /\ old.received \in 0 .. now /\ Posted(d, old.sent, old.received)
      /\ StatusOf(body) = 0
  BY Stages DEF ReadBody
<1>3. Timely(d, occurred, old.received)
  BY <1>2, TimeIsCorrected
<1>4. ASSUME NEW i \in DOMAIN body.items, reasons[i] # Accepted
      PROVE  MayBeRejected(d, i)
  <2>1. reasons[i] = Reason(body.items[i], stamped, PairsOf(body.context),
                            old.received - old.sent, old.received, LimitsOf(old.edition))
    BY DEF Normalize
  <2>2. CASE Reason(body.items[i], 0, PairsOf(body.context), 0, 0, [maxAge |-> 0]) # Accepted
    BY <2>2 DEF MayBeRejected
  <2>3. CASE Reason(body.items[i], 0, PairsOf(body.context), 0, 0, [maxAge |-> 0]) = Accepted
    <3>1. OutOfRange(occurred, old.received, LimitsOf(old.edition))
      <4> HIDE DEF reasons, stamped, body
      <4> QED  BY <1>4, <2>1, <2>3, RejectedForItsTime
    <3>2. Steady(d) => now - recorded[d].at > AgeOf[old.edition]
      BY <1>2, <3>1, TimeIsCorrected
    <3> QED  BY <1>2, <3>2 DEF MayBeRejected
  <2> QED  BY <2>2, <2>3
<1>5. Reasoned(d, reasons)
  <2>1. DOMAIN reasons = DOMAIN body.items
    BY DEF Normalize
  <2> HIDE DEF reasons
  <2> QED  BY <1>2, <1>4, <2>1 DEF Reasoned
<1>6. IsTrue(request)
  <2> HIDE DEF occurred, reasons
  <2> QED  BY <1>2, <1>3, <1>5 DEF IsTrue
<1> HIDE DEF request
<1> QED  BY <1>1, <1>6, OneRequestMoves DEF ReadBody, Unchanging

-----------------------------------------------------------------------------
(* The steps that reach the store, or the device.                          *)

StoredEvents == {m \in DeviceMessages : stored[m] # NotStored}

LEMMA StoredEventsAreFinite ==
  ASSUME HandlerInv, NEW S \in SUBSET DeviceMessages
  PROVE  IsFiniteSet(S) /\ Cardinality(S) \in Nat
<1>1. IsFiniteSet(Devices) /\ IsFiniteSet(1 .. MaxEvents)
  BY IngestAssumption, ProtocolAssumption, FS_Interval
<1>2. IsFiniteSet(Devices \X (1 .. MaxEvents))
  BY <1>1, FS_Product
<1>3. DeviceMessages = Devices \X (1 .. MaxEvents)
  BY DEF DeviceMessages
<1> QED  BY <1>2, <1>3, FS_Subset, FS_CardinalityType

\* What a batch brings to the store.
LEMMA EventsAreStored ==
  ASSUME HandlerInv, NEW c \in Connections, requests[c] # NoRequest,
         requests[c].stage = "inserting",
         stored' = StoredWith(requests[c]), UNCHANGED clockVars
  PROVE  /\ Onward /\ RecordedByClock' /\ StoredInTime' /\ DOMAIN stored' = DeviceMessages
         /\ \A m \in Valid(requests[c]) : m \in DeviceMessages /\ stored'[m] # NotStored
         /\ Cardinality(StoredEvents') =
              Cardinality(StoredEvents) + Cardinality(New(requests[c]))
<1> DEFINE request == requests[c]
           d == request.device
           new == [occurred |-> request.occurred, received |-> request.received]
<1>1. /\ d \in Devices /\ recorded[d] # Unrecorded
      /\ Timely(d, request.occurred, request.received) /\ Reasoned(d, request.reasons)
  BY Stages
<1>2. now' = now /\ offset' = offset /\ recorded' = recorded
  BY DEF clockVars
<1>3. \A m \in Valid(request) : m \in DeviceMessages /\ m[1] = d
  <2>1. \A i \in DOMAIN request.reasons : <<d, i>> \in DeviceMessages
    BY <1>1, ItemsAreMessages DEF Reasoned
  <2> QED  BY <2>1 DEF Valid
<1>4. new # NotStored
  <2>1. request.received \in Nat
    BY <1>1 DEF Timely
  <2>2. new.received # NotStored.received
    BY <2>1 DEF NotStored, NotYet
  <2> QED  BY <2>2
<1>5. /\ DOMAIN stored' = DeviceMessages
      /\ \A m \in DeviceMessages : stored'[m] = IF m \in New(request) THEN new ELSE stored[m]
  BY DEF StoredWith
<1>6. \A m \in New(request) : m \in DeviceMessages /\ m[1] = d /\ stored[m] = NotStored
  BY <1>3 DEF New
<1> HIDE DEF new
<1>7. Onward
  BY <1>2, <1>5, <1>6 DEF Onward, HandlerInv, Types
<1>8. RecordedByClock'
  BY <1>2 DEF HandlerInv, RecordedByClock, Steady
<1>9. StoredInTime'
  <2> SUFFICES ASSUME NEW m \in DeviceMessages, stored'[m] # NotStored
               PROVE  /\ recorded[m[1]] # Unrecorded
                      /\ Timely(m[1], stored'[m].occurred, stored'[m].received)
    BY <1>2 DEF StoredInTime, Timely, Steady
  <2>1. CASE m \in New(request)
    <3>1. m[1] = d /\ stored'[m].occurred = request.occurred
            /\ stored'[m].received = request.received
      BY <2>1, <1>5, <1>6 DEF new
    <3> QED  BY <1>1, <1>2, <3>1 DEF Timely, Steady
  <2>2. CASE m \notin New(request)
    <3>1. stored'[m] = stored[m]
      BY <2>2, <1>5
    <3> QED  BY <1>2, <3>1 DEF HandlerInv, StoredInTime, Timely, Steady
  <2> QED  BY <2>1, <2>2
<1>10. \A m \in Valid(request) : m \in DeviceMessages /\ stored'[m] # NotStored
  BY <1>3, <1>4, <1>5 DEF New
<1>11. Cardinality(StoredEvents') = Cardinality(StoredEvents) + Cardinality(New(request))
  <2>1. StoredEvents' = StoredEvents \union New(request)
    BY <1>4, <1>5, <1>6 DEF StoredEvents, DeviceMessages
  <2>2. StoredEvents \intersect New(request) = {}
    BY <1>6 DEF StoredEvents
  <2>3. /\ IsFiniteSet(StoredEvents) /\ IsFiniteSet(New(request))
        /\ Cardinality(StoredEvents) \in Nat /\ Cardinality(New(request)) \in Nat
    BY <1>6, StoredEventsAreFinite DEF StoredEvents
  <2>4. Cardinality(StoredEvents \union New(request)) =
          Cardinality(StoredEvents) + Cardinality(New(request))
          - Cardinality(StoredEvents \intersect New(request))
    BY <2>3, FS_Union
  <2>5. Cardinality(StoredEvents \intersect New(request)) = 0
    BY <2>2, FS_EmptySet
  <2>6. Cardinality(StoredEvents') = Cardinality(StoredEvents \union New(request))
    BY <2>1
  <2> QED  BY <2>3, <2>4, <2>5, <2>6
<1> QED  BY <1>5, <1>7, <1>8, <1>9, <1>10, <1>11

\* A step of one request that may bring events to the store.
LEMMA OneRequestStores ==
  ASSUME HandlerInv, Onward, RecordedByClock', StoredInTime', DOMAIN stored' = DeviceMessages,
         NEW c \in Connections, NEW request, requests' = [requests EXCEPT ![c] = request],
         UNCHANGED <<clockVars, cell, settled>>, IsTrue(request)', Counted'
  PROVE  HandlerInv'
<1>1. now' = now /\ recorded' = recorded /\ offset' = offset /\ cell' = cell
      /\ settled' = settled
  BY DEF clockVars
<1>2. Types'
  BY <1>1 DEF HandlerInv, Types
<1>3. ASSUME NEW n \in Connections
      PROVE  IsTrue(requests[n])'
  <2>1. CASE n = c
    <3>1. requests'[n] = request
      BY <2>1 DEF HandlerInv, Types
    <3> QED  BY <3>1 DEF IsTrue
  <2>2. CASE n # c
    <3>1. requests'[n] = requests[n]
      BY <2>2 DEF HandlerInv, Types
    <3>2. IsTrue(requests[n])
      BY DEF HandlerInv, RequestsAreTrue
    <3> QED  BY <3>1, <3>2, StaysTrue DEF IsTrue
  <2> QED  BY <2>1, <2>2
<1>4. RequestsAreTrue'
  BY <1>3 DEF RequestsAreTrue
<1>5. SettledWithReason'
  BY <1>1, SettledStays
<1> QED  BY <1>2, <1>4, <1>5 DEF HandlerInv

LEMMA InsertKeeps ==
  ASSUME HandlerInv, NEW c \in Connections, requests[c] # NoRequest, Insert(c)
  PROVE  HandlerInv'
<1> PICK old : old = requests[c]
  OBVIOUS
<1> DEFINE d == old.device
           answer == [status |-> 202, reasons |-> old.reasons]
           request == [stage |-> "answered", device |-> d, awaited |-> old.awaited,
                       answer |-> answer]
<1>1. requests' = [requests EXCEPT ![c] = request]
  BY DEF Insert, Answered
<1>2. /\ d \in Devices /\ recorded[d] # Unrecorded /\ Reasoned(d, old.reasons)
  BY Stages DEF Insert
<1>3. /\ Onward /\ RecordedByClock' /\ StoredInTime' /\ DOMAIN stored' = DeviceMessages
      /\ \A m \in Valid(old) : m \in DeviceMessages /\ stored'[m] # NotStored
      /\ Cardinality(StoredEvents') = Cardinality(StoredEvents) + Cardinality(New(old))
  BY EventsAreStored DEF Insert
<1>4. Justified(d, answer)'
  <2>1. ASSUME NEW i \in DOMAIN BodyOf(d).items
        PROVE  stored'[<<d, i>>] # NotStored \/ MayBeRejected(d, i)'
    <3>1. CASE old.reasons[i] = Accepted
      <4>1. <<d, i>> \in Valid(old)
        BY <1>2, <3>1 DEF Valid, Reasoned
      <4> QED  BY <1>3, <4>1
    <3>2. CASE old.reasons[i] # Accepted
      BY <1>2, <1>3, <3>2, StaysRejected DEF Reasoned
    <3> QED  BY <3>1, <3>2
  <2>2. BodyOf(d)' = BodyOf(d)
    BY <1>2, <1>3 DEF Onward, BodyOf
  <2>3. StatusOf(BodyOf(d))' = 0
    BY <1>2, <2>2 DEF Reasoned, StatusOf, Decoded, Malformed, ObjectOrNull
  <2> QED  BY <2>1, <2>2, <2>3 DEF Justified
<1>5. IsTrue(request)'
  BY <1>2, <1>3, <1>4 DEF IsTrue, Onward
<1>6. Counted'
  <2>1. /\ Cardinality(New(old)) \in Nat /\ Cardinality(StoredEvents) \in Nat
    BY <1>3, StoredEventsAreFinite DEF New, StoredEvents
  <2>2. reported \in Nat /\ reported <= Cardinality(StoredEvents)
    BY DEF HandlerInv, Counted, ReportedOnce, StoredEvents
  <2>3. reported' = reported + Cardinality(New(old))
    BY DEF Insert, AcceptedCount
  <2>4. reported' \in Nat /\ reported' <= Cardinality(StoredEvents')
    BY <1>3, <2>1, <2>2, <2>3
  <2> QED  BY <2>4 DEF Counted, ReportedOnce, StoredEvents
<1> HIDE DEF request
<1> QED  BY <1>1, <1>3, <1>5, <1>6, OneRequestStores DEF Insert

\* A statement that was committed, or not, for an answer that tells nothing.
LEMMA UntoldKeeps ==
  ASSUME HandlerInv, NEW c \in Connections, requests[c] # NoRequest,
         \/ requests[c].stage = "inserting" /\ stored' = StoredWith(requests[c])
         \/ stored' = stored,
         UNCHANGED <<clockVars, cell, settled, reported>>,
         \E request :
           /\ requests' = [requests EXCEPT ![c] = request]
           /\ \/ request = NoRequest
              \/ /\ request.stage = "answered" /\ request.device = requests[c].device
                 /\ request.answer.status = 503
  PROVE  HandlerInv'
<1>3. PICK request :
        /\ requests' = [requests EXCEPT ![c] = request]
        /\ \/ request = NoRequest
           \/ /\ request.stage = "answered" /\ request.device = requests[c].device
              /\ request.answer.status = 503
  OBVIOUS
<1>1. CASE requests[c].stage = "inserting" /\ stored' = StoredWith(requests[c])
  <2> PICK d : d = requests[c].device
    OBVIOUS
  <2>1. /\ Onward /\ RecordedByClock' /\ StoredInTime' /\ DOMAIN stored' = DeviceMessages
        /\ Cardinality(StoredEvents') =
             Cardinality(StoredEvents) + Cardinality(New(requests[c]))
        /\ \A m \in Valid(requests[c]) : m \in DeviceMessages
    BY <1>1, EventsAreStored
  <2>2. IsTrue(request)'
    BY <1>3, <2>1, Stages DEF IsTrue, Justified, Onward
  <2>3. Counted'
    <3>1. Cardinality(New(requests[c])) \in Nat /\ Cardinality(StoredEvents) \in Nat
      BY <2>1, StoredEventsAreFinite DEF New, StoredEvents
    <3>2. reported \in Nat /\ reported <= Cardinality(StoredEvents) /\ reported' = reported
      BY DEF HandlerInv, Counted, ReportedOnce, StoredEvents
    <3>3. reported' \in Nat /\ reported' <= Cardinality(StoredEvents')
      BY <2>1, <3>1, <3>2
    <3> QED  BY <3>3 DEF Counted, ReportedOnce, StoredEvents
  <2>4. UNCHANGED <<clockVars, cell, settled>>
    OBVIOUS
  <2> QED  BY <1>3, <2>1, <2>2, <2>3, <2>4, OneRequestStores
<1>2. CASE stored' = stored
  <2>1. IsTrue(request)
    BY <1>3, Stages DEF IsTrue, Justified
  <2>2. UNCHANGED <<clockVars, cell, stored, settled, reported>>
    BY <1>2
  <2> QED  BY <1>3, <2>1, <2>2, OneRequestMoves
<1> QED  BY <1>1, <1>2

LEMMA FailuresKeep ==
  ASSUME HandlerInv, NEW c \in Connections, requests[c] # NoRequest, NEW committed \in BOOLEAN,
         InsertFails(c, committed) \/ Cancelled(c, committed)
  PROVE  HandlerInv'
<1>1. CASE InsertFails(c, committed)
  <2> DEFINE request == [stage |-> "answered", device |-> requests[c].device,
                         awaited |-> requests[c].awaited,
                         answer |-> [status |-> FailureStatus, reasons |-> << >>]]
  <2>1. requests' = [requests EXCEPT ![c] = request]
    BY <1>1 DEF InsertFails, Answered
  <2>2. /\ request.stage = "answered" /\ request.device = requests[c].device
        /\ request.answer.status = 503
    BY DEF FailureStatus
  <2>3. /\ \/ requests[c].stage = "inserting" /\ stored' = StoredWith(requests[c])
           \/ stored' = stored
        /\ UNCHANGED <<clockVars, cell, settled, reported>>
    BY <1>1 DEF InsertFails
  <2> HIDE DEF request
  <2>4. \E answered :
          /\ requests' = [requests EXCEPT ![c] = answered]
          /\ \/ answered = NoRequest
             \/ /\ answered.stage = "answered" /\ answered.device = requests[c].device
                /\ answered.answer.status = 503
    BY <2>1, <2>2
  <2> QED  BY <2>3, <2>4, UntoldKeeps
<1>2. CASE Cancelled(c, committed)
  <2>1. /\ \/ requests[c].stage = "inserting" /\ stored' = StoredWith(requests[c])
           \/ stored' = stored
        /\ requests' = [requests EXCEPT ![c] = NoRequest]
        /\ UNCHANGED <<clockVars, cell, settled, reported>>
    BY <1>2 DEF Cancelled
  <2> QED  BY <2>1, UntoldKeeps
<1> QED  BY <1>1, <1>2

LEMMA RespondKeeps ==
  ASSUME HandlerInv, NEW c \in Connections, requests[c] # NoRequest, Respond(c)
  PROVE  HandlerInv'
<1> PICK old : old = requests[c]
  OBVIOUS
<1>1. /\ old.device \in Devices /\ recorded[old.device] # Unrecorded
      /\ Justified(old.device, old.answer)
  BY Stages DEF Respond
<1>2. /\ requests' = [requests EXCEPT ![c] = NoRequest]
      /\ UNCHANGED <<clockVars, cell, stored, reported>>
      /\ \/ settled' = settled
         \/ /\ settled' = [settled EXCEPT ![old.device] = old.answer]
            /\ old.answer.status \in {202, 400, 413, 415}
  BY DEF Respond
<1>3. /\ now' = now /\ recorded' = recorded /\ offset' = offset /\ cell' = cell
      /\ stored' = stored /\ reported' = reported
  BY <1>2 DEF clockVars
<1>4. Onward /\ RecordedByClock' /\ StoredInTime'
  BY <1>2, <1>3, NothingTakenBack, StoredStays
<1>5. Types'
  BY <1>2, <1>3 DEF HandlerInv, Types
<1>6. RequestsAreTrue'
  <2> SUFFICES ASSUME NEW n \in Connections PROVE IsTrue(requests[n])'
    BY DEF RequestsAreTrue
  <2>1. requests'[n] = NoRequest \/ requests'[n] = requests[n]
    BY <1>2 DEF HandlerInv, Types
  <2>2. IsTrue(requests[n])
    BY DEF HandlerInv, RequestsAreTrue
  <2> QED  BY <1>4, <2>1, <2>2, StaysTrue DEF IsTrue
<1>7. SettledWithReason'
  <2> SUFFICES ASSUME NEW d \in Devices, settled'[d] # NoAnswer
               PROVE  /\ recorded'[d] # Unrecorded
                      /\ settled'[d].status \in {202, 400, 413, 415}
                      /\ Justified(d, settled[d])'
    BY DEF SettledWithReason
  <2>1. CASE settled'[d] = settled[d]
    BY <1>3, <1>4, <2>1, StaysJustified DEF HandlerInv, SettledWithReason, Justified
  <2>2. CASE settled'[d] # settled[d]
    <3>1. d = old.device /\ settled'[d] = old.answer /\ old.answer.status \in {202, 400, 413, 415}
      BY <1>2, <2>2 DEF HandlerInv, Types
    <3>2. Justified(d, old.answer)'
      BY <1>1, <1>4, <3>1, StaysJustified
    <3> QED  BY <1>1, <1>3, <3>1, <3>2 DEF Justified
  <2> QED  BY <2>1, <2>2
<1>8. Counted'
  BY <1>3 DEF HandlerInv, Counted, ReportedOnce
<1> QED  BY <1>4, <1>5, <1>6, <1>7, <1>8 DEF HandlerInv

LEMMA HandleKeeps ==
  ASSUME HandlerInv, NEW c \in Connections, Handle(c)
  PROVE  HandlerInv'
  BY RefusalsKeep, ReceiveKeeps, ReadBodyKeeps, InsertKeeps, RespondKeeps, FailuresKeep
     DEF Handle

-----------------------------------------------------------------------------
(* The steps of the devices' clocks, of time and of the server.            *)

\* A step that leaves requests, store and answers alone, or loses the requests.
LEMMA OthersKeep ==
  ASSUME HandlerInv, Onward, RecordedByClock', Types',
         \/ UNCHANGED requests
         \/ requests' = [c \in Connections |-> NoRequest],
         UNCHANGED <<stored, settled, reported>>
  PROVE  HandlerInv'
<1>1. stored' = stored /\ settled' = settled /\ reported' = reported
  OBVIOUS
<1>2. RequestsAreTrue'
  <2> SUFFICES ASSUME NEW n \in Connections PROVE IsTrue(requests[n])'
    BY DEF RequestsAreTrue
  <2>1. requests'[n] = NoRequest \/ requests'[n] = requests[n]
    OBVIOUS
  <2>2. IsTrue(requests[n])
    BY DEF HandlerInv, RequestsAreTrue
  <2> QED  BY <2>1, <2>2, StaysTrue DEF IsTrue
<1>3. StoredInTime' /\ SettledWithReason'
  BY <1>1, StoredStays, SettledStays
<1>4. Counted'
  BY <1>1 DEF HandlerInv, Counted, ReportedOnce
<1> QED  BY <1>2, <1>3, <1>4 DEF HandlerInv

LEMMA RecordKeeps ==
  ASSUME HandlerInv, NEW d \in Devices, NEW body \in DOMAIN Bodies, Record(d, body)
  PROVE  HandlerInv'
<1> DEFINE batch == [at |-> now, offset |-> offset[d], steady |-> TRUE, body |-> body]
<1>1. /\ recorded' = [recorded EXCEPT ![d] = batch] /\ recorded[d] = Unrecorded
      /\ now' = now /\ offset' = offset /\ cell' = cell
      /\ requests' = requests /\ stored' = stored /\ settled' = settled /\ reported' = reported
  BY DEF Record, requestVars
<1>2. now \in Nat /\ offset[d] \in Int
  BY IngestAssumption DEF HandlerInv, Types
<1>3. Types'
  BY <1>1 DEF HandlerInv, Types
<1>4. batch \in [at : 0 .. now, offset : Int, steady : BOOLEAN, body : DOMAIN Bodies]
  BY <1>2
<1>5. RecordedByClock'
  <2> SUFFICES ASSUME NEW e \in Devices
               PROVE  \/ recorded'[e] = Unrecorded
                      \/ /\ recorded'[e] \in [at : 0 .. now, offset : Int, steady : BOOLEAN,
                                              body : DOMAIN Bodies]
                         /\ recorded'[e].steady => recorded'[e].offset = offset[e]
    BY <1>1 DEF RecordedByClock, Steady
  <2>1. CASE e = d
    BY <1>1, <1>4, <2>1 DEF HandlerInv, Types
  <2>2. CASE e # d
    BY <1>1, <2>2 DEF HandlerInv, Types, RecordedByClock, Steady
  <2> QED  BY <2>1, <2>2
<1>6. Onward
  BY <1>1, <1>2 DEF Onward, HandlerInv, Types
<1> QED  BY <1>1, <1>3, <1>5, <1>6, OthersKeep

LEMMA SetClockKeeps ==
  ASSUME HandlerInv, NEW d \in Devices, NEW off \in Offsets, SetClock(d, off)
  PROVE  HandlerInv'
<1> DEFINE batch == [recorded[d] EXCEPT !.steady = FALSE]
<1>1. /\ recorded' = [recorded EXCEPT ![d] = batch]
      /\ offset' = [offset EXCEPT ![d] = off]
      /\ now' = now /\ cell' = cell
      /\ requests' = requests /\ stored' = stored /\ settled' = settled /\ reported' = reported
  BY DEF SetClock, requestVars, HandlerInv, Types
<1>2. /\ recorded[d] # Unrecorded
      /\ recorded[d] \in [at : 0 .. now, offset : Int, steady : BOOLEAN, body : DOMAIN Bodies]
  BY DEF SetClock, HandlerInv, RecordedByClock
<1>3. Types'
  BY <1>1 DEF HandlerInv, Types
<1>4. /\ batch \in [at : 0 .. now, offset : Int, steady : BOOLEAN, body : DOMAIN Bodies]
      /\ batch.at = recorded[d].at /\ batch.offset = recorded[d].offset
      /\ batch.body = recorded[d].body /\ batch.steady = FALSE
  BY <1>2
<1>5. batch # Unrecorded
  BY <1>4 DEF Unrecorded
<1> HIDE DEF batch
<1>6. RecordedByClock'
  <2> SUFFICES ASSUME NEW e \in Devices
               PROVE  \/ recorded'[e] = Unrecorded
                      \/ /\ recorded'[e] \in [at : 0 .. now, offset : Int, steady : BOOLEAN,
                                              body : DOMAIN Bodies]
                         /\ recorded'[e].steady => recorded'[e].offset = offset'[e]
    BY <1>1 DEF RecordedByClock, Steady
  <2>1. CASE e = d
    BY <1>1, <1>4, <2>1 DEF HandlerInv, Types
  <2>2. CASE e # d
    BY <1>1, <2>2 DEF HandlerInv, Types, RecordedByClock, Steady
  <2> QED  BY <2>1, <2>2
<1>7. Onward
  BY <1>1, <1>4, <1>5 DEF Onward, HandlerInv, Types
<1> QED  BY <1>1, <1>3, <1>6, <1>7, OthersKeep

LEMMA ServerKeeps ==
  ASSUME HandlerInv, TimePasses \/ Die \/ \E edition \in Editions : Swapped(edition)
  PROVE  HandlerInv'
<1>1. /\ recorded' = recorded /\ offset' = offset /\ stored' = stored
      /\ settled' = settled /\ reported' = reported
      /\ requests' = requests \/ requests' = [c \in Connections |-> NoRequest]
      /\ cell' \in Editions /\ now' \in Nat /\ now <= now'
  BY DEF TimePasses, Die, Swapped, HandlerInv, Types, requestVars, clockVars
<1>2. Types'
  BY <1>1 DEF HandlerInv, Types
<1>3. RecordedByClock'
  <2> SUFFICES ASSUME NEW d \in Devices, recorded[d] # Unrecorded
               PROVE  /\ recorded[d] \in [at : 0 .. now', offset : Int, steady : BOOLEAN,
                                          body : DOMAIN Bodies]
                      /\ recorded[d].steady => recorded[d].offset = offset[d]
    BY <1>1 DEF RecordedByClock, Steady
  <2>1. /\ recorded[d] \in [at : 0 .. now, offset : Int, steady : BOOLEAN, body : DOMAIN Bodies]
        /\ recorded[d].steady => recorded[d].offset = offset[d]
    BY DEF HandlerInv, RecordedByClock, Steady
  <2>2. \A t \in 0 .. now : t \in 0 .. now'
    BY <1>1 DEF HandlerInv, Types
  <2> QED  BY <2>1, <2>2
<1>4. Onward
  BY <1>1 DEF Onward, HandlerInv, Types
<1> QED  BY <1>1, <1>2, <1>3, <1>4, OthersKeep

-----------------------------------------------------------------------------
(* What is proved of the handler.                                          *)

LEMMA HandlerBegins == IngestInit => HandlerInv
<1> SUFFICES ASSUME IngestInit PROVE HandlerInv
  OBVIOUS
<1>1. Types /\ RecordedByClock /\ RequestsAreTrue /\ StoredInTime /\ SettledWithReason
  BY DEF IngestInit, Types, RecordedByClock, RequestsAreTrue, IsTrue, StoredInTime,
         SettledWithReason
<1>2. Counted
  <2>1. StoredEvents = {}
    BY DEF IngestInit, StoredEvents
  <2>2. Cardinality(StoredEvents) = 0
    BY <2>1, FS_EmptySet
  <2> QED  BY <2>2 DEF IngestInit, Counted, ReportedOnce, StoredEvents
<1> QED  BY <1>1, <1>2 DEF HandlerInv

LEMMA HandlerInvariance == IngestSpec => []HandlerInv
<1>1. ASSUME HandlerInv, [IngestNext]_ingestVars
      PROVE  HandlerInv'
  <2>1. CASE UNCHANGED ingestVars
    <3>1. /\ now' = now /\ offset' = offset /\ recorded' = recorded /\ cell' = cell
          /\ requests' = requests /\ stored' = stored /\ settled' = settled
          /\ reported' = reported
      BY <2>1 DEF ingestVars, requestVars, clockVars
    <3>2. Onward /\ RecordedByClock'
      BY <1>1, <3>1, NothingTakenBack DEF clockVars
    <3>3. Types'
      BY <1>1, <3>1 DEF HandlerInv, Types
    <3> QED  BY <1>1, <3>1, <3>2, <3>3, OthersKeep
  <2>2. ASSUME NEW d \in Devices, NEW body \in DOMAIN Bodies, Record(d, body)
        PROVE  HandlerInv'
    BY <1>1, <2>2, RecordKeeps
  <2>3. ASSUME NEW d \in Devices, NEW off \in Offsets, SetClock(d, off)
        PROVE  HandlerInv'
    BY <1>1, <2>3, SetClockKeeps
  <2>4. ASSUME NEW c \in Connections, NEW d \in Devices, Post(c, d)
        PROVE  HandlerInv'
    BY <1>1, <2>4, PostKeeps
  <2>5. ASSUME NEW c \in Connections, GiveUp(c) \/ Handle(c)
        PROVE  HandlerInv'
    BY <1>1, <2>5, GiveUpKeeps, HandleKeeps
  <2>6. CASE TimePasses \/ Die \/ \E edition \in Editions : Swapped(edition)
    BY <1>1, <2>6, ServerKeeps
  <2> QED  BY <1>1, <2>1, <2>2, <2>3, <2>4, <2>5, <2>6 DEF IngestNext
<1> QED  BY <1>1, HandlerBegins, PTL DEF IngestSpec

\* A device drops its batch only when every event of it is stored, or rejected
\* for a reason of its own, or the body can never be read.
THEOREM NoEventIsSwallowed == IngestSpec => []NothingSwallowed
<1>1. HandlerInv => NothingSwallowed
  BY DEF HandlerInv, SettledWithReason, Justified, NothingSwallowed
<1> QED  BY <1>1, HandlerInvariance, PTL

\* However far off a device's clock is, its events are stored at times between
\* their recording and their receipt, unless the clock was set in between.
THEOREM ClocksAreCorrected == IngestSpec => []ClockCorrected
<1>1. HandlerInv => ClockCorrected
  BY DEF HandlerInv, StoredInTime, Timely, ClockCorrected
<1> QED  BY <1>1, HandlerInvariance, PTL

\* The answers never make more events accepted than are stored, though
\* requests with the same events overlap, fail and are repeated.
THEOREM NothingIsReportedTwice == IngestSpec => []ReportedOnce
<1>1. HandlerInv => ReportedOnce
  BY DEF HandlerInv, Counted
<1> QED  BY <1>1, HandlerInvariance, PTL

-----------------------------------------------------------------------------
(* The supervisor.  There is one monitor that has something left to do at  *)
(* most, and it is the current child's: this is what lets stop, which      *)
(* waits for the current child alone, leave nothing behind.                *)

SupervisorTypes ==
  /\ call \in {"idle", "terminating", "settling"}
  /\ spawned \in Nat /\ child \in 0 .. spawned
  /\ DOMAIN monitor = Children

OneMonitor == \A g \in Children : ~Over(monitor[g]) => g = child

OneLifeline == lifelines \subseteq {child} \ {NoChild}

StoppedForGood == puma /\ call = "idle" /\ ~started => child = NoChild

StopHasAChild ==
  /\ call # "idle" => puma
  /\ started \/ call # "idle" => child # NoChild

SupervisorInv ==
  SupervisorTypes /\ OneMonitor /\ OneLifeline /\ StoppedForGood /\ StopHasAChild

LEMMA SupervisorInvariance == SupervisorSpec => []SupervisorInv
<1>1. ASSUME SupervisorInit
      PROVE  SupervisorInv
  <2>1. SupervisorTypes
    BY <1>1 DEF SupervisorInit, SupervisorTypes, NoChild
  <2>2. OneMonitor
    BY <1>1 DEF SupervisorInit, OneMonitor, Over
  <2>3. OneLifeline /\ StoppedForGood /\ StopHasAChild
    BY <1>1 DEF SupervisorInit, OneLifeline, StoppedForGood, StopHasAChild
  <2> QED  BY <2>1, <2>2, <2>3 DEF SupervisorInv
<1>2. ASSUME SupervisorInv, [SupervisorNext]_supervisorVars
      PROVE  SupervisorInv'
  <2> USE DEF SupervisorInv, SupervisorTypes, OneMonitor, OneLifeline, StoppedForGood,
              StopHasAChild, NoChild
  <2>1. CASE UNCHANGED supervisorVars
    BY <1>2, <2>1 DEF supervisorVars, callerVars, processVars, Over
  <2>2. CASE StartSupervisor
    <3>1. \A g \in Children : Over(monitor[g])
      BY <1>2, <2>2 DEF StartSupervisor, Children
    <3>2. /\ spawned' = spawned + 1 /\ child' = spawned + 1 /\ lifelines' = {spawned + 1}
          /\ monitor' = [monitor EXCEPT ![spawned + 1] = "waiting"]
          /\ started' = TRUE /\ stopping' = FALSE /\ puma' = puma /\ call' = call
          /\ call = "idle"
      BY <2>2 DEF StartSupervisor, Spawn, Lifelines
    <3>3. SupervisorTypes'
      BY <1>2, <3>2
    <3>4. OneMonitor'
      BY <1>2, <3>1, <3>2 DEF Over
    <3>5. OneLifeline' /\ StoppedForGood' /\ StopHasAChild'
      BY <1>2, <3>2
    <3> QED  BY <3>3, <3>4, <3>5
  <2>3. CASE StartSupervisorFails
    BY <1>2, <2>3 DEF StartSupervisorFails, Over
  <2>4. CASE StopBegins
    <3>1. /\ UNCHANGED <<puma, started, child, lifelines, monitor, spawned>>
          /\ stopping' = TRUE /\ call' = "terminating" /\ puma
          /\ started \/ child # NoChild
      BY <2>4 DEF StopBegins
    <3> QED  BY <1>2, <3>1 DEF Over
  <2>5. CASE Terminate
    BY <1>2, <2>5 DEF Terminate, Over
  <2>6. CASE Kill
    BY <1>2, <2>6 DEF Kill, callerVars, Over
  <2>7. CASE StopEnds
    <3>1. \A g \in Children : Over(monitor[g])
      BY <1>2, <2>7 DEF StopEnds, Settled
    <3>2. /\ child' = NoChild /\ lifelines' = lifelines \ {child} /\ call' = "idle"
          /\ started' = FALSE /\ UNCHANGED <<puma, stopping, monitor, spawned>>
      BY <2>7 DEF StopEnds
    <3> QED  BY <1>2, <3>1, <3>2 DEF Over
  <2>8. CASE PumaDies
    BY <1>2, <2>8 DEF PumaDies, Over
  <2>9. ASSUME NEW g \in Children, Processes(g) \/ ServerDies(g) \/ Drain(g) \/ LeaderDies(g)
        PROVE  SupervisorInv'
    <3>1. UNCHANGED <<callerVars, child, attempts, lifelines, monitor, spawned>>
      BY <2>9 DEF Processes, Bind, BindFails, LifelineCloses, HardExit, LeaderEnds,
                  ServerDies, Drain, LeaderDies, ProcessesOnly
    <3> QED  BY <1>2, <3>1 DEF callerVars, Over
  <2>10. ASSUME NEW g \in Children, Reap(g) \/ LookWhetherStopping(g) \/ RespawnNoMore(g)
         PROVE  SupervisorInv'
    <3>1. /\ UNCHANGED <<callerVars, child, lifelines, spawned>>
          /\ monitor[g] \in {"waiting", "exited", "respawning"}
          /\ \E state : monitor' = [monitor EXCEPT ![g] = state]
      BY <2>10 DEF Reap, LookWhetherStopping, RespawnNoMore
    <3> QED  BY <1>2, <3>1 DEF callerVars, Over
  <2>11. ASSUME NEW g \in Children, NEW tried \in 0 .. RESPAWN_LIMIT, Respawn(g, tried)
         PROVE  SupervisorInv'
    <3>1. g = child /\ \A other \in Children : other # g => Over(monitor[other])
      BY <1>2, <2>11 DEF Respawn, Over
    <3>2. /\ spawned' = spawned + 1 /\ child' = spawned + 1 /\ lifelines' = {spawned + 1}
          /\ monitor' = [monitor EXCEPT ![g] = "done", ![spawned + 1] = "waiting"]
          /\ UNCHANGED callerVars
      BY <2>11 DEF Respawn, Lifelines
    <3>3. \A other \in Children : other # spawned + 1 => Over(monitor'[other])
      BY <1>2, <3>1, <3>2 DEF Over
    <3>4. started \/ call # "idle" \/ ~puma
      BY <1>2, <2>11, <3>1 DEF Children
    <3> QED  BY <1>2, <3>2, <3>3, <3>4 DEF callerVars
  <2>12. ASSUME NEW g \in Children, RespawnFails(g)
         PROVE  SupervisorInv'
    BY <1>2, <2>12 DEF RespawnFails, callerVars, Over
  <2> QED
    BY <1>2, <2>1, <2>2, <2>3, <2>4, <2>5, <2>6, <2>7, <2>8, <2>9, <2>10, <2>11, <2>12
       DEF SupervisorNext, Stops, Monitors
<1> QED  BY <1>1, <1>2, PTL DEF SupervisorSpec

\* Once stop has returned there is nothing left that could start another
\* server: no monitor that has yet to learn of it, no lifeline held open.
THEOREM NothingIsForgotten == SupervisorSpec => []NoneForgotten
<1>1. SupervisorInv => NoneForgotten
  BY DEF SupervisorInv, OneMonitor, OneLifeline, StoppedForGood, NoneForgotten, Children, NoChild
<1> QED  BY <1>1, SupervisorInvariance, PTL

-----------------------------------------------------------------------------
(* The rate limiter.  AdmissionBounded speaks of the watch alone, which    *)
(* says nothing of what the watched bucket still holds: the inductive      *)
(* invariant counts both, the requests allowed and the tokens left,        *)
(* against the burst and what the rate has brought up to the watch's mark. *)

\* The time that may have brought tokens to the watched bucket.
Span(w) == w.mark - w.from + w.rewound

\* The watched bucket's account: allowed and left, against burst and rate.
Account(w, bucket) ==
  /\ Span(w) >= 0
  /\ bucket = NoBucket => w.allowed * Unit <= MaxRate * Span(w)
  /\ bucket # NoBucket =>
       /\ w.allowed * Unit + bucket.tokens <= MaxBurst + MaxRate * Span(w)
       /\ w.allowed = 0 \/ bucket.refreshed = w.mark

\* No instant is ahead of the clock.
InThePast ==
  /\ \A r \in Checks : measured[r].at <= instant
  /\ watch.mark <= instant
  /\ watch = NoWatch \/ watch.client \in Clients

LimiterInv ==
  /\ LimiterTypeOK
  /\ InThePast
  /\ watch # NoWatch => Account(watch, buckets[watch.client])

-----------------------------------------------------------------------------
LEMMA Distributes == ASSUME NEW a \in Int, NEW b \in Int, NEW c \in Int
                     PROVE  a * (b + c) = a * b + a * c
OBVIOUS

LEMMA Product == ASSUME NEW a \in Nat, NEW b \in Nat PROVE a * b \in Nat
OBVIOUS

LEMMA Monotone == ASSUME NEW a \in Nat, NEW b \in Int, NEW c \in Int, b <= c
                  PROVE  a * b <= a * c
<1>1. c = b + (c - b) /\ c - b \in Nat
  OBVIOUS
<1>2. a * c = a * b + a * (c - b)
  BY <1>1, Distributes
<1>3. a * (c - b) \in Nat
  BY <1>1
<1>4. a * b \in Int
  OBVIOUS
<1>5. QED
  BY <1>2, <1>3, <1>4

Bucket == [tokens : 0 .. MaxBurst, refreshed : Instants]
Watched == [client : Clients, from : Instants, mark : Instants, allowed : Nat, rewound : Nat]

LEMMA ElapsedIsTime == ASSUME NEW from \in Int, NEW to \in Int
                       PROVE  /\ Elapsed(from, to) \in Nat
                              /\ to - from <= Elapsed(from, to)
                              /\ from <= to => Elapsed(from, to) = to - from
BY DEF Elapsed

\* Refilling never loses a token, nor exceeds the burst.
LEMMA RefilledWithin ==
  ASSUME NEW bucket \in Bucket, NEW limit \in Limits, NEW moment \in Nat
  PROVE  LET tokens == Refilled(bucket, limit, moment) IN
         /\ tokens \in 0 .. MaxBurst /\ tokens <= limit.burst
         /\ tokens <= bucket.tokens + MaxRate * Elapsed(bucket.refreshed, moment)
<1> DEFINE time == Elapsed(bucket.refreshed, moment)
<1>1. time \in Nat
  <2>1. bucket.refreshed \in Int /\ moment \in Int
    BY RateLimiterAssumption DEF Bucket, Instants
  <2>2. QED
    BY <2>1, ElapsedIsTime
<1>2. limit.rate \in Nat /\ limit.rate <= MaxRate /\ limit.burst \in 0 .. MaxBurst
  BY RateLimiterAssumption
<1>3. limit.rate * time \in Nat
  BY <1>1, <1>2
<1>4. time * limit.rate <= time * MaxRate
  BY <1>1, <1>2, Monotone, RateLimiterAssumption
<1>5. limit.rate * time <= MaxRate * time
  BY <1>1, <1>2, <1>4, RateLimiterAssumption
<1>6. MaxRate * time \in Nat
  BY <1>1, RateLimiterAssumption
<1>7. bucket.tokens \in Nat
  BY DEF Bucket
<1> HIDE DEF time
<1>8. Refilled(bucket, limit, moment) = Smaller(bucket.tokens + limit.rate * time, limit.burst)
  BY DEF Refilled, time
<1>9. QED
  BY <1>2, <1>3, <1>5, <1>6, <1>7, <1>8, RateLimiterAssumption DEF Smaller, time

LEMMA NoBucketIsNone == NoBucket \notin Bucket
BY DEF NoBucket, Bucket, Instants, Unset

LEMMA PrunedType ==
  ASSUME LimiterTypeOK, NEW moment \in Instants
  PROVE  Pruned(moment) \in [Clients -> {NoBucket} \union Bucket]
BY DEF LimiterTypeOK, Pruned, Bucket

LEMMA EnteredType ==
  ASSUME NEW bucket \in {NoBucket} \union Bucket, NEW limit \in Limits, NEW moment \in Instants
  PROVE  /\ Entered(bucket, limit, moment) \in Bucket
         /\ bucket = NoBucket => Entered(bucket, limit, moment) = [tokens |-> limit.burst, refreshed |-> moment]
         /\ bucket # NoBucket => Entered(bucket, limit, moment) = bucket
<1>1. limit.burst \in 0 .. MaxBurst
  BY RateLimiterAssumption
<1>2. QED
  BY <1>1 DEF Entered, Bucket

\* What a checked request finds in its client's bucket.
Found(c, limit, moment) == Refilled(Entered(Pruned(moment)[c], limit, moment), limit, moment)

LEMMA FoundWithin ==
  ASSUME LimiterTypeOK, NEW c \in Clients, NEW limit \in Limits, NEW moment \in Instants
  PROVE  Found(c, limit, moment) \in 0 .. MaxBurst /\ Found(c, limit, moment) <= limit.burst
<1>1. Pruned(moment)[c] \in {NoBucket} \union Bucket
  BY PrunedType
<1>2. Entered(Pruned(moment)[c], limit, moment) \in Bucket
  BY <1>1, EnteredType
<1>3. moment \in Nat
  BY DEF Instants
<1>4. QED
  BY <1>2, <1>3, RefilledWithin DEF Found

-----------------------------------------------------------------------------
\* The watch stays a watch, whatever is checked or pruned.
LEMMA WatchCheckedType ==
  ASSUME NEW w \in {NoWatch} \union Watched, NEW c \in Clients, NEW moment \in Instants, NEW n \in {0, 1}
  PROVE  WatchChecked(w, c, moment, n) \in {NoWatch} \union Watched
<1>1. CASE w.client # c
  BY <1>1 DEF WatchChecked
<1>2. CASE w.client = c
  <2>1. w \in Watched
    BY <1>2, RateLimiterAssumption DEF NoWatch
  <2>2. Elapsed(moment, w.mark) \in Nat
    BY <2>1, ElapsedIsTime DEF Watched, Instants
  <2>3. w.allowed + n \in Nat /\ w.rewound + Elapsed(moment, w.mark) \in Nat
    BY <2>1, <2>2 DEF Watched
  <2>4. QED
    BY <1>2, <2>1, <2>3 DEF WatchChecked, Watched
<1>3. QED
  BY <1>1, <1>2

LEMMA WatchPrunedType ==
  ASSUME LimiterTypeOK, NEW moment \in Instants
  PROVE  WatchPruned(watch, moment) \in {NoWatch} \union Watched
<1>1. CASE watch = NoWatch
  BY <1>1, RateLimiterAssumption DEF WatchPruned, NoWatch, Present
<1>2. CASE watch # NoWatch
  <2>1. watch \in Watched
    BY <1>2 DEF LimiterTypeOK, Watched
  <2>2. Larger(watch.mark, moment) \in Instants
    BY <2>1 DEF Larger, Watched
  <2>3. QED
    BY <2>1, <2>2 DEF WatchPruned, Watched
<1>3. QED
  BY <1>1, <1>2

\* A check keeps the types, whether it allows the request or refuses it.
LEMMA CheckType ==
  ASSUME LimiterTypeOK, NEW r \in Checks, measured[r] # Unmeasured, NEW limit \in Limits,
         NEW n \in {0, 1}, NEW left \in 0 .. MaxBurst,
         buckets' = [Pruned(measured[r].at) EXCEPT
                       ![measured[r].client] = [tokens |-> left, refreshed |-> measured[r].at]],
         watch' = WatchChecked(WatchPruned(watch, measured[r].at),
                               measured[r].client, measured[r].at, n),
         measured' = [measured EXCEPT ![r] = Unmeasured]
  PROVE  /\ measured' \in [Checks -> {Unmeasured} \union [client : Clients, at : Instants]]
         /\ buckets' \in [Clients -> {NoBucket} \union Bucket]
         /\ watch' \in {NoWatch} \union Watched
<1>1. measured[r].client \in Clients /\ measured[r].at \in Instants
  BY DEF LimiterTypeOK
<1>2. measured' \in [Checks -> {Unmeasured} \union [client : Clients, at : Instants]]
  BY DEF LimiterTypeOK
<1>3. [tokens |-> left, refreshed |-> measured[r].at] \in Bucket
  BY <1>1 DEF Bucket
<1>4. buckets' \in [Clients -> {NoBucket} \union Bucket]
  BY <1>1, <1>3, PrunedType
<1>5. watch' \in {NoWatch} \union Watched
  BY <1>1, WatchPrunedType, WatchCheckedType
<1>6. QED
  BY <1>2, <1>4, <1>5

\* Whatever requests are checked in whatever order, the state keeps its type
\* (LimiterTypeOK): no bucket ever holds less than nothing or more than a burst.
THEOREM LimiterTypeCorrect == LimiterSpec => []LimiterTypeOK
<1>1. LimiterInit => LimiterTypeOK
  BY RateLimiterAssumption DEF LimiterInit, LimiterTypeOK, Instants
<1>2. LimiterTypeOK /\ [LimiterNext]_limiterVars => LimiterTypeOK'
  <2> SUFFICES ASSUME LimiterTypeOK, [LimiterNext]_limiterVars PROVE LimiterTypeOK'
    OBVIOUS
  <2>1. ASSUME NEW r \in Checks, NEW c \in Clients, Measure(r, c) PROVE LimiterTypeOK'
    BY <2>1 DEF LimiterTypeOK, Measure
  <2>2. ASSUME NEW r \in Checks, NEW limit \in Limits, Allow(r, limit) PROVE LimiterTypeOK'
    <3> DEFINE c == measured[r].client
               moment == measured[r].at
    <3>1. measured[r] # Unmeasured
      BY <2>2 DEF Allow
    <3>2. c \in Clients /\ moment \in Instants
      BY <3>1 DEF LimiterTypeOK
    <3>3. Found(c, limit, moment) \in 0 .. MaxBurst
      BY <3>2, FoundWithin
    <3>4. Found(c, limit, moment) - Unit \in 0 .. MaxBurst
      BY <2>2, <3>3, RateLimiterAssumption DEF Allow, Found
    <3>5. /\ measured' \in [Checks -> {Unmeasured} \union [client : Clients, at : Instants]]
          /\ buckets' \in [Clients -> {NoBucket} \union Bucket]
          /\ watch' \in {NoWatch} \union Watched
      BY <2>2, <3>1, <3>4, CheckType DEF Allow, Found
    <3>6. promised' \in [Clients -> {NoPromise} \union [at : Nat, limit : Limits]]
      BY <2>2 DEF Allow, LimiterTypeOK
    <3>7. QED
      BY <2>2, <3>5, <3>6 DEF Allow, LimiterTypeOK, Bucket, Watched
  <2>3. ASSUME NEW r \in Checks, NEW limit \in Limits, NEW wait \in 1 .. Unit,
               Refuse(r, limit, wait)
        PROVE  LimiterTypeOK'
    <3> DEFINE c == measured[r].client
               moment == measured[r].at
    <3>1. measured[r] # Unmeasured
      BY <2>3 DEF Refuse
    <3>2. c \in Clients /\ moment \in Instants
      BY <3>1 DEF LimiterTypeOK
    <3>3. Found(c, limit, moment) \in 0 .. MaxBurst
      BY <3>2, FoundWithin
    <3>4. /\ measured' \in [Checks -> {Unmeasured} \union [client : Clients, at : Instants]]
          /\ buckets' \in [Clients -> {NoBucket} \union Bucket]
          /\ watch' \in {NoWatch} \union Watched
      BY <2>3, <3>1, <3>3, CheckType DEF Refuse, Found
    <3>5. [at |-> moment + wait, limit |-> limit] \in [at : Nat, limit : Limits]
      BY <3>2, RateLimiterAssumption DEF Instants
    <3>6. promised' \in [Clients -> {NoPromise} \union [at : Nat, limit : Limits]]
      BY <2>3, <3>5 DEF Refuse, Told, LimiterTypeOK
    <3>7. QED
      BY <2>3, <3>4, <3>6 DEF Refuse, LimiterTypeOK, Bucket, Watched
  <2>4. ASSUME NEW c \in Clients, Watch(c) PROVE LimiterTypeOK'
    BY <2>4 DEF LimiterTypeOK, Watch, NoWatch
  <2>5. CASE InstantPasses
    BY <2>5, RateLimiterAssumption DEF LimiterTypeOK, InstantPasses, Instants
  <2>6. CASE UNCHANGED limiterVars
    BY <2>6 DEF LimiterTypeOK, limiterVars
  <2>7. QED
    BY <2>1, <2>2, <2>3, <2>4, <2>5, <2>6 DEF LimiterNext
<1>3. QED
  BY <1>1, <1>2, PTL DEF LimiterSpec

-----------------------------------------------------------------------------
LEMMA WatchedClient == ASSUME LimiterTypeOK
                       PROVE  watch # NoWatch => watch \in Watched
BY DEF LimiterTypeOK, Watched

\* Pruning keeps the account: an idle bucket that goes would be full again.
LEMMA PruningAccounts ==
  ASSUME LimiterTypeOK, NEW moment \in Instants, watch # NoWatch,
         Account(watch, buckets[watch.client])
  PROVE  LET w == WatchPruned(watch, moment) IN
         /\ w \in Watched /\ w.client = watch.client /\ w.mark >= watch.mark
         /\ w.mark = watch.mark \/ w.mark = moment
         /\ Account(w, Pruned(moment)[watch.client])
<1> DEFINE c == watch.client
           b == buckets[c]
           w == WatchPruned(watch, moment)
<1>1. watch \in Watched /\ c \in Clients
  BY WatchedClient DEF Watched
<1>2. b \in {NoBucket} \union Bucket
  BY <1>1 DEF LimiterTypeOK, Bucket
<1>3. CASE Pruned(moment)[c] = b
  <2>1. w = watch
    BY <1>1, <1>3 DEF WatchPruned, Present
  <2>2. QED
    BY <1>1, <1>3, <2>1 DEF Watched, Instants
<1>4. CASE Pruned(moment)[c] # b
  <2>1. c \in Present /\ ~(Elapsed(b.refreshed, moment) < IDLE) /\ Pruned(moment)[c] = NoBucket
    BY <1>1, <1>4 DEF Pruned, Present
  <2>2. w = [watch EXCEPT !.mark = Larger(@, moment)]
    BY <2>1 DEF WatchPruned
  <2>3. b \in Bucket /\ b # NoBucket
    BY <1>2, <2>1 DEF Present
  <2>4. /\ w \in Watched /\ w.client = c /\ w.mark >= watch.mark /\ w.mark >= moment
        /\ w.mark = watch.mark \/ w.mark = moment
        /\ w.from = watch.from /\ w.allowed = watch.allowed /\ w.rewound = watch.rewound
    <3>1. watch.mark \in Int /\ moment \in Int
      BY <1>1, RateLimiterAssumption DEF Watched, Instants
    <3>2. Larger(watch.mark, moment) \in Instants
      BY <1>1 DEF Larger, Watched
    <3>3. w.mark = Larger(watch.mark, moment)
      BY <1>1, <2>2 DEF Watched
    <3>4. Larger(watch.mark, moment) >= watch.mark /\ Larger(watch.mark, moment) >= moment
      BY <3>1 DEF Larger
    <3>5. w \in Watched
      BY <1>1, <2>2, <3>2 DEF Watched
    <3>6. Larger(watch.mark, moment) \in {watch.mark, moment}
      BY DEF Larger
    <3>7. QED
      BY <1>1, <2>2, <3>3, <3>4, <3>5, <3>6 DEF Watched
  <2> HIDE DEF w
  <2>5. /\ watch.mark \in Int /\ watch.from \in Int /\ watch.rewound \in Nat /\ watch.allowed \in Nat
        /\ w.mark \in Int /\ b.refreshed \in Int /\ moment \in Int /\ b.tokens \in Nat
    BY <1>1, <2>3, <2>4, RateLimiterAssumption DEF Watched, Bucket, Instants
  <2>6. Span(watch) \in Nat /\ Span(w) \in Nat /\ Span(w) = Span(watch) + (w.mark - watch.mark)
    BY <2>4, <2>5 DEF Span, Account
  <2>7. w.allowed * Unit <= MaxRate * Span(w)
    <3>1. CASE watch.allowed = 0
      BY <2>4, <2>6, <3>1, RateLimiterAssumption
    <3>2. CASE b.refreshed = watch.mark
      <4>1. w.mark - watch.mark >= IDLE
        BY <2>1, <2>4, <2>5, <3>2, RateLimiterAssumption DEF Elapsed
      <4>2. MaxRate * IDLE <= MaxRate * (w.mark - watch.mark)
        BY <4>1, <2>5, Monotone, RateLimiterAssumption
      <4>3. MaxRate * Span(w) = MaxRate * Span(watch) + MaxRate * (w.mark - watch.mark)
        BY <2>5, <2>6, Distributes, RateLimiterAssumption
      <4>4. watch.allowed * Unit + b.tokens <= MaxBurst + MaxRate * Span(watch)
        BY <2>3 DEF Account
      <4>5. /\ {watch.allowed * Unit, MaxRate * Span(watch), MaxRate * IDLE} \subseteq Int
            /\ MaxRate * (w.mark - watch.mark) \in Int
        BY <2>5, <2>6, RateLimiterAssumption
      <4>6. QED
        BY <2>4, <2>5, <4>2, <4>3, <4>4, <4>5, IdleAssumption, RateLimiterAssumption
    <3>3. QED
      BY <2>3, <3>1, <3>2 DEF Account
  <2>8. Account(w, NoBucket)
    BY <2>6, <2>7 DEF Account
  <2>9. QED
    BY <2>1, <2>4, <2>8 DEF w
<1>5. QED
  BY <1>3, <1>4

\* A check of the watched client keeps the account: what it allows is taken
\* from the bucket, and what refills the bucket is time that the watch counts.
LEMMA CheckingAccounts ==
  ASSUME NEW w \in Watched, NEW bucket \in {NoBucket} \union Bucket, Account(w, bucket),
         NEW moment \in Instants, NEW limit \in Limits, NEW n \in {0, 1}, NEW left \in Nat,
         left + n * Unit = Refilled(Entered(bucket, limit, moment), limit, moment)
  PROVE  Account(WatchChecked(w, w.client, moment, n), [tokens |-> left, refreshed |-> moment])
<1> DEFINE v == WatchChecked(w, w.client, moment, n)
           e == Entered(bucket, limit, moment)
           tokens == Refilled(e, limit, moment)
<1>1. /\ w.mark \in Int /\ w.from \in Int /\ w.rewound \in Nat /\ w.allowed \in Nat /\ moment \in Nat
  BY RateLimiterAssumption DEF Watched, Instants
<1>2. /\ v.mark = moment /\ v.from = w.from /\ v.allowed = w.allowed + n
      /\ v.rewound = w.rewound + Elapsed(moment, w.mark)
  BY DEF WatchChecked, Watched
<1>3. Elapsed(moment, w.mark) \in Nat /\ Elapsed(w.mark, moment) \in Nat
  <2>1. moment \in Int
    BY <1>1
  <2>2. QED
    BY <1>1, <2>1, ElapsedIsTime
<1>4. Span(v) = Span(w) + Elapsed(w.mark, moment)
  BY <1>1, <1>2 DEF Span, Elapsed
<1>5. Span(w) \in Nat
  BY <1>1 DEF Span, Account
<1>6. e \in Bucket
  BY EnteredType
<1>7. /\ tokens \in 0 .. MaxBurst /\ tokens <= limit.burst
      /\ tokens <= e.tokens + MaxRate * Elapsed(e.refreshed, moment)
  BY <1>1, <1>6, RefilledWithin
<1> HIDE DEF v, e, tokens
<1>8. MaxRate * Span(v) = MaxRate * Span(w) + MaxRate * Elapsed(w.mark, moment)
  BY <1>3, <1>4, <1>5, Distributes, RateLimiterAssumption
<1>9. /\ MaxRate * Span(w) \in Nat /\ MaxRate * Elapsed(w.mark, moment) \in Nat
      /\ w.allowed * Unit \in Nat /\ n * Unit \in Nat
  <2>1. MaxRate \in Nat /\ Unit \in Nat /\ n \in Nat
    BY RateLimiterAssumption
  <2>2. QED
    BY <1>1, <1>3, <1>5, <2>1, Product
<1>10. v.allowed * Unit + left = w.allowed * Unit + tokens
  <2>1. v.allowed * Unit = w.allowed * Unit + n * Unit
    <3>1. Unit * (w.allowed + n) = Unit * w.allowed + Unit * n
      <4>1. Unit \in Int /\ w.allowed \in Int /\ n \in Int
        BY <1>1, RateLimiterAssumption
      <4>2. QED
        BY <4>1, Distributes, Zenon
    <3>2. QED
      BY <1>1, <1>2, <3>1, RateLimiterAssumption
  <2>2. QED
    BY <1>9, <2>1 DEF tokens, e
<1>11. w.allowed * Unit + tokens <= MaxBurst + MaxRate * Span(v)
  <2>1. CASE bucket = NoBucket
    <3>1. w.allowed * Unit <= MaxRate * Span(w)
      BY <2>1 DEF Account
    <3>2. QED
      BY <1>7, <1>8, <1>9, <3>1, RateLimiterAssumption
  <2>2. CASE bucket # NoBucket
    <3>1. e = bucket
      BY <2>2, EnteredType DEF e
    <3>2. w.allowed * Unit + bucket.tokens <= MaxBurst + MaxRate * Span(w)
      BY <2>2 DEF Account
    <3>3. CASE w.allowed = 0
      BY <1>7, <1>8, <1>9, <3>3, RateLimiterAssumption
    <3>4. CASE bucket.refreshed = w.mark
      <4>1. tokens <= bucket.tokens + MaxRate * Elapsed(w.mark, moment)
        BY <1>7, <3>1, <3>4
      <4>2. bucket.tokens \in Nat
        BY <1>6, <3>1 DEF Bucket
      <4>3. QED
        BY <1>7, <1>8, <1>9, <3>2, <4>1, <4>2, RateLimiterAssumption
    <3>5. QED
      BY <2>2, <3>3, <3>4 DEF Account
  <2>3. QED
    BY <2>1, <2>2
<1>12. Span(v) >= 0
  BY <1>3, <1>4, <1>5
<1>13. v.allowed * Unit + left <= MaxBurst + MaxRate * Span(v)
  BY <1>10, <1>11
<1>14. [tokens |-> left, refreshed |-> moment] # NoBucket
  BY <1>1 DEF NoBucket, Unset
<1>15. Account(v, [tokens |-> left, refreshed |-> moment])
  BY <1>2, <1>12, <1>13, <1>14 DEF Account
<1>16. QED
  BY <1>15 DEF v

\* A check keeps the invariant, whether it allows the request or refuses it.
LEMMA CheckKeeps ==
  ASSUME LimiterInv, NEW r \in Checks, measured[r] # Unmeasured, NEW limit \in Limits,
         NEW n \in {0, 1}, NEW left \in Nat,
         left + n * Unit = Found(measured[r].client, limit, measured[r].at),
         buckets' = [Pruned(measured[r].at) EXCEPT
                       ![measured[r].client] = [tokens |-> left, refreshed |-> measured[r].at]],
         watch' = WatchChecked(WatchPruned(watch, measured[r].at),
                               measured[r].client, measured[r].at, n),
         measured' = [measured EXCEPT ![r] = Unmeasured],
         instant' = instant
  PROVE  InThePast' /\ (watch' # NoWatch => Account(watch', buckets'[watch'.client]))
<1> DEFINE c == measured[r].client
           moment == measured[r].at
           w == WatchPruned(watch, moment)
<1>1. LimiterTypeOK /\ c \in Clients /\ moment \in Instants /\ moment <= instant /\ instant \in Nat
  BY DEF LimiterInv, LimiterTypeOK, InThePast, Instants
<1>2. \A q \in Checks : measured'[q].at <= instant'
  <2>1. Unmeasured.at <= instant
    BY <1>1 DEF Unmeasured, Unset
  <2>2. measured \in [Checks -> {Unmeasured} \union [client : Clients, at : Instants]]
    BY <1>1 DEF LimiterTypeOK
  <2>3. QED
    BY <2>1, <2>2 DEF LimiterInv, InThePast
<1>3. CASE watch = NoWatch
  <2>1. w = NoWatch
    BY <1>3, RateLimiterAssumption DEF WatchPruned, NoWatch, Present
  <2>2. watch' = NoWatch
    BY <1>1, <2>1, RateLimiterAssumption DEF WatchChecked, NoWatch
  <2>3. watch'.mark <= instant'
    BY <1>1, <2>2 DEF NoWatch
  <2>4. QED
    BY <1>2, <2>2, <2>3 DEF InThePast
<1>4. CASE watch # NoWatch
  <2>1. /\ w \in Watched /\ w.client = watch.client /\ w.client \in Clients
        /\ w.mark = watch.mark \/ w.mark = moment
        /\ Account(w, Pruned(moment)[w.client])
    BY <1>1, <1>4, PruningAccounts DEF LimiterInv, InThePast
  <2>2. w.mark <= instant
    BY <1>1, <2>1 DEF LimiterInv, InThePast
  <2>3. Pruned(moment) \in [Clients -> {NoBucket} \union Bucket]
    BY <1>1, PrunedType
  <2> HIDE DEF w
  <2>4. watch' = WatchChecked(w, c, moment, n)
    BY DEF w
  <2>5. CASE w.client # c
    <3>1. watch' = w /\ buckets'[w.client] = Pruned(moment)[w.client]
      BY <2>1, <2>3, <2>4, <2>5 DEF WatchChecked
    <3>2. QED
      BY <1>2, <2>1, <2>2, <3>1 DEF InThePast
  <2>6. CASE w.client = c
    <3>1. Account(WatchChecked(w, w.client, moment, n), [tokens |-> left, refreshed |-> moment])
      <4>1. Pruned(moment)[c] \in {NoBucket} \union Bucket /\ Account(w, Pruned(moment)[c])
        BY <1>1, <2>1, <2>3, <2>6
      <4>2. left + n * Unit = Refilled(Entered(Pruned(moment)[c], limit, moment), limit, moment)
        BY DEF Found
      <4>3. QED
        BY <1>1, <2>1, <4>1, <4>2, CheckingAccounts
    <3>2. watch'.client = c /\ watch'.mark = moment
      BY <2>1, <2>4, <2>6 DEF WatchChecked, Watched
    <3>3. buckets'[c] = [tokens |-> left, refreshed |-> moment]
      BY <1>1, <2>3
    <3>4. Account(watch', buckets'[watch'.client])
      BY <2>4, <2>6, <3>1, <3>2, <3>3
    <3>5. watch'.mark <= instant'
      BY <1>1, <3>2
    <3>6. QED
      BY <1>1, <1>2, <3>2, <3>4, <3>5 DEF InThePast
  <2>7. QED
    BY <2>5, <2>6
<1>5. QED
  BY <1>3, <1>4

LEMMA LimiterInvariant == LimiterSpec => []LimiterInv
<1>1. LimiterInit => LimiterInv
  <2>1. LimiterInit => LimiterTypeOK
    BY RateLimiterAssumption DEF LimiterInit, LimiterTypeOK, Instants
  <2>2. LimiterInit => InThePast /\ watch = NoWatch
    BY DEF LimiterInit, InThePast, Unmeasured, NoWatch, Unset
  <2>3. QED
    BY <2>1, <2>2 DEF LimiterInv
<1>2. LimiterInv /\ LimiterTypeOK' /\ [LimiterNext]_limiterVars => LimiterInv'
  <2> SUFFICES ASSUME LimiterInv, LimiterTypeOK', [LimiterNext]_limiterVars
               PROVE  InThePast' /\ (watch' # NoWatch => Account(watch', buckets'[watch'.client]))
    BY DEF LimiterInv
  <2>1. ASSUME NEW r \in Checks, NEW c \in Clients, Measure(r, c)
        PROVE  InThePast' /\ (watch' # NoWatch => Account(watch', buckets'[watch'.client]))
    <3>1. measured \in [Checks -> {Unmeasured} \union [client : Clients, at : Instants]] /\ instant \in Int
      BY RateLimiterAssumption DEF LimiterInv, LimiterTypeOK, Instants
    <3>2. \A q \in Checks : measured'[q].at <= instant'
      BY <2>1, <3>1 DEF LimiterInv, InThePast, Measure
    <3>3. QED
      BY <2>1, <3>2 DEF LimiterInv, InThePast, Measure
  <2>2. ASSUME NEW r \in Checks, NEW limit \in Limits, Allow(r, limit)
        PROVE  InThePast' /\ (watch' # NoWatch => Account(watch', buckets'[watch'.client]))
    <3> DEFINE tokens == Found(measured[r].client, limit, measured[r].at)
    <3>1. tokens \in 0 .. MaxBurst /\ tokens >= Unit
      BY <2>2, FoundWithin DEF Allow, Found, LimiterInv, LimiterTypeOK
    <3>2. tokens - Unit \in Nat /\ (tokens - Unit) + 1 * Unit = tokens
      BY <3>1, RateLimiterAssumption
    <3>3. QED
      BY <2>2, <3>2, CheckKeeps DEF Allow, Found
  <2>3. ASSUME NEW r \in Checks, NEW limit \in Limits, NEW wait \in 1 .. Unit,
               Refuse(r, limit, wait)
        PROVE  InThePast' /\ (watch' # NoWatch => Account(watch', buckets'[watch'.client]))
    <3> DEFINE tokens == Found(measured[r].client, limit, measured[r].at)
    <3>1. tokens \in 0 .. MaxBurst
      BY <2>3, FoundWithin DEF Refuse, LimiterInv, LimiterTypeOK
    <3>2. tokens \in Nat /\ tokens + 0 * Unit = tokens
      BY <3>1, RateLimiterAssumption
    <3>3. QED
      BY <2>3, <3>2, CheckKeeps DEF Refuse, Found
  <2>4. ASSUME NEW c \in Clients, Watch(c)
        PROVE  InThePast' /\ (watch' # NoWatch => Account(watch', buckets'[watch'.client]))
    <3>1. /\ watch'.client = c /\ watch'.from = instant /\ watch'.mark = instant
          /\ watch'.allowed = 0 /\ watch'.rewound = 0 /\ buckets' = buckets /\ instant' = instant
          /\ measured' = measured
      BY <2>4 DEF Watch, NoWatch
    <3>2. instant \in Nat /\ buckets[c] \in {NoBucket} \union Bucket
      BY DEF LimiterInv, LimiterTypeOK, Instants, Bucket
    <3>3. Span(watch') = 0 /\ watch'.allowed * Unit = 0 /\ MaxRate * 0 = 0
      BY <3>1, <3>2, RateLimiterAssumption DEF Span
    <3>4. Account(watch', buckets[c])
      BY <3>1, <3>2, <3>3, RateLimiterAssumption DEF Account, Bucket
    <3>5. QED
      BY <3>1, <3>2, <3>4 DEF LimiterInv, InThePast
  <2>5. CASE InstantPasses
    <3>1. /\ instant \in Int /\ watch.mark \in Int
          /\ \A q \in Checks : measured[q].at \in Int
      <4>1. Unmeasured.at \in Int /\ NoWatch.mark \in Int
        BY DEF Unmeasured, NoWatch, Unset
      <4>2. Instants \subseteq Int
        BY DEF Instants
      <4>3. QED
        BY <4>1, <4>2 DEF LimiterInv, LimiterTypeOK
    <3>2. QED
      BY <2>5, <3>1 DEF LimiterInv, InThePast, InstantPasses
  <2>6. CASE UNCHANGED limiterVars
    BY <2>6 DEF LimiterInv, InThePast, limiterVars
  <2>7. QED
    BY <2>1, <2>2, <2>3, <2>4, <2>5, <2>6 DEF LimiterNext
<1>3. QED
  BY <1>1, <1>2, LimiterTypeCorrect, PTL DEF LimiterSpec

\* In no stretch of time is a client allowed more than a burst and what the
\* rate brings in that time, and in the time by which requests checked later
\* than they were measured set its bucket back (AdmissionBounded): pruning
\* gives nothing away, because an idle bucket would be full again.
THEOREM AdmissionIsBounded == LimiterSpec => []AdmissionBounded
<1>1. LimiterInv => AdmissionBounded
  <2> SUFFICES ASSUME LimiterInv PROVE AdmissionBounded
    OBVIOUS
  <2>1. instant \in Nat
    BY DEF LimiterInv, LimiterTypeOK, Instants
  <2>2. CASE watch = NoWatch
    <3>1. MaxRate * (instant - 0 + 0) \in Nat
      BY <2>1, RateLimiterAssumption
    <3>2. QED
      BY <2>2, <3>1, RateLimiterAssumption DEF AdmissionBounded, NoWatch
  <2>3. CASE watch # NoWatch
    <3>1. /\ watch \in Watched /\ watch.client \in Clients /\ watch.mark <= instant
          /\ Account(watch, buckets[watch.client])
      BY <2>3, WatchedClient DEF LimiterInv, InThePast
    <3>2. watch.mark \in Int /\ watch.from \in Int /\ watch.rewound \in Int /\ watch.allowed \in Nat
      BY <3>1, RateLimiterAssumption DEF Watched, Instants
    <3>3. Span(watch) <= instant - watch.from + watch.rewound /\ Span(watch) \in Int
      BY <2>1, <3>1, <3>2 DEF Span
    <3>4. MaxRate * Span(watch) <= MaxRate * (instant - watch.from + watch.rewound)
      BY <2>1, <3>2, <3>3, Monotone, RateLimiterAssumption
    <3>5. buckets[watch.client] \in {NoBucket} \union Bucket
      BY <3>1 DEF LimiterInv, LimiterTypeOK, Bucket
    <3>6. watch.allowed * Unit <= MaxBurst + MaxRate * Span(watch)
      <4>1. watch.allowed * Unit \in Int /\ MaxRate * Span(watch) \in Int
        BY <3>2, <3>3, RateLimiterAssumption
      <4>2. QED
        BY <3>1, <3>5, <4>1, RateLimiterAssumption DEF Account, Bucket
    <3>7. /\ watch.allowed * Unit \in Int /\ MaxRate * Span(watch) \in Int
          /\ MaxRate * (instant - watch.from + watch.rewound) \in Int
      BY <2>1, <3>2, <3>3, RateLimiterAssumption
    <3>8. QED
      BY <3>4, <3>6, <3>7, RateLimiterAssumption DEF AdmissionBounded
  <2>4. QED
    BY <2>2, <2>3
<1>2. QED
  BY <1>1, LimiterInvariant, PTL

-----------------------------------------------------------------------------
\* A client whose bucket was pruned finds a full one.
LEMMA NewBucketSuffices ==
  ASSUME NEW limit \in Limits, NEW at \in Nat
  PROVE  Refilled(Entered(NoBucket, limit, at), limit, at) >= Unit
<1>1. Entered(NoBucket, limit, at) = [tokens |-> limit.burst, refreshed |-> at]
  BY DEF Entered
<1>2. Elapsed(at, at) = 0
  BY DEF Elapsed
<1>3. /\ limit.rate * 0 = 0 /\ limit.burst + 0 = limit.burst
      /\ limit.burst \in Nat /\ Unit <= limit.burst
  BY RateLimiterAssumption
<1>4. QED
  BY <1>1, <1>2, <1>3 DEF Refilled, Smaller

\* After the wait it was told, a refused client's bucket has a token.
LEMMA WaitSuffices ==
  ASSUME NEW limit \in Limits, NEW moment \in Instants, NEW tokens \in 0 .. MaxBurst,
         NEW wait \in 1 .. Unit, RoundedUp(Unit - tokens, limit.rate, wait)
  PROVE  LET bucket == [tokens |-> tokens, refreshed |-> moment]
             at == moment + wait
         IN  Refilled(Entered(bucket, limit, at), limit, at) >= Unit
<1> DEFINE bucket == [tokens |-> tokens, refreshed |-> moment]
           at == moment + wait
<1>1. moment \in Nat /\ wait \in Nat /\ at \in Nat /\ tokens \in Nat
  BY RateLimiterAssumption DEF Instants
<1>2. Entered(bucket, limit, at) = bucket
  BY <1>1 DEF Entered, NoBucket, Unset
<1>3. Elapsed(moment, at) = wait
  BY <1>1 DEF Elapsed
<1>4. /\ limit.rate \in Nat /\ limit.burst \in Nat /\ Unit <= limit.burst
      /\ limit.rate * wait \in Nat
  BY <1>1, RateLimiterAssumption, Product
<1>5. tokens + limit.rate * wait >= Unit
  BY <1>1, <1>4, RateLimiterAssumption DEF RoundedUp
<1>6. Refilled(bucket, limit, at) = Smaller(tokens + limit.rate * wait, limit.burst)
  BY <1>3 DEF Refilled
<1>7. QED
  BY <1>1, <1>2, <1>4, <1>5, <1>6 DEF Smaller

\* A promise whose bucket is kept, or pruned, is kept.
LEMMA OthersKeepTheirPromise ==
  ASSUME LimiterTypeOK, RetryAfterSuffices, NEW d \in Clients, NEW moment \in Instants,
         promised[d].at # Unset
  PROVE  Refilled(Entered(Pruned(moment)[d], promised[d].limit, promised[d].at),
                  promised[d].limit, promised[d].at) >= Unit
<1>1. promised[d].at \in Nat /\ promised[d].limit \in Limits
  BY DEF LimiterTypeOK, NoPromise
<1>2. Pruned(moment)[d] = buckets[d] \/ Pruned(moment)[d] = NoBucket
  BY DEF Pruned
<1>3. CASE Pruned(moment)[d] = buckets[d]
  BY <1>3 DEF RetryAfterSuffices
<1>4. CASE Pruned(moment)[d] = NoBucket
  BY <1>1, <1>4, NewBucketSuffices
<1>5. QED
  BY <1>2, <1>3, <1>4

\* A refused client that asks again when it was told finds a token, whatever
\* was pruned or checked in between, unless one of its own requests was let in
\* or its limit changed (RetryAfterSuffices).
THEOREM RetryAfterIsEnough == LimiterSpec => []RetryAfterSuffices
<1>1. LimiterInit => RetryAfterSuffices
  BY DEF LimiterInit, RetryAfterSuffices, NoPromise
<1>2. RetryAfterSuffices /\ LimiterTypeOK /\ [LimiterNext]_limiterVars => RetryAfterSuffices'
  <2> SUFFICES ASSUME RetryAfterSuffices, LimiterTypeOK, [LimiterNext]_limiterVars,
                      NEW d \in Clients, promised'[d].at # Unset
               PROVE  Refilled(Entered(buckets'[d], promised'[d].limit, promised'[d].at),
                               promised'[d].limit, promised'[d].at) >= Unit
    BY DEF RetryAfterSuffices
  <2> DEFINE Kept == Refilled(Entered(buckets'[d], promised'[d].limit, promised'[d].at),
                              promised'[d].limit, promised'[d].at) >= Unit
  <2>1. CASE buckets' = buckets /\ promised' = promised
    BY <2>1 DEF RetryAfterSuffices
  <2>2. ASSUME NEW r \in Checks, NEW limit \in Limits, Allow(r, limit) PROVE Kept
    <3> DEFINE c == measured[r].client
               moment == measured[r].at
    <3>1. c \in Clients /\ moment \in Instants
      BY <2>2 DEF Allow, LimiterTypeOK
    <3>2. d # c
      BY <2>2, <3>1 DEF Allow, NoPromise, LimiterTypeOK
    <3>3. promised'[d] = promised[d] /\ buckets'[d] = Pruned(moment)[d]
      BY <2>2, <3>1, <3>2, PrunedType DEF Allow, LimiterTypeOK
    <3>4. QED
      BY <3>1, <3>3, OthersKeepTheirPromise
  <2>3. ASSUME NEW r \in Checks, NEW limit \in Limits, NEW wait \in 1 .. Unit,
               Refuse(r, limit, wait)
        PROVE  Kept
    <3> DEFINE c == measured[r].client
               moment == measured[r].at
    <3>1. c \in Clients /\ moment \in Instants
      BY <2>3 DEF Refuse, LimiterTypeOK
    <3>2. CASE d # c
      <4>1. promised'[d] = promised[d] /\ buckets'[d] = Pruned(moment)[d]
        BY <2>3, <3>1, <3>2, PrunedType DEF Refuse, Told, LimiterTypeOK
      <4>2. QED
        BY <3>1, <4>1, OthersKeepTheirPromise
    <3>3. CASE d = c
      <4>1. promised'[d] = [at |-> moment + wait, limit |-> limit]
        BY <2>3, <3>1, <3>3 DEF Refuse, Told, LimiterTypeOK
      <4>2. /\ buckets'[d] = [tokens |-> Found(c, limit, moment), refreshed |-> moment]
            /\ RoundedUp(Unit - Found(c, limit, moment), limit.rate, wait)
        BY <2>3, <3>1, <3>3, PrunedType DEF Refuse, Found
      <4>3. Found(c, limit, moment) \in 0 .. MaxBurst
        BY <3>1, FoundWithin
      <4>4. QED
        BY <3>1, <4>1, <4>2, <4>3, WaitSuffices
    <3>4. QED
      BY <3>2, <3>3
  <2>4. QED
    BY <2>1, <2>2, <2>3 DEF LimiterNext, Measure, Watch, InstantPasses, limiterVars
<1>3. QED
  BY <1>1, <1>2, LimiterTypeCorrect, PTL DEF LimiterSpec

-----------------------------------------------------------------------------
(* The sanitizer.                                                          *)

\* A set of natural numbers has a least one.
LEMMA MinOfNat ==
  ASSUME NEW S \in SUBSET Nat, S # {}
  PROVE  Min(S) \in S /\ \A x \in S : Min(S) <= x
<1>1. PICK m \in S : \A x \in S : ~ (<<x, m>> \in OpToRel(<, Nat))
  BY NatLessThanWellFounded, WFMin
<1>2. \A x \in S : ~ (x < m)
  BY <1>1 DEF OpToRel
<1>3. \A x \in S : m <= x
  BY <1>2
<1>4. QED
  BY <1>3 DEF Min

\* A bounded one has a greatest.
LEMMA MaxOfInterval ==
  ASSUME NEW n \in Nat, NEW S \in SUBSET (0 .. n), S # {}
  PROVE  Max(S) \in S /\ \A x \in S : x <= Max(S)
<1> DEFINE T == {n - x : x \in S}
<1>1. T \in SUBSET Nat /\ T # {}
  <2>1. \A x \in 0 .. n : n - x \in Nat
    OBVIOUS
  <2>2. \A x \in S : n - x \in Nat
    BY <2>1
  <2>3. PICK x \in S : TRUE
    OBVIOUS
  <2>4. n - x \in T
    OBVIOUS
  <2> QED  BY <2>2, <2>4
<1>2. PICK m \in T : \A x \in T : m <= x
  <2> HIDE DEF T
  <2> QED  BY <1>1, MinOfNat
<1>3. PICK k \in S : m = n - k
  OBVIOUS
<1>4. \A x \in S : x <= k
  <2>1. \A x \in S : m <= n - x
    BY <1>2
  <2> QED  BY <1>3, <2>1
<1>5. QED
  BY <1>4 DEF Max

\* Where a scan ends: it has gone on up to there, and does not go on there.
LEMMA ScanStops ==
  ASSUME NEW chars \in Seq(STRING), NEW start \in DOMAIN chars,
         NEW goesOn \in SUBSET DOMAIN chars, start \in goesOn
  PROVE  LET end == ScanEnd(chars, start, goesOn) IN
         /\ end \in start + 1 .. Len(chars) + 1 /\ end \notin goesOn
         /\ \A i \in start .. end - 1 : i \in goesOn
<1> DEFINE S == (start .. Len(chars) + 1) \ goesOn
           end == ScanEnd(chars, start, goesOn)
<1>1. Len(chars) \in Nat /\ DOMAIN chars = 1 .. Len(chars)
  OBVIOUS
<1>2. S \in SUBSET Nat /\ Len(chars) + 1 \in S
  BY <1>1
<1>3. end \in S /\ \A x \in S : end <= x
  <2> HIDE DEF S
  <2>1. end = Min(S)
    BY DEF ScanEnd, S
  <2> HIDE DEF end
  <2> QED  BY <1>2, <2>1, MinOfNat
<1> HIDE DEF end
<1>4. end \in start + 1 .. Len(chars) + 1
  BY <1>1, <1>3
<1>5. ASSUME NEW i \in start .. end - 1, i \notin goesOn PROVE FALSE
  BY <1>1, <1>3, <1>4, <1>5
<1>6. QED
  BY <1>3, <1>4, <1>5 DEF end

\* A digit is one of ten.
LEMMA DigitValue ==
  ASSUME NEW char, IsDigit(char)
  PROVE  /\ Digit(char) \in 0 .. 9
         /\ Digit(char) \in 2 .. 6 <=> char \in {"2", "3", "4", "5", "6"}
<1>1. DOMAIN Digits = 1 .. 10
  BY DEF Digits
<1>2. PICK i \in 1 .. 10 : Digits[i] = char
  BY <1>1 DEF IsDigit
<1>3. \A j \in 1 .. 10 : Digits[j] = char => j = i
  BY <1>2 DEF Digits
<1>4. Digit(char) = i - 1
  <2>1. (CHOOSE j \in DOMAIN Digits : Digits[j] = char) = i
    BY <1>1, <1>2, <1>3
  <2> QED  BY <2>1 DEF Digit
<1>5. i \in 3 .. 7 <=> char \in {"2", "3", "4", "5", "6"}
  BY <1>2 DEF Digits
<1>6. QED
  BY <1>2, <1>4, <1>5

\* Doubling as the code does it is adding up the digits of the double.
LEMMA LuhnIsLuhn ==
  ASSUME NEW chars \in Seq(STRING), NEW first \in Nat, NEW last \in Nat
  PROVE  Luhn(chars, DigitsIn(chars, first, last + 1)) <=> LuhnSum(chars, first, last) % 10 = 0
<1> DEFINE digits == {i \in first .. last : IsDigit(chars[i])}
           behind(i) == Cardinality({j \in digits : j > i})
           place(i) == Cardinality({j \in digits : i <= j})
           code == [i \in digits |-> IF behind(i) % 2 = 1
                                     THEN Doubled(Digit(chars[i])) ELSE Digit(chars[i])]
           sum == [i \in digits |-> DigitSum(Digit(chars[i]) * (IF place(i) % 2 = 0 THEN 2 ELSE 1))]
<1>1. DigitsIn(chars, first, last + 1) = digits
  <2>1. last + 1 - 1 = last
    OBVIOUS
  <2> QED  BY <2>1 DEF DigitsIn
<1>2. IsFiniteSet(digits) /\ digits \subseteq Int
  <2>1. IsFiniteSet(first .. last)
    BY FS_Interval
  <2> QED  BY <2>1, FS_Subset
<1>3. ASSUME NEW i \in digits PROVE code[i] = sum[i]
  <2> DEFINE more == {j \in digits : j > i}
  <2>1. {j \in digits : i <= j} = more \union {i} /\ i \notin more
    BY <1>2, <1>3
  <2>2. IsFiniteSet(more)
    BY <1>2, FS_Subset
  <2>3. place(i) = behind(i) + 1 /\ behind(i) \in Nat
    <3> HIDE DEF more, digits
    <3>1. Cardinality(more) \in Nat /\ Cardinality(more \union {i}) = Cardinality(more) + 1
      BY <2>1, <2>2, FS_AddElement, FS_CardinalityType
    <3> QED  BY <2>1, <3>1 DEF more
  <2> DEFINE v == Digit(chars[i])
             b == behind(i)
  <2>4. v \in 0 .. 9
    BY <1>3, DigitValue
  <2> HIDE DEF v, b
  <2>5. (IF b % 2 = 1 THEN Doubled(v) ELSE v) = DigitSum(v * (IF (b + 1) % 2 = 0 THEN 2 ELSE 1))
    <3>1. b \in Nat
      BY <2>3 DEF b
    <3>2. Doubled(v) = DigitSum(v * 2) /\ v = DigitSum(v * 1)
      BY <2>4 DEF Doubled, DigitSum
    <3>3. b % 2 = 1 <=> (b + 1) % 2 = 0
      BY <3>1
    <3> QED  BY <3>2, <3>3
  <2> QED  BY <1>3, <2>3, <2>5 DEF v, b
<1>4. code = sum
  BY <1>3
<1>5. QED
  <2>1. Luhn(chars, digits) <=> SumFunction(code) % 10 = 0
    BY DEF Luhn
  <2>2. LuhnSum(chars, first, last) = SumFunction(sum)
    BY DEF LuhnSum
  <2> QED  BY <1>1, <1>4, <2>1, <2>2

-----------------------------------------------------------------------------
\* A card's scan goes over the longest stretch of groups, and no further.
LEMMA CardStretch ==
  ASSUME NEW chars \in Seq(STRING), NEW first \in DOMAIN chars, IsDigit(chars[first])
  PROVE  /\ CardEnd(chars, first) \in first + 1 .. Len(chars) + 1
         /\ Grouped(chars, first, CardEnd(chars, first) - 1)
         /\ \A last \in first .. Len(chars) :
              Grouped(chars, first, last) => last < CardEnd(chars, first)
<1> DEFINE goesOn == {i \in DOMAIN chars :
              \/ IsDigit(chars[i])
              \/ chars[i] \in CardSeparators /\ i < Len(chars) /\ IsDigit(chars[i + 1])}
           end == CardEnd(chars, first)
<1>1. Len(chars) \in Nat /\ DOMAIN chars = 1 .. Len(chars)
  OBVIOUS
<1>2. /\ end \in first + 1 .. Len(chars) + 1 /\ end \notin goesOn
      /\ \A i \in first .. end - 1 : i \in goesOn
  <2>1. end = ScanEnd(chars, first, goesOn) /\ first \in goesOn
    BY DEF CardEnd
  <2> HIDE DEF goesOn, end
  <2>2. goesOn \in SUBSET DOMAIN chars
    BY DEF goesOn
  <2> QED  BY <2>1, <2>2, ScanStops
<1> HIDE DEF end
<1>3. Grouped(chars, first, end - 1)
  <2>1. end - 1 \in goesOn /\ end - 1 \in DOMAIN chars /\ end - 1 + 1 = end
    BY <1>1, <1>2
  <2>2. IsDigit(chars[end - 1])
    <3>1. ~ (end - 1 < Len(chars) /\ IsDigit(chars[end]))
      <4>1. ASSUME end - 1 < Len(chars), IsDigit(chars[end]) PROVE FALSE
        <5>1. end \in DOMAIN chars
          BY <1>1, <1>2, <4>1
        <5> QED  BY <1>2, <4>1, <5>1
      <4> QED  BY <4>1
    <3> QED  BY <2>1, <3>1
  <2>3. \A i \in first .. end - 1 :
          IsDigit(chars[i]) \/ (chars[i] \in CardSeparators /\ IsDigit(chars[i + 1]))
    BY <1>2
  <2> QED  BY <2>2, <2>3 DEF Grouped
<1>4. ASSUME NEW last \in first .. Len(chars), Grouped(chars, first, last), ~ (last < end)
      PROVE  FALSE
  <2>1. end \in first .. last /\ end \in DOMAIN chars
    BY <1>1, <1>2, <1>4
  <2>2. IsDigit(chars[last])
    BY <1>4 DEF Grouped
  <2>3. IsDigit(chars[end]) \/ (chars[end] \in CardSeparators /\ IsDigit(chars[end + 1]))
    BY <1>4, <2>1 DEF Grouped
  <2>4. end = last \/ end < Len(chars)
    BY <1>1, <1>4, <2>1
  <2> QED  BY <1>2, <2>1, <2>2, <2>3, <2>4
<1>5. QED
  BY <1>2, <1>3, <1>4 DEF end

\* What is beside a stretch, as the scans and the reference put it.
LEMMA UngluedIsDetached ==
  ASSUME NEW chars \in Seq(STRING), NEW first \in DOMAIN chars,
         NEW last \in first .. Len(chars)
  PROVE  Unglued(chars, first, last) <=>
           DetachedBefore(chars, first) /\ DetachedAfter(chars, last + 1)
<1>1. Len(chars) \in Nat /\ last \in Nat /\ (last = Len(chars) <=> last + 1 > Len(chars))
  OBVIOUS
<1>2. QED
  BY <1>1 DEF Unglued, DetachedBefore, DetachedAfter

\* A card that no more digits follow is the stretch its scan goes over.
LEMMA CardIsScanned ==
  ASSUME NEW chars \in Seq(STRING), NEW first \in DOMAIN chars, IsDigit(chars[first]),
         NEW last \in first .. Len(chars)
  PROVE  IsCard(chars, first, last) /\ ~ CardGoesOn(chars, first, last) <=>
           /\ last + 1 = CardEnd(chars, first)
           /\ DetachedBefore(chars, first) /\ DetachedAfter(chars, last + 1)
           /\ Cardinality(DigitsIn(chars, first, last + 1)) \in CARD_DIGITS
           /\ chars[first] \in {"2", "3", "4", "5", "6"}
           /\ Luhn(chars, DigitsIn(chars, first, last + 1))
<1> DEFINE end == CardEnd(chars, first)
<1>1. /\ Len(chars) \in Nat /\ first \in Nat /\ last \in Nat
      /\ end \in first + 1 .. Len(chars) + 1 /\ Grouped(chars, first, end - 1)
      /\ \A place \in first .. Len(chars) : Grouped(chars, first, place) => place < end
  BY CardStretch
<1> HIDE DEF end
<1>2. Grouped(chars, first, last) /\ (~ \E beyond \in last + 1 .. Len(chars) : Grouped(chars, first, beyond))
        <=> last + 1 = end
  <2>1. ASSUME Grouped(chars, first, last),
               ~ \E beyond \in last + 1 .. Len(chars) : Grouped(chars, first, beyond)
        PROVE  last + 1 = end
    <3>1. last < end
      BY <1>1, <2>1
    <3>2. end - 1 \notin last + 1 .. Len(chars)
      BY <1>1, <2>1
    <3> QED  BY <1>1, <3>1, <3>2
  <2>2. ASSUME last + 1 = end
        PROVE  /\ Grouped(chars, first, last)
               /\ ~ \E beyond \in last + 1 .. Len(chars) : Grouped(chars, first, beyond)
    <3>1. end - 1 = last
      BY <1>1, <2>2
    <3>2. ASSUME NEW beyond \in last + 1 .. Len(chars), Grouped(chars, first, beyond) PROVE FALSE
      BY <1>1, <2>2, <3>2
    <3> QED  BY <1>1, <3>1, <3>2
  <2> QED  BY <2>1, <2>2
<1>3. {i \in first .. last : IsDigit(chars[i])} = DigitsIn(chars, first, last + 1)
  <2>1. last + 1 - 1 = last
    BY <1>1
  <2> QED  BY <2>1 DEF DigitsIn
<1>4. Digit(chars[first]) \in 2 .. 6 <=> chars[first] \in {"2", "3", "4", "5", "6"}
  BY DigitValue
<1>5. QED
  BY <1>1, <1>2, <1>3, <1>4, UngluedIsDetached, LuhnIsLuhn DEF IsCard, CardGoesOn, end

\* The code finds a card only if there is one, and finds it if no more digits
\* follow it.
LEMMA CardsAreFound ==
  ASSUME NEW chars \in Seq(STRING)
  PROVE  /\ ContainsCard(chars) => HoldsCard(chars)
         /\ \A first \in DOMAIN chars : \A last \in first .. Len(chars) :
              IsCard(chars, first, last) => ContainsCard(chars) \/ CardGoesOn(chars, first, last)
<1>1. ASSUME ContainsCard(chars)
      PROVE  HoldsCard(chars)
  <2>1. PICK start \in DOMAIN chars :
          LET end == CardEnd(chars, start)
              digits == DigitsIn(chars, start, end)
          IN /\ IsDigit(chars[start]) /\ DetachedBefore(chars, start) /\ DetachedAfter(chars, end)
             /\ Cardinality(digits) \in CARD_DIGITS
             /\ chars[start] \in {"2", "3", "4", "5", "6"}
             /\ Luhn(chars, digits)
    BY <1>1 DEF ContainsCard
  <2>2. PICK last \in start .. Len(chars) : last + 1 = CardEnd(chars, start)
    <3>1. CardEnd(chars, start) \in start + 1 .. Len(chars) + 1 /\ start \in Nat /\ Len(chars) \in Nat
      BY <2>1, CardStretch
    <3>2. CardEnd(chars, start) - 1 \in start .. Len(chars)
          /\ CardEnd(chars, start) - 1 + 1 = CardEnd(chars, start)
      BY <3>1
    <3> QED  BY <3>2
  <2> QED  BY <2>1, <2>2, CardIsScanned DEF HoldsCard
<1>2. ASSUME NEW first \in DOMAIN chars, NEW last \in first .. Len(chars), IsCard(chars, first, last),
             ~ CardGoesOn(chars, first, last)
      PROVE  ContainsCard(chars)
  <2>1. IsDigit(chars[first])
    BY <1>2 DEF IsCard, Grouped
  <2> QED  BY <1>2, <2>1, CardIsScanned DEF ContainsCard
<1>3. QED
  BY <1>1, <1>2

-----------------------------------------------------------------------------
\* A phone number's scan likewise, back to its last digit.
LEMMA PhoneStretch ==
  ASSUME NEW chars \in Seq(STRING), NEW first \in DOMAIN chars, IsDigit(chars[first])
  PROVE  /\ PhoneEnd(chars, first) \in first + 1 .. Len(chars) + 1
         /\ OfPhone(chars, first, PhoneEnd(chars, first) - 1)
         /\ \A last \in first .. Len(chars) :
              OfPhone(chars, first, last) => last < PhoneEnd(chars, first)
<1> DEFINE goesOn == {i \in DOMAIN chars : IsDigit(chars[i]) \/ chars[i] \in PhoneSeparators}
           scan == ScanEnd(chars, first, goesOn)
           digits == DigitsIn(chars, first, scan)
<1>1. Len(chars) \in Nat /\ DOMAIN chars = 1 .. Len(chars)
  OBVIOUS
<1>2. /\ scan \in first + 1 .. Len(chars) + 1 /\ scan \notin goesOn
      /\ \A i \in first .. scan - 1 : i \in goesOn
  <2>1. first \in goesOn /\ goesOn \in SUBSET DOMAIN chars
    OBVIOUS
  <2> HIDE DEF goesOn
  <2> QED  BY <2>1, ScanStops
<1>3. PhoneEnd(chars, first) = Max(digits) + 1
  BY DEF PhoneEnd
<1> HIDE DEF scan
<1>4. Max(digits) \in digits /\ \A x \in digits : x <= Max(digits)
  <2>1. first \in digits /\ digits \in SUBSET (0 .. Len(chars))
    BY <1>1, <1>2 DEF DigitsIn
  <2> HIDE DEF digits
  <2> QED  BY <1>1, <2>1, MaxOfInterval
<1>5. PICK top \in first .. scan - 1 :
        top = Max(digits) /\ IsDigit(chars[top]) /\ \A x \in first .. scan - 1 : IsDigit(chars[x]) => x <= top
  BY <1>4 DEF DigitsIn
<1> HIDE DEF digits
<1>6. OfPhone(chars, first, top)
  BY <1>1, <1>2, <1>5 DEF OfPhone
<1>7. ASSUME NEW last \in first .. Len(chars), OfPhone(chars, first, last)
      PROVE  last <= top
  <2>1. last < scan
    <3>1. SUFFICES ASSUME ~ (last < scan) PROVE FALSE
      OBVIOUS
    <3>2. scan \in first .. last /\ scan \in DOMAIN chars
      BY <1>1, <1>2, <3>1
    <3> QED  BY <1>2, <1>7, <3>2 DEF OfPhone
  <2>2. last \in first .. scan - 1 /\ IsDigit(chars[last])
    BY <1>1, <1>2, <1>7, <2>1 DEF OfPhone
  <2> QED  BY <1>5, <2>2
<1>8. PhoneEnd(chars, first) = top + 1 /\ PhoneEnd(chars, first) - 1 = top
      /\ top \in Int /\ top + 1 \in first + 1 .. Len(chars) + 1
  BY <1>1, <1>2, <1>3, <1>5
<1>9. QED
  BY <1>1, <1>6, <1>7, <1>8

\* A phone number that no more digits follow is the stretch its scan goes over.
LEMMA PhoneIsScanned ==
  ASSUME NEW chars \in Seq(STRING), NEW plus \in DOMAIN chars, plus < Len(chars),
         IsDigit(chars[plus + 1]), NEW last \in plus + 1 .. Len(chars)
  PROVE  IsPhone(chars, plus, last) /\ ~ PhoneGoesOn(chars, plus, last) <=>
           /\ last + 1 = PhoneEnd(chars, plus + 1)
           /\ chars[plus] = "+" /\ DetachedBefore(chars, plus) /\ DetachedAfter(chars, last + 1)
           /\ Cardinality(DigitsIn(chars, plus + 1, last + 1)) \in PHONE_DIGITS
<1> DEFINE first == plus + 1
           end == PhoneEnd(chars, first)
<1>1. first \in DOMAIN chars /\ Len(chars) \in Nat /\ first \in Nat /\ last \in Nat
      /\ last \in first .. Len(chars) /\ last \in plus .. Len(chars)
  OBVIOUS
<1> HIDE DEF first
<1>2. /\ end \in first + 1 .. Len(chars) + 1 /\ OfPhone(chars, first, end - 1)
      /\ \A place \in first .. Len(chars) : OfPhone(chars, first, place) => place < end
  BY <1>1, PhoneStretch DEF first
<1> HIDE DEF end
<1>3. OfPhone(chars, first, last) /\ (~ \E beyond \in last + 1 .. Len(chars) : OfPhone(chars, first, beyond))
        <=> last + 1 = end
  <2>1. ASSUME OfPhone(chars, first, last),
               ~ \E beyond \in last + 1 .. Len(chars) : OfPhone(chars, first, beyond)
        PROVE  last + 1 = end
    <3>1. last < end
      BY <1>1, <1>2, <2>1
    <3>2. end - 1 \notin last + 1 .. Len(chars)
      BY <1>2, <2>1
    <3> QED  BY <1>1, <1>2, <3>1, <3>2
  <2>2. ASSUME last + 1 = end
        PROVE  /\ OfPhone(chars, first, last)
               /\ ~ \E beyond \in last + 1 .. Len(chars) : OfPhone(chars, first, beyond)
    <3>1. end - 1 = last
      BY <1>1, <2>2
    <3>2. ASSUME NEW beyond \in last + 1 .. Len(chars), OfPhone(chars, first, beyond) PROVE FALSE
      BY <1>1, <1>2, <2>2, <3>2
    <3> QED  BY <1>2, <3>1, <3>2
  <2> QED  BY <2>1, <2>2
<1>4. {i \in first .. last : IsDigit(chars[i])} = DigitsIn(chars, first, last + 1)
  <2>1. last + 1 - 1 = last
    BY <1>1
  <2> QED  BY <2>1 DEF DigitsIn
<1>5. QED
  BY <1>1, <1>3, <1>4, UngluedIsDetached DEF IsPhone, PhoneGoesOn, first, end

\* The code finds a phone number only if there is one, and finds it if no more
\* digits follow it.
LEMMA PhonesAreFound ==
  ASSUME NEW chars \in Seq(STRING)
  PROVE  /\ ContainsPhone(chars) => HoldsPhone(chars)
         /\ \A plus \in DOMAIN chars : \A last \in plus + 1 .. Len(chars) :
              IsPhone(chars, plus, last) => ContainsPhone(chars) \/ PhoneGoesOn(chars, plus, last)
<1>1. ASSUME ContainsPhone(chars)
      PROVE  HoldsPhone(chars)
  <2>1. PICK plus \in DOMAIN chars :
          LET end == PhoneEnd(chars, plus + 1) IN
          /\ chars[plus] = "+" /\ DetachedBefore(chars, plus)
          /\ plus < Len(chars) /\ IsDigit(chars[plus + 1])
          /\ Cardinality(DigitsIn(chars, plus + 1, end)) \in PHONE_DIGITS
          /\ DetachedAfter(chars, end)
    BY <1>1 DEF ContainsPhone
  <2>2. PICK last \in plus + 1 .. Len(chars) : last + 1 = PhoneEnd(chars, plus + 1)
    <3>1. plus + 1 \in DOMAIN chars /\ plus + 1 \in Nat /\ Len(chars) \in Nat
      BY <2>1
    <3>2. PhoneEnd(chars, plus + 1) \in plus + 1 + 1 .. Len(chars) + 1
      BY <2>1, <3>1, PhoneStretch
    <3>3. PhoneEnd(chars, plus + 1) - 1 \in plus + 1 .. Len(chars)
          /\ PhoneEnd(chars, plus + 1) - 1 + 1 = PhoneEnd(chars, plus + 1)
      BY <3>1, <3>2
    <3> QED  BY <3>3
  <2> QED  BY <2>1, <2>2, PhoneIsScanned DEF HoldsPhone
<1>2. ASSUME NEW plus \in DOMAIN chars, NEW last \in plus + 1 .. Len(chars), IsPhone(chars, plus, last),
             ~ PhoneGoesOn(chars, plus, last)
      PROVE  ContainsPhone(chars)
  <2>1. IsDigit(chars[plus + 1]) /\ plus < Len(chars)
    BY <1>2 DEF IsPhone, OfPhone
  <2> QED  BY <1>2, <2>1, PhoneIsScanned DEF ContainsPhone
<1>3. QED
  BY <1>1, <1>2

\* In any text, of any length and for numbers of any length, the scans find a
\* card or phone number only if a stretch of it is one as PROTOCOL.md has it, and
\* find every one that is not followed by more digits (SanitizerFinds).  That
\* they find the others is not so (NumbersFiltered).
THEOREM NumbersAreFound == SanitizerSpec => []SanitizerFinds
<1>1. text \in Texts => SanitizerFinds
  <2>1. ASSUME text \in Texts PROVE SanitizerFinds
    <3>1. text \in Seq(STRING)
      BY <2>1, SanitizerAssumption
    <3> QED  BY <3>1, CardsAreFound, PhonesAreFound DEF SanitizerFinds, NumbersFound
  <2> QED  BY <2>1
<1>2. text \in Texts /\ [UNCHANGED text]_text => (text \in Texts)'
  BY SanitizerAssumption
<1>3. QED
  BY <1>1, <1>2, PTL DEF SanitizerSpec

=============================================================================
