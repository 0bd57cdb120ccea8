-------------------------- MODULE EventStoreProofs ---------------------------
(***************************************************************************)
(* What the event store guarantees for any messages, actors, jobs,         *)
(* requests, destinations, page sizes and times, alone and with a device   *)
(* at the other end of an unreliable network.  Relations between the       *)
(* durations are not enforced by the code and are hypotheses here:         *)
(* Punctual, without which nothing can be promised, and Deduplicated, with *)
(* which nothing is ever written after the window and counted again.       *)
(***************************************************************************)
EXTENDS Pipeline, FiniteSetTheorems, FunctionTheorems, SequenceTheorems, WellFoundedInduction, TLAPS

-----------------------------------------------------------------------------
(* The order of positions.                                                 *)

LEMMA PositionType ==
  ASSUME NEW p \in Position PROVE p[1] \in Int /\ p[2] \in Int /\ p = <<p[1], p[2]>>
<1>1. p[1] \in Instants /\ p[2] \in Messages \union {Never} /\ p = <<p[1], p[2]>>
  BY DEF Position
<1>2. MaxTime \in Nat /\ Messages \subseteq Nat
  BY EventStoreAssumption
<1>3. QED
  BY <1>1, <1>2 DEF Instants, Time, Never

\* Positions are in a strict, total order.
LEMMA AfterIsTotal ==
  ASSUME NEW p \in Position, NEW q \in Position
  PROVE  /\ ~ (After(p, q) /\ After(q, p)) /\ ~ After(p, p)
         /\ p # q => After(p, q) \/ After(q, p)
BY PositionType DEF After

LEMMA AfterIsTransitive ==
  ASSUME NEW p \in Position, NEW q \in Position, NEW s \in Position
  PROVE  /\ After(p, q) /\ After(q, s) => After(p, s)
         /\ After(p, q) /\ ~ After(s, q) => After(p, s)
         /\ ~ After(q, p) /\ After(q, s) => After(p, s)
BY PositionType DEF After

LEMMA PositionIsFinite == \A page \in SUBSET Position : IsFiniteSet(page)
<1>1. IsFiniteSet(Time)
  BY EventStoreAssumption, FS_Interval DEF Time
<1>2. IsFiniteSet(Instants)
  BY <1>1, FS_Singleton, FS_Union DEF Instants
<1>3. IsFiniteSet(Messages \union {Never})
  BY EventStoreAssumption, FS_AddElement
<1>4. IsFiniteSet(Position)
  BY <1>2, <1>3, FS_Product DEF Position
<1>5. QED
  BY <1>4, FS_Subset

\* One set of a family of finite sets contains no other one.
LEMMA SmallestSet ==
  ASSUME NEW family, family # {}, \A U \in family : IsFiniteSet(U)
  PROVE  \E U \in family : \A V \in family : V \subseteq U => V = U
<1> DEFINE S == UNION family
<1>1. family \subseteq FiniteSubsetsOf(S)
  BY DEF FiniteSubsetsOf
<1>2. PICK U \in family : \A V \in family : ~ (<<V, U>> \in StrictSubsetOrdering(S))
  BY <1>1, FS_StrictSubsetOrderingWellFounded, WFMin
<1>3. QED
  BY <1>2 DEF StrictSubsetOrdering

\* The last row of a page is a row of it, and after all others.
LEMMA LastOfPage ==
  ASSUME NEW page \in SUBSET Position, page # {}
  PROVE  LastOf(page) \in page /\ \A q \in page : ~ After(q, LastOf(page))
<1> DEFINE later(p) == {q \in page : After(q, p)}
           family == {later(p) : p \in page}
<1>1. \A U \in family : IsFiniteSet(U)
  BY PositionIsFinite, FS_Subset
<1>2. PICK U \in family : \A V \in family : V \subseteq U => V = U
  <2>1. family # {}
    OBVIOUS
  <2> HIDE DEF family
  <2>2. QED
    BY <1>1, <2>1, SmallestSet
<1>3. PICK p \in page : U = later(p)
  OBVIOUS
<1>4. ASSUME NEW q \in page, After(q, p) PROVE FALSE
  <2>1. later(q) \subseteq later(p)
    BY <1>4, AfterIsTransitive
  <2>2. later(q) \in family
    OBVIOUS
  <2>3. later(q) = later(p)
    BY <1>2, <1>3, <2>1, <2>2
  <2>4. QED
    BY <1>4, <2>3, AfterIsTotal
<1>5. QED
  BY <1>4 DEF LastOf

\* The slowest cursor is one of the cursors, and after no other.
LEMMA SlowestIsFirst ==
  ASSUME cursors \in [Names -> Position]
  PROVE  /\ SlowestCursor \in Position
         /\ \E n \in Names : SlowestCursor = cursors[n]
         /\ \A n \in Names : ~ After(SlowestCursor, cursors[n])
<1> DEFINE places == Range(cursors)
           earlier(p) == {q \in places : After(p, q)}
           family == {earlier(p) : p \in places}
<1>1. places \subseteq Position /\ \A n \in Names : cursors[n] \in places
  BY DEF Range
<1>2. "rotation" \in Names
  BY DEF Names
<1>3. \A U \in family : IsFiniteSet(U)
  BY <1>1, PositionIsFinite
<1>4. PICK U \in family : \A V \in family : V \subseteq U => V = U
  <2>1. family # {}
    BY <1>1, <1>2
  <2> HIDE DEF family
  <2>2. QED
    BY <1>3, <2>1, SmallestSet
<1>5. PICK p \in places : U = earlier(p)
  OBVIOUS
<1>6. ASSUME NEW q \in places, After(p, q) PROVE FALSE
  <2>1. earlier(q) \subseteq earlier(p)
    BY <1>1, <1>6, AfterIsTransitive
  <2>2. earlier(q) \in family
    OBVIOUS
  <2>3. earlier(q) = earlier(p)
    BY <1>4, <1>5, <2>1, <2>2
  <2>4. QED
    BY <1>1, <1>6, <2>3, AfterIsTotal
<1>7. SlowestCursor \in places /\ \A q \in places : ~ After(SlowestCursor, q)
  BY <1>6 DEF SlowestCursor
<1>8. \A q \in places : \E n \in Names : q = cursors[n]
  BY DEF Range
<1>9. QED
  BY <1>1, <1>7, <1>8
-----------------------------------------------------------------------------
(* Types.                                                                  *)

Job == [at : {"idle", "rotating", "writing", "pruning", "deleting"},
        cutoff : Cutoffs, passed : Position, page : SUBSET Position]
Deliverer == [at : {"idle", "reading", "delivering", "advancing"},
              left : Seq(Range(Destinations)), cutoff : Cutoffs, page : SUBSET Position]

\* A delivery under way has a destination, and rows to take there.
InDelivery ==
  \A p \in Deliverers :
    /\ deliverers[p].at # "idle" => deliverers[p].left # << >>
    /\ deliverers[p].at \in {"delivering", "advancing"} => deliverers[p].page # {}
    /\ deliverers[p].page \subseteq Instants \X Messages

StoreTyped == TypeOK /\ InDelivery

LEMMA ConstantsType ==
  /\ Messages \subseteq Nat
  /\ Lag \in Nat /\ DedupWindow \in Nat /\ MaxFlight \in Nat /\ MaxResend \in Nat
  /\ MaxTime \in Nat /\ RotationPage \in Nat /\ BatchSize \in Nat /\ PruneBatch \in Nat
  /\ Destinations \in Seq(Range(Destinations))
  /\ Never \in Cutoffs /\ NoCursor \in Position
BY EventStoreAssumption DEF Cutoffs, NoCursor, Position, Instants

LEMMA IdleType == IdleJob \in Job /\ IdleDelivery \in Deliverer
<1>1. << >> \in Seq(Range(Destinations))
  OBVIOUS
<1>2. QED
  BY <1>1, ConstantsType DEF IdleJob, IdleDelivery, Job, Deliverer

LEMMA CutoffType == ASSUME TypeOK
                    PROVE  Cutoff \in Cutoffs /\ clock - DedupWindow \in Cutoffs
BY ConstantsType DEF TypeOK, Cutoff, Cutoffs, Time

LEMMA TypedState ==
  ASSUME StoreTyped
  PROVE  /\ clock \in Nat /\ raw \in [Messages -> Instants]
         /\ stored \in [Messages -> Instants] /\ matrix \in [Messages -> Nat]
         /\ forwarded \in [Range(Destinations) -> SUBSET Messages]
         /\ cursors \in [Names -> Position]
         /\ jobs \in [Jobs -> Job] /\ deliverers \in [Deliverers -> Deliverer]
         /\ \A r \in Requests : requests[r].batch \in SUBSET Messages
         /\ Cutoffs \subseteq Int /\ Instants \subseteq Int
BY ConstantsType DEF StoreTyped, TypeOK, Job, Deliverer, Time, Cutoffs, Instants, Never

LEMMA PendingType ==
  ASSUME TypeOK, NEW name, NEW before, NEW limit
  PROVE  /\ Pending(name, before, limit) \in SUBSET Position
         /\ Pending(name, before, limit) \subseteq Instants \X Messages
BY DEF TypeOK, Pending, Rows, Position

\* The fields of a job, or of a delivery, changed one by one.
LEMMA JobFields ==
  ASSUME NEW job \in Job, NEW at \in {"idle", "rotating", "writing", "pruning", "deleting"},
         NEW cutoff \in Cutoffs, NEW passed \in Position, NEW page \in SUBSET Position
  PROVE  /\ [job EXCEPT !.at = at, !.cutoff = cutoff] \in Job
         /\ [job EXCEPT !.at = at, !.page = page] \in Job
         /\ [job EXCEPT !.at = at, !.cutoff = cutoff, !.passed = passed] \in Job
BY DEF Job

LEMMA DestinationType ==
  ASSUME TypeOK, InDelivery, NEW p \in Deliverers, deliverers[p].at # "idle"
  PROVE  Destination(p) \in Range(Destinations)
BY DEF TypeOK, InDelivery, Destination

LEMMA TailOfMore ==
  ASSUME NEW S, NEW s \in Seq(S), s # << >>, Len(s) # 1
  PROVE  Tail(s) \in Seq(S) /\ Tail(s) # << >>
<1>1. Tail(s) \in Seq(S) /\ Len(Tail(s)) = Len(s) - 1
  BY HeadTailProperties
<1>2. Len(s) - 1 # 0
  BY LenProperties
<1>3. QED
  BY <1>1, <1>2, EmptySeq

\* The next destination's turn leaves the types.
LEMMA NextDestinationType ==
  ASSUME TypeOK, InDelivery, NEW p \in Deliverers, deliverers[p].at # "idle",
         NextDestination(p)
  PROVE  /\ deliverers' \in [Deliverers -> Deliverer]
         /\ InDelivery'
         /\ \A q \in Deliverers \ {p} : deliverers'[q] = deliverers[q]
         /\ deliverers'[p] = IdleDelivery
            \/ /\ deliverers'[p].at = "reading" /\ deliverers'[p].page = {}
               /\ deliverers'[p].cutoff = deliverers[p].cutoff
<1> DEFINE left == deliverers[p].left
<1>1. deliverers \in [Deliverers -> Deliverer] /\ left \in Seq(Range(Destinations))
  BY DEF TypeOK, Deliverer
<1>2. CASE Len(left) = 1
  <2>1. deliverers' = [deliverers EXCEPT ![p] = IdleDelivery]
    BY <1>2 DEF NextDestination
  <2>2. QED
    BY <1>1, <2>1, IdleType DEF InDelivery, IdleDelivery
<1>3. CASE Len(left) # 1
  <2>1. Tail(left) \in Seq(Range(Destinations)) /\ Tail(left) # << >>
    BY <1>1, <1>3, TailOfMore DEF InDelivery
  <2>2. deliverers' = [deliverers EXCEPT ![p] =
          [deliverers[p] EXCEPT !.at = "reading", !.left = Tail(left), !.page = {}]]
    BY <1>1, <1>3 DEF NextDestination, Deliverer
  <2>3. QED
    BY <1>1, <2>1, <2>2 DEF InDelivery, Deliverer
<1>4. QED
  BY <1>2, <1>3
LEMMA InitTyped == Init => StoreTyped
<1> SUFFICES ASSUME Init PROVE StoreTyped
  OBVIOUS
<1>1. jobs \in [Jobs -> Job] /\ deliverers \in [Deliverers -> Deliverer]
  BY IdleType DEF Init
<1>2. InDelivery
  BY DEF Init, InDelivery, IdleDelivery
<1>3. TypeOK
  BY <1>1, ConstantsType
     DEF Init, TypeOK, Job, Deliverer, Time, Instants, NoBatch
<1>4. QED
  BY <1>2, <1>3 DEF StoreTyped

LEMMA StepTyped == StoreTyped /\ [Next]_vars => StoreTyped'
<1> SUFFICES ASSUME TypeOK, InDelivery, [Next]_vars PROVE TypeOK' /\ InDelivery'
  BY DEF StoreTyped
<1>1. /\ clock \in Time /\ raw \in [Messages -> Instants]
      /\ cursors \in [Names -> Position]
      /\ jobs \in [Jobs -> Job] /\ deliverers \in [Deliverers -> Deliverer]
      /\ \A r \in Requests : /\ requests[r].batch \in SUBSET Messages
                            /\ requests[r].received \in Instants
  BY DEF TypeOK, Job, Deliverer
<1>2. ASSUME NEW r \in Requests, NEW batch \in SUBSET Messages, Receive(r, batch)
      PROVE  TypeOK' /\ InDelivery'
  BY <1>2 DEF Receive, TypeOK, InDelivery, Instants
<1>3. ASSUME NEW r \in Requests, Commit(r) PROVE TypeOK' /\ InDelivery'
  BY <1>1, <1>3 DEF Commit, Inserted, TypeOK, InDelivery, NoBatch, Instants
<1>4. ASSUME NEW r \in Requests, Drop(r) PROVE TypeOK' /\ InDelivery'
  BY <1>4 DEF Drop, TypeOK, InDelivery, NoBatch, Instants
<1>5. ASSUME NEW j \in Jobs, Rotation(j) \/ JobFails(j) PROVE TypeOK' /\ InDelivery'
  <2> SUFFICES /\ jobs' \in [Jobs -> Job] /\ raw' \in [Messages -> Instants]
               /\ cursors' \in [Names -> Position] /\ lock' \in Jobs \union {Free}
               /\ matrix' \in [Messages -> Nat]
               /\ UNCHANGED <<clock, requests, deliverers, stored, late, forwarded>>
    BY DEF TypeOK, InDelivery, Job
  <2> USE DEF TypeOK
  <2>1. CASE StartRotation(j)
    <3> DEFINE job == [jobs[j] EXCEPT !.at = "rotating", !.cutoff = Cutoff]
    <3>1. jobs' = [jobs EXCEPT ![j] = job]
      BY <1>1, <2>1 DEF StartRotation
    <3>2. job \in Job
      BY <1>1, CutoffType, JobFields
    <3> HIDE DEF job
    <3>3. QED
      BY <1>1, <2>1, <3>1, <3>2 DEF StartRotation
  <2>2. CASE ReadRotation(j)
    <3> DEFINE page == Pending("rotation", jobs[j].cutoff, RotationPage)
    <3>1. page \in SUBSET Position
      BY PendingType
    <3> DEFINE job == [jobs[j] EXCEPT !.at = "writing", !.page = page]
    <3>2. jobs' = [jobs EXCEPT ![j] = job]
      BY <1>1, <2>2 DEF ReadRotation
    <3> HIDE DEF page
    <3>3. job \in Job
      BY <1>1, <3>1, JobFields
    <3> HIDE DEF job
    <3>4. QED
      BY <1>1, <2>2, <3>2, <3>3 DEF ReadRotation, LockedBy
  <2>3. CASE LockBusy(j)
    <3> DEFINE job == [jobs[j] EXCEPT !.at = "pruning", !.cutoff = Never]
    <3>1. jobs' = [jobs EXCEPT ![j] = job]
      BY <1>1, <2>3 DEF LockBusy
    <3>2. job \in Job
      BY <1>1, ConstantsType, JobFields
    <3> HIDE DEF job
    <3>3. QED
      BY <1>1, <2>3, <3>1, <3>2 DEF LockBusy
  <2>4. CASE WriteRotation(j)
    <3>1. jobs' \in [Jobs -> Job]
      <4>1. [IdleJob EXCEPT !.at = "pruning"] \in Job
        BY IdleType DEF Job
      <4>2. [jobs[j] EXCEPT !.at = "rotating", !.page = {}] \in Job
        BY <1>1, JobFields
      <4>3. QED
        BY <1>1, <2>4, <4>1, <4>2 DEF WriteRotation
    <3>2. jobs[j].page \in SUBSET Position
      BY <1>1 DEF Job
    <3>3. cursors' \in [Names -> Position]
      BY <1>1, <2>4, <3>2, LastOfPage DEF WriteRotation
    <3>4. QED
      BY <1>1, <2>4, <3>1, <3>3 DEF WriteRotation
  <2>5. CASE ReadCursors(j)
    BY <1>1, <2>5, CutoffType, SlowestIsFirst, IdleType DEF ReadCursors, Job
  <2>6. CASE DeleteRaw(j)
    BY <1>1, <2>6, IdleType DEF DeleteRaw, Instants
  <2>7. CASE JobFails(j)
    BY <1>1, <2>7, IdleType DEF JobFails, LockAfterFailure
  <2>8. QED
    BY <1>5, <2>1, <2>2, <2>3, <2>4, <2>5, <2>6, <2>7 DEF Rotation, TryLock
<1>6. ASSUME NEW p \in Deliverers, Delivery(p) \/ DeliverFails(p) \/ DeliveryDies(p)
      PROVE  TypeOK' /\ InDelivery'
  <2> SUFFICES /\ deliverers' \in [Deliverers -> Deliverer] /\ InDelivery'
               /\ cursors' \in [Names -> Position]
               /\ forwarded' \in [Range(Destinations) -> SUBSET Messages]
               /\ UNCHANGED <<clock, raw, lock, requests, jobs, stored, late, matrix>>
    BY DEF TypeOK, Deliverer
  <2>a. deliverers[p].page \in SUBSET Position
    BY <1>1 DEF Deliverer
  <2> USE DEF TypeOK
  <2>1. CASE StartDelivery(p)
    <3> DEFINE delivery == [deliverers[p] EXCEPT
            !.at = "reading", !.cutoff = Cutoff, !.left = Destinations]
    <3>1. deliverers' = [deliverers EXCEPT ![p] = delivery]
      BY <1>1, <2>1 DEF StartDelivery
    <3>2. Cutoff \in Cutoffs /\ Destinations \in Seq(Range(Destinations)) /\ Destinations # << >>
      BY <2>1, CutoffType, ConstantsType DEF StartDelivery
    <3>3. /\ delivery \in Deliverer /\ delivery.left # << >> /\ delivery.at = "reading"
          /\ delivery.page = deliverers[p].page
      BY <1>1, <3>2 DEF Deliverer
    <3> HIDE DEF delivery
    <3>4. deliverers' \in [Deliverers -> Deliverer] /\ InDelivery'
      BY <1>1, <3>1, <3>3 DEF InDelivery
    <3>5. QED
      BY <1>1, <2>1, <3>4 DEF StartDelivery
  <2>2. CASE ReadDelivery(p)
    <3> DEFINE page == Pending(Destination(p), deliverers[p].cutoff, BatchSize)
    <3>1. page \in SUBSET Position
      BY PendingType
    <3>2. CASE page = {}
      BY <2>2, <3>2, NextDestinationType DEF ReadDelivery
    <3> HIDE DEF page
    <3>3. CASE /\ page # {}
               /\ deliverers' = [deliverers EXCEPT ![p].at = "delivering", ![p].page = page]
      BY <1>1, <2>2, <3>1, <3>3 DEF ReadDelivery, InDelivery, Deliverer
    <3>4. QED
      BY <2>2, <3>2, <3>3 DEF ReadDelivery, page
  <2>3. CASE Deliver(p)
    <3>1. Ids(deliverers[p].page) \subseteq Messages
      BY DEF Ids, InDelivery
    <3>2. deliverers' = [deliverers EXCEPT ![p].at = "advancing"]
      BY <2>3 DEF Deliver
    <3>3. /\ deliverers' \in [Deliverers -> Deliverer]
          /\ \A q \in Deliverers : /\ deliverers'[q].left = deliverers[q].left
                                  /\ deliverers'[q].page = deliverers[q].page
                                  /\ q # p => deliverers'[q].at = deliverers[q].at
      BY <1>1, <3>2 DEF Deliverer
    <3>6. InDelivery'
      BY <2>3, <3>3 DEF Deliver, InDelivery
    <3>4. forwarded' \in [Range(Destinations) -> SUBSET Messages]
      BY <2>3, <3>1 DEF Deliver
    <3>5. QED
      BY <1>1, <2>3, <3>3, <3>4, <3>6 DEF Deliver
  <2>4. CASE DeliverFails(p)
    <3>1. Ids(deliverers[p].page) \subseteq Messages
      BY DEF Ids, InDelivery
    <3>2. forwarded' \in [Range(Destinations) -> SUBSET Messages]
      <4>1. PICK taken \in SUBSET Ids(deliverers[p].page) :
              forwarded' = [forwarded EXCEPT ![Destination(p)] = @ \union taken]
        BY <2>4 DEF DeliverFails
      <4>2. taken \subseteq Messages /\ forwarded \in [Range(Destinations) -> SUBSET Messages]
        BY <3>1
      <4>3. QED
        BY <4>1, <4>2
    <3>3. deliverers' \in [Deliverers -> Deliverer] /\ InDelivery'
      BY <2>4, NextDestinationType DEF DeliverFails
    <3>4. UNCHANGED <<clock, raw, cursors, lock, requests, jobs, stored, late, matrix>>
      BY <2>4 DEF DeliverFails
    <3>5. QED
      BY <1>1, <3>2, <3>3, <3>4
  <2>5. CASE Advance(p)
    <3>1. LastOf(deliverers[p].page) \in Position
      BY <2>a, <2>5, LastOfPage DEF Advance, InDelivery
    <3>2. cursors' \in [Names -> Position]
      BY <1>1, <2>5, <3>1 DEF Advance
    <3>3. CASE NextDestination(p)
      BY <2>5, <3>2, <3>3, NextDestinationType DEF Advance
    <3>4. CASE deliverers' = [deliverers EXCEPT ![p].at = "reading", ![p].page = {}]
      <4>1. /\ deliverers' \in [Deliverers -> Deliverer]
            /\ \A q \in Deliverers \ {p} : deliverers'[q] = deliverers[q]
            /\ deliverers'[p].at = "reading" /\ deliverers'[p].page = {}
            /\ deliverers'[p].left = deliverers[p].left
        BY <1>1, <3>4 DEF Deliverer
      <4>2. deliverers[p].left # << >>
        BY <2>5 DEF Advance, InDelivery
      <4>3. InDelivery'
        BY <4>1, <4>2 DEF InDelivery
      <4>4. QED
        BY <2>5, <3>2, <4>1, <4>3 DEF Advance
    <3>5. QED
      BY <2>5, <3>3, <3>4 DEF Advance
  <2>6. CASE DeliveryDies(p)
    BY <1>1, <2>6, IdleType DEF DeliveryDies, InDelivery, IdleDelivery
  <2>7. QED
    BY <1>6, <2>1, <2>2, <2>3, <2>4, <2>5, <2>6 DEF Delivery
<1>7. ASSUME NEW actor \in Actors, Erase(actor) PROVE TypeOK' /\ InDelivery'
  BY <1>7 DEF Erase, TypeOK, InDelivery, Instants
<1>8. CASE Tick
  BY <1>8, ConstantsType DEF Tick, TypeOK, InDelivery, Time
<1>9. CASE UNCHANGED vars
  BY <1>9 DEF vars, TypeOK, InDelivery
<1>10. QED
  BY <1>2, <1>3, <1>4, <1>5, <1>6, <1>7, <1>8, <1>9 DEF Next, Works, Fails

\* Whatever an interleaving of requests, jobs, deliveries and erasures does,
\* the state keeps its type (TypeOK).
THEOREM StoreTypeCorrect == Spec => []TypeOK
<1>1. StoreTyped => TypeOK
  BY DEF StoreTyped
<1>2. QED
  BY <1>1, InitTyped, StepTyped, PTL DEF Spec
-----------------------------------------------------------------------------
(* The inductive invariant of NothingLost and NothingSkipped.              *)

\* A request is over before its events are old enough to be read.
Punctual == MaxFlight < Lag

\* No request is older than MaxFlight, nor from the future.
RequestsAreYoung ==
  \A r \in Requests : requests[r].batch # {} =>
    /\ requests[r].received \in Time /\ requests[r].received <= clock
    /\ clock - requests[r].received <= MaxFlight

\* An instant behind which no request inserts any more.
Settled(time) == time = Never \/ time <= clock - Lag

\* Cursors, and all that jobs and deliveries hold, are settled.
PositionsAreSettled ==
  /\ \A n \in Names : Settled(cursors[n][1])
  /\ \A j \in Jobs : /\ jobs[j].at \in {"rotating", "writing"} => Settled(jobs[j].cutoff)
                    /\ Settled(jobs[j].passed[1])
                    /\ \A q \in jobs[j].page : Settled(q[1])
  /\ \A p \in Deliverers : /\ deliverers[p].at # "idle" => Settled(deliverers[p].cutoff)
                          /\ \A q \in deliverers[p].page : Settled(q[1])

\* A page is written under the lock.
LockIsHeld == \A j \in Jobs : jobs[j].at = "writing" <=> lock = j

RawIsStored == \A m \in Messages : raw[m] # Never => stored[m] # Never

\* Rows that are not among those done are after all of the page.
Complete(received, page, done) ==
  \A m \in Messages : received[m] # Never =>
    m \in done \/ \A q \in page : After(<<received[m], m>>, q)

\* Every row up to the end of a page that a rotation writes is in the chunks
\* or on the page.
RotationIsComplete ==
  \A j \in Jobs : jobs[j].at = "writing" =>
    Complete(raw, jobs[j].page, Rotated \union Ids(jobs[j].page))

\* Likewise for a page on its way to a destination, and once it is there.
DeliveryIsComplete ==
  \A p \in Deliverers :
    LET page == deliverers[p].page  sent == forwarded[Destination(p)] IN
    /\ deliverers[p].at = "delivering" => Complete(raw, page, sent \union Ids(page))
    /\ deliverers[p].at = "advancing" => Complete(raw, page, sent)

\* What a pruning job may delete was rotated and went to every destination.
PrunedIsDone ==
  \A j \in Jobs, m \in Messages :
    jobs[j].at = "deleting" /\ raw[m] # Never =>
      \/ After(<<raw[m], m>>, jobs[j].passed)
      \/ matrix[m] > 0 /\ \A d \in Range(Destinations) : m \in forwarded[d]

StoreInv ==
  /\ StoreTyped /\ RequestsAreYoung /\ PositionsAreSettled /\ LockIsHeld
  /\ RawIsStored /\ RotationIsComplete /\ DeliveryIsComplete /\ PrunedIsDone
  /\ NothingLost /\ NothingSkipped

-----------------------------------------------------------------------------
(* Every action keeps it.                                                  *)

\* A request that commits now inserts after every settled position.
LEMMA CommitsAfter ==
  ASSUME Punctual, RequestsAreYoung, StoreTyped, NEW r \in Requests, requests[r].batch # {},
         NEW m \in Messages, NEW q \in Position, Settled(q[1])
  PROVE  requests[r].received # Never /\ After(<<requests[r].received, m>>, q)
<1>1. /\ requests[r].received \in Nat /\ clock \in Nat
      /\ clock - requests[r].received <= MaxFlight
  BY ConstantsType DEF RequestsAreYoung, StoreTyped, TypeOK, Time
<1>2. q[1] \in Int
  BY PositionType
<1>3. q[1] < requests[r].received
  BY <1>1, <1>2, ConstantsType DEF Settled, Punctual, Never
<1>4. QED
  BY <1>1, <1>3 DEF After, Never

\* Where the rows of a page settle, they stay settled.
LEMMA SettledStays ==
  ASSUME NEW time \in Int, Settled(time), clock' = clock \/ clock' = clock + 1, clock \in Nat
  PROVE  Settled(time)'
BY ConstantsType DEF Settled

\* A page stays complete while rows are deleted, or inserted after it, and
\* no row that stays is taken from those done.
LEMMA StaysComplete ==
  ASSUME NEW old, NEW new, NEW page, NEW done, NEW more, Complete(old, page, done),
         \A m \in Messages : new[m] # Never =>
           /\ new[m] = old[m] \/ \A q \in page : After(<<new[m], m>>, q)
           /\ m \in done => m \in more
  PROVE  Complete(new, page, more)
BY DEF Complete

LEMMA ReceiveKeeps ==
  ASSUME StoreInv, StoreTyped', NEW r \in Requests, NEW batch \in SUBSET Messages,
         Receive(r, batch)
  PROVE  StoreInv'
<1>1. RequestsAreYoung'
  <2>1. clock \in Time /\ clock <= clock /\ clock - clock <= MaxFlight
    BY ConstantsType DEF StoreInv, StoreTyped, TypeOK, Time
  <2>2. /\ requests'[r].received = clock
        /\ \A s \in Requests \ {r} : requests'[s] = requests[s]
        /\ clock' = clock
    BY DEF Receive, StoreInv, StoreTyped, TypeOK
  <2>3. QED
    BY <2>1, <2>2 DEF StoreInv, RequestsAreYoung
<1>2. QED
  BY <1>1 DEF Receive, StoreInv, PositionsAreSettled, Settled, LockIsHeld, RawIsStored,
              RotationIsComplete, Rotated, DeliveryIsComplete, Destination, PrunedIsDone,
              NothingLost, NothingSkipped, Ahead

LEMMA DropKeeps ==
  ASSUME StoreInv, StoreTyped', NEW r \in Requests, Drop(r)
  PROVE  StoreInv'
<1>1. RequestsAreYoung'
  BY DEF Drop, StoreInv, StoreTyped, TypeOK, RequestsAreYoung, NoBatch
<1>2. QED
  BY <1>1 DEF Drop, StoreInv, PositionsAreSettled, Settled, LockIsHeld, RawIsStored,
              RotationIsComplete, Rotated, DeliveryIsComplete, Destination, PrunedIsDone,
              NothingLost, NothingSkipped, Ahead

LEMMA TickKeeps ==
  ASSUME StoreInv, StoreTyped', Tick
  PROVE  StoreInv'
<1>1. clock' = clock + 1 /\ clock \in Nat
  BY DEF Tick, StoreInv, StoreTyped, TypeOK, Time
<1>2. RequestsAreYoung'
  <2> SUFFICES ASSUME NEW r \in Requests, requests'[r].batch # {}
               PROVE  /\ requests[r].received \in Time /\ requests[r].received <= clock'
                      /\ clock' - requests[r].received <= MaxFlight
    BY DEF RequestsAreYoung, Tick
  <2>1. requests[r].batch # {} /\ requests[r] # NoBatch
    BY DEF Tick, NoBatch
  <2>2. clock - requests[r].received < MaxFlight
    BY <2>1 DEF Tick
  <2>3. QED
    BY <1>1, <2>1, <2>2, ConstantsType DEF StoreInv, RequestsAreYoung, Time
<1>3. PositionsAreSettled'
  <2>1. /\ \A n \in Names : cursors[n][1] \in Int
        /\ \A j \in Jobs : /\ jobs[j].cutoff \in Int /\ jobs[j].passed[1] \in Int
                          /\ \A q \in jobs[j].page : q[1] \in Int
        /\ \A p \in Deliverers : /\ deliverers[p].cutoff \in Int
                                /\ \A q \in deliverers[p].page : q[1] \in Int
    BY TypedState, PositionType DEF StoreInv, Job, Deliverer
  <2>2. QED
    BY <1>1, <2>1, SettledStays DEF StoreInv, PositionsAreSettled, Tick
<1>4. QED
  BY <1>2, <1>3 DEF Tick, StoreInv, LockIsHeld, RawIsStored, RotationIsComplete, Rotated,
              DeliveryIsComplete, Destination, PrunedIsDone, NothingLost, NothingSkipped, Ahead

\* The pages of a job and of a delivery are sets of positions, and settled.
LEMMA PagesAreSettled ==
  ASSUME StoreInv
  PROVE  /\ \A j \in Jobs : \A q \in jobs[j].page : q \in Position /\ Settled(q[1])
         /\ \A j \in Jobs : jobs[j].passed \in Position /\ Settled(jobs[j].passed[1])
         /\ \A p \in Deliverers : \A q \in deliverers[p].page : q \in Position /\ Settled(q[1])
         /\ \A n \in Names : cursors[n] \in Position /\ Settled(cursors[n][1])
BY TypedState DEF StoreInv, PositionsAreSettled, Job, Deliverer

LEMMA CommitKeeps ==
  ASSUME Punctual, StoreInv, StoreTyped', NEW r \in Requests, Commit(r)
  PROVE  StoreInv'
<1>1. /\ UNCHANGED <<clock, cursors, lock, jobs, deliverers, matrix, forwarded>>
      /\ requests[r].batch # {} /\ requests' = [requests EXCEPT ![r] = NoBatch]
  BY DEF Commit
<1>2. \A m \in Messages : raw'[m] # raw[m] =>
        /\ raw[m] = Never /\ m \in requests[r].batch /\ raw'[m] = requests[r].received
        /\ \A q \in Position : Settled(q[1]) => After(<<raw'[m], m>>, q)
  BY CommitsAfter DEF Commit, Inserted, StoreInv
<1>3. \A m \in Messages : raw'[m] # Never => stored'[m] # Never
  <2>1. requests[r].received # Never
    BY DEF Commit, StoreInv, StoreTyped, TypeOK, RequestsAreYoung, Time, Never
  <2>2. QED
    BY <1>2, <2>1 DEF Commit, Inserted, StoreInv, RawIsStored
<1>4. \A m \in Messages : stored[m] = Never => raw[m] = Never
  BY DEF StoreInv, RawIsStored
<1>5. RequestsAreYoung'
  BY <1>1 DEF StoreInv, StoreTyped, TypeOK, RequestsAreYoung, NoBatch
<1>6. PositionsAreSettled' /\ LockIsHeld' /\ RawIsStored'
  BY <1>1, <1>3 DEF StoreInv, PositionsAreSettled, Settled, LockIsHeld, RawIsStored
<1>7. RotationIsComplete'
  <2> SUFFICES ASSUME NEW j \in Jobs, jobs[j].at = "writing"
               PROVE  Complete(raw', jobs[j].page, Rotated \union Ids(jobs[j].page))
    BY <1>1 DEF RotationIsComplete, Rotated
  <2>1. Complete(raw, jobs[j].page, Rotated \union Ids(jobs[j].page))
    BY DEF StoreInv, RotationIsComplete
  <2>2. QED
    BY <1>2, <2>1, PagesAreSettled, StaysComplete
<1>8. DeliveryIsComplete'
  <2> SUFFICES ASSUME NEW p \in Deliverers, NEW done,
                      Complete(raw, deliverers[p].page, done)
               PROVE  Complete(raw', deliverers[p].page, done)
    BY <1>1 DEF StoreInv, DeliveryIsComplete, Destination
  <2>1. QED
    BY <1>2, PagesAreSettled, StaysComplete
<1>9. PrunedIsDone'
  BY <1>1, <1>2, PagesAreSettled DEF StoreInv, PrunedIsDone
<1>10. ASSUME NEW m \in Messages, NEW n \in Names, stored'[m] # Never, stored[m] = Never \/ Ahead(m, n)
       PROVE  Ahead(m, n)'
  <2>1. CASE raw'[m] = raw[m]
    <3>1. stored[m] # Never
      <4>1. CASE m \in requests[r].batch
        BY <1>2, <1>4, <2>1, <4>1, CommitsAfter, PagesAreSettled
           DEF Commit, Inserted, StoreInv, Ahead
      <4>2. CASE m \notin requests[r].batch
        BY <1>10, <4>2 DEF Commit
      <4>3. QED
        BY <4>1, <4>2
    <3>2. QED
      BY <1>1, <1>10, <2>1, <3>1 DEF Ahead
  <2>2. CASE raw'[m] # raw[m]
    BY <1>1, <1>2, <2>2, PagesAreSettled DEF Ahead, Commit, StoreInv, StoreTyped, TypeOK,
       RequestsAreYoung, Time, Never
  <2>3. QED
    BY <2>1, <2>2
<1>11. \A m \in Messages : stored[m] # Never => stored'[m] # Never
  BY DEF Commit
<1>12. NothingLost' /\ NothingSkipped'
  <2>1. "rotation" \in Names /\ Range(Destinations) \subseteq Names
    BY DEF Names
  <2>2. QED
    BY <1>1, <1>10, <1>11, <2>1 DEF StoreInv, NothingLost, NothingSkipped
<1>13. QED
  BY <1>5, <1>6, <1>7, <1>8, <1>9, <1>12 DEF StoreInv

\* What a job deletes was rotated and went to every destination.
LEMMA DeletedIsDone ==
  ASSUME StoreInv, NEW j \in Jobs, DeleteRaw(j), NEW m \in Messages
  PROVE  \/ raw'[m] = raw[m]
         \/ /\ raw'[m] = Never /\ m \in Expired(j)
            /\ matrix[m] > 0 /\ \A d \in Range(Destinations) : m \in forwarded[d]
<1>1. PICK gone \in SUBSET Expired(j) : raw' = [n \in Messages |-> IF n \in gone THEN Never ELSE raw[n]]
  BY DEF DeleteRaw
<1>2. CASE m \in gone
  <2>1. raw[m] # Never /\ ~ After(<<raw[m], m>>, jobs[j].passed)
    BY <1>2 DEF Expired, Rows, Ids
  <2>2. QED
    BY <1>1, <1>2, <2>1 DEF StoreInv, PrunedIsDone, DeleteRaw
<1>3. QED
  BY <1>1, <1>2

LEMMA DeleteRawKeeps ==
  ASSUME StoreInv, StoreTyped', NEW j \in Jobs, DeleteRaw(j)
  PROVE  StoreInv'
<1>1. UNCHANGED <<clock, cursors, lock, requests, deliverers, stored, matrix, forwarded>>
  BY DEF DeleteRaw
<1>2. /\ jobs' \in [Jobs -> Job] /\ jobs \in [Jobs -> Job]
      /\ \A i \in Jobs : jobs'[i] = jobs[i] \/ (i = j /\ jobs'[i] = IdleJob)
      /\ jobs[j].at = "deleting"
  BY TypedState, IdleType DEF DeleteRaw, StoreInv
<1>3. \A m \in Messages : raw'[m] # Never => raw'[m] = raw[m]
  BY DeletedIsDone
<1>4. RequestsAreYoung' /\ LockIsHeld' /\ RawIsStored'
  BY <1>1, <1>2, <1>3 DEF StoreInv, RequestsAreYoung, LockIsHeld, RawIsStored, IdleJob
<1>5. PositionsAreSettled'
  BY <1>1, <1>2 DEF StoreInv, PositionsAreSettled, Settled, IdleJob, NoCursor
<1>6. RotationIsComplete'
  <2> SUFFICES ASSUME NEW i \in Jobs, jobs[i].at = "writing"
               PROVE  Complete(raw', jobs[i].page, Rotated \union Ids(jobs[i].page))
    BY <1>1, <1>2 DEF RotationIsComplete, Rotated, IdleJob
  <2>1. Complete(raw, jobs[i].page, Rotated \union Ids(jobs[i].page))
    BY DEF StoreInv, RotationIsComplete
  <2>2. QED
    BY <1>3, <2>1, StaysComplete
<1>7. DeliveryIsComplete'
  <2> SUFFICES ASSUME NEW p \in Deliverers, NEW done,
                      Complete(raw, deliverers[p].page, done)
               PROVE  Complete(raw', deliverers[p].page, done)
    BY <1>1 DEF StoreInv, DeliveryIsComplete, Destination
  <2>1. QED
    BY <1>3, StaysComplete
<1>8. PrunedIsDone'
  BY <1>1, <1>2, <1>3 DEF StoreInv, PrunedIsDone, IdleJob
<1>9. NothingLost' /\ NothingSkipped'
  BY <1>1, DeletedIsDone DEF StoreInv, NothingLost, NothingSkipped, Ahead
<1>10. QED
  BY <1>4, <1>5, <1>6, <1>7, <1>8, <1>9 DEF StoreInv

LEMMA EraseKeeps ==
  ASSUME StoreInv, StoreTyped', NEW actor \in Actors, Erase(actor)
  PROVE  StoreInv'
<1> DEFINE kept == {m \in Messages : ActorOf[m] # actor}
<1>1. UNCHANGED <<clock, cursors, lock, requests, jobs, deliverers>> /\ lock = Free
  BY DEF Erase
<1>2. \A m \in Messages :
        /\ m \in kept => raw'[m] = raw[m] /\ matrix'[m] = matrix[m] /\ stored'[m] = stored[m]
        /\ m \notin kept => raw'[m] = Never /\ stored'[m] = Never
  BY DEF Erase
<1>3. \A d \in Range(Destinations), m \in kept : m \in forwarded'[d] <=> m \in forwarded[d]
  BY DEF Erase
<1> HIDE DEF kept
<1>4. RequestsAreYoung' /\ LockIsHeld' /\ PositionsAreSettled'
  BY <1>1 DEF StoreInv, RequestsAreYoung, LockIsHeld, PositionsAreSettled, Settled
<1>5. RawIsStored'
  BY <1>2 DEF StoreInv, RawIsStored
<1>6. RotationIsComplete'
  <2>1. \A j \in Jobs : jobs[j].at # "writing"
    BY <1>1, EventStoreAssumption DEF StoreInv, LockIsHeld
  <2>2. QED
    BY <1>1, <2>1 DEF RotationIsComplete
<1>7. DeliveryIsComplete'
  <2> SUFFICES ASSUME NEW p \in Deliverers, deliverers[p].at \in {"delivering", "advancing"},
                      NEW more, Complete(raw, deliverers[p].page, forwarded[Destination(p)] \union more)
               PROVE  Complete(raw', deliverers[p].page, forwarded'[Destination(p)] \union more)
    <3>1. ASSUME NEW p \in Deliverers PROVE forwarded'[Destination(p)] \union {} = forwarded'[Destination(p)]
      OBVIOUS
    <3>2. ASSUME NEW p \in Deliverers PROVE forwarded[Destination(p)] \union {} = forwarded[Destination(p)]
      OBVIOUS
    <3>3. QED
      BY <1>1, <3>1, <3>2 DEF StoreInv, DeliveryIsComplete, Destination
  <2>1. Destination(p) \in Range(Destinations)
    BY DestinationType DEF StoreInv, StoreTyped
  <2>2. \A m \in Messages : raw'[m] # Never =>
          /\ raw'[m] = raw[m]
          /\ m \in forwarded[Destination(p)] => m \in forwarded'[Destination(p)]
    BY <1>2, <1>3, <2>1
  <2> DEFINE done == forwarded[Destination(p)] \union more
             still == forwarded'[Destination(p)] \union more
  <2>3. \A m \in Messages : raw'[m] # Never => raw'[m] = raw[m] /\ (m \in done => m \in still)
    BY <2>2
  <2> HIDE DEF done, still
  <2>4. Complete(raw', deliverers[p].page, still)
    BY <2>3, StaysComplete DEF done
  <2>5. QED
    BY <2>4 DEF still
<1>8. PrunedIsDone'
  <2> SUFFICES ASSUME NEW j \in Jobs, NEW m \in Messages, jobs[j].at = "deleting",
                      raw'[m] # Never, ~ After(<<raw'[m], m>>, jobs[j].passed)
               PROVE  matrix'[m] > 0 /\ \A d \in Range(Destinations) : m \in forwarded'[d]
    BY <1>1 DEF PrunedIsDone
  <2>1. m \in kept /\ raw'[m] = raw[m]
    BY <1>2
  <2>2. QED
    BY <1>2, <1>3, <2>1 DEF StoreInv, PrunedIsDone
<1>9. NothingLost' /\ NothingSkipped'
  BY <1>1, <1>2, <1>3 DEF StoreInv, NothingLost, NothingSkipped, Ahead
<1>10. QED
  BY <1>4, <1>5, <1>6, <1>7, <1>8, <1>9 DEF StoreInv

\* A page holds rows ahead of the cursor and within the cutoff, and a row
\* ahead of the cursor that is not on the page is after all of it.
LEMMA PendingIsComplete ==
  ASSUME StoreTyped, NEW name \in Names, NEW before \in Int, NEW limit \in Nat
  PROVE  LET page == Pending(name, before, limit) IN
         /\ \A q \in page : q \in Rows /\ q[1] <= before /\ After(q, cursors[name])
         /\ \A m \in Messages : Ahead(m, name) =>
              m \in Ids(page) \/ \A q \in page : After(<<raw[m], m>>, q)
<1> DEFINE rows == {p \in Rows : p[1] <= before /\ After(p, cursors[name])}
           page == Pending(name, before, limit)
           earlier(p) == {q \in rows : After(p, q)}
<1>1. page = {p \in rows : Cardinality(earlier(p)) < limit}
  BY DEF Pending
<1>2. rows \subseteq Position
  BY TypedState DEF Rows, Position
<1>3. ASSUME NEW m \in Messages, Ahead(m, name), m \notin Ids(page), NEW q \in page
      PROVE  After(<<raw[m], m>>, q)
  <2> DEFINE p == <<raw[m], m>>
  <2>1. p \in Rows /\ After(p, cursors[name]) /\ p \in Position
    BY <1>3, TypedState DEF Ahead, Rows, Position
  <2>2. q \in rows /\ q \in Position /\ q # p
    BY <1>1, <1>2, <1>3 DEF Ids
  <2>3. CASE p[1] > before
    BY <2>1, <2>2, <2>3, PositionType DEF After
  <2>4. CASE ~ (p[1] > before)
    <3>1. p \in rows
      BY <2>1, <2>4, PositionType
    <3>2. p \notin page
      BY <1>3 DEF Ids
    <3>3. ~ (Cardinality(earlier(p)) < limit) /\ Cardinality(earlier(q)) < limit
      BY <1>1, <1>3, <3>1, <3>2
    <3>4. SUFFICES ASSUME After(q, p) PROVE FALSE
      BY <2>1, <2>2, AfterIsTotal
    <3>5. earlier(p) \subseteq earlier(q)
      BY <1>2, <2>1, <2>2, <3>4, AfterIsTransitive
    <3>6. IsFiniteSet(earlier(q)) /\ IsFiniteSet(earlier(p))
      BY <1>2, PositionIsFinite
    <3> HIDE DEF earlier
    <3>7. Cardinality(earlier(p)) <= Cardinality(earlier(q))
      BY <3>5, <3>6, FS_Subset
    <3>8. Cardinality(earlier(p)) \in Nat /\ Cardinality(earlier(q)) \in Nat
      BY <3>6, FS_CardinalityType
    <3>9. QED
      BY <3>3, <3>7, <3>8
  <2>5. QED
    BY <2>3, <2>4
<1>4. \A q \in page : q \in Rows /\ q[1] <= before /\ After(q, cursors[name])
  BY <1>1
<1>5. QED
  BY <1>3, <1>4

\* A step of one job that leaves the store alone keeps the invariant if the
\* job itself is as it should be afterwards.
LEMMA JobStepKeeps ==
  ASSUME StoreInv, StoreTyped', LockIsHeld', NEW j \in Jobs,
         UNCHANGED <<clock, raw, cursors, requests, deliverers, stored, matrix, forwarded>>,
         \A i \in Jobs \ {j} : jobs'[i] = jobs[i],
         jobs'[j].at \in {"rotating", "writing"} => Settled(jobs'[j].cutoff),
         Settled(jobs'[j].passed[1]),
         \A q \in jobs'[j].page : Settled(q[1]),
         jobs'[j].at = "writing" =>
           Complete(raw, jobs'[j].page, Rotated \union Ids(jobs'[j].page)),
         jobs'[j].at = "deleting" =>
           \A m \in Messages : raw[m] # Never =>
             \/ After(<<raw[m], m>>, jobs'[j].passed)
             \/ matrix[m] > 0 /\ \A d \in Range(Destinations) : m \in forwarded[d]
  PROVE  StoreInv'
<1>1. RequestsAreYoung' /\ RawIsStored' /\ NothingLost' /\ NothingSkipped' /\ DeliveryIsComplete'
  BY DEF StoreInv, RequestsAreYoung, RawIsStored, NothingLost, NothingSkipped, Ahead,
         DeliveryIsComplete, Destination
<1>2. PositionsAreSettled'
  BY DEF StoreInv, PositionsAreSettled, Settled
<1>3. RotationIsComplete' /\ PrunedIsDone'
  BY DEF StoreInv, RotationIsComplete, PrunedIsDone, Rotated
<1>4. QED
  BY <1>1, <1>2, <1>3 DEF StoreInv

\* A job that ends keeps the invariant.
LEMMA JobEndsKeeps ==
  ASSUME StoreInv, StoreTyped', LockIsHeld', NEW j \in Jobs,
         UNCHANGED <<clock, raw, cursors, requests, deliverers, stored, matrix, forwarded>>,
         jobs' = [jobs EXCEPT ![j] = IdleJob]
  PROVE  StoreInv'
<1>1. jobs'[j] = IdleJob /\ \A i \in Jobs \ {j} : jobs'[i] = jobs[i]
  BY TypedState DEF StoreInv
<1>2. IdleJob.at = "idle" /\ Settled(IdleJob.passed[1]) /\ IdleJob.page = {}
  BY DEF IdleJob, NoCursor, Settled
<1>3. QED
  BY <1>1, <1>2, JobStepKeeps

LEMMA StartRotationKeeps ==
  ASSUME StoreInv, StoreTyped', NEW j \in Jobs, StartRotation(j)
  PROVE  StoreInv'
<1>1. /\ jobs'[j].at = "rotating" /\ jobs'[j].cutoff = clock - Lag
      /\ jobs'[j].passed = jobs[j].passed /\ jobs'[j].page = jobs[j].page
      /\ \A i \in Jobs \ {j} : jobs'[i] = jobs[i]
  BY TypedState DEF StartRotation, Cutoff, StoreInv, Job
<1>2. LockIsHeld'
  BY <1>1 DEF StartRotation, StoreInv, LockIsHeld
<1>3. Settled(jobs'[j].cutoff)
  BY <1>1, TypedState, ConstantsType DEF Settled, StoreInv
<1>4. QED
  BY <1>1, <1>2, <1>3, JobStepKeeps, PagesAreSettled DEF StartRotation

LEMMA ReadRotationKeeps ==
  ASSUME StoreInv, StoreTyped', NEW j \in Jobs, ReadRotation(j)
  PROVE  StoreInv'
<1> DEFINE page == Pending("rotation", jobs[j].cutoff, RotationPage)
<1>1. /\ jobs'[j].at = "writing" /\ jobs'[j].page = page
      /\ jobs'[j].passed = jobs[j].passed /\ jobs'[j].cutoff = jobs[j].cutoff
      /\ \A i \in Jobs \ {j} : jobs'[i] = jobs[i]
  BY TypedState DEF ReadRotation, StoreInv, Job
<1>2. jobs[j].cutoff \in Int /\ Settled(jobs[j].cutoff)
  BY TypedState DEF StoreInv, Job, ReadRotation, PositionsAreSettled
<1>3. /\ \A q \in page : q \in Rows /\ q[1] <= jobs[j].cutoff
      /\ \A m \in Messages : Ahead(m, "rotation") =>
           m \in Ids(page) \/ \A q \in page : After(<<raw[m], m>>, q)
  BY <1>2, PendingIsComplete, ConstantsType DEF StoreInv, Names
<1> HIDE DEF page
<1>4. \A q \in page : Settled(q[1])
  <2>1. \A q \in Rows : q[1] \in Instants
    BY TypedState DEF StoreInv, Rows
  <2>2. clock - Lag \in Int
    BY TypedState, ConstantsType DEF StoreInv
  <2>3. QED
    BY <1>2, <1>3, <2>1, <2>2, ConstantsType DEF Settled, Instants, Time, Never
<1>5. Complete(raw, page, Rotated \union Ids(page))
  BY <1>3 DEF Complete, StoreInv, RawIsStored, NothingLost, Rotated
<1>6. LockIsHeld'
  BY <1>1, EventStoreAssumption DEF ReadRotation, LockedBy, StoreInv, LockIsHeld
<1>7. QED
  BY <1>1, <1>2, <1>4, <1>5, <1>6, JobStepKeeps, PagesAreSettled DEF ReadRotation

LEMMA LockBusyKeeps ==
  ASSUME StoreInv, StoreTyped', NEW j \in Jobs, LockBusy(j)
  PROVE  StoreInv'
<1>1. /\ jobs'[j].at = "pruning" /\ jobs'[j].passed = jobs[j].passed
      /\ jobs'[j].page = jobs[j].page /\ \A i \in Jobs \ {j} : jobs'[i] = jobs[i]
  BY TypedState DEF LockBusy, StoreInv, Job
<1>2. LockIsHeld'
  BY <1>1 DEF LockBusy, StoreInv, LockIsHeld
<1>3. QED
  BY <1>1, <1>2, JobStepKeeps, PagesAreSettled DEF LockBusy

LEMMA ReadCursorsKeeps ==
  ASSUME StoreInv, StoreTyped', NEW j \in Jobs, ReadCursors(j)
  PROVE  StoreInv'
<1>1. CASE jobs' = [jobs EXCEPT ![j] = IdleJob]
  <2>1. LockIsHeld'
    BY <1>1, TypedState DEF ReadCursors, StoreInv, LockIsHeld, IdleJob
  <2>2. QED
    BY <1>1, <2>1, JobEndsKeeps DEF ReadCursors
<1>2. CASE jobs' = [jobs EXCEPT ![j] = [jobs[j] EXCEPT
             !.at = "deleting", !.cutoff = clock - DedupWindow, !.passed = SlowestCursor]]
  <2>1. /\ jobs'[j].at = "deleting" /\ jobs'[j].passed = SlowestCursor
        /\ jobs'[j].page = jobs[j].page /\ \A i \in Jobs \ {j} : jobs'[i] = jobs[i]
    BY <1>2, TypedState DEF StoreInv, Job
  <2>2. LockIsHeld'
    BY <2>1 DEF ReadCursors, StoreInv, LockIsHeld
  <2>3. /\ SlowestCursor \in Position /\ Settled(SlowestCursor[1])
        /\ \A n \in Names : cursors[n] \in Position /\ ~ After(SlowestCursor, cursors[n])
    BY TypedState, SlowestIsFirst, PagesAreSettled DEF StoreInv
  <2>4. ASSUME NEW m \in Messages, raw[m] # Never, ~ After(<<raw[m], m>>, SlowestCursor)
        PROVE  matrix[m] > 0 /\ \A d \in Range(Destinations) : m \in forwarded[d]
    <3>1. <<raw[m], m>> \in Position
      BY TypedState DEF StoreInv, Position
    <3>2. \A n \in Names : ~ Ahead(m, n)
      BY <2>3, <2>4, <3>1, AfterIsTransitive DEF Ahead
    <3>3. QED
      BY <2>4, <3>2 DEF Names, StoreInv, RawIsStored, NothingLost, NothingSkipped
  <2>5. QED
    BY <2>1, <2>2, <2>3, <2>4, JobStepKeeps, PagesAreSettled DEF ReadCursors
<1>3. QED
  BY <1>1, <1>2 DEF ReadCursors

LEMMA JobFailsKeeps ==
  ASSUME StoreInv, StoreTyped', NEW j \in Jobs, JobFails(j)
  PROVE  StoreInv'
<1>1. LockIsHeld'
  BY TypedState, EventStoreAssumption
     DEF JobFails, LockAfterFailure, StoreInv, LockIsHeld, IdleJob
<1>2. QED
  BY <1>1, JobEndsKeeps DEF JobFails

LEMMA WriteRotationKeeps ==
  ASSUME StoreInv, StoreTyped', NEW j \in Jobs, WriteRotation(j)
  PROVE  StoreInv'
<1> DEFINE page == jobs[j].page
<1>1. UNCHANGED <<clock, raw, requests, deliverers, stored, forwarded>>
  BY DEF WriteRotation
<1>2. page \in SUBSET Position /\ jobs[j].at = "writing" /\ lock = j
  BY TypedState DEF StoreInv, WriteRotation, LockIsHeld, Job
<1>3. /\ \A i \in Jobs \ {j} : jobs'[i] = jobs[i]
      /\ jobs'[j].at # "writing" /\ jobs'[j].at # "deleting" /\ jobs'[j].page = {}
      /\ \/ jobs'[j].passed = NoCursor
         \/ jobs'[j].passed = jobs[j].passed /\ jobs'[j].cutoff = jobs[j].cutoff
      /\ jobs'[j].at = "rotating" => jobs'[j].cutoff = jobs[j].cutoff
  BY TypedState DEF WriteRotation, StoreInv, Job, IdleJob
<1>4. \A i \in Jobs : i # j => jobs[i].at # "writing"
  BY <1>2 DEF StoreInv, LockIsHeld
<1>5. \A m \in Messages : /\ matrix[m] > 0 => matrix'[m] > 0
                          /\ m \in Ids(page) => matrix'[m] > 0
  BY TypedState DEF WriteRotation, StoreInv
<1>6. /\ \A n \in Names : n # "rotation" => cursors'[n] = cursors[n]
      /\ page = {} => cursors'["rotation"] = cursors["rotation"]
      /\ page # {} => cursors'["rotation"] = LastOf(page) /\ LastOf(page) \in page
  BY <1>2, LastOfPage, TypedState DEF WriteRotation, StoreInv, Names
<1> HIDE DEF page
<1>7. LockIsHeld'
  BY <1>2, <1>3, <1>4, EventStoreAssumption DEF WriteRotation, LockIsHeld
<1>8. PositionsAreSettled'
  <2>1. Settled(jobs[j].cutoff)
    BY <1>2 DEF StoreInv, PositionsAreSettled
  <2>2. QED
    BY <1>1, <1>3, <1>6, <2>1, PagesAreSettled
       DEF StoreInv, PositionsAreSettled, Settled, NoCursor, page
<1>9. RotationIsComplete'
  BY <1>3, <1>4 DEF RotationIsComplete
<1>10. PrunedIsDone'
  BY <1>1, <1>3, <1>5 DEF StoreInv, PrunedIsDone
<1>11. NothingLost'
  <2> SUFFICES ASSUME NEW m \in Messages, Ahead(m, "rotation"), ~ (matrix[m] > 0), m \notin Ids(page)
               PROVE  Ahead(m, "rotation")'
    BY <1>1, <1>5 DEF StoreInv, NothingLost
  <2>1. \A q \in page : After(<<raw[m], m>>, q)
    BY <1>2 DEF StoreInv, RotationIsComplete, Complete, Rotated, Ahead, page
  <2>2. QED
    BY <1>1, <1>6, <2>1 DEF Ahead
<1>12. NothingSkipped'
  <2>1. \A d \in Range(Destinations) : cursors'[d] = cursors[d]
    BY <1>6, EventStoreAssumption DEF Names
  <2>2. QED
    BY <1>1, <2>1 DEF StoreInv, NothingSkipped, Ahead
<1>13. QED
  BY <1>1, <1>7, <1>8, <1>9, <1>10, <1>11, <1>12
     DEF StoreInv, RequestsAreYoung, RawIsStored, DeliveryIsComplete, Destination

\* A step of one delivery keeps the invariant if nothing forwarded is forgotten,
\* a cursor is set to a settled position with nothing unsent behind it, and the
\* delivery itself is as it should be afterwards.
LEMMA DeliveryStepKeeps ==
  ASSUME StoreInv, StoreTyped', NEW p \in Deliverers,
         UNCHANGED <<clock, raw, lock, requests, jobs, stored, matrix>>,
         \A q \in Deliverers \ {p} : deliverers'[q] = deliverers[q],
         \A d \in Range(Destinations) : forwarded[d] \subseteq forwarded'[d],
         \A n \in Names : \/ cursors'[n] = cursors[n]
                          \/ /\ n \in Range(Destinations) /\ Settled(cursors'[n][1])
                             /\ \A m \in Messages : raw[m] # Never =>
                                  m \in forwarded'[n] \/ After(<<raw[m], m>>, cursors'[n]),
         deliverers'[p].at # "idle" => Settled(deliverers'[p].cutoff),
         \A q \in deliverers'[p].page : Settled(q[1]),
         deliverers'[p].at = "delivering" =>
           Complete(raw, deliverers'[p].page,
                    forwarded'[Destination(p)'] \union Ids(deliverers'[p].page)),
         deliverers'[p].at = "advancing" =>
           Complete(raw, deliverers'[p].page, forwarded'[Destination(p)'])
  PROVE  StoreInv'
<1>1. RequestsAreYoung' /\ RawIsStored' /\ LockIsHeld'
  BY DEF StoreInv, RequestsAreYoung, RawIsStored, LockIsHeld
<1>2. PositionsAreSettled'
  BY DEF StoreInv, PositionsAreSettled, Settled
<1>3. RotationIsComplete' /\ PrunedIsDone'
  BY DEF StoreInv, RotationIsComplete, PrunedIsDone, Rotated
<1>4. cursors'["rotation"] = cursors["rotation"]
  BY EventStoreAssumption DEF Names
<1>5. NothingLost'
  BY <1>4 DEF StoreInv, NothingLost, Ahead
<1>6. NothingSkipped'
  <2> SUFFICES ASSUME NEW m \in Messages, NEW d \in Range(Destinations), stored[m] # Never
               PROVE  m \in forwarded'[d] \/ Ahead(m, d)'
    BY DEF NothingSkipped
  <2>1. d \in Names
    BY DEF Names
  <2>2. m \in forwarded[d] \/ Ahead(m, d)
    BY DEF StoreInv, NothingSkipped
  <2>3. QED
    BY <2>1, <2>2 DEF Ahead
<1>7. DeliveryIsComplete'
  <2>1. ASSUME NEW q \in Deliverers \ {p}, deliverers[q].at \in {"delivering", "advancing"}
        PROVE  /\ Destination(q)' = Destination(q)
               /\ forwarded[Destination(q)] \subseteq forwarded'[Destination(q)]
    BY <2>1, DestinationType DEF StoreInv, StoreTyped, Destination
  <2>2. ASSUME NEW q \in Deliverers \ {p}
        PROVE  /\ deliverers'[q].at = "delivering" =>
                    Complete(raw, deliverers'[q].page,
                             forwarded'[Destination(q)'] \union Ids(deliverers'[q].page))
               /\ deliverers'[q].at = "advancing" =>
                    Complete(raw, deliverers'[q].page, forwarded'[Destination(q)'])
    <3>1. CASE deliverers[q].at = "delivering"
      BY <2>1, <3>1 DEF StoreInv, DeliveryIsComplete, Complete
    <3>2. CASE deliverers[q].at = "advancing"
      BY <2>1, <3>2 DEF StoreInv, DeliveryIsComplete, Complete
    <3>3. QED
      BY <3>1, <3>2
  <2>3. QED
    BY <2>2 DEF DeliveryIsComplete
<1>8. QED
  BY <1>1, <1>2, <1>3, <1>5, <1>6, <1>7 DEF StoreInv

\* The same, when the delivery turns to its next destination.
LEMMA NextDestinationKeeps ==
  ASSUME StoreInv, StoreTyped', NEW p \in Deliverers, deliverers[p].at # "idle",
         NextDestination(p),
         UNCHANGED <<clock, raw, lock, requests, jobs, stored, matrix>>,
         \A d \in Range(Destinations) : forwarded[d] \subseteq forwarded'[d],
         \A n \in Names : \/ cursors'[n] = cursors[n]
                          \/ /\ n \in Range(Destinations) /\ Settled(cursors'[n][1])
                             /\ \A m \in Messages : raw[m] # Never =>
                                  m \in forwarded'[n] \/ After(<<raw[m], m>>, cursors'[n])
  PROVE  StoreInv'
<1>1. /\ \A q \in Deliverers \ {p} : deliverers'[q] = deliverers[q]
      /\ deliverers'[p].at \in {"idle", "reading"} /\ deliverers'[p].page = {}
      /\ deliverers'[p].at = "reading" => deliverers'[p].cutoff = deliverers[p].cutoff
  BY NextDestinationType DEF StoreInv, StoreTyped, IdleDelivery
<1>2. Settled(deliverers[p].cutoff)
  BY DEF StoreInv, PositionsAreSettled
<1>3. QED
  BY <1>1, <1>2, DeliveryStepKeeps

LEMMA StartDeliveryKeeps ==
  ASSUME StoreInv, StoreTyped', NEW p \in Deliverers, StartDelivery(p)
  PROVE  StoreInv'
<1>1. /\ deliverers'[p].at = "reading" /\ deliverers'[p].cutoff = clock - Lag
      /\ deliverers'[p].page = deliverers[p].page
      /\ \A q \in Deliverers \ {p} : deliverers'[q] = deliverers[q]
  BY TypedState DEF StartDelivery, Cutoff, StoreInv, Deliverer
<1>2. Settled(deliverers'[p].cutoff)
  BY <1>1, TypedState, ConstantsType DEF Settled, StoreInv
<1>3. QED
  BY <1>1, <1>2, DeliveryStepKeeps, PagesAreSettled DEF StartDelivery

LEMMA ReadDeliveryKeeps ==
  ASSUME StoreInv, StoreTyped', NEW p \in Deliverers, ReadDelivery(p)
  PROVE  StoreInv'
<1> DEFINE page == Pending(Destination(p), deliverers[p].cutoff, BatchSize)
<1>1. deliverers[p].at # "idle"
  BY DEF ReadDelivery
<1>2. CASE NextDestination(p)
  BY <1>1, <1>2, NextDestinationKeeps DEF ReadDelivery
<1>3. CASE deliverers' = [deliverers EXCEPT ![p].at = "delivering", ![p].page = page]
  <2>1. Destination(p) \in Range(Destinations) /\ Destination(p) \in Names
    BY <1>1, DestinationType DEF StoreInv, StoreTyped, Names
  <2>2. deliverers[p].cutoff \in Int /\ Settled(deliverers[p].cutoff)
    BY <1>1, TypedState DEF StoreInv, Deliverer, PositionsAreSettled
  <2>3. /\ \A q \in page : q \in Rows /\ q[1] <= deliverers[p].cutoff
        /\ \A m \in Messages : Ahead(m, Destination(p)) =>
             m \in Ids(page) \/ \A q \in page : After(<<raw[m], m>>, q)
    BY <2>1, <2>2, PendingIsComplete, ConstantsType DEF StoreInv
  <2> HIDE DEF page
  <2>4. /\ deliverers'[p].at = "delivering" /\ deliverers'[p].page = page
        /\ deliverers'[p].cutoff = deliverers[p].cutoff
        /\ deliverers'[p].left = deliverers[p].left
        /\ \A q \in Deliverers \ {p} : deliverers'[q] = deliverers[q]
    BY <1>3, TypedState DEF StoreInv, Deliverer
  <2>5. \A q \in page : Settled(q[1])
    <3>1. \A q \in Rows : q[1] \in Instants
      BY TypedState DEF StoreInv, Rows
    <3>2. clock - Lag \in Int
      BY TypedState, ConstantsType DEF StoreInv
    <3>3. QED
      BY <2>2, <2>3, <3>1, <3>2, ConstantsType DEF Settled, Instants, Time, Never
  <2>6. Complete(raw, page, forwarded[Destination(p)] \union Ids(page))
    BY <2>1, <2>3 DEF Complete, StoreInv, RawIsStored, NothingSkipped
  <2>7. forwarded' = forwarded /\ Destination(p)' = Destination(p)
    BY <2>4 DEF ReadDelivery, Destination
  <2>8. QED
    BY <2>2, <2>4, <2>5, <2>6, <2>7, DeliveryStepKeeps DEF ReadDelivery
<1>4. QED
  BY <1>2, <1>3 DEF ReadDelivery

LEMMA DeliverKeeps ==
  ASSUME StoreInv, StoreTyped', NEW p \in Deliverers, Deliver(p)
  PROVE  StoreInv'
<1> DEFINE page == deliverers[p].page
<1>1. /\ deliverers'[p].at = "advancing" /\ deliverers'[p].page = page
      /\ deliverers'[p].cutoff = deliverers[p].cutoff
      /\ deliverers'[p].left = deliverers[p].left
      /\ \A q \in Deliverers \ {p} : deliverers'[q] = deliverers[q]
  BY TypedState DEF StoreInv, Deliverer, Deliver
<1>2. Destination(p) \in Range(Destinations) /\ Destination(p)' = Destination(p)
  BY <1>1, DestinationType DEF Deliver, StoreInv, StoreTyped, Destination
<1>3. /\ forwarded'[Destination(p)] = forwarded[Destination(p)] \union Ids(page)
      /\ \A d \in Range(Destinations) : forwarded[d] \subseteq forwarded'[d]
  BY <1>2, TypedState DEF StoreInv, Deliver
<1>4. Complete(raw, page, forwarded'[Destination(p)])
  BY <1>3 DEF Deliver, StoreInv, DeliveryIsComplete
<1>5. Settled(deliverers[p].cutoff) /\ \A q \in page : Settled(q[1])
  BY PagesAreSettled DEF Deliver, StoreInv, PositionsAreSettled
<1> HIDE DEF page
<1>6. QED
  BY <1>1, <1>2, <1>3, <1>4, <1>5, DeliveryStepKeeps DEF Deliver

LEMMA DeliverFailsKeeps ==
  ASSUME StoreInv, StoreTyped', NEW p \in Deliverers, DeliverFails(p)
  PROVE  StoreInv'
<1>1. \A d \in Range(Destinations) : forwarded[d] \subseteq forwarded'[d]
  BY TypedState DEF StoreInv, DeliverFails
<1>2. QED
  BY <1>1, NextDestinationKeeps DEF DeliverFails

LEMMA AdvanceKeeps ==
  ASSUME StoreInv, StoreTyped', NEW p \in Deliverers, Advance(p)
  PROVE  StoreInv'
<1> DEFINE page == deliverers[p].page
           d == Destination(p)
<1>1. d \in Range(Destinations) /\ d \in Names
  BY DestinationType DEF Advance, StoreInv, StoreTyped, Names
<1>2. page \in SUBSET Position /\ page # {}
  BY TypedState DEF Advance, StoreInv, StoreTyped, InDelivery, Deliverer
<1>3. LastOf(page) \in page /\ Settled(LastOf(page)[1])
  BY <1>2, LastOfPage, PagesAreSettled
<1>4. /\ cursors'[d] = LastOf(page)
      /\ \A n \in Names : n # d => cursors'[n] = cursors[n]
  BY <1>1, TypedState DEF Advance, StoreInv
<1>5. \A m \in Messages : raw[m] # Never =>
        m \in forwarded[d] \/ After(<<raw[m], m>>, LastOf(page))
  BY <1>3 DEF Advance, StoreInv, DeliveryIsComplete, Complete
<1> HIDE DEF d
<1>6. \A n \in Names : \/ cursors'[n] = cursors[n]
                       \/ /\ n \in Range(Destinations) /\ Settled(cursors'[n][1])
                          /\ \A m \in Messages : raw[m] # Never =>
                               m \in forwarded'[n] \/ After(<<raw[m], m>>, cursors'[n])
  BY <1>1, <1>3, <1>4, <1>5 DEF Advance
<1>7. CASE NextDestination(p)
  BY <1>6, <1>7, NextDestinationKeeps DEF Advance
<1>8. CASE deliverers' = [deliverers EXCEPT ![p].at = "reading", ![p].page = {}]
  <2>1. /\ deliverers'[p].at = "reading" /\ deliverers'[p].page = {}
        /\ deliverers'[p].cutoff = deliverers[p].cutoff
        /\ \A q \in Deliverers \ {p} : deliverers'[q] = deliverers[q]
    BY <1>8, TypedState DEF StoreInv, Deliverer
  <2>2. Settled(deliverers[p].cutoff)
    BY DEF Advance, StoreInv, PositionsAreSettled
  <2>3. QED
    BY <1>6, <2>1, <2>2, DeliveryStepKeeps DEF Advance
<1>9. QED
  BY <1>7, <1>8 DEF Advance

LEMMA DeliveryDiesKeeps ==
  ASSUME StoreInv, StoreTyped', NEW p \in Deliverers, DeliveryDies(p)
  PROVE  StoreInv'
<1>1. /\ deliverers'[p].at = "idle" /\ deliverers'[p].page = {}
      /\ \A q \in Deliverers \ {p} : deliverers'[q] = deliverers[q]
  BY TypedState DEF StoreInv, DeliveryDies, IdleDelivery
<1>2. QED
  BY <1>1, DeliveryStepKeeps DEF DeliveryDies

LEMMA InitStoreInv == Init => StoreInv
<1> SUFFICES ASSUME Init PROVE StoreInv
  OBVIOUS
<1>1. StoreTyped
  BY InitTyped
<1>2. PositionsAreSettled
  BY DEF Init, PositionsAreSettled, Settled, NoCursor, IdleJob, IdleDelivery
<1>3. RequestsAreYoung /\ LockIsHeld
  BY EventStoreAssumption DEF Init, RequestsAreYoung, NoBatch, LockIsHeld, IdleJob
<1>4. RotationIsComplete /\ DeliveryIsComplete /\ PrunedIsDone
  BY DEF Init, RotationIsComplete, DeliveryIsComplete, PrunedIsDone, IdleJob, IdleDelivery
<1>5. RawIsStored /\ NothingLost /\ NothingSkipped
  BY DEF Init, RawIsStored, NothingLost, NothingSkipped
<1>6. QED
  BY <1>1, <1>2, <1>3, <1>4, <1>5 DEF StoreInv

LEMMA StepStoreInv == ASSUME Punctual, StoreInv, [Next]_vars PROVE StoreInv'
<1>1. StoreTyped'
  BY StepTyped DEF StoreInv
<1>2. ASSUME NEW r \in Requests,
             \/ \E batch \in SUBSET Messages : Receive(r, batch)
             \/ Commit(r) \/ Drop(r)
      PROVE  StoreInv'
  BY <1>1, <1>2, ReceiveKeeps, CommitKeeps, DropKeeps
<1>3. ASSUME NEW j \in Jobs, Rotation(j) \/ JobFails(j)
      PROVE  StoreInv'
  BY <1>1, <1>3, StartRotationKeeps, ReadRotationKeeps, LockBusyKeeps, WriteRotationKeeps,
     ReadCursorsKeeps, DeleteRawKeeps, JobFailsKeeps DEF Rotation, TryLock
<1>4. ASSUME NEW p \in Deliverers, Delivery(p) \/ DeliverFails(p) \/ DeliveryDies(p)
      PROVE  StoreInv'
  BY <1>1, <1>4, StartDeliveryKeeps, ReadDeliveryKeeps, DeliverKeeps, AdvanceKeeps,
     DeliverFailsKeeps, DeliveryDiesKeeps DEF Delivery
<1>5. ASSUME NEW actor \in Actors, Erase(actor) PROVE StoreInv'
  BY <1>1, <1>5, EraseKeeps
<1>6. CASE Tick
  BY <1>1, <1>6, TickKeeps
<1>7. CASE UNCHANGED vars
  BY <1>1, <1>7
     DEF vars, StoreInv, RequestsAreYoung, PositionsAreSettled, Settled, LockIsHeld,
         RawIsStored, RotationIsComplete, Rotated, DeliveryIsComplete, Destination,
         PrunedIsDone, NothingLost, NothingSkipped, Ahead
<1>8. QED
  BY <1>2, <1>3, <1>4, <1>5, <1>6, <1>7 DEF Next, Works, Fails

\* As long as every request is over within rotation_lag, no accepted event is
\* lost on its way into the chunks (NothingLost), whatever fails, however many
\* jobs run at once, and whatever is erased.
THEOREM NothingIsLost == ASSUME Punctual PROVE Spec => []NothingLost
<1>1. StoreInv => NothingLost
  BY DEF StoreInv
<1>2. StoreInv /\ [Next]_vars => StoreInv'
  BY StepStoreInv
<1>3. QED
  BY <1>1, <1>2, InitStoreInv, PTL DEF Spec

\* ... nor on its way to a destination (NothingSkipped): rows are pruned only
\* once every destination has them, although deliveries set cursors back.
THEOREM NothingIsSkipped == ASSUME Punctual PROVE Spec => []NothingSkipped
<1>1. StoreInv => NothingSkipped
  BY DEF StoreInv
<1>2. StoreInv /\ [Next]_vars => StoreInv'
  BY StepStoreInv
<1>3. QED
  BY <1>1, <1>2, InitStoreInv, PTL DEF Spec

-----------------------------------------------------------------------------
(* The inductive invariant of CountedOnce.                                 *)

\* A raw row has the event's first receive time, and goes when the window is over.
RawIsFirst ==
  \A m \in Messages \ late :
    /\ raw[m] # Never => raw[m] = stored[m]
    /\ raw[m] = Never /\ stored[m] # Never => clock - stored[m] > DedupWindow

PruningIsLate ==
  \A j \in Jobs : jobs[j].at = "deleting" => jobs[j].cutoff <= clock - DedupWindow

\* An event in the chunks is stored, and not ahead of the rotation's cursor.
CountedIsBehind ==
  \A m \in Messages \ late : matrix[m] > 0 => stored[m] # Never /\ ~ Ahead(m, "rotation")

\* A page that is written is ahead of the cursor, and its rows that are not late
\* are raw rows, not yet counted.
PageIsNew ==
  \A j \in Jobs : jobs[j].at = "writing" =>
    \A q \in jobs[j].page :
      /\ After(q, cursors["rotation"])
      /\ q[2] \notin late => q \in Rows /\ matrix[q[2]] = 0

\* What is not late has its first row, and is counted or waits to be.
CountInv ==
  /\ StoreInv /\ RawIsFirst /\ PruningIsLate
  /\ CountedIsBehind /\ PageIsNew /\ CountedOnce

\* A step that leaves the rows, the chunks and the rotation's cursor alone, and
\* of jobs that write or delete at most ends some.
LEMMA QuietStepKeeps ==
  ASSUME CountInv, StoreInv',
         UNCHANGED <<clock, raw, stored, late, matrix>>,
         cursors'["rotation"] = cursors["rotation"],
         \A j \in Jobs : jobs'[j] = jobs[j] \/ jobs'[j].at \notin {"writing", "deleting"}
  PROVE  CountInv'
<1>1. RawIsFirst' /\ PruningIsLate' /\ CountedIsBehind' /\ CountedOnce'
  BY DEF CountInv, RawIsFirst, PruningIsLate, CountedIsBehind, CountedOnce, Ahead
<1>2. PageIsNew'
  BY DEF CountInv, PageIsNew, Rows
<1>3. QED
  BY <1>1, <1>2 DEF CountInv

\* Of events that are not late by then, a commit inserts those that are not
\* stored and touches no other: what was stored within the window is still there.
LEMMA CommitInsertsNew ==
  ASSUME CountInv, NEW r \in Requests, Commit(r), NEW m \in Messages, m \notin late'
  PROVE  /\ m \notin late
         /\ \/ raw'[m] = raw[m] /\ stored'[m] = stored[m]
            \/ /\ m \in requests[r].batch /\ stored[m] = Never /\ raw[m] = Never
               /\ raw'[m] = requests[r].received /\ stored'[m] = requests[r].received
<1>1. m \notin late
  BY DEF Commit
<1>2. CASE m \notin requests[r].batch
  BY <1>1, <1>2 DEF Commit, Inserted
<1>3. CASE m \in requests[r].batch /\ stored[m] = Never
  <2>1. raw[m] = Never
    BY <1>3 DEF CountInv, StoreInv, RawIsStored
  <2>2. QED
    BY <1>1, <1>3, <2>1 DEF Commit, Inserted
<1>4. CASE m \in requests[r].batch /\ stored[m] # Never
  <2>1. ~ (clock - stored[m] > DedupWindow)
    BY <1>4 DEF Commit
  <2>2. raw[m] # Never
    BY <1>1, <1>4, <2>1 DEF CountInv, RawIsFirst
  <2>3. QED
    BY <1>1, <1>4, <2>2 DEF Commit, Inserted
<1>5. QED
  BY <1>2, <1>3, <1>4

LEMMA CommitCounts ==
  ASSUME CountInv, StoreInv', NEW r \in Requests, Commit(r)
  PROVE  CountInv'
<1> DEFINE received == requests[r].received
<1>1. UNCHANGED <<clock, cursors, jobs, matrix>>
  BY DEF Commit
<1>2. \A m \in Messages \ late' :
        /\ m \notin late
        /\ \/ raw'[m] = raw[m] /\ stored'[m] = stored[m]
           \/ /\ stored[m] = Never /\ raw[m] = Never
              /\ raw'[m] = received /\ stored'[m] = received
  BY CommitInsertsNew
<1>3. received \in Nat /\ received # Never
  <2>1. received \in Nat
    BY TypedState DEF Commit, CountInv, StoreInv, RequestsAreYoung, Time
  <2>2. QED
    BY <2>1 DEF Never
<1> HIDE DEF received
<1>4. RawIsFirst'
  BY <1>1, <1>2, <1>3 DEF CountInv, RawIsFirst
<1>5. CountedIsBehind' /\ CountedOnce'
  BY <1>1, <1>2 DEF CountInv, CountedIsBehind, CountedOnce, Ahead
<1>6. PageIsNew'
  <2> SUFFICES ASSUME NEW j \in Jobs, jobs[j].at = "writing", NEW q \in jobs[j].page
               PROVE  /\ After(q, cursors["rotation"])
                      /\ q[2] \notin late' => q \in Rows' /\ matrix[q[2]] = 0
    BY <1>1 DEF PageIsNew
  <2>1. After(q, cursors["rotation"]) /\ (q[2] \notin late => q \in Rows /\ matrix[q[2]] = 0)
    BY DEF CountInv, PageIsNew
  <2>2. ASSUME q[2] \notin late' PROVE q \in Rows' /\ matrix[q[2]] = 0
    <3>1. q[2] \notin late
      BY <2>2 DEF Commit
    <3>2. PICK m \in Messages : raw[m] # Never /\ q = <<raw[m], m>>
      BY <2>1, <3>1 DEF Rows
    <3>3. raw'[m] = raw[m]
      BY <1>2, <2>2, <3>2
    <3>4. QED
      BY <2>1, <3>1, <3>2, <3>3 DEF Rows
  <2>3. QED
    BY <2>1, <2>2
<1>7. PruningIsLate'
  BY <1>1 DEF CountInv, PruningIsLate
<1>8. QED
  BY <1>4, <1>5, <1>6, <1>7 DEF CountInv

LEMMA ReadRotationCounts ==
  ASSUME CountInv, StoreInv', NEW j \in Jobs, ReadRotation(j)
  PROVE  CountInv'
<1> DEFINE page == Pending("rotation", jobs[j].cutoff, RotationPage)
<1>1. /\ jobs'[j].at = "writing" /\ jobs'[j].page = page
      /\ \A i \in Jobs \ {j} : jobs'[i] = jobs[i]
      /\ UNCHANGED <<clock, raw, cursors, requests, stored, late, matrix>>
  BY TypedState DEF ReadRotation, CountInv, StoreInv, Job
<1>2. \A q \in page : q \in Rows /\ After(q, cursors["rotation"])
  <2>1. jobs[j].cutoff \in Int
    BY TypedState DEF CountInv, StoreInv, Job
  <2>2. QED
    BY <2>1, PendingIsComplete, ConstantsType DEF CountInv, StoreInv, Names
<1> HIDE DEF page
<1>3. \A q \in page : q[2] \notin late => matrix[q[2]] = 0
  <2> SUFFICES ASSUME NEW m \in Messages \ late, <<raw[m], m>> \in page, raw[m] # Never
               PROVE  matrix[m] = 0
    BY <1>2 DEF Rows
  <2>1. ~ (matrix[m] > 0)
    BY <1>2 DEF CountInv, CountedIsBehind, Ahead
  <2>2. QED
    BY <2>1, TypedState DEF CountInv, StoreInv
<1>4. PageIsNew'
  BY <1>1, <1>2, <1>3 DEF CountInv, PageIsNew, Rows
<1>5. RawIsFirst' /\ PruningIsLate' /\ CountedIsBehind' /\ CountedOnce'
  BY <1>1 DEF CountInv, RawIsFirst, PruningIsLate, CountedIsBehind, CountedOnce, Ahead
<1>6. QED
  BY <1>4, <1>5 DEF CountInv

LEMMA WriteRotationCounts ==
  ASSUME CountInv, StoreInv', NEW j \in Jobs, WriteRotation(j)
  PROVE  CountInv'
<1> DEFINE page == jobs[j].page
<1>1. UNCHANGED <<clock, raw, requests, stored, late>>
  BY DEF WriteRotation
<1>2. page \in SUBSET Position /\ jobs[j].at = "writing" /\ lock = j
  BY TypedState DEF CountInv, StoreInv, WriteRotation, LockIsHeld, Job
<1>3. /\ \A i \in Jobs \ {j} : jobs'[i] = jobs[i] /\ jobs[i].at # "writing"
      /\ jobs'[j].at \notin {"writing", "deleting"}
  BY <1>2, TypedState DEF WriteRotation, CountInv, StoreInv, LockIsHeld, Job, IdleJob
<1>4. /\ \A q \in page : After(q, cursors["rotation"])
      /\ \A m \in Messages \ late :
           m \in Ids(page) => <<raw[m], m>> \in page /\ raw[m] # Never /\ matrix[m] = 0
  <2>1. ASSUME NEW q \in page
        PROVE  /\ After(q, cursors["rotation"])
               /\ q[2] \notin late => q \in Rows /\ matrix[q[2]] = 0
    BY <1>2, <2>1 DEF CountInv, PageIsNew
  <2> HIDE DEF page
  <2>2. ASSUME NEW m \in Messages \ late, m \in Ids(page)
        PROVE  <<raw[m], m>> \in page /\ raw[m] # Never /\ matrix[m] = 0
    <3>1. PICK q \in page : q[2] = m
      BY <2>2 DEF Ids
    <3>2. q \in Rows /\ matrix[m] = 0
      BY <2>1, <2>2, <3>1
    <3>3. QED
      BY <3>1, <3>2 DEF Rows
  <2>3. QED
    BY <2>1, <2>2
<1>5. /\ page = {} => cursors'["rotation"] = cursors["rotation"]
      /\ page # {} => cursors'["rotation"] = LastOf(page) /\ LastOf(page) \in page
                      /\ \A q \in page : ~ After(q, LastOf(page))
  BY <1>2, LastOfPage, TypedState DEF WriteRotation, CountInv, StoreInv, Names
<1>6. \A m \in Messages \ late : IF m \in Ids(page) THEN matrix[m] = 0 /\ matrix'[m] = 1
                                 ELSE matrix'[m] = matrix[m]
  <2>1. \A m \in Messages : matrix'[m] = IF m \in Ids(page) THEN matrix[m] + 1 ELSE matrix[m]
    BY DEF WriteRotation
  <2> SUFFICES ASSUME NEW m \in Messages \ late
               PROVE  IF m \in Ids(page) THEN matrix[m] = 0 /\ matrix'[m] = 1
                      ELSE matrix'[m] = matrix[m]
    OBVIOUS
  <2>2. m \in Ids(page) => matrix[m] = 0
    BY <1>4
  <2> HIDE DEF page
  <2>3. QED
    BY <2>1, <2>2
<1>7. CountedOnce'
  BY <1>1, <1>6 DEF CountInv, CountedOnce
<1>8. CountedIsBehind'
  <2> SUFFICES ASSUME NEW m \in Messages \ late, matrix'[m] > 0
               PROVE  stored[m] # Never /\ ~ Ahead(m, "rotation")'
    BY <1>1 DEF CountedIsBehind
  <2>1. CASE m \in Ids(page)
    <3>1. <<raw[m], m>> \in page /\ raw[m] # Never
      BY <1>4, <2>1
    <3>2. QED
      BY <1>1, <1>5, <3>1 DEF CountInv, StoreInv, RawIsStored, Ahead, page
  <2>2. CASE m \notin Ids(page)
    <3>1. stored[m] # Never /\ ~ Ahead(m, "rotation")
      BY <1>6, <2>2 DEF CountInv, CountedIsBehind
    <3>2. CASE page = {}
      BY <1>1, <1>5, <3>1, <3>2 DEF Ahead
    <3>3. CASE page # {} /\ raw[m] # Never
      <4>1. ~ After(<<raw[m], m>>, cursors["rotation"])
        BY <3>1, <3>3 DEF Ahead
      <4>2. /\ <<raw[m], m>> \in Position /\ LastOf(page) \in Position
            /\ cursors["rotation"] \in Position
        BY <1>2, <1>5, <3>3, TypedState DEF CountInv, StoreInv, Position, Names
      <4>3. After(LastOf(page), cursors["rotation"])
        BY <1>4, <1>5, <3>3
      <4> HIDE DEF page
      <4>4. ~ After(<<raw[m], m>>, LastOf(page))
        BY <4>1, <4>2, <4>3, AfterIsTransitive
      <4>5. QED
        BY <1>1, <1>5, <3>1, <3>3, <4>4 DEF Ahead
    <3>4. QED
      BY <1>1, <3>1, <3>2, <3>3 DEF Ahead
  <2>3. QED
    BY <2>1, <2>2
<1>9. PageIsNew' /\ PruningIsLate'
  BY <1>1, <1>3 DEF CountInv, PageIsNew, PruningIsLate
<1>10. RawIsFirst'
  BY <1>1 DEF CountInv, RawIsFirst
<1>11. QED
  BY <1>7, <1>8, <1>9, <1>10 DEF CountInv

LEMMA ReadCursorsCounts ==
  ASSUME CountInv, StoreInv', NEW j \in Jobs, ReadCursors(j)
  PROVE  CountInv'
<1>1. /\ \A i \in Jobs \ {j} : jobs'[i] = jobs[i]
      /\ jobs'[j].at # "writing"
      /\ jobs'[j].at = "deleting" => jobs'[j].cutoff = clock - DedupWindow
      /\ UNCHANGED <<clock, raw, cursors, requests, stored, late, matrix>>
  BY TypedState DEF ReadCursors, CountInv, StoreInv, Job, IdleJob
<1>2. clock - DedupWindow <= clock - DedupWindow
  BY TypedState, ConstantsType DEF CountInv, StoreInv
<1>3. PruningIsLate' /\ PageIsNew'
  BY <1>1, <1>2 DEF CountInv, PruningIsLate, PageIsNew, Rows
<1>4. RawIsFirst' /\ CountedIsBehind' /\ CountedOnce'
  BY <1>1 DEF CountInv, RawIsFirst, CountedIsBehind, CountedOnce, Ahead
<1>5. QED
  BY <1>3, <1>4 DEF CountInv

LEMMA DeleteRawCounts ==
  ASSUME CountInv, StoreInv', NEW j \in Jobs, DeleteRaw(j)
  PROVE  CountInv'
<1>1. /\ UNCHANGED <<clock, cursors, requests, stored, late, matrix>>
      /\ \A i \in Jobs : jobs'[i] = jobs[i] \/ (i = j /\ jobs'[i].at = "idle")
      /\ jobs[j].at = "deleting"
  BY TypedState DEF DeleteRaw, CountInv, StoreInv, IdleJob
<1>2. \A m \in Messages :
        \/ raw'[m] = raw[m]
        \/ raw'[m] = Never /\ m \in Expired(j) /\ matrix[m] > 0
  BY DeletedIsDone DEF CountInv, StoreInv
<1>3. \A m \in Messages : m \in Expired(j) => raw[m] # Never /\ raw[m] < jobs[j].cutoff
  BY DEF Expired, Rows, Ids
<1>4. RawIsFirst'
  <2> SUFFICES ASSUME NEW m \in Messages \ late, raw'[m] = Never, stored[m] # Never, raw[m] # Never
               PROVE  clock - stored[m] > DedupWindow
    BY <1>1, <1>2 DEF CountInv, RawIsFirst
  <2>1. raw[m] < jobs[j].cutoff /\ jobs[j].cutoff <= clock - DedupWindow /\ raw[m] = stored[m]
    BY <1>1, <1>2, <1>3 DEF CountInv, RawIsFirst, PruningIsLate
  <2>2. /\ raw[m] \in Int /\ jobs[j].cutoff \in Int /\ clock \in Int
        /\ DedupWindow \in Int
    BY TypedState, ConstantsType DEF CountInv, StoreInv, Job
  <2>3. QED
    BY <2>1, <2>2
<1>5. PageIsNew'
  <2> SUFFICES ASSUME NEW i \in Jobs, jobs[i].at = "writing", NEW q \in jobs[i].page
               PROVE  /\ After(q, cursors["rotation"])
                      /\ q[2] \notin late => q \in Rows' /\ matrix[q[2]] = 0
    BY <1>1 DEF PageIsNew
  <2>1. After(q, cursors["rotation"]) /\ (q[2] \notin late => q \in Rows /\ matrix[q[2]] = 0)
    BY DEF CountInv, PageIsNew
  <2>2. ASSUME q[2] \notin late PROVE q \in Rows'
    <3>1. PICK m \in Messages : raw[m] # Never /\ q = <<raw[m], m>>
      BY <2>1, <2>2 DEF Rows
    <3>2. raw'[m] = raw[m]
      BY <1>2, <2>1, <2>2, <3>1
    <3>3. QED
      BY <3>1, <3>2 DEF Rows
  <2>3. QED
    BY <2>1, <2>2
<1>6. CountedIsBehind' /\ CountedOnce'
  BY <1>1, <1>2 DEF CountInv, CountedIsBehind, CountedOnce, Ahead
<1>7. PruningIsLate'
  BY <1>1 DEF CountInv, PruningIsLate
<1>8. QED
  BY <1>4, <1>5, <1>6, <1>7 DEF CountInv

LEMMA EraseCounts ==
  ASSUME CountInv, StoreInv', NEW actor \in Actors, Erase(actor)
  PROVE  CountInv'
<1>1. UNCHANGED <<clock, cursors, requests, jobs>> /\ lock = Free
  BY DEF Erase
<1>2. \A m \in Messages :
        \/ /\ raw'[m] = raw[m] /\ matrix'[m] = matrix[m] /\ stored'[m] = stored[m]
           /\ m \in late' <=> m \in late
        \/ raw'[m] = Never /\ matrix'[m] = 0 /\ stored'[m] = Never
  BY DEF Erase
<1>3. \A j \in Jobs : jobs[j].at # "writing"
  BY <1>1, EventStoreAssumption DEF CountInv, StoreInv, LockIsHeld
<1>4. PageIsNew' /\ PruningIsLate'
  BY <1>1, <1>3 DEF CountInv, PageIsNew, PruningIsLate
<1>5. RawIsFirst' /\ CountedIsBehind' /\ CountedOnce'
  BY <1>1, <1>2 DEF CountInv, RawIsFirst, CountedIsBehind, CountedOnce, Ahead
<1>6. QED
  BY <1>4, <1>5 DEF CountInv

LEMMA TickCounts ==
  ASSUME CountInv, StoreInv', Tick
  PROVE  CountInv'
<1>1. /\ UNCHANGED <<raw, cursors, requests, jobs, stored, late, matrix>>
      /\ clock' = clock + 1 /\ clock \in Nat
  BY TypedState DEF Tick, CountInv, StoreInv
<1>2. RawIsFirst'
  BY <1>1, TypedState, ConstantsType DEF CountInv, StoreInv, RawIsFirst
<1>3. PruningIsLate'
  BY <1>1, TypedState, ConstantsType DEF CountInv, StoreInv, PruningIsLate, Job
<1>4. CountedIsBehind' /\ CountedOnce' /\ PageIsNew'
  BY <1>1 DEF CountInv, CountedIsBehind, CountedOnce, Ahead, PageIsNew, Rows
<1>5. QED
  BY <1>2, <1>3, <1>4 DEF CountInv

LEMMA InitCountInv == Init => CountInv
<1> SUFFICES ASSUME Init PROVE CountInv
  OBVIOUS
<1>1. StoreInv
  BY InitStoreInv
<1>2. RawIsFirst /\ CountedIsBehind /\ CountedOnce
  BY DEF Init, RawIsFirst, CountedIsBehind, CountedOnce
<1>3. PruningIsLate /\ PageIsNew
  BY DEF Init, PruningIsLate, PageIsNew, IdleJob
<1>4. QED
  BY <1>1, <1>2, <1>3 DEF CountInv

LEMMA StepCountInv == ASSUME Punctual, CountInv, [Next]_vars PROVE CountInv'
<1>1. StoreInv'
  BY StepStoreInv DEF CountInv
<1>2. ASSUME NEW r \in Requests,
             \/ \E batch \in SUBSET Messages : Receive(r, batch)
             \/ Commit(r) \/ Drop(r)
      PROVE  CountInv'
  <2>1. CASE Commit(r)
    BY <1>1, <2>1, CommitCounts
  <2>2. CASE Drop(r) \/ \E batch \in SUBSET Messages : Receive(r, batch)
    BY <1>1, <2>2, QuietStepKeeps DEF Drop, Receive
  <2>3. QED
    BY <1>2, <2>1, <2>2
<1>3. ASSUME NEW j \in Jobs, Rotation(j) \/ JobFails(j)
      PROVE  CountInv'
  <2>1. CASE StartRotation(j) \/ LockBusy(j) \/ JobFails(j)
    <3>1. \A i \in Jobs : jobs'[i] = jobs[i] \/ jobs'[i].at \notin {"writing", "deleting"}
      BY <2>1, TypedState DEF StartRotation, LockBusy, JobFails, IdleJob, CountInv, StoreInv, Job
    <3>2. QED
      BY <1>1, <2>1, <3>1, QuietStepKeeps DEF StartRotation, LockBusy, JobFails
  <2>2. QED
    BY <1>1, <1>3, <2>1, ReadRotationCounts, WriteRotationCounts, ReadCursorsCounts,
       DeleteRawCounts DEF Rotation, TryLock
<1>4. ASSUME NEW p \in Deliverers, Delivery(p) \/ DeliverFails(p) \/ DeliveryDies(p)
      PROVE  CountInv'
  <2>1. UNCHANGED <<clock, raw, stored, late, matrix, jobs>>
    BY <1>4 DEF Delivery, StartDelivery, ReadDelivery, Deliver, Advance, DeliverFails, DeliveryDies
  <2>2. cursors'["rotation"] = cursors["rotation"]
    <3>1. CASE Advance(p)
      <4>1. Destination(p) # "rotation"
        BY <3>1, DestinationType, EventStoreAssumption
           DEF Advance, CountInv, StoreInv, StoreTyped
      <4>2. QED
        BY <3>1, <4>1, TypedState DEF Advance, CountInv, StoreInv, Names
    <3>2. QED
      BY <1>4, <3>1 DEF Delivery, StartDelivery, ReadDelivery, Deliver, DeliverFails, DeliveryDies
  <2>3. QED
    BY <1>1, <2>1, <2>2, QuietStepKeeps
<1>5. ASSUME NEW actor \in Actors, Erase(actor) PROVE CountInv'
  BY <1>1, <1>5, EraseCounts
<1>6. CASE Tick
  BY <1>1, <1>6, TickCounts
<1>7. CASE UNCHANGED vars
  BY <1>1, <1>7, QuietStepKeeps DEF vars
<1>8. QED
  BY <1>2, <1>3, <1>4, <1>5, <1>6, <1>7 DEF Next, Works, Fails

\* As long as requests are over within rotation_lag, no event is in the chunks
\* twice, but one that was written again when dedup_window was over since its
\* first receipt (CountedOnce): ON CONFLICT suffices, although raw rows are
\* pruned, rotations run at once, and either may die between its pages.
THEOREM NothingIsCountedTwice ==
  ASSUME Punctual PROVE Spec => []CountedOnce
<1>1. CountInv => CountedOnce
  BY DEF CountInv
<1>2. CountInv /\ [Next]_vars => CountInv'
  BY StepCountInv
<1>3. QED
  BY <1>1, <1>2, InitCountInv, PTL DEF Spec

-----------------------------------------------------------------------------
(* If nothing is late, the store implements its promise.                   *)

\* The window outlasts a batch under way beside another one, and one sent again.
Deduplicated ==
  MaxFlight + MaxFlight <= DedupWindow /\ MaxResend + MaxFlight <= DedupWindow

\* A request with a stored event arrived soon after the event was stored.
ResentInTime ==
  \A r \in Requests : \A m \in requests[r].batch :
    stored[m] # Never =>
      \/ requests[r].received - stored[m] <= MaxResend
      \/ requests[r].received - stored[m] <= MaxFlight

InTimeInv == CountInv /\ ResentInTime /\ late = {}

\* No request writes an event again when the window is over.
LEMMA CommitIsInTime ==
  ASSUME Deduplicated, InTimeInv, NEW r \in Requests, Commit(r)
  PROVE  ResentInTime' /\ late' = {}
<1> DEFINE batch == requests[r].batch
           received == requests[r].received
<1>1. /\ requests'[r].batch = {} /\ \A s \in Requests \ {r} : requests'[s] = requests[s]
      /\ \A m \in Messages : \/ stored'[m] = stored[m]
                             \/ stored[m] = Never /\ stored'[m] = received
  BY DEF Commit, InTimeInv, CountInv, StoreInv, StoreTyped, TypeOK, NoBatch
<1>2. /\ batch # {} /\ batch \subseteq Messages /\ received \in Nat /\ received <= clock
      /\ clock - received <= MaxFlight /\ clock \in Nat
  BY TypedState DEF Commit, InTimeInv, CountInv, StoreInv, RequestsAreYoung, Time
<1>3. late' = {}
  <2> SUFFICES ASSUME NEW m \in batch, stored[m] # Never
               PROVE  ~ (clock - stored[m] > DedupWindow)
    BY DEF Commit, InTimeInv
  <2>1. received - stored[m] <= MaxResend \/ received - stored[m] <= MaxFlight
    BY DEF InTimeInv, ResentInTime
  <2>2. stored[m] \in Int
    BY <1>2, TypedState DEF InTimeInv, CountInv, StoreInv
  <2> HIDE DEF batch, received
  <2>3. QED
    BY <1>2, <2>1, <2>2, ConstantsType DEF Deduplicated
<1> HIDE DEF batch, received
<1>4. ResentInTime'
  <2> SUFFICES ASSUME NEW s \in Requests, NEW m \in requests'[s].batch, stored'[m] # Never
               PROVE  \/ requests'[s].received - stored'[m] <= MaxResend
                      \/ requests'[s].received - stored'[m] <= MaxFlight
    BY DEF ResentInTime
  <2>1. s # r /\ requests'[s] = requests[s] /\ m \in Messages
    BY <1>1, TypedState DEF InTimeInv, CountInv, StoreInv
  <2>2. CASE stored'[m] = stored[m]
    BY <2>1, <2>2 DEF InTimeInv, ResentInTime
  <2>3. CASE stored'[m] = received
    <3>1. requests[s].received \in Nat /\ requests[s].received <= clock
      BY <2>1 DEF InTimeInv, CountInv, StoreInv, RequestsAreYoung, Time
    <3>2. QED
      BY <1>2, <2>1, <2>3, <3>1, ConstantsType
  <2>4. QED
    BY <1>1, <2>1, <2>2, <2>3
<1>5. QED
  BY <1>3, <1>4

LEMMA StepInTime ==
  ASSUME Punctual, Deduplicated, InTimeInv, [Next]_vars
  PROVE  InTimeInv'
<1>1. CountInv'
  BY StepCountInv DEF InTimeInv
<1>2. \A r \in Requests : requests[r].batch \subseteq Messages
  BY TypedState DEF InTimeInv, CountInv, StoreInv
<1>3. ASSUME NEW r \in Requests, NEW batch \in SUBSET Messages, Receive(r, batch)
      PROVE  ResentInTime' /\ late' = {}
  <2>1. /\ requests'[r] = [batch |-> batch, received |-> clock]
        /\ \A s \in Requests \ {r} : requests'[s] = requests[s]
        /\ UNCHANGED <<stored, late>>
    BY <1>3 DEF Receive, InTimeInv, CountInv, StoreInv, StoreTyped, TypeOK
  <2>2. QED
    BY <1>3, <2>1 DEF Receive, InTimeInv, ResentInTime
<1>4. ASSUME NEW actor \in Actors, Erase(actor) PROVE ResentInTime' /\ late' = {}
  <2>1. /\ requests' = requests /\ late' \subseteq late
        /\ \A m \in Messages : stored'[m] = stored[m] \/ stored'[m] = Never
    BY <1>4 DEF Erase
  <2>2. QED
    BY <1>2, <2>1 DEF InTimeInv, ResentInTime
<1>5. ASSUME NEW r \in Requests, Drop(r) PROVE ResentInTime' /\ late' = {}
  <2>1. /\ \A s \in Requests : requests'[s] = requests[s] \/ requests'[s].batch = {}
        /\ UNCHANGED <<stored, late>>
    BY <1>5 DEF Drop, NoBatch, InTimeInv, CountInv, StoreInv, StoreTyped, TypeOK
  <2>2. QED
    BY <2>1 DEF InTimeInv, ResentInTime
<1>6. ASSUME \/ \E j \in Jobs : Rotation(j) \/ JobFails(j)
             \/ \E p \in Deliverers : Delivery(p) \/ DeliverFails(p) \/ DeliveryDies(p)
             \/ Tick \/ UNCHANGED vars
      PROVE  ResentInTime' /\ late' = {}
  <2>1. UNCHANGED <<requests, stored, late>>
    BY <1>6 DEF Rotation, TryLock, StartRotation, ReadRotation, LockBusy, WriteRotation,
                ReadCursors, DeleteRaw, JobFails, Delivery, StartDelivery, ReadDelivery, Deliver,
                Advance, DeliverFails, DeliveryDies, Tick, vars
  <2>2. QED
    BY <2>1 DEF InTimeInv, ResentInTime
<1>7. ResentInTime' /\ late' = {}
  BY <1>3, <1>4, <1>5, <1>6, CommitIsInTime DEF Next, Works, Fails
<1>8. QED
  BY <1>1, <1>7 DEF InTimeInv

LEMMA InitInTime == Init => InTimeInv
BY InitCountInv DEF Init, InTimeInv, ResentInTime, NoBatch

\* What waits, what was sent and what is on pages are read from these.
LEMMA StepOfNothing ==
  ASSUME UNCHANGED <<raw, cursors, stored, matrix, forwarded>>, OnPages' = OnPages
  PROVE  UNCHANGED Promise!vars
BY DEF Promise!vars, Accepted, Rotated, AheadOf, Ahead

LEMMA PagesShrink ==
  ASSUME \A p \in Deliverers : deliverers'[p].page = deliverers[p].page \/ deliverers'[p].page = {}
  PROVE  OnPages' \subseteq OnPages
BY DEF OnPages, Ids

LEMMA NextDestinationShrinks ==
  ASSUME StoreInv, NEW p \in Deliverers, deliverers[p].at # "idle", NextDestination(p)
  PROVE  OnPages' \subseteq OnPages
<1>1. \A q \in Deliverers : deliverers'[q].page = deliverers[q].page \/ deliverers'[q].page = {}
  BY NextDestinationType DEF StoreInv, StoreTyped, IdleDelivery
<1>2. QED
  BY <1>1, PagesShrink

LEMMA CommitAccepts ==
  ASSUME Punctual, InTimeInv, InTimeInv', NEW r \in Requests, Commit(r)
  PROVE  Promise!Accept
<1> DEFINE new == Accepted' \ Accepted
<1>1. UNCHANGED <<cursors, matrix, forwarded, deliverers>>
  BY DEF Commit
<1>2. ASSUME NEW m \in Messages
      PROVE  IF m \in new
             THEN \A n \in Names : Ahead(m, n)' /\ ~ Ahead(m, n)
             ELSE /\ m \in Accepted' <=> m \in Accepted
                  /\ \A n \in Names : Ahead(m, n)' <=> Ahead(m, n)
  <2>1. CASE raw'[m] = raw[m] /\ stored'[m] = stored[m]
    BY <1>1, <2>1 DEF Accepted, Ahead
  <2>2. CASE /\ m \in requests[r].batch /\ stored[m] = Never /\ raw[m] = Never
             /\ raw'[m] = requests[r].received /\ stored'[m] = requests[r].received
    <3>1. \A n \in Names : /\ requests[r].received # Never
                           /\ After(<<requests[r].received, m>>, cursors[n])
      BY <2>2, CommitsAfter, PagesAreSettled DEF InTimeInv, CountInv, StoreInv
    <3>2. "rotation" \in Names
      BY DEF Names
    <3>3. m \in new
      BY <2>2, <3>1, <3>2 DEF Accepted
    <3>4. QED
      BY <1>1, <2>2, <3>1, <3>3 DEF Ahead
  <2>3. QED
    BY <2>1, <2>2, CommitInsertsNew DEF InTimeInv
<1>3. new \subseteq Messages /\ Accepted' \subseteq Messages
  BY DEF Accepted
<1>4. Accepted \subseteq Accepted'
  BY <1>2 DEF Accepted
<1> HIDE DEF new
<1>5. \A n \in Names : AheadOf(n)' = AheadOf(n) \union new
  BY <1>2, <1>3 DEF AheadOf
<1>6. UNCHANGED <<Rotated, forwarded, OnPages>>
  BY <1>1 DEF Rotated, OnPages
<1>7. QED
  BY <1>3, <1>4, <1>5, <1>6 DEF Promise!Accept, Names, new

\* A page leaves what waits for rotation as it is counted, and nothing else does.
LEMMA WriteRotationIsCount ==
  ASSUME InTimeInv, InTimeInv', NEW j \in Jobs, WriteRotation(j)
  PROVE  Promise!Count
<1> DEFINE page == jobs[j].page
<1>1. UNCHANGED <<raw, stored, forwarded, deliverers>>
  BY DEF WriteRotation
<1>2. /\ page \in SUBSET Position /\ jobs[j].at = "writing"
      /\ \A q \in page : q \in Rows /\ After(q, cursors["rotation"])
  BY TypedState DEF InTimeInv, CountInv, StoreInv, WriteRotation, Job, PageIsNew
<1>3. /\ \A n \in Range(Destinations) : cursors'[n] = cursors[n]
      /\ page = {} => cursors'["rotation"] = cursors["rotation"]
      /\ page # {} => cursors'["rotation"] = LastOf(page) /\ LastOf(page) \in page
  BY <1>2, LastOfPage, TypedState, EventStoreAssumption
     DEF InTimeInv, WriteRotation, CountInv, StoreInv, Names
<1>4. Rotated' = Rotated \union Ids(page)
  <2>1. Ids(page) \subseteq Messages
    BY <1>2 DEF Ids, Rows
  <2>2. \A m \in Messages : matrix'[m] > 0 <=> matrix[m] > 0 \/ m \in Ids(page)
    BY TypedState DEF InTimeInv, WriteRotation, CountInv, StoreInv
  <2>3. QED
    BY <2>1, <2>2 DEF Rotated
<1>5. Ids(page) \subseteq AheadOf("rotation")
  BY <1>2 DEF Ids, Rows, AheadOf, Ahead
<1>6. AheadOf("rotation")' = AheadOf("rotation") \ Ids(page)
  <2>1. ASSUME NEW m \in AheadOf("rotation"), m \notin Ids(page) PROVE m \in AheadOf("rotation")'
    <3>1. m \in Messages /\ raw[m] # Never /\ ~ (matrix[m] > 0)
      BY <2>1 DEF InTimeInv, AheadOf, Ahead, CountInv, CountedIsBehind
    <3>2. \A q \in page : After(<<raw[m], m>>, q)
      BY <1>2, <2>1, <3>1 DEF InTimeInv, CountInv, StoreInv, RotationIsComplete, Complete, Rotated
    <3>3. QED
      BY <1>1, <1>3, <2>1, <3>2 DEF AheadOf, Ahead
  <2>2. ASSUME NEW m \in AheadOf("rotation")' PROVE m \in AheadOf("rotation")
    <3>1. m \in Messages /\ raw[m] # Never /\ After(<<raw[m], m>>, cursors'["rotation"])
      BY <1>1, <2>2 DEF AheadOf, Ahead
    <3>2. CASE page = {}
      BY <1>3, <3>1, <3>2 DEF AheadOf, Ahead
    <3>3. CASE page # {}
      <4>1. /\ <<raw[m], m>> \in Position /\ cursors["rotation"] \in Position
            /\ LastOf(page) \in Position /\ After(LastOf(page), cursors["rotation"])
        BY <1>2, <1>3, <3>1, <3>3, TypedState DEF InTimeInv, CountInv, StoreInv, Position, Names
      <4> HIDE DEF page
      <4>2. After(<<raw[m], m>>, cursors["rotation"])
        BY <1>3, <3>1, <3>3, <4>1, AfterIsTransitive
      <4>3. QED
        BY <3>1, <4>2 DEF AheadOf, Ahead
    <3>4. QED
      BY <3>2, <3>3
  <2>3. ASSUME NEW m \in Ids(page) PROVE m \notin AheadOf("rotation")'
    BY <1>4, <2>3 DEF InTimeInv, CountInv, CountedIsBehind, AheadOf, Rotated
  <2>4. QED
    BY <2>1, <2>2, <2>3
<1>7. \A d \in Range(Destinations) : AheadOf(d)' = AheadOf(d)
  BY <1>1, <1>3 DEF AheadOf, Ahead
<1>8. UNCHANGED <<Accepted, forwarded, OnPages>>
  BY <1>1 DEF Accepted, OnPages
<1> HIDE DEF page
<1>9. QED
  BY <1>4, <1>5, <1>6, <1>7, <1>8 DEF Promise!Count

\* What pruning deletes waited for nothing, or for a destination that has it.
LEMMA DeleteRawMoves ==
  ASSUME InTimeInv, InTimeInv', NEW j \in Jobs, DeleteRaw(j)
  PROVE  Promise!Move
<1>1. UNCHANGED <<cursors, stored, matrix, forwarded, deliverers>>
  BY DEF DeleteRaw
<1>2. \A m \in Messages :
        \/ raw'[m] = raw[m]
        \/ /\ raw'[m] = Never /\ matrix[m] > 0
           /\ \A d \in Range(Destinations) : m \in forwarded[d]
  BY DeletedIsDone DEF InTimeInv, CountInv, StoreInv
<1>3. AheadOf("rotation")' = AheadOf("rotation")
  BY <1>1, <1>2 DEF InTimeInv, AheadOf, Ahead, CountInv, CountedIsBehind
<1>4. \A d \in Range(Destinations) : \A m \in Messages \ forwarded[d] :
        m \in AheadOf(d)' <=> m \in AheadOf(d)
  BY <1>1, <1>2 DEF AheadOf, Ahead
<1>5. \A n : AheadOf(n)' \subseteq Accepted
  BY <1>1 DEF InTimeInv, CountInv, StoreInv, RawIsStored, AheadOf, Ahead, Accepted
<1>6. UNCHANGED <<Accepted, Rotated, forwarded, OnPages>>
  BY <1>1 DEF Accepted, Rotated, OnPages
<1>7. QED
  BY <1>3, <1>4, <1>5, <1>6 DEF Promise!Move

LEMMA EraseErases ==
  ASSUME CountInv, NEW actor \in Actors, Erase(actor)
  PROVE  Promise!Erase(actor)
<1> DEFINE kept == {m \in Messages : ActorOf[m] # actor}
<1>1. UNCHANGED <<cursors, deliverers>>
  BY DEF Erase
<1>2. \A m \in Messages :
        IF m \in kept THEN raw'[m] = raw[m] /\ matrix'[m] = matrix[m] /\ stored'[m] = stored[m]
        ELSE raw'[m] = Never /\ matrix'[m] = 0 /\ stored'[m] = Never
  BY DEF Erase
<1>3. forwarded' = [d \in Range(Destinations) |-> forwarded[d] \intersect kept]
  BY DEF Erase
<1> HIDE DEF kept
<1>4. Accepted' = Accepted \intersect kept /\ Rotated' = Rotated \intersect kept
  BY <1>2 DEF Accepted, Rotated
<1>5. \A n : AheadOf(n)' = AheadOf(n) \intersect kept
  BY <1>1, <1>2 DEF AheadOf, Ahead
<1>6. OnPages' = OnPages
  BY <1>1 DEF OnPages
<1>7. QED
  BY <1>3, <1>4, <1>5, <1>6 DEF Promise!Erase, kept

\* A cursor that is set, forward or back, leaves nothing unsent behind it, and
\* what it is set back over was sent.
LEMMA AdvanceMoves ==
  ASSUME CountInv, NEW p \in Deliverers, Advance(p)
  PROVE  Promise!Move
<1> DEFINE page == deliverers[p].page
<1>1. UNCHANGED <<raw, stored, matrix, forwarded>>
  BY DEF Advance
<1>2. PICK to \in Range(Destinations) : to = Destination(p) /\ to \in Names
  BY DestinationType DEF Advance, CountInv, StoreInv, StoreTyped, Names
<1>3. page \in SUBSET Position /\ page # {} /\ LastOf(page) \in page
  BY TypedState, LastOfPage DEF Advance, CountInv, StoreInv, StoreTyped, InDelivery, Deliverer
<1>4. cursors'[to] = LastOf(page) /\ \A n \in Names : n # to => cursors'[n] = cursors[n]
  BY <1>2, TypedState DEF Advance, CountInv, StoreInv
<1>5. \A m \in Messages \ forwarded[to] : raw[m] # Never => Ahead(m, to) /\ Ahead(m, to)'
  <2> SUFFICES ASSUME NEW m \in Messages, m \notin forwarded[to], raw[m] # Never
               PROVE  Ahead(m, to) /\ Ahead(m, to)'
    OBVIOUS
  <2>1. Ahead(m, to)
    BY <1>2 DEF CountInv, StoreInv, RawIsStored, NothingSkipped
  <2>2. After(<<raw[m], m>>, LastOf(page))
    BY <1>2, <1>3 DEF Advance, CountInv, StoreInv, DeliveryIsComplete, Complete
  <2>3. QED
    BY <1>1, <1>4, <2>1, <2>2 DEF Ahead
<1>6. OnPages' \subseteq OnPages
  <2>1. CASE NextDestination(p)
    BY <2>1, NextDestinationShrinks DEF Advance, CountInv
  <2>2. CASE deliverers' = [deliverers EXCEPT ![p].at = "reading", ![p].page = {}]
    <3>1. \A q \in Deliverers : deliverers'[q].page = deliverers[q].page \/ deliverers'[q].page = {}
      BY <2>2, TypedState DEF CountInv, StoreInv, Deliverer
    <3>2. QED
      BY <3>1, PagesShrink
  <2>3. QED
    BY <2>1, <2>2 DEF Advance
<1> HIDE DEF page
<1>7. \A n \in Names : n # to => AheadOf(n)' = AheadOf(n)
  BY <1>1, <1>4 DEF AheadOf, Ahead
<1>8. \A d \in Range(Destinations) : \A m \in Messages \ forwarded[d] :
        m \in AheadOf(d)' <=> m \in AheadOf(d)
  BY <1>1, <1>5, <1>7 DEF AheadOf, Ahead, Names
<1>9. \A n : AheadOf(n)' \subseteq Accepted
  BY <1>1 DEF CountInv, StoreInv, RawIsStored, AheadOf, Ahead, Accepted
<1>10. AheadOf("rotation")' = AheadOf("rotation") /\ UNCHANGED <<Accepted, Rotated>>
  BY <1>1, <1>2, <1>7, EventStoreAssumption DEF Names, Accepted, Rotated
<1>11. QED
  BY <1>1, <1>6, <1>8, <1>9, <1>10 DEF Promise!Move

LEMMA DeliverySends ==
  ASSUME StoreInv, NEW p \in Deliverers, Deliver(p) \/ DeliverFails(p)
  PROVE  Promise!Send
<1>1. UNCHANGED <<raw, cursors, stored, matrix>>
  BY DEF Deliver, DeliverFails
<1>2. PICK to \in Range(Destinations) : to = Destination(p)
  BY DestinationType DEF Deliver, DeliverFails, StoreInv, StoreTyped
<1>3. Ids(deliverers[p].page) \subseteq OnPages
  BY DEF OnPages
<1>4. \E events \in SUBSET Ids(deliverers[p].page) :
        forwarded' = [forwarded EXCEPT ![to] = @ \union events]
  <2>1. Ids(deliverers[p].page) \in SUBSET Ids(deliverers[p].page)
    OBVIOUS
  <2>2. QED
    BY <1>2, <2>1 DEF Deliver, DeliverFails
<1>5. OnPages' \subseteq OnPages
  <2>1. CASE Deliver(p)
    <3>1. \A q \in Deliverers : deliverers'[q].page = deliverers[q].page
      BY <2>1, TypedState DEF Deliver, StoreInv, Deliverer
    <3>2. QED
      BY <3>1, PagesShrink
  <2>2. CASE DeliverFails(p)
    BY <2>2, NextDestinationShrinks DEF DeliverFails
  <2>3. QED
    BY <2>1, <2>2
<1>6. UNCHANGED <<Accepted, Rotated>> /\ \A n : AheadOf(n)' = AheadOf(n)
  BY <1>1 DEF Accepted, Rotated, AheadOf, Ahead
<1>7. QED
  BY <1>2, <1>3, <1>4, <1>5, <1>6 DEF Promise!Send

\* A delivery reads rows that are there, and drops its page when it dies.
LEMMA DeliveryReads ==
  ASSUME StoreInv, NEW p \in Deliverers, StartDelivery(p) \/ ReadDelivery(p) \/ DeliveryDies(p)
  PROVE  Promise!Read
<1>1. UNCHANGED <<raw, cursors, stored, matrix, forwarded>>
  BY DEF StartDelivery, ReadDelivery, DeliveryDies
<1>2. OnPages' \subseteq OnPages \union Accepted
  <2>1. CASE StartDelivery(p) \/ DeliveryDies(p)
    <3>1. CASE StartDelivery(p)
      <4>1. \A q \in Deliverers : deliverers'[q].page = deliverers[q].page
        BY <3>1, TypedState DEF StartDelivery, StoreInv, Deliverer
      <4>2. QED
        BY <4>1, PagesShrink
    <3>2. CASE DeliveryDies(p)
      <4>1. \A q \in Deliverers :
              deliverers'[q].page = deliverers[q].page \/ deliverers'[q].page = {}
        BY <3>2, TypedState DEF DeliveryDies, IdleDelivery, StoreInv
      <4>2. QED
        BY <4>1, PagesShrink
    <3>3. QED
      BY <2>1, <3>1, <3>2
  <2>2. CASE ReadDelivery(p) /\ NextDestination(p)
    BY <2>2, NextDestinationShrinks DEF ReadDelivery
  <2>3. CASE ReadDelivery(p) /\ ~ NextDestination(p)
    <3> DEFINE page == Pending(Destination(p), deliverers[p].cutoff, BatchSize)
    <3>1. deliverers' = [deliverers EXCEPT ![p].at = "delivering", ![p].page = page]
      BY <2>3 DEF ReadDelivery
    <3>2. Ids(page) \subseteq Accepted
      <4>1. page \subseteq Rows
        BY DEF Pending
      <4> HIDE DEF page
      <4>2. QED
        BY <4>1 DEF Rows, Ids, Accepted, StoreInv, RawIsStored
    <3> HIDE DEF page
    <3>3. \A q \in Deliverers : deliverers'[q].page = deliverers[q].page
                                \/ deliverers'[q].page = page
      BY <3>1, TypedState DEF StoreInv, Deliverer
    <3>4. QED
      BY <3>2, <3>3 DEF OnPages
  <2>4. QED
    BY <2>1, <2>2, <2>3
<1>3. UNCHANGED <<Accepted, Rotated>> /\ \A n : AheadOf(n)' = AheadOf(n)
  BY <1>1 DEF Accepted, Rotated, AheadOf, Ahead
<1>4. QED
  BY <1>1, <1>2, <1>3 DEF Promise!Read

LEMMA StepImplements ==
  ASSUME Punctual, InTimeInv, InTimeInv', [Next]_vars
  PROVE  [Promise!Next]_(Promise!vars)
<1>1. ASSUME \/ \E r \in Requests : \/ \E batch \in SUBSET Messages : Receive(r, batch)
                                    \/ Drop(r)
             \/ \E j \in Jobs : \/ StartRotation(j) \/ ReadRotation(j) \/ LockBusy(j)
                                \/ ReadCursors(j) \/ JobFails(j)
             \/ Tick \/ UNCHANGED vars
      PROVE  UNCHANGED Promise!vars
  <2>1. UNCHANGED <<raw, cursors, stored, matrix, forwarded, deliverers>>
    BY <1>1 DEF Receive, Drop, StartRotation, ReadRotation, LockBusy, ReadCursors, JobFails,
                Tick, vars
  <2>2. OnPages' = OnPages
    BY <2>1 DEF OnPages
  <2>3. QED
    BY <2>1, <2>2, StepOfNothing
<1>2. ASSUME NEW r \in Requests, Commit(r) PROVE Promise!Next
  BY <1>2, CommitAccepts DEF Promise!Next
<1>3. ASSUME NEW j \in Jobs, WriteRotation(j) \/ DeleteRaw(j) PROVE Promise!Next
  BY <1>3, WriteRotationIsCount, DeleteRawMoves DEF Promise!Next
<1>4. ASSUME NEW p \in Deliverers, Delivery(p) \/ DeliverFails(p) \/ DeliveryDies(p)
      PROVE  Promise!Next
  BY <1>4, DeliverySends, DeliveryReads, AdvanceMoves
     DEF Delivery, InTimeInv, CountInv, Promise!Next
<1>5. ASSUME NEW actor \in Actors, Erase(actor) PROVE Promise!Next
  BY <1>5, EraseErases DEF InTimeInv, Promise!Next
<1>6. QED
  BY <1>1, <1>2, <1>3, <1>4, <1>5 DEF Next, Works, Fails, Rotation, TryLock

LEMMA InitImplements == Init => Promise!Init
<1> SUFFICES ASSUME Init PROVE Promise!Init
  OBVIOUS
<1>1. Accepted = {} /\ Rotated = {} /\ \A n : AheadOf(n) = {}
  BY DEF Init, Accepted, Rotated, AheadOf, Ahead
<1>2. OnPages = {}
  BY DEF Init, OnPages, IdleDelivery, Ids
<1>3. QED
  BY <1>1, <1>2 DEF Init, Promise!Init

\* If requests are over within rotation_lag and dedup_window is long enough,
\* every behaviour of the store, its jobs and its deliveries is one that
\* StorePromise allows (KeepsPromise).
THEOREM StoreImplementsPromise ==
  ASSUME Punctual, Deduplicated PROVE Spec => KeepsPromise
<1>1. InTimeInv /\ [Next]_vars => InTimeInv'
  BY StepInTime
<1>2. InTimeInv /\ InTimeInv' /\ [Next]_vars => [Promise!Next]_(Promise!vars)
  BY StepImplements
<1>3. QED
  BY <1>1, <1>2, InitInTime, InitImplements, PTL DEF Spec, KeepsPromise, Promise!Spec

-----------------------------------------------------------------------------
(* From end to end: the store with a device and a network.                 *)

\* The device gives an event up before the store takes it for a new one.
Resending == MaxAge + MaxTransit <= MaxResend

\* The device knows what was tracked, and when.
DeviceTyped ==
  /\ tracked \in 0 .. Len(IdOf)
  /\ waiting \union answered \union expired \union trimmed \union refused \union erased
       \subseteq 1 .. tracked
  /\ created \in [Events -> Instants]
  /\ \A e \in 1 .. tracked : created[e] \in 0 .. clock

\* What is on its way was sent before it was too old, and not long ago.
PostsAreYoung ==
  \A post \in posts :
    /\ post.events \subseteq 1 .. tracked
    /\ post.at \in 0 .. clock /\ clock - post.at <= MaxTransit
    /\ \A e \in post.events : created[e] <= post.at /\ post.at - created[e] <= MaxAge

\* A request has no event of the device from before it was tracked.
RequestsAreLater ==
  \A r \in Requests, e \in Events : IdOf[e] \in requests[r].batch =>
    e <= tracked /\ created[e] <= requests[r].received

StoredIsLater ==
  \A e \in Events : stored[IdOf[e]] # Never =>
    e <= tracked /\ created[e] <= stored[IdOf[e]]

AnsweredAreStored ==
  \A e \in answered : e \in refused \union erased \/ stored[IdOf[e]] # Never

\* Every event waits, or left in one of three ways.
NoneForgotten == 1 .. tracked \subseteq waiting \union expired \union trimmed \union answered

DeviceInv ==
  /\ DeviceTyped /\ PostsAreYoung /\ RequestsAreLater /\ StoredIsLater
  /\ AnsweredAreStored /\ NoneForgotten

LEMMA EventsType ==
  /\ Len(IdOf) \in Nat /\ Events = 1 .. Len(IdOf)
  /\ \A e \in Events : IdOf[e] \in Messages
  /\ \A e, f \in Events : IdOf[e] = IdOf[f] => e = f
  /\ MaxQueue \in Nat /\ MaxAge \in Nat /\ MaxTransit \in Nat
BY PipelineAssumption DEF Events

LEMMA InitDevice == PipelineInit => DeviceInv
<1> SUFFICES ASSUME PipelineInit PROVE DeviceInv
  OBVIOUS
<1>1. DeviceTyped
  BY EventsType DEF PipelineInit, Client!Init, DeviceTyped, Instants
<1>2. PostsAreYoung /\ AnsweredAreStored /\ NoneForgotten
  BY DEF PipelineInit, Client!Init, PostsAreYoung, AnsweredAreStored, NoneForgotten
<1>3. RequestsAreLater /\ StoredIsLater
  BY EventsType DEF PipelineInit, Init, NoBatch, RequestsAreLater, StoredIsLater
<1>4. QED
  BY <1>1, <1>2, <1>3 DEF DeviceInv

\* A post arrives in time for the store to know what it has of it.
LEMMA ArriveIsReceive ==
  ASSUME StoreTyped, DeviceInv, Resending, NEW post \in posts, NEW r \in Requests,
         NEW valid \in SUBSET post.events, Arrive(post, r, valid)
  PROVE  Receive(r, IdsOf(valid)) /\ IdsOf(valid) \subseteq Messages
<1>1. valid # {} /\ valid \subseteq Events /\ IdsOf(valid) \subseteq Messages
  BY EventsType DEF Arrive, DeviceInv, PostsAreYoung, DeviceTyped, IdsOf
<1>2. ASSUME NEW e \in valid, stored[IdOf[e]] # Never
      PROVE  clock - stored[IdOf[e]] <= MaxResend
  <2>1. created[e] <= stored[IdOf[e]]
    BY <1>1, <1>2 DEF DeviceInv, StoredIsLater
  <2>2. /\ clock - post.at <= MaxTransit /\ post.at - created[e] <= MaxAge
        /\ post.at \in Nat /\ created[e] \in Int
    BY <1>1 DEF DeviceInv, PostsAreYoung, DeviceTyped
  <2>3. stored[IdOf[e]] \in Int /\ clock \in Nat
    BY <1>1, EventsType, TypedState
  <2>4. MaxAge \in Nat /\ MaxTransit \in Nat /\ MaxResend \in Nat
    BY EventsType, ConstantsType
  <2>5. MaxAge + MaxTransit <= MaxResend
    BY DEF Resending
  <2>6. QED
    BY <2>1, <2>2, <2>3, <2>4, <2>5
<1>3. QED
  BY <1>1, <1>2 DEF Arrive, Receive, IdsOf

\* The composition's steps are the store's, or none of it.
LEMMA StepOfStore ==
  ASSUME StoreTyped, DeviceInv, Resending, [PipelineNext]_pipelineVars
  PROVE  [Next]_vars
<1>1. CASE UNCHANGED pipelineVars
  BY <1>1 DEF pipelineVars, storeVars
<1>2. CASE Device
  BY <1>2 DEF Device, Track, Expire, Post, Leave, storeVars
<1>3. CASE Network
  <2>1. PICK post \in posts : \E events \in SUBSET post.events :
          Refuse(post, events) \/ \E r \in Requests : Arrive(post, r, events)
    BY <1>3 DEF Network
  <2>2. ASSUME NEW events \in SUBSET post.events, NEW r \in Requests, Arrive(post, r, events)
        PROVE  Next
    BY <2>2, ArriveIsReceive DEF Next, Works
  <2>3. QED
    BY <2>1, <2>2 DEF Refuse, storeVars
<1>4. CASE Server
  BY <1>4 DEF Server, Accept, Fail, ReceiveOthers, Next, Works
<1>5. CASE Work
  BY <1>5 DEF Work, Next, Works
<1>6. CASE Pass
  BY <1>6 DEF Pass, Next, Works
<1>7. ASSUME NEW actor \in Actors, EraseActor(actor) PROVE Next
  BY <1>7 DEF EraseActor, Next, Works
<1>8. QED
  BY <1>1, <1>2, <1>3, <1>4, <1>5, <1>6, <1>7 DEF PipelineNext

-----------------------------------------------------------------------------
(* Every step keeps what holds between the device and the store.           *)

LEMMA TrackKeeps == ASSUME StoreTyped, DeviceInv, Track PROVE DeviceInv'
<1> DEFINE event == tracked + 1
           kept == Client!Newest(waiting \union {event})
<1>1. /\ event \in Events /\ tracked' = event
      /\ created' = [created EXCEPT ![event] = clock]
      /\ waiting' = kept /\ trimmed' = trimmed \union ((waiting \union {event}) \ kept)
      /\ kept \subseteq waiting \union {event}
      /\ UNCHANGED <<storeVars, expired, answered, posts, refused, erased>>
  BY DEF Track, Client!Newest
<1> HIDE DEF kept
<1>2. tracked \in Nat /\ clock \in Nat /\ 1 .. event = (1 .. tracked) \union {event}
      /\ UNCHANGED <<clock, requests, stored>>
  BY <1>1, TypedState, EventsType DEF DeviceInv, DeviceTyped, storeVars, vars
<1>3. created' \in [Events -> Instants] /\ created'[event] = clock
      /\ \A e \in (1 .. tracked) \union (Events \ {event}) : created'[e] = created[e]
  BY <1>1, <1>2, EventsType DEF DeviceInv, DeviceTyped, StoreTyped, TypeOK, Instants
<1>4. DeviceTyped'
  <2>1. tracked' \in 0 .. Len(IdOf)
    BY <1>1, <1>2, EventsType
  <2>2. \A e \in 1 .. event : created'[e] \in 0 .. clock
    BY <1>2, <1>3 DEF DeviceInv, DeviceTyped
  <2>3. QED
    BY <1>1, <1>2, <1>3, <2>1, <2>2 DEF DeviceInv, DeviceTyped
<1>5. PostsAreYoung'
  <2>1. ASSUME NEW post \in posts
        PROVE  /\ post.events \subseteq 1 .. event
               /\ \A e \in post.events : created'[e] = created[e]
    BY <1>2, <1>3 DEF DeviceInv, PostsAreYoung
  <2>2. QED
    BY <1>1, <1>2, <2>1 DEF DeviceInv, PostsAreYoung
<1>6. RequestsAreLater' /\ StoredIsLater'
  <2>1. ASSUME NEW e \in Events, e <= tracked
        PROVE  e <= event /\ created'[e] = created[e]
    BY <1>2, <1>3, <2>1, EventsType
  <2>2. QED
    BY <1>1, <1>2, <2>1 DEF DeviceInv, RequestsAreLater, StoredIsLater
<1>7. AnsweredAreStored' /\ NoneForgotten'
  BY <1>1, <1>2 DEF DeviceInv, AnsweredAreStored, NoneForgotten
<1>8. QED
  BY <1>4, <1>5, <1>6, <1>7 DEF DeviceInv

\* The device's other steps.
LEMMA DeviceKeeps ==
  ASSUME StoreTyped, DeviceInv, Expire \/ \E events \in SUBSET Events : Post(events) \/ Leave(events)
  PROVE  DeviceInv'
<1>1. /\ UNCHANGED <<clock, requests, stored, tracked, created, answered, trimmed, refused, erased>>
      /\ waiting' \union expired' \subseteq waiting \union expired
      /\ waiting \subseteq waiting' \union expired' \union answered /\ expired \subseteq expired'
  BY DEF Expire, Post, Leave, storeVars, vars, deviceVars
<1>2. PostsAreYoung'
  <2>1. CASE posts' = posts
    BY <1>1, <2>1 DEF DeviceInv, PostsAreYoung
  <2>2. ASSUME NEW events \in SUBSET Events, Post(events) PROVE PostsAreYoung'
    <3> DEFINE new == [events |-> events, at |-> clock]
    <3>1. posts' = posts \union {new}
      BY <2>2 DEF Post
    <3>2. \A e \in events : /\ e \in 1 .. tracked /\ created[e] \in 0 .. clock
                            /\ clock - created[e] <= MaxAge
      <4>1. ASSUME NEW e \in events PROVE e \in 1 .. tracked /\ ~ (clock - created[e] > MaxAge)
        BY <2>2, <4>1, EventsType DEF Post, TooOld, DeviceInv, DeviceTyped
      <4>2. QED
        BY <4>1, TypedState, EventsType DEF DeviceInv, DeviceTyped
    <3>3. clock \in 0 .. clock /\ clock - clock <= MaxTransit
      BY TypedState, EventsType
    <3>4. QED
      BY <1>1, <3>1, <3>2, <3>3, TypedState DEF DeviceInv, PostsAreYoung
  <2>3. QED
    BY <2>1, <2>2 DEF Expire, Leave
<1>3. QED
  BY <1>1, <1>2 DEF DeviceInv, DeviceTyped, RequestsAreLater, StoredIsLater, AnsweredAreStored,
                    NoneForgotten

LEMMA NetworkKeeps == ASSUME StoreTyped, DeviceInv, Network PROVE DeviceInv'
<1>1. PICK post \in posts : \E events \in SUBSET post.events :
        Refuse(post, events) \/ \E r \in Requests : Arrive(post, r, events)
  BY DEF Network
<1>2. post.events \subseteq 1 .. tracked
  BY DEF DeviceInv, PostsAreYoung
<1>3. UNCHANGED <<clock, stored, tracked, created, waiting, expired, trimmed, erased, posts>>
  BY <1>1 DEF Refuse, Arrive, storeVars, vars, deviceVars
<1>4. /\ answered \subseteq answered' /\ refused \subseteq refused'
      /\ answered' \ answered \subseteq refused' /\ answered' \union refused' \subseteq 1 .. tracked
  BY <1>1, <1>2 DEF Refuse, Arrive, DeviceInv, DeviceTyped
<1>5. RequestsAreLater'
  <2>1. CASE requests' = requests
    BY <1>3, <2>1 DEF DeviceInv, RequestsAreLater
  <2>2. ASSUME NEW events \in SUBSET post.events, NEW r \in Requests, Arrive(post, r, events)
        PROVE  RequestsAreLater'
    <3>1. requests' = [requests EXCEPT ![r] = [batch |-> IdsOf(events), received |-> clock]]
      BY <2>2 DEF Arrive
    <3>2. ASSUME NEW e \in Events, IdOf[e] \in IdsOf(events)
          PROVE  e <= tracked /\ created[e] <= clock
      <4>1. e \in events /\ e \in 1 .. tracked
        BY <1>2, <3>2, EventsType DEF IdsOf, DeviceInv, DeviceTyped
      <4>2. QED
        BY <4>1, TypedState DEF DeviceInv, DeviceTyped
    <3>3. QED
      BY <1>3, <3>1, <3>2 DEF DeviceInv, RequestsAreLater, StoreTyped, TypeOK
  <2>3. QED
    BY <1>1, <2>1, <2>2 DEF Refuse, storeVars, vars
<1>6. AnsweredAreStored' /\ NoneForgotten' /\ DeviceTyped'
  BY <1>3, <1>4 DEF DeviceInv, AnsweredAreStored, NoneForgotten, DeviceTyped
<1>7. PostsAreYoung' /\ StoredIsLater'
  BY <1>3 DEF DeviceInv, PostsAreYoung, StoredIsLater
<1>8. QED
  BY <1>5, <1>6, <1>7 DEF DeviceInv

LEMMA ServerKeeps == ASSUME StoreTyped, StoreTyped', DeviceInv, Server PROVE DeviceInv'
<1>1. PICK r \in Requests : \/ Accept(r) \/ Fail(r)
                            \/ \E batch \in SUBSET Messages : ReceiveOthers(r, batch)
  BY DEF Server
<1>2. /\ UNCHANGED <<clock, deviceVars, posts, refused, erased>>
      /\ requests \in [Requests -> [batch : SUBSET Messages, received : Instants]]
      /\ answered \subseteq answered'
  BY <1>1 DEF Accept, Commit, Fail, Drop, ReceiveOthers, Receive, StoreTyped, TypeOK
<1>3. \A s \in Requests, e \in Events :
        IdOf[e] \in requests'[s].batch => requests'[s] = requests[s]
  BY <1>1, <1>2, EventsType
     DEF Accept, Commit, Fail, Drop, ReceiveOthers, Receive, NoBatch, IdsOf
<1>4. RequestsAreLater'
  BY <1>2, <1>3 DEF DeviceInv, RequestsAreLater, deviceVars
<1>5. \A m \in Messages : \/ stored'[m] = stored[m]
                          \/ m \in requests[r].batch /\ stored'[m] = requests[r].received
  BY <1>1 DEF Accept, Commit, Fail, Drop, ReceiveOthers, Receive, StoreTyped, TypeOK
<1>6. StoredIsLater'
  BY <1>2, <1>5, EventsType DEF DeviceInv, RequestsAreLater, StoredIsLater, deviceVars
<1>7. /\ answered' \subseteq 1 .. tracked
      /\ \A e \in answered' : e \in refused \union erased \/ stored'[IdOf[e]] # Never
  <2>1. CASE Accept(r)
    <3>1. EventsIn(requests[r].batch) \subseteq Events \intersect 1 .. tracked
      BY EventsType DEF EventsIn, DeviceInv, RequestsAreLater, DeviceTyped
    <3>2. answered \subseteq Events \intersect 1 .. tracked
      BY EventsType DEF DeviceInv, DeviceTyped
    <3>3. \A e \in Events : /\ IdOf[e] \in requests[r].batch => stored'[IdOf[e]] # Never
                            /\ stored[IdOf[e]] # Never => stored'[IdOf[e]] # Never
      <4>1. ASSUME NEW e \in Events, IdOf[e] \in requests[r].batch
            PROVE  requests[r].received # Never
        BY <4>1, EventsType DEF DeviceInv, RequestsAreLater, DeviceTyped, Never
      <4>2. QED
        BY <2>1, <4>1, EventsType DEF Accept, Commit
    <3>4. answered' = answered \union EventsIn(requests[r].batch)
      BY <2>1 DEF Accept
    <3>5. ASSUME NEW e \in answered
          PROVE  e \in refused \union erased \/ stored'[IdOf[e]] # Never
      BY <3>2, <3>3, <3>5 DEF DeviceInv, AnsweredAreStored
    <3>6. ASSUME NEW e \in EventsIn(requests[r].batch) PROVE stored'[IdOf[e]] # Never
      BY <3>3, <3>6 DEF EventsIn
    <3>7. QED
      BY <3>1, <3>2, <3>4, <3>5, <3>6
  <2>2. CASE UNCHANGED <<answered, stored>>
    BY <2>2 DEF DeviceInv, DeviceTyped, AnsweredAreStored
  <2>3. QED
    BY <1>1, <2>1, <2>2 DEF Fail, Drop, ReceiveOthers, Receive
<1>8. AnsweredAreStored' /\ NoneForgotten' /\ DeviceTyped' /\ PostsAreYoung'
  BY <1>2, <1>7
     DEF DeviceInv, DeviceTyped, AnsweredAreStored, NoneForgotten, PostsAreYoung, deviceVars
<1>9. QED
  BY <1>4, <1>6, <1>8 DEF DeviceInv

\* A job leaves what was received alone.
LEMMA WorkKeeps == ASSUME DeviceInv, Work PROVE DeviceInv'
<1>1. UNCHANGED <<clock, requests, stored>>
  BY DEF Work, Rotation, TryLock, StartRotation, ReadRotation, LockBusy, WriteRotation, ReadCursors,
         DeleteRaw, Delivery, StartDelivery, ReadDelivery, Deliver, Advance, Fails, JobFails,
         DeliverFails, DeliveryDies
<1>2. UNCHANGED <<deviceVars, answered, posts, refused, erased>>
  BY DEF Work
<1>3. QED
  BY <1>1, <1>2 DEF deviceVars, DeviceInv, DeviceTyped, PostsAreYoung, RequestsAreLater,
                    StoredIsLater, AnsweredAreStored, NoneForgotten

LEMMA EraseActorKeeps ==
  ASSUME StoreTyped, DeviceInv, NEW actor \in Actors, EraseActor(actor)
  PROVE  DeviceInv'
<1>1. /\ UNCHANGED <<clock, requests, tracked, waiting, expired, created, trimmed, answered,
                     posts, refused>>
      /\ erased' = erased \union {e \in 1 .. tracked : ActorOf[IdOf[e]] = actor}
  BY DEF EraseActor, Erase, deviceVars
<1>2. \A m \in Messages : \/ stored'[m] = stored[m]
                          \/ stored'[m] = Never /\ ActorOf[m] = actor
  BY TypedState DEF EraseActor, Erase
<1>3. StoredIsLater'
  BY <1>1, <1>2, EventsType DEF DeviceInv, StoredIsLater
<1>4. AnsweredAreStored'
  <2>1. answered \subseteq Events \intersect 1 .. tracked
    BY EventsType DEF DeviceInv, DeviceTyped
  <2>2. QED
    BY <1>1, <1>2, <2>1, EventsType DEF DeviceInv, AnsweredAreStored
<1>5. DeviceTyped' /\ NoneForgotten' /\ PostsAreYoung' /\ RequestsAreLater'
  BY <1>1 DEF DeviceInv, DeviceTyped, NoneForgotten, PostsAreYoung, RequestsAreLater
<1>6. QED
  BY <1>3, <1>4, <1>5 DEF DeviceInv

LEMMA PassKeeps == ASSUME StoreTyped, DeviceInv, Pass PROVE DeviceInv'
<1>1. /\ clock \in Nat /\ clock' = clock + 1
      /\ posts' = {post \in posts : clock - post.at < MaxTransit}
      /\ UNCHANGED <<requests, stored, deviceVars, answered, refused, erased>>
  BY TypedState DEF Pass, Tick
<1>2. DeviceTyped'
  <2>1. \A e \in 1 .. tracked : created[e] \in 0 .. clock + 1
    BY <1>1 DEF DeviceInv, DeviceTyped
  <2>2. QED
    BY <1>1, <2>1 DEF DeviceInv, DeviceTyped, deviceVars
<1>3. PostsAreYoung'
  <2>1. \A post \in posts' : post.at \in 0 .. clock + 1 /\ clock + 1 - post.at <= MaxTransit
    BY <1>1, EventsType DEF DeviceInv, PostsAreYoung
  <2>2. QED
    BY <1>1, <2>1 DEF DeviceInv, PostsAreYoung, deviceVars
<1>4. QED
  BY <1>1, <1>2, <1>3
     DEF deviceVars, DeviceInv, RequestsAreLater, StoredIsLater, AnsweredAreStored, NoneForgotten

LEMMA StepDevice ==
  ASSUME StoreTyped, StoreTyped', DeviceInv, [PipelineNext]_pipelineVars
  PROVE  DeviceInv'
<1>1. CASE UNCHANGED pipelineVars
  BY <1>1 DEF pipelineVars, storeVars, vars, deviceVars, DeviceInv, DeviceTyped, PostsAreYoung,
              RequestsAreLater, StoredIsLater, AnsweredAreStored, NoneForgotten
<1>2. QED
  BY <1>1, TrackKeeps, DeviceKeeps, NetworkKeeps, ServerKeeps, WorkKeeps, EraseActorKeeps,
     PassKeeps DEF PipelineNext, Device

-----------------------------------------------------------------------------
(* What the composition promises.                                          *)

\* With a device and a network as described, the store sees no more than its
\* own specification allows it to be asked: all that is proved of EventStore
\* holds of the composition.
THEOREM PipelineRunsTheStore ==
  ASSUME Resending PROVE PipelineSpec => Spec
<1>1. StoreTyped /\ DeviceInv /\ [PipelineNext]_pipelineVars => [Next]_vars
  BY StepOfStore
<1>2. StoreTyped /\ DeviceInv /\ [PipelineNext]_pipelineVars => StoreTyped' /\ DeviceInv'
  BY <1>1, StepTyped, StepDevice
<1>3. PipelineInit => Init /\ StoreTyped /\ DeviceInv
  BY InitTyped, InitDevice DEF PipelineInit
<1>4. QED
  BY <1>1, <1>2, <1>3, PTL DEF PipelineSpec, Spec

LEMMA StepOfClient ==
  ASSUME DeviceInv, [PipelineNext]_pipelineVars
  PROVE  [Client!Next]_(Client!vars)
<1>1. CASE Track
  <2>1. tracked \in Nat /\ tracked' = tracked + 1
    BY <1>1, EventsType DEF Track, DeviceInv, DeviceTyped
  <2>2. tracked + 1 .. tracked' = {tracked + 1} /\ tracked' >= tracked
    BY <2>1
  <2>3. QED
    BY <1>1, <2>2 DEF Track, Client!Next, Client!Track
<1>2. CASE Expire
  <2>1. waiting' \subseteq waiting /\ expired' = expired \union (waiting \ waiting')
    BY <1>2 DEF Expire
  <2>2. QED
    BY <1>2, <2>1 DEF Expire, Client!Next, Client!Expire
<1>3. ASSUME NEW events \in SUBSET Events, Leave(events) PROVE Client!Next
  BY <1>3 DEF Leave, Client!Next, Client!Leave
<1>4. ASSUME NEW post \in posts, NEW events, Refuse(post, events) PROVE Client!Next
  <2>1. answered' = answered \union events /\ events \subseteq 1 .. tracked
    BY <1>4 DEF Refuse, DeviceInv, PostsAreYoung
  <2>2. QED
    BY <1>4, <2>1 DEF Refuse, deviceVars, DeviceInv, DeviceTyped, Client!Next, Client!Answer
<1>5. ASSUME NEW r \in Requests, Accept(r) PROVE Client!Next
  <2>1. EventsIn(requests[r].batch) \subseteq 1 .. tracked
    BY EventsType DEF EventsIn, DeviceInv, RequestsAreLater, DeviceTyped
  <2>2. QED
    BY <1>5, <2>1 DEF Accept, deviceVars, DeviceInv, DeviceTyped, Client!Next, Client!Answer
<1>6. ASSUME \/ \E events \in SUBSET Events : Post(events)
             \/ \E post \in posts, r \in Requests : \E events \in SUBSET post.events :
                  Arrive(post, r, events)
             \/ \E r \in Requests : Fail(r) \/ \E batch \in SUBSET Messages : ReceiveOthers(r, batch)
             \/ Work \/ Pass \/ \E actor \in Actors : EraseActor(actor)
             \/ UNCHANGED pipelineVars
      PROVE  UNCHANGED Client!vars
  BY <1>6 DEF Post, Arrive, Fail, ReceiveOthers, Work, Pass, EraseActor, pipelineVars,
              deviceVars, Client!vars
<1>7. QED
  BY <1>1, <1>2, <1>3, <1>4, <1>5, <1>6 DEF PipelineNext, Device, Network, Server

\* The device of the composition is one that ClientPromise allows, so what the
\* composition shows is of any client that is.
THEOREM PipelineKeepsClientPromise ==
  ASSUME Resending PROVE PipelineSpec => Client!Spec
<1>1. StoreTyped /\ DeviceInv /\ [PipelineNext]_pipelineVars => StoreTyped' /\ DeviceInv'
  BY StepOfStore, StepTyped, StepDevice
<1>2. DeviceInv /\ [PipelineNext]_pipelineVars => [Client!Next]_(Client!vars)
  BY StepOfClient
<1>3. PipelineInit => StoreTyped /\ DeviceInv /\ Client!Init
  BY InitTyped, InitDevice DEF PipelineInit
<1>4. QED
  BY <1>1, <1>2, <1>3, PTL DEF PipelineSpec, Client!Spec

LEMMA CopiesAreCounted ==
  ASSUME CountInv, NEW m \in Messages
  PROVE  /\ m \notin late => Copies(m) <= 1
         /\ stored[m] # Never => Copies(m) >= 1
<1>1. /\ matrix[m] \in Nat
      /\ m \notin late => matrix[m] <= 1 /\ (matrix[m] > 0 => ~ Ahead(m, "rotation"))
  BY TypedState DEF CountInv, StoreInv, CountedOnce, CountedIsBehind
<1>2. stored[m] # Never => matrix[m] > 0 \/ Ahead(m, "rotation")
  BY DEF CountInv, StoreInv, NothingLost
<1>3. QED
  BY <1>1, <1>2 DEF Copies

\* If a request is over within rotation_lag, then, whatever the network loses,
\* delays or repeats, an event is in the store, or still on its device, or was
\* given up, refused or erased; and it is there once, unless a post of it was
\* written when dedup_window was over since the first (OnceInTheStore).  Nothing
\* is assumed of how long the device sends an event beside how long the store
\* remembers it: max_age may be beyond the window.
THEOREM EventsAreOnceInTheStore ==
  ASSUME Punctual, Resending PROVE PipelineSpec => []OnceInTheStore
<1>1. CountInv => StoreTyped
  BY DEF CountInv, StoreInv
<1>2. CountInv /\ DeviceInv /\ [PipelineNext]_pipelineVars => CountInv' /\ DeviceInv'
  <2> SUFFICES ASSUME CountInv, DeviceInv, [PipelineNext]_pipelineVars
               PROVE  CountInv' /\ DeviceInv'
    OBVIOUS
  <2>1. [Next]_vars
    BY <1>1, StepOfStore
  <2>2. CountInv' /\ StoreTyped'
    BY <2>1, <1>1, StepCountInv, StepTyped
  <2>3. QED
    BY <1>1, <2>2, StepDevice
<1>3. CountInv /\ DeviceInv => OnceInTheStore
  <2> SUFFICES ASSUME CountInv, DeviceInv PROVE OnceInTheStore
    OBVIOUS
  <2>1. ASSUME NEW e \in 1 .. tracked,
               e \notin waiting \union expired \union trimmed \union refused \union erased
        PROVE  Copies(IdOf[e]) >= 1
    <3>1. e \in answered /\ IdOf[e] \in Messages
      BY <2>1, EventsType DEF DeviceInv, NoneForgotten, DeviceTyped
    <3>2. stored[IdOf[e]] # Never
      BY <2>1, <3>1 DEF DeviceInv, AnsweredAreStored
    <3>3. QED
      BY <3>1, <3>2, CopiesAreCounted
  <2>2. QED
    BY <2>1, CopiesAreCounted DEF OnceInTheStore
<1>4. PipelineInit => CountInv /\ DeviceInv
  BY InitCountInv, InitDevice DEF PipelineInit
<1>5. QED
  BY <1>2, <1>3, <1>4, PTL DEF PipelineSpec

=============================================================================
