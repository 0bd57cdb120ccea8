---------------------------- MODULE StorePromise ----------------------------
(***************************************************************************)
(* What the event store promises of the events it accepts, whatever its    *)
(* requests, jobs and deliveries do, at once or failing in between: each   *)
(* is counted once; each is sent to every destination, maybe again, before *)
(* it stops waiting for it; and an erased one goes nowhere, but for what   *)
(* deliveries have read already.                                           *)
(***************************************************************************)

CONSTANTS
  Events,
  Owners,
  OwnerOf,        \* who an event is about
  Destinations

VARIABLES
  accepted,   \* the events acknowledged and not erased
  uncounted,  \* those rotation will come to
  counted,    \* those in the chunks
  waiting,    \* per destination, those a delivery will come to
  sent,       \* per destination, those it was sent
  out         \* the events that deliveries have read and may send

vars == <<accepted, uncounted, counted, waiting, sent, out>>

Init ==
  /\ accepted = {} /\ uncounted = {} /\ counted = {} /\ out = {}
  /\ waiting = [d \in Destinations |-> {}]
  /\ sent = [d \in Destinations |-> {}]

\* What is new waits for rotation and for every destination; what is sent
\* again changes nothing.
Accept ==
  /\ accepted \subseteq accepted' /\ accepted' \subseteq Events
  /\ uncounted' = uncounted \union (accepted' \ accepted)
  /\ waiting' = [d \in Destinations |-> waiting[d] \union (accepted' \ accepted)]
  /\ UNCHANGED <<counted, sent, out>>

\* Events are counted in the step in which they stop waiting for it.
Count ==
  /\ uncounted' \subseteq uncounted
  /\ counted' = counted \union (uncounted \ uncounted')
  /\ UNCHANGED <<accepted, waiting, sent, out>>

\* Deliveries read what is accepted, and forget it.
Read ==
  /\ out' \subseteq out \union accepted
  /\ UNCHANGED <<accepted, uncounted, counted, waiting, sent>>

\* A destination is sent some of what was read, though it be erased since.
Send ==
  /\ \E d \in Destinations, events \in SUBSET out :
       sent' = [sent EXCEPT ![d] = @ \union events]
  /\ out' \subseteq out
  /\ UNCHANGED <<accepted, uncounted, counted, waiting>>

\* What a destination was sent stops waiting for it, or waits once more.
Move ==
  /\ waiting' \in [Destinations -> SUBSET accepted]
  /\ \A d \in Destinations : \A e \in Events \ sent[d] : e \in waiting'[d] <=> e \in waiting[d]
  /\ out' \subseteq out
  /\ UNCHANGED <<accepted, uncounted, counted, sent>>

Erase(owner) ==
  LET kept == {e \in Events : OwnerOf[e] # owner} IN
  /\ accepted' = accepted \intersect kept
  /\ uncounted' = uncounted \intersect kept
  /\ counted' = counted \intersect kept
  /\ waiting' = [d \in Destinations |-> waiting[d] \intersect kept]
  /\ sent' = [d \in Destinations |-> sent[d] \intersect kept]
  /\ UNCHANGED out

Next ==
  \/ Accept \/ Count \/ Read \/ Send \/ Move
  \/ \E owner \in Owners : Erase(owner)

Spec == Init /\ [][Next]_vars

=============================================================================
