--------------------------- MODULE ClientPromise ---------------------------
(***************************************************************************)
(* What a ClickMan client promises its host about the events it tracks,    *)
(* whatever its threads, its storage and the network do: an event waits on *)
(* the device until the server has definitively answered a batch holding   *)
(* it, unless it waited past the maximum age or MaxQueue newer events wait *)
(* behind it.  The clients' specifications are shown to implement this.    *)
(***************************************************************************)
EXTENDS Integers, FiniteSets

CONSTANT MaxQueue   \* the most events kept

VARIABLES
  tracked,    \* how many events were tracked; they are numbered 1..tracked
  waiting,    \* the events on the device
  answered,   \* the events the server accepted or refused
  expired     \* the events given up for their age

vars == <<tracked, waiting, answered, expired>>

Newest(events) ==
  {e \in events : Cardinality({f \in events : f > e}) < MaxQueue}

Init ==
  /\ tracked = 0
  /\ waiting = {}
  /\ answered = {}
  /\ expired = {}

\* New events join the others; only the oldest beyond MaxQueue leave.
Track ==
  /\ tracked' >= tracked
  /\ waiting' = Newest(waiting \union (tracked + 1 .. tracked'))
  /\ UNCHANGED <<answered, expired>>

\* The server answers a batch, whether or not the device hears of it.
Answer ==
  /\ answered \subseteq answered'
  /\ answered' \subseteq 1 .. tracked
  /\ UNCHANGED <<tracked, waiting, expired>>

\* Events leave the device only once they are answered.
Leave ==
  /\ waiting' \subseteq waiting
  /\ waiting \ waiting' \subseteq answered
  /\ UNCHANGED <<tracked, answered, expired>>

Expire ==
  /\ waiting' \subseteq waiting
  /\ expired' = expired \union (waiting \ waiting')
  /\ UNCHANGED <<tracked, answered>>

Next == Leave \/ Expire \/ Answer \/ Track

Spec == Init /\ [][Next]_vars

=============================================================================
