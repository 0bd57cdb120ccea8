----------------------------- MODULE DeviceProofs -----------------------------
(***************************************************************************)
(* What is proved about a device's launches and about whom its events are  *)
(* of, for any releases, threads, users, traits and contexts.              *)
(***************************************************************************)
EXTENDS Launches, Identity, FiniteSetTheorems, SequenceTheorems, WellFoundedInduction,
         TLAPS

-----------------------------------------------------------------------------
(* The launches.                                                           *)

Event ==
  [event : {"app_installed", "app_backgrounded"}, release : Releases]
    \union [event : {"app_updated"}, release : Releases, previous : Releases]
    \union [event : {"app_opened"}, release : Releases, from_background : BOOLEAN]

LaunchTypes ==
  /\ binary \in Releases
  /\ file \in [format : {"new", "newer", "0.1", FORMAT}, last : Releases \union {NoRelease}]
  /\ process \in {"closed", "open", "foreground", "background"}
  /\ events \in Seq(Event) /\ entries \in Nat

\* The store remembers the release that was told last,
RemembersTheLast == ReleaseAfter(Len(events)) = file.last

\* and lifecycle tracking does not take a launch for a return.
LaunchIsNoReturn ==
  /\ told => process = "foreground"
  /\ told \/ process = "open" => place = "foreground"

LaunchInv ==
  LaunchTypes /\ RemembersTheLast /\ LaunchIsNoReturn /\ ChangesChain /\ OpenedOnce

-----------------------------------------------------------------------------
(* Lists of events, as they grow.                                          *)

LEMMA LargestPlace ==
  ASSUME NEW n \in Nat, NEW S \in SUBSET (1 .. n), S # {}
  PROVE  Max(S) \in S /\ \A i \in S : i <= Max(S)
<1> DEFINE before == {n - i : i \in S}
<1>1. before \in SUBSET Nat /\ before # {}
  <2>1. \A i \in S : i \in 1 .. n /\ n - i \in Nat
    OBVIOUS
  <2>2. before \subseteq Nat
    BY <2>1
  <2>3. before # {}
    <3>1. PICK i \in S : TRUE
      OBVIOUS
    <3>2. n - i \in before
      OBVIOUS
    <3> QED  BY <3>2
  <2> QED  BY <2>2, <2>3
<1> HIDE DEF before
<1>2. PICK least \in before : \A k \in before : ~ (<<k, least>> \in OpToRel(<, Nat))
  BY <1>1, NatLessThanWellFounded, WFMin
<1>3. \A k \in before : ~ (k < least)
  BY <1>1, <1>2 DEF OpToRel
<1>4. PICK last \in S : least = n - last
  BY DEF before
<1>5. \A i \in S : ~ (n - i < n - last)
  BY <1>3, <1>4 DEF before
<1>6. \A i \in S : last >= i
  BY <1>5
<1> QED  BY <1>6 DEF Max

ChangesIn(list, n) == {i \in 1 .. n : IsChange(list[i])}

Told(list, n) ==
  IF ChangesIn(list, n) = {} THEN first ELSE list[Max(ChangesIn(list, n))].release

Chain(list) ==
  \A i \in 1 .. Len(list) :
    /\ list[i].event = "app_installed" => Told(list, i - 1) = NoRelease
    /\ list[i].event = "app_updated" =>
         /\ list[i].previous = Told(list, i - 1)
         /\ list[i].previous \notin {NoRelease, list[i].release}
    /\ IsLaunch(list[i]) => list[i].release = Told(list, i)

Opens(list) == {i \in 1 .. Len(list) : list[i].event = "app_opened"}

\* What an event's place among the others must be like.
Follows(list, event) ==
  /\ event.event = "app_installed" => Told(list, Len(list)) = NoRelease
  /\ event.event = "app_updated" =>
       /\ event.previous = Told(list, Len(list))
       /\ event.previous \notin {NoRelease, event.release}
  /\ IsLaunch(event) => event.release = Told(list, Len(list))

LEMMA OneMoreEvent ==
  ASSUME NEW list \in Seq(Event), NEW event \in Event, Chain(list), Follows(list, event)
  PROVE  LET more == Append(list, event)
         IN /\ more \in Seq(Event) /\ Chain(more)
            /\ Told(more, Len(more)) =
                 IF IsChange(event) THEN event.release ELSE Told(list, Len(list))
            /\ Opens(more) =
                 Opens(list) \union (IF event.event = "app_opened" THEN {Len(list) + 1} ELSE {})
<1> DEFINE n == Len(list)
<1> PICK more : more = Append(list, event)
  OBVIOUS
<1>1. /\ more \in Seq(Event) /\ n \in Nat /\ Len(more) = n + 1
      /\ \A i \in 1 .. n : more[i] = list[i]
      /\ more[n + 1] = event
  OBVIOUS
<1> HIDE DEF n
<1>2. ASSUME NEW k \in 0 .. n
      PROVE  Told(more, k) = Told(list, k)
  <2>1. ChangesIn(more, k) = ChangesIn(list, k)
    BY <1>1 DEF ChangesIn
  <2>2. ChangesIn(list, k) # {} => Max(ChangesIn(list, k)) \in 1 .. n
    <3>1. k \in Nat /\ k <= n /\ ChangesIn(list, k) \in SUBSET (1 .. k)
      BY <1>1 DEF ChangesIn
    <3>2. ChangesIn(list, k) # {} => Max(ChangesIn(list, k)) \in ChangesIn(list, k)
      BY <3>1, LargestPlace
    <3> QED  BY <1>1, <3>1, <3>2
  <2> QED  BY <1>1, <2>1, <2>2 DEF Told
<1>3. Told(more, n + 1) = IF IsChange(event) THEN event.release ELSE Told(list, n)
  <2>1. CASE IsChange(event)
    <3>1. n + 1 \in ChangesIn(more, n + 1) /\ ChangesIn(more, n + 1) \in SUBSET (1 .. n + 1)
      BY <1>1, <2>1 DEF ChangesIn
    <3>2. Max(ChangesIn(more, n + 1)) = n + 1
      <4>1. /\ Max(ChangesIn(more, n + 1)) \in ChangesIn(more, n + 1)
            /\ n + 1 <= Max(ChangesIn(more, n + 1))
        <5>1. n + 1 \in Nat
          BY <1>1
        <5> HIDE <1>1
        <5> QED  BY <3>1, <5>1, LargestPlace
      <4> QED  BY <1>1, <3>1, <4>1
    <3> QED  BY <1>1, <2>1, <3>1, <3>2 DEF Told
  <2>2. CASE ~IsChange(event)
    <3>1. ChangesIn(more, n + 1) = ChangesIn(more, n)
      BY <1>1, <2>2 DEF ChangesIn
    <3>2. Told(more, n + 1) = Told(more, n)
      BY <3>1 DEF Told
    <3> QED  BY <1>1, <1>2, <2>2, <3>2
  <2> QED  BY <2>1, <2>2
<1>4. Chain(more)
  <2> SUFFICES ASSUME NEW i \in 1 .. n + 1
               PROVE  /\ more[i].event = "app_installed" => Told(more, i - 1) = NoRelease
                      /\ more[i].event = "app_updated" =>
                           /\ more[i].previous = Told(more, i - 1)
                           /\ more[i].previous \notin {NoRelease, more[i].release}
                      /\ IsLaunch(more[i]) => more[i].release = Told(more, i)
    BY <1>1 DEF Chain
  <2>1. CASE i \in 1 .. n
    <3>1. /\ more[i] = list[i] /\ Told(more, i - 1) = Told(list, i - 1)
          /\ Told(more, i) = Told(list, i)
      BY <1>1, <1>2, <2>1
    <3> QED  BY <2>1, <3>1 DEF Chain, n
  <2>2. CASE i = n + 1
    <3>1. more[i] = event /\ Told(more, i - 1) = Told(list, n)
      BY <1>1, <1>2, <2>2
    <3>2. IsLaunch(event) => Told(more, i) = Told(list, n)
      BY <1>3, <2>2 DEF IsLaunch, IsChange
    <3> QED  BY <3>1, <3>2 DEF Follows, n
  <2> QED  BY <1>1, <2>1, <2>2
<1>5. Opens(more) = Opens(list) \union (IF event.event = "app_opened" THEN {n + 1} ELSE {})
  BY <1>1 DEF Opens, n
<1> QED  BY <1>1, <1>3, <1>4, <1>5 DEF n

LEMMA OpensAreCounted ==
  ASSUME NEW list \in Seq(Event), NEW event \in Event,
         NEW more \in Seq(Event),
         Opens(more) =
           Opens(list) \union (IF event.event = "app_opened" THEN {Len(list) + 1} ELSE {})
  PROVE  /\ Cardinality(Opens(list)) \in Nat /\ Cardinality(Opens(more)) \in Nat
         /\ Cardinality(Opens(more)) =
              Cardinality(Opens(list)) + (IF event.event = "app_opened" THEN 1 ELSE 0)
<1>1. /\ IsFiniteSet(Opens(list)) /\ IsFiniteSet(Opens(more))
      /\ Cardinality(Opens(list)) \in Nat /\ Cardinality(Opens(more)) \in Nat
  <2>1. Len(list) \in Nat /\ Len(more) \in Nat
    OBVIOUS
  <2>2. IsFiniteSet(1 .. Len(list)) /\ IsFiniteSet(1 .. Len(more))
    BY <2>1, FS_Interval
  <2>3. Opens(list) \subseteq 1 .. Len(list) /\ Opens(more) \subseteq 1 .. Len(more)
    BY DEF Opens
  <2>4. IsFiniteSet(Opens(list)) /\ IsFiniteSet(Opens(more))
    BY <2>2, <2>3, FS_Subset
  <2> QED  BY <2>4, FS_CardinalityType
<1>2. Len(list) + 1 \notin Opens(list)
  BY DEF Opens
<1>3. CASE event.event = "app_opened"
  <2>1. Opens(more) = Opens(list) \union {Len(list) + 1}
    BY <1>3
  <2>2. Cardinality(Opens(list) \union {Len(list) + 1}) = Cardinality(Opens(list)) + 1
    BY <1>1, <1>2, FS_AddElement
  <2> QED  BY <1>1, <1>3, <2>1, <2>2
<1>4. CASE event.event # "app_opened"
  <2>1. Opens(more) = Opens(list)
    BY <1>4
  <2> QED  BY <1>1, <1>4, <2>1
<1> QED  BY <1>3, <1>4

\* The launches' invariant, in terms of the list of events.
LEMMA InTermsOfTheList ==
  ASSUME events \in Seq(Event)
  PROVE  /\ RemembersTheLast <=> Told(events, Len(events)) = file.last
         /\ ChangesChain <=> Chain(events)
         /\ OpenedOnce <=> Cardinality(Opens(events)) <= entries
<1>1. DOMAIN events = 1 .. Len(events)
  OBVIOUS
<1>2. \A n : ReleaseAfter(n) = Told(events, n)
  BY DEF ReleaseAfter, Told, ChangesIn
<1> QED  BY <1>1, <1>2 DEF RemembersTheLast, ChangesChain, Chain, OpenedOnce, Opens

-----------------------------------------------------------------------------
(* The steps of a launch.                                                  *)

\* What a step must make of the list of events.
LEMMA ListKeeps ==
  ASSUME LaunchTypes', LaunchIsNoReturn', first' = first, NEW list, events' = list,
         Chain(list), Told(list, Len(list)) = file'.last,
         Cardinality(Opens(list)) <= entries'
  PROVE  LaunchInv'
<1>1. list \in Seq(Event)
  BY DEF LaunchTypes
<1>2. \A n : Told(list, n) = (IF ChangesIn(list, n) = {} THEN first'
                              ELSE list[Max(ChangesIn(list, n))].release)
  BY DEF Told
<1>3. \A n : ReleaseAfter(n)' = Told(list, n)
  BY <1>2 DEF ReleaseAfter, ChangesIn
<1>4. DOMAIN list = 1 .. Len(list)
  BY <1>1
<1>5. RemembersTheLast'
  BY <1>3 DEF RemembersTheLast
<1>6. ChangesChain'
  BY <1>3, <1>4 DEF ChangesChain, Chain
<1>7. OpenedOnce'
  BY <1>4 DEF OpenedOnce, Opens
<1> QED  BY <1>5, <1>6, <1>7 DEF LaunchInv

LEMMA ListIsKept ==
  ASSUME LaunchInv
  PROVE  /\ events \in Seq(Event) /\ entries \in Nat /\ Chain(events)
         /\ Told(events, Len(events)) = file.last
         /\ Cardinality(Opens(events)) \in Nat /\ Cardinality(Opens(events)) <= entries
<1>1. events \in Seq(Event) /\ entries \in Nat
  BY DEF LaunchInv, LaunchTypes
<1>2. /\ Chain(events) /\ Told(events, Len(events)) = file.last
      /\ Cardinality(Opens(events)) <= entries
  BY <1>1, InTermsOfTheList DEF LaunchInv
<1>3. Cardinality(Opens(events)) \in Nat
  <2>1. Len(events) \in Nat /\ Opens(events) \subseteq 1 .. Len(events)
    BY <1>1 DEF Opens
  <2>2. IsFiniteSet(1 .. Len(events))
    BY <2>1, FS_Interval
  <2> QED  BY <2>1, <2>2, FS_Subset, FS_CardinalityType
<1> QED  BY <1>1, <1>2, <1>3

-----------------------------------------------------------------------------
(* The steps of a launch.                                                  *)

\* A step that records nothing.
LEMMA QuietStepKeeps ==
  ASSUME LaunchInv, LaunchTypes', LaunchIsNoReturn', events' = events, first' = first,
         file'.last = file.last, entries <= entries'
  PROVE  LaunchInv'
<1>1. entries' \in Nat
  BY DEF LaunchTypes
<1>2. Cardinality(Opens(events)) <= entries'
  BY <1>1, ListIsKept
<1> PICK list : list = events
  OBVIOUS
<1> QED  BY <1>2, ListIsKept, ListKeeps

\* A step that records one event that follows the others.
LEMMA RecordingKeeps ==
  ASSUME LaunchInv, LaunchTypes', LaunchIsNoReturn', first' = first,
         NEW event \in Event, events' = Append(events, event), Follows(events, event),
         file'.last = IF IsChange(event) THEN event.release ELSE file.last,
         entries' >= entries + (IF event.event = "app_opened" THEN 1 ELSE 0)
  PROVE  LaunchInv'
<1> PICK list : list = events
  OBVIOUS
<1> PICK more : more = Append(list, event)
  OBVIOUS
<1>1. /\ list \in Seq(Event) /\ entries \in Nat /\ Chain(list)
      /\ Told(list, Len(list)) = file.last
      /\ Cardinality(Opens(list)) \in Nat /\ Cardinality(Opens(list)) <= entries
  BY ListIsKept
<1>2. /\ more \in Seq(Event) /\ Chain(more)
      /\ Told(more, Len(more)) = IF IsChange(event) THEN event.release ELSE Told(list, Len(list))
      /\ Opens(more) =
           Opens(list) \union (IF event.event = "app_opened" THEN {Len(list) + 1} ELSE {})
  BY <1>1, OneMoreEvent
<1>3. /\ Cardinality(Opens(more)) \in Nat
      /\ Cardinality(Opens(more)) =
           Cardinality(Opens(list)) + (IF event.event = "app_opened" THEN 1 ELSE 0)
  BY <1>1, <1>2, OpensAreCounted
<1>4. entries' \in Nat
  BY DEF LaunchTypes
<1>5. Cardinality(Opens(more)) <= entries'
  BY <1>1, <1>3, <1>4
<1>6. Told(more, Len(more)) = file'.last
  BY <1>1, <1>2
<1> QED  BY <1>2, <1>5, <1>6, ListKeeps

LEMMA ShortLists ==
  ASSUME NEW S, NEW one \in S, NEW other \in S
  PROVE  << >> \o <<other>> = <<other>> /\ <<one>> \o <<other>> = <<one, other>>
<1>1. <<one>> \in Seq(S) /\ <<other>> \in Seq(S)
  OBVIOUS
<1>2. << >> \o <<other>> = <<other>> /\ <<one>> \o <<other>> = Append(<<one>>, other)
  BY <1>1, ConcatEmptySeq, AppendIsConcat
<1>3. Append(<<one>>, other) = <<one, other>>
  <2> DEFINE both == Append(<<one>>, other)
  <2>1. both \in Seq(S) /\ Len(both) = 2 /\ both[1] = one /\ both[2] = other
    BY <1>1
  <2>2. <<one, other>> \in Seq(S) /\ Len(<<one, other>>) = 2
    OBVIOUS
  <2> HIDE DEF both
  <2>3. \A i \in 1 .. 2 : both[i] = <<one, other>>[i]
    BY <2>1
  <2> QED  BY <2>1, <2>2, <2>3, SeqEqual DEF both
<1> QED  BY <1>2, <1>3

LEMMA LaunchKeeps ==
  ASSUME LaunchInv, NEW stored \in BOOLEAN, AppLaunched(stored)
  PROVE  LaunchInv'
<1> DEFINE opened == [event |-> "app_opened", release |-> binary, from_background |-> FALSE]
           installed == [event |-> "app_installed", release |-> binary]
           updated == [event |-> "app_updated", release |-> binary, previous |-> file.last]
<1>1. /\ binary \in Releases /\ file.last \in Releases \union {NoRelease}
      /\ file \in [format : {"new", "newer", "0.1", FORMAT}, last : Releases \union {NoRelease}]
      /\ entries \in Nat /\ events \in Seq(Event) /\ process = "open" /\ place = "foreground"
  BY DEF LaunchInv, LaunchTypes, LaunchIsNoReturn, AppLaunched
<1>2. /\ process' = "foreground" /\ entries' = entries + 1
      /\ binary' = binary /\ place' = place /\ first' = first
  BY DEF AppLaunched
<1>3. LaunchIsNoReturn'
  BY <1>1, <1>2 DEF LaunchIsNoReturn
<1>4. /\ events' = events \o (IF stored THEN LaunchEvents(file.last, binary) ELSE << >>)
      /\ file' = [file EXCEPT !.last = IF stored THEN binary ELSE file.last]
  BY DEF AppLaunched, Remembered
<1>5. /\ file' \in [format : {"new", "newer", "0.1", FORMAT}, last : Releases \union {NoRelease}]
      /\ file'.last = IF stored THEN binary ELSE file.last
  BY <1>1, <1>4
<1>6. ASSUME events' \in Seq(Event)
      PROVE  LaunchTypes'
  BY <1>1, <1>2, <1>5, <1>6 DEF LaunchTypes
<1>7. opened \in Event /\ ~IsChange(opened)
  <2>1. FALSE \in BOOLEAN
    OBVIOUS
  <2> QED  BY <1>1, <2>1 DEF Event, IsChange
<1>8. CASE ~stored
  <2>1. events' = events
    BY <1>1, <1>4, <1>8
  <2>2. file'.last = file.last
    BY <1>5, <1>8
  <2> QED  BY <1>1, <1>2, <1>3, <1>6, <2>1, <2>2, QuietStepKeeps
<1>9. CASE stored /\ file.last = binary
  <2>1. LaunchEvents(file.last, binary) = <<opened>>
    <3>1. << >> \o <<opened>> = <<opened>>
      <4> HIDE DEF opened
      <4> QED  BY <1>7, ShortLists
    <3> QED  BY <1>1, <1>9, <3>1, LaunchAssumption DEF LaunchEvents
  <2>2. events' = Append(events, opened)
    BY <1>1, <1>4, <1>9, <2>1
  <2>3. events' \in Seq(Event)
    BY <1>1, <1>7, <2>2
  <2>4. Follows(events, opened)
    BY <1>9, ListIsKept DEF Follows, IsLaunch
  <2>5. opened.event = "app_opened"
    OBVIOUS
  <2>6. file'.last = file.last
    BY <1>5, <1>9
  <2> HIDE DEF opened
  <2> QED  BY <1>1, <1>2, <1>3, <1>6, <1>7, <2>2, <2>3, <2>4, <2>5, <2>6, RecordingKeeps
<1>10. CASE stored /\ file.last # binary
  <2> DEFINE change == IF file.last = NoRelease THEN installed ELSE updated
  <2>1. /\ change \in Event /\ IsChange(change) /\ change.release = binary
        /\ change.event # "app_opened"
    BY <1>1 DEF Event, IsChange
  <2>2. Follows(events, change)
    BY <1>10, ListIsKept DEF Follows, IsLaunch
  <2>3. LaunchEvents(file.last, binary) = <<change, opened>>
    <3>1. <<change>> \o <<opened>> = <<change, opened>>
      <4> HIDE DEF change, opened
      <4> QED  BY <1>7, <2>1, ShortLists
    <3> QED  BY <1>10, <3>1 DEF LaunchEvents
  <2>4. opened.event = "app_opened" /\ opened.release = binary
    OBVIOUS
  <2> HIDE DEF change, opened
  <2> PICK list : list = events
    OBVIOUS
  <2> PICK between : between = Append(list, change)
    OBVIOUS
  <2> PICK more : more = Append(between, opened)
    OBVIOUS
  <2>5. events' = more
    BY <1>1, <1>4, <1>10, <2>1, <2>3, <1>7
  <2>6. /\ between \in Seq(Event) /\ Chain(between) /\ Told(between, Len(between)) = binary
        /\ Opens(between) = Opens(list) \union
             (IF change.event = "app_opened" THEN {Len(list) + 1} ELSE {})
    BY <1>1, <2>1, <2>2, ListIsKept, OneMoreEvent
  <2>7. Follows(between, opened)
    BY <1>7, <2>4, <2>6 DEF Follows
  <2>8. /\ more \in Seq(Event) /\ Chain(more) /\ Told(more, Len(more)) = binary
        /\ Opens(more) = Opens(between) \union
             (IF opened.event = "app_opened" THEN {Len(between) + 1} ELSE {})
    BY <1>7, <2>6, <2>7, OneMoreEvent
  <2>9. Cardinality(Opens(more)) = Cardinality(Opens(list)) + 1
    <3>1. Cardinality(Opens(between)) = Cardinality(Opens(list))
            /\ Cardinality(Opens(list)) \in Nat
      BY <1>1, <2>1, <2>6, OpensAreCounted
    <3>2. Cardinality(Opens(more)) = Cardinality(Opens(between)) + 1
      BY <1>7, <2>4, <2>6, <2>8, OpensAreCounted
    <3> QED  BY <3>1, <3>2
  <2>10. Cardinality(Opens(more)) <= entries'
    BY <1>1, <1>2, <2>9, ListIsKept
  <2>11. file'.last = binary
    BY <1>5, <1>10
  <2> QED  BY <1>2, <1>3, <1>6, <2>5, <2>8, <2>10, <2>11, ListKeeps
<1> QED  BY <1>8, <1>9, <1>10

\* Lifecycle tracking records an event that is no launch, or loses it.
LEMMA TrackingKeeps ==
  ASSUME LaunchInv, NEW event \in Event, ~IsChange(event), ~IsLaunch(event),
         Tracks(event), LaunchIsNoReturn', UNCHANGED <<binary, file, first>>,
         process' \in {"foreground", "background"}, entries' \in Nat,
         entries' >= entries + (IF event.event = "app_opened" THEN 1 ELSE 0)
  PROVE  LaunchInv'
<1>1. LaunchTypes
  BY DEF LaunchInv
<1>2. CASE events' = events
  <2>1. LaunchTypes'
    BY <1>1, <1>2 DEF LaunchTypes
  <2>2. entries <= entries'
    BY <1>1 DEF LaunchTypes
  <2> QED  BY <1>2, <2>1, <2>2, QuietStepKeeps
<1>3. CASE events' = Append(events, event)
  <2>1. LaunchTypes'
    BY <1>1, <1>3 DEF LaunchTypes
  <2>2. Follows(events, event)
    BY DEF Follows, IsChange
  <2> QED  BY <1>3, <2>1, <2>2, RecordingKeeps
<1> QED  BY <1>2, <1>3 DEF Tracks

LEMMA EntersKeep ==
  ASSUME LaunchInv, EnterBackground \/ EnterForeground
  PROVE  LaunchInv'
<1>1. LaunchTypes /\ LaunchIsNoReturn
  BY DEF LaunchInv
<1>2. CASE EnterBackground
  <2> DEFINE event == [event |-> "app_backgrounded", release |-> binary]
  <2>1. event \in Event /\ ~IsChange(event) /\ ~IsLaunch(event) /\ event.event # "app_opened"
    BY <1>1 DEF LaunchTypes, Event, IsChange, IsLaunch
  <2>2. LaunchIsNoReturn'
    BY <1>2 DEF EnterBackground, LaunchIsNoReturn
  <2>3. /\ Tracks(event) /\ UNCHANGED <<binary, file, first>> /\ process' = "background"
        /\ entries' = entries
    BY <1>2 DEF EnterBackground
  <2>4. entries' \in Nat /\ entries' >= entries + 0
    BY <1>1, <2>3 DEF LaunchTypes
  <2> HIDE DEF event
  <2> QED  BY <2>1, <2>2, <2>3, <2>4, TrackingKeeps
<1>3. CASE EnterForeground
  <2> DEFINE event == [event |-> "app_opened", release |-> binary, from_background |-> TRUE]
  <2>1. event \in Event /\ ~IsChange(event) /\ ~IsLaunch(event) /\ event.event = "app_opened"
    <3>1. TRUE \in BOOLEAN
      OBVIOUS
    <3> QED  BY <1>1, <3>1 DEF LaunchTypes, Event, IsChange, IsLaunch
  <2>2. LaunchIsNoReturn'
    BY <1>3 DEF EnterForeground, LaunchIsNoReturn
  <2>3. /\ UNCHANGED <<binary, file, first>> /\ process' = "foreground"
        /\ entries' \in Nat /\ entries' >= entries
    BY <1>1, <1>3 DEF EnterForeground, LaunchTypes
  <2>4. CASE Returns(place)
    <3>1. entries' = entries + 1
      BY <1>1, <1>3, <2>4 DEF EnterForeground, LaunchIsNoReturn, Returns
    <3>2. Tracks(event)
      BY <1>3, <2>4 DEF EnterForeground
    <3>3. entries' >= entries + 1
      BY <1>1, <3>1 DEF LaunchTypes
    <3> HIDE DEF event
    <3> QED  BY <2>1, <2>2, <2>3, <3>2, <3>3, TrackingKeeps
  <2>5. CASE ~Returns(place)
    <3>1. events' = events
      BY <1>3, <2>5 DEF EnterForeground
    <3>2. LaunchTypes'
      BY <1>1, <2>3, <3>1 DEF LaunchTypes
    <3>3. entries <= entries'
      BY <1>1, <2>3 DEF LaunchTypes
    <3> QED  BY <2>2, <2>3, <3>1, <3>2, <3>3, QuietStepKeeps
  <2> QED  BY <2>4, <2>5
<1> QED  BY <1>2, <1>3

LEMMA StoreKeeps ==
  ASSUME LaunchInv, (\E release \in Releases : Upgrade(release)) \/ OpenStore \/ ProcessEnds
  PROVE  LaunchInv'
<1>1. LaunchTypes /\ LaunchIsNoReturn
  BY DEF LaunchInv
<1>2. /\ events' = events /\ first' = first /\ entries' = entries /\ binary' \in Releases
      /\ process' \in {"closed", "open", "foreground", "background"}
  BY <1>1 DEF Upgrade, OpenStore, ProcessEnds, LaunchTypes
<1>3. /\ file' \in [format : {"new", "newer", "0.1", FORMAT}, last : Releases \union {NoRelease}]
      /\ file'.last = file.last
  BY <1>1 DEF Upgrade, OpenStore, Migrated, ProcessEnds, LaunchTypes
<1>4. LaunchTypes'
  BY <1>1, <1>2, <1>3 DEF LaunchTypes
<1>5. LaunchIsNoReturn'
  BY <1>1 DEF Upgrade, OpenStore, ProcessEnds, LaunchIsNoReturn
<1>6. entries <= entries'
  BY <1>1, <1>2 DEF LaunchTypes
<1> QED  BY <1>2, <1>3, <1>4, <1>5, <1>6, QuietStepKeeps

LEMMA LaunchInvariance == LaunchSpec => []LaunchInv
<1>1. ASSUME LaunchInit
      PROVE  LaunchInv
  <2>1. events = << >> /\ first = file.last /\ entries = 0 /\ process = "closed" /\ told = FALSE
    BY <1>1 DEF LaunchInit
  <2>2. LaunchTypes
    <3>1. file \in [format : {"new", "newer", "0.1", FORMAT}, last : Releases \union {NoRelease}]
      BY <1>1 DEF LaunchInit
    <3> QED  BY <1>1, <2>1, <3>1 DEF LaunchInit, LaunchTypes
  <2>3. LaunchIsNoReturn
    BY <2>1 DEF LaunchIsNoReturn
  <2>4. Len(events) = 0 /\ events \in Seq(Event) /\ DOMAIN events = {}
    BY <2>1
  <2>5. RemembersTheLast
    <3>1. ChangesIn(events, Len(events)) = {}
      BY <2>4 DEF ChangesIn
    <3> QED  BY <2>1, <2>4, <3>1, InTermsOfTheList DEF Told
  <2>6. ChangesChain
    BY <2>4 DEF ChangesChain
  <2>7. OpenedOnce
    <3>1. Opens(events) = {}
      BY <2>4 DEF Opens
    <3> QED  BY <2>1, <2>4, <3>1, InTermsOfTheList, FS_EmptySet
  <2> QED  BY <2>2, <2>3, <2>5, <2>6, <2>7 DEF LaunchInv
<1>2. ASSUME LaunchInv, [LaunchNext]_launchVars
      PROVE  LaunchInv'
  <2>1. CASE UNCHANGED launchVars
    <3>1. /\ events' = events /\ first' = first /\ entries' = entries /\ file' = file
          /\ binary' = binary /\ process' = process /\ told' = told /\ place' = place
      BY <2>1 DEF launchVars
    <3>2. LaunchTypes' /\ LaunchIsNoReturn'
      BY <1>2, <3>1 DEF LaunchInv, LaunchTypes, LaunchIsNoReturn
    <3>3. entries <= entries'
      BY <1>2, <3>1 DEF LaunchInv, LaunchTypes
    <3> QED  BY <1>2, <3>1, <3>2, <3>3, QuietStepKeeps
  <2>2. CASE LaunchNext
    BY <1>2, <2>2, LaunchKeeps, EntersKeep, StoreKeeps DEF LaunchNext
  <2> QED  BY <1>2, <2>1, <2>2
<1> QED  BY <1>1, <1>2, PTL DEF LaunchSpec

\* The store tells each change of the release once, each update from the release
\* told last, and no entry into the foreground twice: for any order of upgrades,
\* downgrades, launches, failed transactions, kills and returns.
THEOREM LaunchesAreToldOnce == LaunchSpec => []LaunchesAreTold
<1>1. LaunchInv => LaunchesAreTold
  BY DEF LaunchInv, LaunchesAreTold
<1> QED  BY <1>1, LaunchInvariance, PTL

-----------------------------------------------------------------------------
(* The identity.                                                           *)

Values == UNION {{change[key] : key \in DOMAIN change} : change \in Changes}
Traits == UNION {[keys -> Values] : keys \in SUBSET TraitKeys}
Actors == ExternalIds \union {Everyone}
StandardContexts == HostContexts \union {NoContext}
Effect == CallsFor \union [kind : {"context"}, context : StandardContexts]
Tracked == [externalId : Actors, context : [standard : StandardContexts, traits : Traits],
            begun : Nat, ended : Nat]

IdentityTypes ==
  /\ identity \in [externalId : Actors, traits : Traits] /\ context \in StandardContexts
  /\ effects \in Seq(Effect) /\ tracked \in Seq(Tracked)
  /\ DOMAIN calls = Threads

\* Row and memory are as the effects have made them.
RowIsTrue ==
  /\ identity.externalId = ActorAfter(Len(effects))
  /\ CarriesTraits(identity.traits, Len(effects))

ContextIsTrue == context = ContextAfter(Len(effects))

\* The context an event's call began with was the context then.
CallIsTrue(call) ==
  \/ call = NoCall
  \/ call \in CallsFor
  \/ /\ call.kind = "track" /\ call.begun \in 0 .. Len(effects)
     /\ call.context \in StandardContexts /\ call.context = ContextAfter(call.begun)

CallsAreTrue == \A t \in Threads : CallIsTrue(calls[t])

\* What is known of an event that was tracked.
IsOfItsActor(event) ==
  /\ event.begun <= event.ended /\ event.ended <= Len(effects)
  /\ event.externalId = ActorAfter(event.ended)
  /\ CarriesTraits(event.context.traits, event.ended)
  /\ event.context.standard = ContextAfter(event.begun)

TrackedInTime == \A i \in DOMAIN tracked : IsOfItsActor(tracked[i])

IdentityInv ==
  IdentityTypes /\ RowIsTrue /\ ContextIsTrue /\ CallsAreTrue /\ TrackedInTime

-----------------------------------------------------------------------------
(* Effects, as they come.                                                  *)

LEMMA LastPlace ==
  ASSUME NEW n \in Nat, NEW S \in SUBSET (1 .. n)
  PROVE  /\ LastOf(S) \in 0 .. n
         /\ LastOf(S) # 0 => LastOf(S) \in S
         /\ LastOf(S \union {n + 1}) = n + 1
<1>1. S # {} => Max(S) \in S
  BY LargestPlace
<1>2. LastOf(S) = IF S = {} THEN 0 ELSE Max(S)
  BY DEF LastOf
<1>3. LastOf(S) \in 0 .. n /\ (LastOf(S) # 0 => LastOf(S) \in S)
  <2>1. CASE S = {}
    BY <1>2, <2>1
  <2>2. CASE S # {}
    <3>1. LastOf(S) \in S
      BY <1>1, <1>2, <2>2
    <3>2. \A i \in S : i \in 0 .. n
      OBVIOUS
    <3> QED  BY <3>1, <3>2
  <2> QED  BY <2>1, <2>2
<1>4. LastOf(S \union {n + 1}) = n + 1
  <2> DEFINE more == S \union {n + 1}
  <2>1. /\ more \in SUBSET (1 .. n + 1) /\ n + 1 \in more /\ n + 1 \in Nat
        /\ \A i \in more : i \in Nat /\ i <= n + 1
    OBVIOUS
  <2> HIDE DEF more
  <2>2. Max(more) \in more /\ n + 1 <= Max(more)
    BY <2>1, LargestPlace
  <2>3. Max(more) = n + 1
    <3>1. Max(more) \in Nat /\ Max(more) <= n + 1
      BY <2>1, <2>2
    <3> QED  BY <2>2, <3>1
  <2> QED  BY <2>1, <2>3 DEF LastOf, more
<1> QED  BY <1>3, <1>4

IdentifiesIn(list, n) == {i \in 1 .. n : list[i].kind = "identify"}
ResetsIn(list, n) == {i \in 1 .. n : list[i].kind = "reset"}
SetsIn(list, n, key) == {i \in 1 .. n : Sets(list[i], key)}
ContextsIn(list, n) == {i \in 1 .. n : list[i].kind = "context"}

ActorIn(list, n) ==
  IF LastOf(IdentifiesIn(list, n)) <= LastOf(ResetsIn(list, n)) THEN Everyone
  ELSE list[LastOf(IdentifiesIn(list, n))].externalId

TraitIn(list, n, key) ==
  IF LastOf(SetsIn(list, n, key)) <= LastOf(ResetsIn(list, n)) THEN Removed
  ELSE list[LastOf(SetsIn(list, n, key))].changes[key]

ContextIn(list, n) ==
  IF LastOf(ContextsIn(list, n)) = 0 THEN NoContext
  ELSE list[LastOf(ContextsIn(list, n))].context

LEMMA OneMoreEffect ==
  ASSUME NEW list \in Seq(Effect), NEW effect \in Effect
  PROVE  LET more == Append(list, effect)
             n == Len(list)
         IN /\ more \in Seq(Effect) /\ Len(more) = n + 1
            /\ \A k \in 0 .. n :
                 /\ ActorIn(more, k) = ActorIn(list, k)
                 /\ \A key : TraitIn(more, k, key) = TraitIn(list, k, key)
                 /\ ContextIn(more, k) = ContextIn(list, k)
            /\ ActorIn(more, n + 1) =
                 IF effect.kind = "identify" THEN effect.externalId
                 ELSE IF effect.kind = "reset" THEN Everyone ELSE ActorIn(list, n)
            /\ \A key : TraitIn(more, n + 1, key) =
                 IF Sets(effect, key) THEN effect.changes[key]
                 ELSE IF effect.kind = "reset" THEN Removed ELSE TraitIn(list, n, key)
            /\ ContextIn(more, n + 1) =
                 IF effect.kind = "context" THEN effect.context ELSE ContextIn(list, n)
<1> PICK n \in Nat : n = Len(list)
  OBVIOUS
<1> PICK more : more = Append(list, effect)
  OBVIOUS
<1>1. /\ more \in Seq(Effect) /\ Len(more) = n + 1
      /\ \A i \in 1 .. n : more[i] = list[i]
      /\ more[n + 1] = effect
  OBVIOUS
<1>2. ASSUME NEW k \in 0 .. n
      PROVE  /\ IdentifiesIn(more, k) = IdentifiesIn(list, k)
             /\ ResetsIn(more, k) = ResetsIn(list, k)
             /\ ContextsIn(more, k) = ContextsIn(list, k)
             /\ \A key : SetsIn(more, k, key) = SetsIn(list, k, key)
  BY <1>1 DEF IdentifiesIn, ResetsIn, ContextsIn, SetsIn
<1>3. ASSUME NEW k \in 0 .. n, NEW S \in SUBSET (1 .. k)
      PROVE  LastOf(S) \in 0 .. n /\ (LastOf(S) # 0 => more[LastOf(S)] = list[LastOf(S)])
  <2>1. k \in Nat
    OBVIOUS
  <2>2. LastOf(S) \in 0 .. k
    BY <2>1, LastPlace
  <2>3. LastOf(S) \in 0 .. n
    BY <2>2
  <2> QED  BY <1>1, <2>3
<1>4. ASSUME NEW k \in 0 .. n, NEW key
      PROVE  /\ LastOf(IdentifiesIn(list, k)) \in 0 .. n /\ LastOf(ResetsIn(list, k)) \in 0 .. n
             /\ LastOf(ContextsIn(list, k)) \in 0 .. n /\ LastOf(SetsIn(list, k, key)) \in 0 .. n
             /\ \A i \in 0 .. n : i # 0 => more[i] = list[i]
  <2>1. /\ IdentifiesIn(list, k) \in SUBSET (1 .. k) /\ ResetsIn(list, k) \in SUBSET (1 .. k)
        /\ ContextsIn(list, k) \in SUBSET (1 .. k) /\ SetsIn(list, k, key) \in SUBSET (1 .. k)
    BY DEF IdentifiesIn, ResetsIn, ContextsIn, SetsIn
  <2>2. \A i \in 0 .. n : i # 0 => more[i] = list[i]
    BY <1>1
  <2> QED  BY <1>3, <2>1, <2>2
<1>5. ASSUME NEW k \in 0 .. n
      PROVE  /\ ActorIn(more, k) = ActorIn(list, k)
             /\ \A key : TraitIn(more, k, key) = TraitIn(list, k, key)
             /\ ContextIn(more, k) = ContextIn(list, k)
  <2>1. ActorIn(more, k) = ActorIn(list, k)
    <3>1. LastOf(IdentifiesIn(list, k)) <= LastOf(ResetsIn(list, k))
            \/ LastOf(IdentifiesIn(list, k)) # 0
      BY <1>4
    <3> QED  BY <1>2, <1>4, <3>1 DEF ActorIn
  <2>2. ASSUME NEW key
        PROVE  TraitIn(more, k, key) = TraitIn(list, k, key)
    <3>1. LastOf(SetsIn(list, k, key)) <= LastOf(ResetsIn(list, k))
            \/ LastOf(SetsIn(list, k, key)) # 0
      BY <1>4
    <3> QED  BY <1>2, <1>4, <3>1 DEF TraitIn
  <2>3. ContextIn(more, k) = ContextIn(list, k)
    BY <1>2, <1>4 DEF ContextIn
  <2> QED  BY <2>1, <2>2, <2>3
<1>6. ASSUME NEW S \in SUBSET (1 .. n)
      PROVE  LastOf(S \union {n + 1}) = n + 1 /\ LastOf(S \union {}) = LastOf(S)
  <2>1. S \union {} = S
    OBVIOUS
  <2> QED  BY <2>1, LastPlace
<1>7. /\ LastOf(IdentifiesIn(more, n + 1)) =
           IF effect.kind = "identify" THEN n + 1 ELSE LastOf(IdentifiesIn(list, n))
      /\ LastOf(ResetsIn(more, n + 1)) =
           IF effect.kind = "reset" THEN n + 1 ELSE LastOf(ResetsIn(list, n))
      /\ LastOf(ContextsIn(more, n + 1)) =
           IF effect.kind = "context" THEN n + 1 ELSE LastOf(ContextsIn(list, n))
      /\ \A key : LastOf(SetsIn(more, n + 1, key)) =
           IF Sets(effect, key) THEN n + 1 ELSE LastOf(SetsIn(list, n, key))
  <2>1. /\ IdentifiesIn(more, n + 1) = IdentifiesIn(list, n) \union
             (IF effect.kind = "identify" THEN {n + 1} ELSE {})
        /\ ResetsIn(more, n + 1) = ResetsIn(list, n) \union
             (IF effect.kind = "reset" THEN {n + 1} ELSE {})
        /\ ContextsIn(more, n + 1) = ContextsIn(list, n) \union
             (IF effect.kind = "context" THEN {n + 1} ELSE {})
        /\ \A key : SetsIn(more, n + 1, key) = SetsIn(list, n, key) \union
             (IF Sets(effect, key) THEN {n + 1} ELSE {})
    BY <1>1 DEF IdentifiesIn, ResetsIn, ContextsIn, SetsIn
  <2>2. /\ IdentifiesIn(list, n) \in SUBSET (1 .. n) /\ ResetsIn(list, n) \in SUBSET (1 .. n)
        /\ ContextsIn(list, n) \in SUBSET (1 .. n)
        /\ \A key : SetsIn(list, n, key) \in SUBSET (1 .. n)
    BY DEF IdentifiesIn, ResetsIn, ContextsIn, SetsIn
  <2>3. LastOf(IdentifiesIn(more, n + 1)) =
          IF effect.kind = "identify" THEN n + 1 ELSE LastOf(IdentifiesIn(list, n))
    BY <1>6, <2>1, <2>2
  <2>4. LastOf(ResetsIn(more, n + 1)) =
          IF effect.kind = "reset" THEN n + 1 ELSE LastOf(ResetsIn(list, n))
    BY <1>6, <2>1, <2>2
  <2>5. LastOf(ContextsIn(more, n + 1)) =
          IF effect.kind = "context" THEN n + 1 ELSE LastOf(ContextsIn(list, n))
    BY <1>6, <2>1, <2>2
  <2>6. ASSUME NEW key
        PROVE  LastOf(SetsIn(more, n + 1, key)) =
                 IF Sets(effect, key) THEN n + 1 ELSE LastOf(SetsIn(list, n, key))
    <3>1. /\ SetsIn(list, n, key) \in SUBSET (1 .. n)
          /\ Sets(effect, key) => SetsIn(more, n + 1, key) = SetsIn(list, n, key) \union {n + 1}
          /\ ~Sets(effect, key) => SetsIn(more, n + 1, key) = SetsIn(list, n, key) \union {}
      BY <2>1, <2>2
    <3> QED  BY <1>6, <3>1
  <2> QED  BY <2>3, <2>4, <2>5, <2>6
<1>8. /\ n \in 0 .. n /\ ~ (n + 1 <= 0) /\ n + 1 # 0
      /\ \A i \in 0 .. n : ~ (n + 1 <= i) /\ i <= n + 1
  OBVIOUS
<1>9. /\ effect.kind = "identify" => effect.kind # "reset"
      /\ \A key : Sets(effect, key) => effect.kind # "reset"
  BY DEF Sets
<1>10. ActorIn(more, n + 1) =
         IF effect.kind = "identify" THEN effect.externalId
         ELSE IF effect.kind = "reset" THEN Everyone ELSE ActorIn(list, n)
  <2>1. LastOf(IdentifiesIn(list, n)) <= LastOf(ResetsIn(list, n))
          \/ LastOf(IdentifiesIn(list, n)) # 0
    BY <1>4, <1>8
  <2> QED  BY <1>1, <1>4, <1>7, <1>8, <1>9, <2>1 DEF ActorIn
<1>11. ASSUME NEW key
       PROVE  TraitIn(more, n + 1, key) =
                IF Sets(effect, key) THEN effect.changes[key]
                ELSE IF effect.kind = "reset" THEN Removed ELSE TraitIn(list, n, key)
  <2>1. LastOf(SetsIn(list, n, key)) <= LastOf(ResetsIn(list, n))
          \/ LastOf(SetsIn(list, n, key)) # 0
    BY <1>4, <1>8
  <2> QED  BY <1>1, <1>4, <1>7, <1>8, <1>9, <2>1 DEF TraitIn
<1>12. ContextIn(more, n + 1) =
         IF effect.kind = "context" THEN effect.context ELSE ContextIn(list, n)
  BY <1>1, <1>4, <1>7, <1>8 DEF ContextIn
<1> QED  BY <1>1, <1>5, <1>10, <1>11, <1>12

-----------------------------------------------------------------------------
(* The steps of calls.                                                     *)

\* What the effects tell of a moment, later effects do not change.
LEMMA PastIsKept ==
  ASSUME IdentityInv,
         effects' = effects \/ \E effect \in Effect : effects' = Append(effects, effect)
  PROVE  /\ effects' \in Seq(Effect) /\ Len(effects) \in Nat /\ Len(effects') \in Nat
         /\ Len(effects) <= Len(effects')
         /\ \A n \in 0 .. Len(effects) :
              /\ ActorAfter(n)' = ActorAfter(n)
              /\ \A key : TraitAfter(n, key)' = TraitAfter(n, key)
              /\ ContextAfter(n)' = ContextAfter(n)
<1>1. effects \in Seq(Effect) /\ Len(effects) \in Nat
  BY DEF IdentityInv, IdentityTypes
<1>2. \A n : /\ ActorAfter(n) = ActorIn(effects, n) /\ ActorAfter(n)' = ActorIn(effects', n)
             /\ ContextAfter(n) = ContextIn(effects, n)
             /\ ContextAfter(n)' = ContextIn(effects', n)
             /\ \A key : /\ TraitAfter(n, key) = TraitIn(effects, n, key)
                         /\ TraitAfter(n, key)' = TraitIn(effects', n, key)
  BY DEF ActorAfter, ActorIn, ContextAfter, ContextIn, TraitAfter, TraitIn, ResetBefore,
         ResetsIn, SetsIn, IdentifiesIn, ContextsIn
<1>3. CASE effects' = effects
  BY <1>1, <1>2, <1>3
<1>4. ASSUME NEW effect \in Effect, effects' = Append(effects, effect)
      PROVE  /\ effects' \in Seq(Effect) /\ Len(effects') = Len(effects) + 1
             /\ \A n \in 0 .. Len(effects) :
                  /\ ActorIn(effects', n) = ActorIn(effects, n)
                  /\ \A key : TraitIn(effects', n, key) = TraitIn(effects, n, key)
                  /\ ContextIn(effects', n) = ContextIn(effects, n)
  <2> PICK list : list = effects
    OBVIOUS
  <2> PICK more : more = Append(list, effect)
    OBVIOUS
  <2>1. effects' = more /\ list \in Seq(Effect) /\ Len(list) \in Nat
    BY <1>1, <1>4
  <2>2. /\ more \in Seq(Effect) /\ Len(more) = Len(list) + 1
        /\ \A n \in 0 .. Len(list) :
             /\ ActorIn(more, n) = ActorIn(list, n)
             /\ \A key : TraitIn(more, n, key) = TraitIn(list, n, key)
             /\ ContextIn(more, n) = ContextIn(list, n)
    BY <2>1, OneMoreEffect
  <2> QED  BY <2>1, <2>2
<1>5. ASSUME NEW effect \in Effect, effects' = Append(effects, effect)
      PROVE  /\ effects' \in Seq(Effect) /\ Len(effects') = Len(effects) + 1
             /\ \A n \in 0 .. Len(effects) :
                  /\ ActorAfter(n)' = ActorAfter(n)
                  /\ \A key : TraitAfter(n, key)' = TraitAfter(n, key)
                  /\ ContextAfter(n)' = ContextAfter(n)
  BY <1>2, <1>4, <1>5
<1> QED  BY <1>1, <1>3, <1>5

\* What is known of calls and events stays so.
LEMMA CallStaysTrue ==
  ASSUME IdentityInv, NEW call, CallIsTrue(call),
         effects' = effects \/ \E effect \in Effect : effects' = Append(effects, effect)
  PROVE  CallIsTrue(call)'
<1>1. CASE call = NoCall \/ call \in CallsFor
  BY <1>1 DEF CallIsTrue
<1>2. CASE /\ call.kind = "track" /\ call.begun \in 0 .. Len(effects)
           /\ call.context \in StandardContexts /\ call.context = ContextAfter(call.begun)
  <2>1. call.begun \in 0 .. Len(effects')
    BY <1>2, PastIsKept
  <2>2. ContextAfter(call.begun)' = ContextAfter(call.begun)
    BY <1>2, PastIsKept
  <2> QED  BY <1>2, <2>1, <2>2 DEF CallIsTrue
<1> QED  BY <1>1, <1>2 DEF CallIsTrue

LEMMA EventsStayTrue ==
  ASSUME IdentityInv, NEW event \in Tracked, IsOfItsActor(event),
         effects' = effects \/ \E effect \in Effect : effects' = Append(effects, effect)
  PROVE  IsOfItsActor(event)'
<1>1. /\ Len(effects) \in Nat /\ Len(effects') \in Nat /\ Len(effects) <= Len(effects')
  BY PastIsKept
<1>2. event.begun \in 0 .. Len(effects) /\ event.ended \in 0 .. Len(effects)
  <2>1. event.begun \in Nat /\ event.ended \in Nat
    BY DEF Tracked
  <2>2. event.begun <= event.ended /\ event.ended <= Len(effects)
    BY DEF IsOfItsActor
  <2> QED  BY <1>1, <2>1, <2>2
<1>3. event.ended <= Len(effects')
  BY <1>1, <1>2
<1>4. /\ ActorAfter(event.ended)' = ActorAfter(event.ended)
      /\ \A key : TraitAfter(event.ended, key)' = TraitAfter(event.ended, key)
      /\ ContextAfter(event.begun)' = ContextAfter(event.begun)
  BY <1>2, PastIsKept
<1> QED  BY <1>3, <1>4 DEF IsOfItsActor, CarriesTraits

\* What one more effect makes of whom the events are about.
LEMMA EffectTells ==
  ASSUME IdentityInv, NEW effect \in Effect, effects' = Append(effects, effect),
         NEW n \in Nat, n = Len(effects)
  PROVE  /\ Len(effects') = n + 1
         /\ ActorAfter(n + 1)' =
              IF effect.kind = "identify" THEN effect.externalId
              ELSE IF effect.kind = "reset" THEN Everyone ELSE ActorAfter(n)
         /\ \A key : TraitAfter(n + 1, key)' =
              IF Sets(effect, key) THEN effect.changes[key]
              ELSE IF effect.kind = "reset" THEN Removed ELSE TraitAfter(n, key)
         /\ ContextAfter(n + 1)' =
              IF effect.kind = "context" THEN effect.context ELSE ContextAfter(n)
<1> PICK list : list = effects
  OBVIOUS
<1> PICK more : more = Append(list, effect)
  OBVIOUS
<1>1. effects' = more /\ list \in Seq(Effect) /\ n = Len(list)
  BY DEF IdentityInv, IdentityTypes
<1>2. \A k : /\ ActorAfter(k) = ActorIn(list, k) /\ ActorAfter(k)' = ActorIn(more, k)
             /\ ContextAfter(k) = ContextIn(list, k)
             /\ ContextAfter(k)' = ContextIn(more, k)
             /\ \A key : /\ TraitAfter(k, key) = TraitIn(list, k, key)
                         /\ TraitAfter(k, key)' = TraitIn(more, k, key)
  BY <1>1 DEF ActorAfter, ActorIn, ContextAfter, ContextIn, TraitAfter, TraitIn, ResetBefore,
              ResetsIn, SetsIn, IdentifiesIn, ContextsIn
<1>3. /\ Len(more) = n + 1
      /\ ActorIn(more, n + 1) =
           IF effect.kind = "identify" THEN effect.externalId
           ELSE IF effect.kind = "reset" THEN Everyone ELSE ActorIn(list, n)
      /\ \A key : TraitIn(more, n + 1, key) =
           IF Sets(effect, key) THEN effect.changes[key]
           ELSE IF effect.kind = "reset" THEN Removed ELSE TraitIn(list, n, key)
      /\ ContextIn(more, n + 1) =
           IF effect.kind = "context" THEN effect.context ELSE ContextIn(list, n)
  BY <1>1, OneMoreEffect
<1> QED  BY <1>1, <1>2, <1>3

\* A step that leaves every call true, and lets each event be or tracks a true
\* one, when row and memory follow the effects.
LEMMA IdentityKeeps ==
  ASSUME IdentityInv, IdentityTypes', RowIsTrue', ContextIsTrue',
         effects' = effects \/ \E effect \in Effect : effects' = Append(effects, effect),
         \A t \in Threads : calls'[t] = calls[t] \/ CallIsTrue(calls[t])',
         \/ tracked' = tracked
         \/ \E event \in Tracked : tracked' = Append(tracked, event) /\ IsOfItsActor(event)
  PROVE  IdentityInv'
<1>1. CallsAreTrue'
  <2> SUFFICES ASSUME NEW t \in Threads PROVE CallIsTrue(calls[t])'
    BY DEF CallsAreTrue
  <2>1. CASE calls'[t] = calls[t]
    <3> PICK call : call = calls[t]
      OBVIOUS
    <3>1. CallIsTrue(call)
      BY DEF IdentityInv, CallsAreTrue
    <3>2. CallIsTrue(call)'
      BY <3>1, CallStaysTrue
    <3> QED  BY <2>1, <3>2 DEF CallIsTrue
  <2> QED  BY <2>1
<1>2. TrackedInTime'
  <2> PICK old : old = tracked
    OBVIOUS
  <2>1. old \in Seq(Tracked) /\ \A i \in DOMAIN old : old[i] \in Tracked /\ IsOfItsActor(old[i])
    BY DEF IdentityInv, IdentityTypes, TrackedInTime
  <2>2. \A i \in DOMAIN old : IsOfItsActor(old[i])'
    BY <2>1, EventsStayTrue
  <2>3. CASE tracked' = tracked
    BY <2>2, <2>3 DEF TrackedInTime
  <2>4. ASSUME NEW event \in Tracked, tracked' = Append(tracked, event), IsOfItsActor(event)
        PROVE  TrackedInTime'
    <3>1. IsOfItsActor(event)'
      BY <2>4, EventsStayTrue
    <3>2. tracked' = Append(old, event)
      BY <2>4
    <3>3. \A i \in DOMAIN tracked' : (i \in DOMAIN old /\ tracked'[i] = old[i]) \/ tracked'[i] = event
      BY <2>1, <3>2
    <3> PICK more : more = tracked'
      OBVIOUS
    <3>4. \A i \in DOMAIN more : IsOfItsActor(more[i])'
      BY <2>2, <3>1, <3>3 DEF IsOfItsActor
    <3> QED  BY <3>4 DEF TrackedInTime, IsOfItsActor
  <2> QED  BY <2>3, <2>4
<1> QED  BY <1>1, <1>2 DEF IdentityInv

LEMMA SetContextKeeps ==
  ASSUME IdentityInv, NEW host \in StandardContexts, context' = host,
         effects' = Append(effects, [kind |-> "context", context |-> host]),
         UNCHANGED <<identity, tracked>>,
         \/ calls' = calls
         \/ calls' = [t \in Threads |-> NoCall]
  PROVE  IdentityInv'
<1> DEFINE effect == [kind |-> "context", context |-> host]
<1>1. effect \in Effect /\ effect.kind = "context" /\ effect.context = host
  BY DEF Effect
<1> PICK n \in Nat : n = Len(effects)
  BY DEF IdentityInv, IdentityTypes
<1>2. effects' = Append(effects, effect)
  OBVIOUS
<1> HIDE DEF effect
<1>3. /\ Len(effects') = n + 1 /\ ActorAfter(n + 1)' = ActorAfter(n)
      /\ \A key : TraitAfter(n + 1, key)' = TraitAfter(n, key)
      /\ ContextAfter(n + 1)' = host
  BY <1>1, <1>2, EffectTells DEF Sets
<1>4. RowIsTrue' /\ ContextIsTrue'
  BY <1>3 DEF IdentityInv, RowIsTrue, ContextIsTrue, CarriesTraits
<1>5. effects' \in Seq(Effect)
  BY <1>1, <1>2, PastIsKept
<1>6. IdentityTypes'
  BY <1>5 DEF IdentityInv, IdentityTypes
<1>7. \A t \in Threads : calls'[t] = calls[t] \/ CallIsTrue(calls[t])'
  BY DEF CallIsTrue
<1> QED  BY <1>1, <1>2, <1>4, <1>6, <1>7, IdentityKeeps

\* A call's effect is what the history of effects tells.
LEMMA ChangeIsTold ==
  ASSUME IdentityInv, NEW call \in CallsFor,
         identity' = Changed(identity, call), effects' = Append(effects, call)
  PROVE  RowIsTrue' /\ identity' \in [externalId : Actors, traits : Traits]
<1> PICK n \in Nat : n = Len(effects)
  BY DEF IdentityInv, IdentityTypes
<1> PICK who : who = identity
  OBVIOUS
<1>1. who \in [externalId : Actors, traits : Traits]
  BY DEF IdentityInv, IdentityTypes
<1>2. /\ who.externalId = ActorAfter(n)
      /\ \A key \in TraitKeys :
           TraitAfter(n, key) = IF key \in DOMAIN who.traits THEN who.traits[key] ELSE Removed
  BY DEF IdentityInv, RowIsTrue, CarriesTraits
<1>3. call \in Effect
  BY DEF Effect
<1>4. /\ Len(effects') = n + 1
      /\ ActorAfter(n + 1)' =
           IF call.kind = "identify" THEN call.externalId
           ELSE IF call.kind = "reset" THEN Everyone ELSE ActorAfter(n)
      /\ \A key : TraitAfter(n + 1, key)' =
           IF Sets(call, key) THEN call.changes[key]
           ELSE IF call.kind = "reset" THEN Removed ELSE TraitAfter(n, key)
  BY <1>3, EffectTells
<1>5. SUFFICES /\ identity'.externalId = ActorAfter(n + 1)'
               /\ \A key \in TraitKeys :
                    TraitAfter(n + 1, key)' =
                      IF key \in DOMAIN identity'.traits THEN identity'.traits[key] ELSE Removed
               /\ identity' \in [externalId : Actors, traits : Traits]
  BY <1>4 DEF RowIsTrue, CarriesTraits
<1>6. CASE call.kind = "identify"
  <2>1. call.externalId \in ExternalIds
    BY <1>6 DEF CallsFor
  <2>2. identity' = [who EXCEPT !.externalId = call.externalId]
    BY <1>6 DEF Changed
  <2>3. /\ identity'.externalId = call.externalId /\ identity'.traits = who.traits
        /\ identity' \in [externalId : Actors, traits : Traits]
    BY <1>1, <2>1, <2>2 DEF Actors
  <2>4. \A key : ~Sets(call, key)
    BY <1>6 DEF Sets
  <2> QED  BY <1>2, <1>4, <1>6, <2>3, <2>4
<1>7. CASE call.kind = "reset"
  <2>1. identity' = Anonymous
    BY <1>7 DEF Changed, ForgottenActor
  <2>2. /\ identity'.externalId = Everyone /\ DOMAIN identity'.traits = {}
        /\ identity' \in [externalId : Actors, traits : Traits]
    <3>1. NoTraits \in [{} -> Values] /\ DOMAIN NoTraits = {}
      BY DEF NoTraits
    <3>2. NoTraits \in Traits
      BY <3>1 DEF Traits
    <3> QED  BY <2>1, <3>1, <3>2 DEF Anonymous, Actors
  <2>3. \A key : ~Sets(call, key)
    BY <1>7 DEF Sets
  <2> QED  BY <1>4, <1>7, <2>2, <2>3
<1>8. CASE call.kind = "traits"
  <2> DEFINE changes == call.changes
             kept == {k \in DOMAIN who.traits \union DOMAIN changes :
                        k \in DOMAIN changes => changes[k] # Removed}
             merged == [k \in kept |-> IF k \in DOMAIN changes THEN changes[k] ELSE who.traits[k]]
  <2>1. changes \in Changes
    BY <1>8 DEF CallsFor
  <2>2. identity' = [who EXCEPT !.traits = merged]
    BY <1>8 DEF Changed, Merged
  <2>3. merged \in Traits
    <3>1. PICK keys \in SUBSET TraitKeys : who.traits \in [keys -> Values]
      BY <1>1 DEF Traits
    <3>2. DOMAIN changes \subseteq TraitKeys
      BY <2>1, IdentityAssumption
    <3>3. kept \in SUBSET TraitKeys
      BY <3>1, <3>2
    <3>4. \A k \in kept : (IF k \in DOMAIN changes THEN changes[k] ELSE who.traits[k]) \in Values
      BY <2>1, <3>1 DEF Values
    <3> HIDE DEF kept, changes
    <3>5. merged \in [kept -> Values]
      BY <3>4
    <3> QED  BY <3>3, <3>5 DEF Traits
  <2>4. /\ DOMAIN merged = kept
        /\ \A k \in kept : merged[k] = IF k \in DOMAIN changes THEN changes[k] ELSE who.traits[k]
    OBVIOUS
  <2> HIDE DEF merged
  <2>5. /\ identity'.externalId = who.externalId /\ identity'.traits = merged
        /\ identity' \in [externalId : Actors, traits : Traits]
    BY <1>1, <2>2, <2>3
  <2>6. \A key : Sets(call, key) <=> key \in DOMAIN changes
    BY <1>8 DEF Sets
  <2>7. ASSUME NEW key \in TraitKeys
        PROVE  TraitAfter(n + 1, key)' = IF key \in DOMAIN merged THEN merged[key] ELSE Removed
    <3>1. CASE key \in DOMAIN changes
      BY <1>4, <2>4, <2>6, <3>1
    <3>2. CASE key \notin DOMAIN changes
      <4>1. key \in kept <=> key \in DOMAIN who.traits
        BY <3>2
      <4>2. TraitAfter(n + 1, key)' = TraitAfter(n, key)
        BY <1>4, <1>8, <2>6, <3>2
      <4> QED  BY <1>2, <2>4, <3>2, <4>1, <4>2
    <3> QED  BY <3>1, <3>2
  <2> QED  BY <1>2, <1>4, <1>8, <2>5, <2>7
<1> QED  BY <1>6, <1>7, <1>8 DEF CallsFor

LEMMA CommitKeeps ==
  ASSUME IdentityInv, NEW t \in Threads, Commit(t)
  PROVE  IdentityInv'
<1> PICK call : call = calls[t]
  OBVIOUS
<1>1. call \in CallsFor
  <2>1. call.kind \in {"identify", "traits", "reset"}
    BY DEF Commit
  <2>2. CallIsTrue(call)
    BY DEF IdentityInv, CallsAreTrue
  <2> QED  BY <2>1, <2>2 DEF CallIsTrue, NoCall
<1>2. /\ identity' = Changed(identity, call) /\ effects' = Append(effects, call)
      /\ calls' = [calls EXCEPT ![t] = NoCall] /\ UNCHANGED <<context, tracked>>
  BY DEF Commit
<1>3. RowIsTrue' /\ identity' \in [externalId : Actors, traits : Traits]
  BY <1>1, <1>2, ChangeIsTold
<1>4. call \in Effect
  BY <1>1 DEF Effect
<1>5. ContextIsTrue'
  <2> PICK n \in Nat : n = Len(effects)
    BY DEF IdentityInv, IdentityTypes
  <2>1. call.kind # "context"
    BY <1>1 DEF CallsFor
  <2>2. Len(effects') = n + 1 /\ ContextAfter(n + 1)' = ContextAfter(n)
    BY <1>2, <1>4, <2>1, EffectTells
  <2> QED  BY <1>2, <2>2 DEF IdentityInv, ContextIsTrue
<1>6. effects' \in Seq(Effect)
  BY <1>2, <1>4, PastIsKept
<1>7. IdentityTypes'
  BY <1>2, <1>3, <1>6 DEF IdentityInv, IdentityTypes
<1>8. \A s \in Threads : calls'[s] = calls[s] \/ CallIsTrue(calls[s])'
  BY <1>2 DEF CallIsTrue, IdentityInv, IdentityTypes
<1> QED  BY <1>2, <1>3, <1>4, <1>5, <1>7, <1>8, IdentityKeeps

\* A step that leaves row, memory and effects alone.
LEMMA CallStepKeeps ==
  ASSUME IdentityInv, UNCHANGED <<identity, context, effects>>,
         NEW t \in Threads, NEW call, calls' = [calls EXCEPT ![t] = call], CallIsTrue(call),
         \/ tracked' = tracked
         \/ \E event \in Tracked : tracked' = Append(tracked, event) /\ IsOfItsActor(event)
  PROVE  IdentityInv'
<1>1. identity' = identity /\ context' = context /\ effects' = effects
  OBVIOUS
<1>2. RowIsTrue' /\ ContextIsTrue'
  <2>1. \A n : /\ ActorAfter(n)' = ActorAfter(n) /\ ContextAfter(n)' = ContextAfter(n)
               /\ \A key : TraitAfter(n, key)' = TraitAfter(n, key)
    BY <1>1 DEF ActorAfter, ContextAfter, TraitAfter, ResetBefore
  <2> QED  BY <1>1, <2>1 DEF IdentityInv, RowIsTrue, ContextIsTrue, CarriesTraits
<1>3. IdentityTypes'
  <2>1. tracked' \in Seq(Tracked)
    BY DEF IdentityInv, IdentityTypes
  <2> QED  BY <1>1, <2>1 DEF IdentityInv, IdentityTypes
<1>4. CallIsTrue(call)'
  BY <1>1, CallStaysTrue
<1>5. \A s \in Threads : calls'[s] = calls[s] \/ CallIsTrue(calls[s])'
  <2> SUFFICES ASSUME NEW s \in Threads, calls'[s] # calls[s] PROVE CallIsTrue(calls[s])'
    OBVIOUS
  <2>1. calls'[s] = call
    BY DEF IdentityInv, IdentityTypes
  <2> QED  BY <1>4, <2>1 DEF CallIsTrue
<1> QED  BY <1>1, <1>2, <1>3, <1>5, IdentityKeeps

LEMMA CallsKeep ==
  ASSUME IdentityInv, NEW t \in Threads,
         \/ \E call \in CallsFor : Begin(t, call)
         \/ BeginTrack(t) \/ RecordEvent(t) \/ CallFails(t)
  PROVE  IdentityInv'
<1>1. ASSUME NEW call \in CallsFor, Begin(t, call)
      PROVE  IdentityInv'
  <2>1. CallIsTrue(call)
    BY DEF CallIsTrue
  <2> QED  BY <1>1, <2>1, CallStepKeeps DEF Begin
<1>2. CASE BeginTrack(t)
  <2> PICK call : call = [kind |-> "track", context |-> context, begun |-> Len(effects)]
    OBVIOUS
  <2>1. CallIsTrue(call)
    BY DEF CallIsTrue, IdentityInv, IdentityTypes, ContextIsTrue
  <2>2. calls' = [calls EXCEPT ![t] = call]
    BY <1>2 DEF BeginTrack
  <2> QED  BY <1>2, <2>1, <2>2, CallStepKeeps DEF BeginTrack
<1>3. CASE CallFails(t)
  <2>1. CallIsTrue(NoCall)
    BY DEF CallIsTrue
  <2> QED  BY <1>3, <2>1, CallStepKeeps DEF CallFails
<1>4. CASE RecordEvent(t)
  <2> PICK call : call = calls[t]
    OBVIOUS
  <2> PICK event : event = [externalId |-> identity.externalId,
                            context |-> WithTraits(call.context, identity.traits),
                            begun |-> call.begun, ended |-> Len(effects)]
    OBVIOUS
  <2>1. /\ calls' = [calls EXCEPT ![t] = NoCall] /\ tracked' = Append(tracked, event)
        /\ call.kind = "track" /\ UNCHANGED <<identity, context, effects>>
    BY <1>4 DEF RecordEvent
  <2>2. /\ call.begun \in 0 .. Len(effects) /\ call.context \in StandardContexts
        /\ call.context = ContextAfter(call.begun)
    <3>1. CallIsTrue(call)
      BY DEF IdentityInv, CallsAreTrue
    <3> QED  BY <2>1, <3>1 DEF CallIsTrue, NoCall, CallsFor
  <2>3. /\ identity.externalId \in Actors /\ identity.traits \in Traits
        /\ Len(effects) \in Nat
    BY DEF IdentityInv, IdentityTypes
  <2>4. event \in Tracked
    BY <2>2, <2>3 DEF Tracked, WithTraits
  <2>5. IsOfItsActor(event)
    BY <2>2, <2>3 DEF IsOfItsActor, WithTraits, IdentityInv, RowIsTrue
  <2>6. CallIsTrue(NoCall)
    BY DEF CallIsTrue
  <2> QED  BY <2>1, <2>4, <2>5, <2>6, CallStepKeeps
<1> QED  BY <1>1, <1>2, <1>3, <1>4

LEMMA IdentityInvariance == IdentitySpec => []IdentityInv
<1>1. ASSUME IdentityInit
      PROVE  IdentityInv
  <2>1. /\ identity = Anonymous /\ context = NoContext /\ effects = << >> /\ tracked = << >>
        /\ calls = [t \in Threads |-> NoCall]
    BY <1>1 DEF IdentityInit
  <2>2. IdentityTypes
    <3>1. NoTraits \in [{} -> Values]
      BY DEF NoTraits
    <3>2. NoTraits \in Traits
      BY <3>1 DEF Traits
    <3> QED  BY <2>1, <3>2 DEF IdentityTypes, Anonymous, Actors, StandardContexts
  <2>3. Len(effects) = 0 /\ \A key : /\ IdentifiesIn(effects, 0) = {} /\ ResetsIn(effects, 0) = {}
                                     /\ SetsIn(effects, 0, key) = {} /\ ContextsIn(effects, 0) = {}
    BY <2>1 DEF IdentifiesIn, ResetsIn, SetsIn, ContextsIn
  <2>4. LastOf({}) = 0
    BY DEF LastOf
  <2>5. /\ ActorAfter(0) = Everyone /\ ContextAfter(0) = NoContext
        /\ \A key : TraitAfter(0, key) = Removed
    <3>1. \A key : /\ {i \in 1 .. 0 : effects[i].kind = "identify"} = {}
                   /\ {i \in 1 .. 0 : effects[i].kind = "reset"} = {}
                   /\ {i \in 1 .. 0 : effects[i].kind = "context"} = {}
                   /\ {i \in 1 .. 0 : Sets(effects[i], key)} = {}
      OBVIOUS
    <3>2. 0 <= 0
      OBVIOUS
    <3> QED  BY <2>4, <3>1, <3>2 DEF ActorAfter, ContextAfter, TraitAfter, ResetBefore
  <2>6. RowIsTrue /\ ContextIsTrue
    BY <2>1, <2>3, <2>5 DEF RowIsTrue, ContextIsTrue, CarriesTraits, Anonymous, NoTraits
  <2>7. CallsAreTrue /\ TrackedInTime
    BY <2>1 DEF CallsAreTrue, CallIsTrue, TrackedInTime
  <2> QED  BY <2>2, <2>6, <2>7 DEF IdentityInv
<1>2. ASSUME IdentityInv, [IdentityNext]_identityVars
      PROVE  IdentityInv'
  <2>1. CASE UNCHANGED identityVars
    <3>1. /\ identity' = identity /\ context' = context /\ calls' = calls
          /\ tracked' = tracked /\ effects' = effects
      BY <2>1 DEF identityVars
    <3>2. \A n : /\ ActorAfter(n)' = ActorAfter(n) /\ ContextAfter(n)' = ContextAfter(n)
                 /\ \A key : TraitAfter(n, key)' = TraitAfter(n, key)
      BY <3>1 DEF ActorAfter, ContextAfter, TraitAfter, ResetBefore
    <3>3. RowIsTrue' /\ ContextIsTrue'
      BY <1>2, <3>1, <3>2 DEF IdentityInv, RowIsTrue, ContextIsTrue, CarriesTraits
    <3>4. IdentityTypes'
      BY <1>2, <3>1 DEF IdentityInv, IdentityTypes
    <3> QED  BY <1>2, <3>1, <3>3, <3>4, IdentityKeeps
  <2>2. ASSUME NEW t \in Threads, Commit(t)
        PROVE  IdentityInv'
    BY <1>2, <2>2, CommitKeeps
  <2>3. ASSUME NEW t \in Threads,
               \/ \E call \in CallsFor : Begin(t, call)
               \/ BeginTrack(t) \/ RecordEvent(t) \/ CallFails(t)
        PROVE  IdentityInv'
    BY <1>2, <2>3, CallsKeep
  <2>4. ASSUME NEW host \in HostContexts, SetContext(host)
        PROVE  IdentityInv'
    BY <1>2, <2>4, SetContextKeeps DEF SetContext, StandardContexts
  <2>5. CASE ProcessDies
    BY <1>2, <2>5, SetContextKeeps DEF ProcessDies, StandardContexts
  <2> QED  BY <1>2, <2>1, <2>2, <2>3, <2>4, <2>5 DEF IdentityNext
<1> QED  BY <1>1, <1>2, PTL DEF IdentitySpec

\* An event carries one actor with the traits set since that actor's last
\* reset, as they stood together at a moment of its call, and a standard
\* context of that call: for any number of threads, and with transactions that
\* fail and processes that die anywhere.
THEOREM EventsAreOfTheirActor == IdentitySpec => []EventsCarryTheirActor
<1>1. ASSUME IdentityInv
      PROVE  EventsCarryTheirActor
  <2> SUFFICES ASSUME NEW i \in DOMAIN tracked
               PROVE  LET e == tracked[i]
                      IN /\ \E n \in e.begun .. e.ended :
                              e.externalId = ActorAfter(n) /\ CarriesTraits(e.context.traits, n)
                         /\ \E n \in e.begun .. e.ended : e.context.standard = ContextAfter(n)
    BY DEF EventsCarryTheirActor
  <2> PICK e : e = tracked[i]
    OBVIOUS
  <2>1. e \in Tracked /\ IsOfItsActor(e)
    BY <1>1 DEF IdentityInv, IdentityTypes, TrackedInTime
  <2>2. e.begun \in e.begun .. e.ended /\ e.ended \in e.begun .. e.ended
    BY <2>1 DEF Tracked, IsOfItsActor
  <2> QED  BY <2>1, <2>2 DEF IsOfItsActor
<1> QED  BY <1>1, IdentityInvariance, PTL

=============================================================================
