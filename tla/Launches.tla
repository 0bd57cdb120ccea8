------------------------------- MODULE Launches --------------------------------
(***************************************************************************)
(* What a device's store tells of the app's launches: installed or updated *)
(* once for each change of the release, opened once for each entry into    *)
(* the foreground, whatever releases are installed, whichever core wrote   *)
(* the store, and wherever a transaction fails or the process dies.        *)
(***************************************************************************)
EXTENDS Naturals, Sequences, FiniteSets, FiniteSetsExt

CONSTANTS
  Releases,       \* version and build
  SceneBased,     \* whether the first entry is told as an entry, too
  MaxRecorded, MaxEntries, MaxFailed     \* bounds

NoRelease == "none"

ASSUME LaunchAssumption == NoRelease \notin Releases

VARIABLES
  binary,      \* the release that is installed
  file,        \* the store: its format, and the last launch it remembers
  process,     \* "closed", "open", "foreground" or "background"
  told,        \* whether lifecycle tracking is told of the first entry still
  place,       \* where lifecycle tracking believes the app to be
  events,      \* the events recorded, in order
  first,       \* history: the last launch an adopted store brought along
  entries,     \* history: the entries into the foreground
  failed       \* transactions that failed, for the bound

launchVars == <<binary, file, process, told, place, events, first, entries, failed>>

FORMAT == "1"

LaunchInit ==
  /\ binary \in Releases
  /\ file \in {[format |-> "new", last |-> NoRelease], [format |-> "newer", last |-> NoRelease]}
              \union [format : {"0.1"}, last : Releases \union {NoRelease}]
  /\ process = "closed" /\ told = FALSE /\ place = "foreground"
  /\ events = << >> /\ first = file.last /\ entries = 0 /\ failed = 0

-----------------------------------------------------------------------------
\* Another release is installed over the first, perhaps an older one.
Upgrade(release) ==
  /\ process = "closed" /\ release # binary
  /\ binary' = release
  /\ UNCHANGED <<file, process, told, place, events, first, entries, failed>>

\* A new store is created, the 0.1 core's adopted, in one transaction.
Migrated(store) == [format |-> FORMAT, last |-> store.last]

\* A store of a later format is refused.
OpenStore ==
  /\ process = "closed" /\ file.format # "newer"
  /\ file' = Migrated(file)
  /\ process' = "open" /\ place' = "foreground"
  /\ UNCHANGED <<binary, told, events, first, entries, failed>>

LaunchEvents(last, release) ==
  (IF last = NoRelease THEN <<[event |-> "app_installed", release |-> release]>>
   ELSE IF last # release
   THEN <<[event |-> "app_updated", release |-> release, previous |-> last]>>
   ELSE << >>)
  \o <<[event |-> "app_opened", release |-> release, from_background |-> FALSE]>>

\* Mutant: the launch is remembered though its events were not stored.
RememberedAnyway(last, release, stored) == release

Remembered(last, release, stored) == IF stored THEN release ELSE last

\* One transaction stores the launch's events and remembers the release.
AppLaunched(stored) ==
  /\ process = "open" /\ entries < MaxEntries /\ Len(events) < MaxRecorded
  /\ \/ stored /\ UNCHANGED failed
     \/ ~stored /\ failed < MaxFailed /\ failed' = failed + 1
  /\ events' = events \o (IF stored THEN LaunchEvents(file.last, binary) ELSE << >>)
  /\ file' = [file EXCEPT !.last = Remembered(@, binary, stored)]
  /\ process' = "foreground" /\ entries' = entries + 1 /\ told' = SceneBased
  /\ UNCHANGED <<binary, place, first>>

\* Lifecycle tracking records; an event it cannot store is lost.
Tracks(event) ==
  \/ events' = Append(events, event) /\ UNCHANGED failed
  \/ failed < MaxFailed /\ failed' = failed + 1 /\ UNCHANGED events

EnterBackground ==
  /\ process = "foreground" /\ ~told /\ Len(events) < MaxRecorded
  /\ process' = "background" /\ place' = "background"
  /\ Tracks([event |-> "app_backgrounded", release |-> binary])
  /\ UNCHANGED <<binary, file, told, first, entries>>

Returns(left) == left = "background"

\* The app comes to the foreground, for the first time or again.
EnterForeground ==
  /\ \/ process = "foreground" /\ told /\ UNCHANGED entries
     \/ process = "background" /\ entries < MaxEntries /\ entries' = entries + 1
  /\ Len(events) < MaxRecorded
  /\ process' = "foreground" /\ told' = FALSE /\ place' = "foreground"
  /\ IF Returns(place)
     THEN Tracks([event |-> "app_opened", release |-> binary, from_background |-> TRUE])
     ELSE UNCHANGED <<events, failed>>
  /\ UNCHANGED <<binary, file, first>>

\* The process ends, or is killed.
ProcessEnds ==
  /\ process # "closed"
  /\ process' = "closed" /\ told' = FALSE
  /\ UNCHANGED <<binary, file, place, events, first, entries, failed>>

LaunchNext ==
  \/ \E release \in Releases : Upgrade(release)
  \/ OpenStore \/ EnterBackground \/ EnterForeground \/ ProcessEnds
  \/ \E stored \in BOOLEAN : AppLaunched(stored)

LaunchSpec == LaunchInit /\ [][LaunchNext]_launchVars

-----------------------------------------------------------------------------
(* Properties.                                                             *)

IsChange(event) == event.event \in {"app_installed", "app_updated"}
IsLaunch(event) == event.event = "app_opened" /\ ~event.from_background

\* The release the first n events leave the app at.
ReleaseAfter(n) ==
  LET changes == {i \in 1 .. n : IsChange(events[i])}
  IN IF changes = {} THEN first ELSE events[Max(changes)].release

\* The events tell every change of the release exactly once: one app_installed
\* unless the store knew a launch before, each app_updated from the release told
\* last, and every launch is of the release told last.
ChangesChain ==
  \A i \in DOMAIN events :
    /\ events[i].event = "app_installed" => ReleaseAfter(i - 1) = NoRelease
    /\ events[i].event = "app_updated" =>
         /\ events[i].previous = ReleaseAfter(i - 1)
         /\ events[i].previous \notin {NoRelease, events[i].release}
    /\ IsLaunch(events[i]) => events[i].release = ReleaseAfter(i)

\* No entry into the foreground is told as app_opened twice.
OpenedOnce ==
  Cardinality({i \in DOMAIN events : events[i].event = "app_opened"}) <= entries

LaunchesAreTold == ChangesChain /\ OpenedOnce

=============================================================================
