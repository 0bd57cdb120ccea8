---------------------------- MODULE IngestSettings -----------------------------
(***************************************************************************)
(* The ingest server's settings: the engine publishes them as one row, the *)
(* server loads it when it starts and reads it again and again while it    *)
(* serves, and goes by its last good reading.                              *)
(***************************************************************************)
EXTENDS Naturals

CONSTANTS
  Publishable,       \* the settings the engine may publish
  MaxPublications,   \* bound
  MaxMishaps         \* bound: readings that fail, and deaths of the server

NoTable == "no table"
Unpublished == "unpublished"
MalformedRow == "malformed"

VARIABLES
  row,            \* the row of clickman_settings
  life,           \* the server: "down", "serving" or "draining"
  current,        \* the settings it goes by
  refresher,      \* "waiting", the row it has just read, or "ended"
  publications, mishaps    \* counted for the bounds

settingsVars == <<row, life, current, refresher, publications, mishaps>>

SettingsInit ==
  /\ row = NoTable
  /\ life = "down" /\ current = Unpublished /\ refresher = "ended"
  /\ publications = 0 /\ mishaps = 0

\* The tables that are required are there.
Verified == row # NoTable

\* What is published can be read; nothing published stands for no write keys.
Readable == row # MalformedRow

\* The host's migrations are run; only then can settings be published.
Migrate ==
  /\ row = NoTable
  /\ row' = Unpublished
  /\ UNCHANGED <<life, current, refresher, publications, mishaps>>

\* The engine publishes settings; anyone may spoil the row.
Publish(settings) ==
  /\ Verified /\ settings # row /\ publications < MaxPublications
  /\ row' = settings
  /\ publications' = publications + 1
  /\ UNCHANGED <<life, current, refresher, mishaps>>

Start ==
  /\ life = "down" /\ Verified /\ Readable
  /\ life' = "serving" /\ current' = row /\ refresher' = "waiting"
  /\ UNCHANGED <<row, publications, mishaps>>

\* The ticker is due and the row is read,
Fetch ==
  /\ life = "serving" /\ refresher = "waiting" /\ Readable
  /\ refresher' = row
  /\ UNCHANGED <<row, life, current, publications, mishaps>>

\* Mutant: the loop ends with its first failure.
EndedByFailure(state) == "ended"

AfterFailure(state) == state

\* or it cannot be, and the settings stay as they are,
FetchFails ==
  /\ life = "serving" /\ refresher = "waiting" /\ mishaps < MaxMishaps
  /\ mishaps' = mishaps + 1
  /\ refresher' = AfterFailure(refresher)
  /\ UNCHANGED <<row, life, current, publications>>

\* and the settings are swapped whole.
Swap ==
  /\ life # "down" /\ refresher \notin {"waiting", "ended"}
  /\ current' = refresher /\ refresher' = "waiting"
  /\ UNCHANGED <<row, life, publications, mishaps>>

\* A signal, or the end of the lifeline: the server takes no more requests,
Shutdown ==
  /\ life = "serving"
  /\ life' = "draining"
  /\ UNCHANGED <<row, current, refresher, publications, mishaps>>

\* and ends when those it has are answered, the refresher with it;
Drained ==
  /\ life = "draining"
  /\ life' = "down" /\ refresher' = "ended"
  /\ UNCHANGED <<row, current, publications, mishaps>>

\* or it dies.
Killed ==
  /\ life # "down" /\ mishaps < MaxMishaps
  /\ mishaps' = mishaps + 1
  /\ life' = "down" /\ refresher' = "ended"
  /\ UNCHANGED <<row, current, publications>>

SettingsNext ==
  \/ Migrate \/ Start \/ Fetch \/ FetchFails \/ Swap \/ Shutdown \/ Drained \/ Killed
  \/ \E settings \in Publishable \union {MalformedRow} : Publish(settings)

-----------------------------------------------------------------------------
(* Properties.                                                             *)

\* Settings that stay published reach a server that goes on serving, through
\* readings that fail and a row that could not be read for a while.
SettingsArrive == []<>(life # "serving" \/ row = MalformedRow \/ current = row)

=============================================================================
