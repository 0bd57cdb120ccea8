-------------------------------- MODULE MCParts --------------------------------
(***************************************************************************)
(* The rate limiter, the handler, the sanitizer, the settings and the      *)
(* supervisor of the ingest server, the launches and the identity of a     *)
(* device, and the matrix, on small instances, each on its own: a          *)
(* behaviour is one of one part, and the others stand still.               *)
(***************************************************************************)
EXTENDS RateLimiter, IngestServer, Contexts, Sanitizer, IngestSettings, Supervisor, Launches,
        Identity, Matrix

VARIABLES
  part,     \* whose behaviour this is
  given     \* contexts to merge, the batch's and the event's own

partVars == <<limiterVars, ingestVars, settingsVars, supervisorVars, launchVars,
              identityVars, matrixVars, part, given, text>>

TwoLimits == {[rate |-> 3, burst |-> 4], [rate |-> 1, burst |-> 3]}

-----------------------------------------------------------------------------
(* Bodies: one that is good but for an event, and ones that are refused.   *)

GoodItem == [object |-> TRUE, track |-> TRUE, uuid |-> TRUE, event |-> TRUE, externalId |-> TRUE,
             time |-> TRUE, properties |-> Null, context |-> Object(<< >>)]
BadItem == [GoodItem EXCEPT !.uuid = FALSE]
GoodBody == [wire |-> "fits", encoding |-> "gzip", gzip |-> "whole", json |-> TRUE,
             sentAt |-> TRUE, context |-> Null, items |-> <<GoodItem, BadItem>>]

SomeBodies ==
  [good |-> GoodBody,
   rejected |-> [GoodBody EXCEPT !.items = <<BadItem>>],
   empty |-> [GoodBody EXCEPT !.items = << >>],
   expanding |-> [GoodBody EXCEPT !.gzip = "expands"]]

OneKey == [d \in Devices |-> "write key"]
EditionKeys == [v1 |-> {"write key"}, v2 |-> {}]
EditionAges == [v1 |-> 1, v2 |-> 2]

\* Clocks two hours behind and ahead; an hour ahead is let through.
TwoOffsets == {-2, 2}

-----------------------------------------------------------------------------
(* Contexts over the keys a, b and a.b.                                    *)

DottedKey == <<"a", "b">>
KeyOrders == {<< >>, << <<"a">> >>, << <<"b">> >>, <<DottedKey>>, << <<"a">>, <<"b">> >>,
              << <<"a">>, DottedKey >>, <<DottedKey, <<"a">> >>}

ObjectsOf(values, orders) ==
  UNION {{[i \in DOMAIN keys |-> [key |-> keys[i], value |-> chosen[i]]] :
            chosen \in [DOMAIN keys -> values]} : keys \in orders}

Inner(origin) == {Object(pairs) : pairs \in ObjectsOf({Short(origin)}, {<< >>, << <<"a">> >>, << <<"b">> >>})}

\* One key, or two, with values and objects; and an object in an object in one.
Contexts(origin) ==
  ObjectsOf({Short(origin), Array} \union Inner(origin), KeyOrders)
    \union {<<[key |-> <<"a">>, value |-> Object(<<[key |-> <<"b">>, value |-> value]>>)]>> :
            value \in {Long(origin), Array} \union Inner(origin)}

ContextsMerge == MergedAndFlattened(given.batch, given.own)

-----------------------------------------------------------------------------
(* Texts of three digits, a letter, a sign and separators.                 *)

Alphabet == {"1", "2", "4", "x", " ", ".", "+"}
ShortTexts == UNION {[1 .. n -> Alphabet] : n \in 0 .. 5}

-----------------------------------------------------------------------------
\* Setting traits: both, one, and one and not the other.
TraitChanges ==
  {[plan |-> "pro", team |-> "red"], [plan |-> "free"], [plan |-> "pro", team |-> Removed]}

-----------------------------------------------------------------------------
(* The matrix: a year is two months of two days.                           *)

\* Two actors and the anonymous one; enough rows of one day for two chunks;
\* days on both sides of a month's and of a year's end.
Externals == [m \in Messages |-> <<"ann", "ann", "bob", ANONYMOUS, "bob">>[m]]
EventNames == [m \in Messages |-> IF m = 5 THEN "close" ELSE "open"]
EventDays == [m \in Messages |-> <<4, 4, 4, 4, 3>>[m]]
Milliseconds == [m \in Messages |-> <<2, 1, 1, 1, 1>>[m]]

ReportPeriods == {<<3, 7>>}

-----------------------------------------------------------------------------
NothingGiven == [batch |-> << >>, own |-> << >>]

IngestParked == IngestInit /\ offset = [d \in Devices |-> 2] /\ cell = "v1"
LaunchParked == LaunchInit /\ binary = "1.0" /\ file.format = "new"

PartsInit ==
  /\ part \in {"limiter", "protocol", "sanitizer", "handler", "settings", "supervisor", "launches",
              "identity", "matrix"}
  /\ LimiterInit /\ SettingsInit /\ SupervisorInit /\ IdentityInit /\ MatrixInit
  /\ IF part = "handler" THEN IngestInit ELSE IngestParked
  /\ IF part = "launches" THEN LaunchInit ELSE LaunchParked
  /\ IF part = "protocol" THEN given \in [batch : Contexts("batch"), own : Contexts("own")]
     ELSE given = NothingGiven
  /\ IF part = "sanitizer" THEN text \in Texts ELSE text = << >>

LimiterPart ==
  /\ part = "limiter" /\ LimiterNext
  /\ UNCHANGED <<ingestVars, settingsVars, supervisorVars, launchVars, identityVars, matrixVars,
                 part, given, text>>

HandlerPart ==
  /\ part = "handler" /\ IngestNext
  /\ UNCHANGED <<limiterVars, settingsVars, supervisorVars, launchVars, identityVars, matrixVars,
                 part, given, text>>

SettingsPart ==
  /\ part = "settings" /\ SettingsNext
  /\ UNCHANGED <<limiterVars, ingestVars, supervisorVars, launchVars, identityVars, matrixVars,
                 part, given, text>>

SupervisorPart ==
  /\ part = "supervisor" /\ SupervisorNext
  /\ UNCHANGED <<limiterVars, ingestVars, settingsVars, launchVars, identityVars, matrixVars,
                 part, given, text>>

LaunchesPart ==
  /\ part = "launches" /\ LaunchNext
  /\ UNCHANGED <<limiterVars, ingestVars, settingsVars, supervisorVars, identityVars, matrixVars,
                 part, given, text>>

IdentityPart ==
  /\ part = "identity" /\ IdentityNext
  /\ UNCHANGED <<limiterVars, ingestVars, settingsVars, supervisorVars, launchVars, matrixVars,
                 part, given, text>>

MatrixPart ==
  /\ part = "matrix" /\ MatrixNext
  /\ UNCHANGED <<limiterVars, ingestVars, settingsVars, supervisorVars, launchVars, identityVars,
                 part, given, text>>

PartsNext ==
  \/ LimiterPart \/ HandlerPart \/ SettingsPart \/ SupervisorPart \/ LaunchesPart
  \/ IdentityPart \/ MatrixPart

\* The settings are read and swapped, processes, monitors and a stop go on, and
\* rotations are started again and again and do not all die: the fairness of
\* each part, while it is the one that runs.
PartsSpec ==
  /\ PartsInit /\ [][PartsNext]_partVars
  /\ WF_settingsVars(part = "settings" /\ Fetch)
  /\ WF_settingsVars(part = "settings" /\ Swap)
  /\ \A g \in Children :
       /\ WF_supervisorVars(part = "supervisor" /\ Processes(g))
       /\ WF_supervisorVars(part = "supervisor" /\ Monitors(g))
  /\ WF_supervisorVars(part = "supervisor" /\ Stops)
  /\ \A j \in Jobs : /\ WF_matrixVars(part = "matrix" /\ StartRotation(j))
                     /\ SF_matrixVars(part = "matrix" /\ (RotatePage(j) \/ PageFails(j)))

=============================================================================
