-------------------------------- MODULE Protocol -------------------------------
(***************************************************************************)
(* What the protocol crate makes of a batch: clocks corrected, events      *)
(* accepted or rejected one by one.  How contexts are merged and           *)
(* flattened is the module Contexts' affair.                               *)
(*                                                                         *)
(* A JSON object is the sequence of its [key, value] pairs, in the order   *)
(* of the text.  A key is the sequence of the parts its dots separate.     *)
(***************************************************************************)
EXTENDS Integers, FiniteSets, Sequences, FiniteSetsExt

CONSTANTS
  MAX_FUTURE,
  MaxEvents,          \* max_events of a batch
  MaxPropertyKeys, MaxContextKeys, MaxKeyParts,
  Merge(_, _), Flat(_)     \* DeepMerge and Flatten of Contexts

ASSUME ProtocolAssumption ==
  {MAX_FUTURE, MaxEvents, MaxPropertyKeys, MaxContextKeys, MaxKeyParts} \subseteq Nat

Null == [kind |-> "null"]
Object(pairs) == [kind |-> "object", pairs |-> pairs]

IsObject(value) == value.kind = "object"

Keys(pairs) == {pairs[i].key : i \in DOMAIN pairs}

-----------------------------------------------------------------------------
(* One event.  An item carries what the checks tell apart: whether it is   *)
(* an object, of type "track", with a UUID, valid texts and a time that    *)
(* can be read; its properties and its context.                            *)

Accepted == "accepted"

TooManyKeys(flat, max) == Len(flat) > max
BadKeys(flat) == \E key \in Keys(flat) : key = << >> \/ Len(key) > MaxKeyParts

PairsOf(value) == IF IsObject(value) THEN value.pairs ELSE << >>
ObjectOrNull(value) == value.kind \in {"object", "null"}

\* Mutant: the clocks' difference is left out.
UncorrectedTime(timestamp, skew) == timestamp

OccurredAt(timestamp, skew) == timestamp + skew

OutOfRange(occurred, received, limits) ==
  \/ occurred > received + MAX_FUTURE
  \/ occurred < received - limits.maxAge

Properties(item) == Flat(PairsOf(item.properties))
Context(item, batchContext) == Flat(Merge(batchContext, PairsOf(item.context)))

\* The checks in the order they are made, each with the reason it gives.
Failures(item, timestamp, batchContext, skew, received, limits) ==
  << <<~item.object, "invalid_event">>,
     <<~item.track, "unsupported_type">>,
     <<~item.uuid, "invalid_message_id">>,
     <<~item.event, "invalid_event">>,
     <<~item.externalId, "invalid_external_id">>,
     <<~item.time, "invalid_timestamp">>,
     <<OutOfRange(OccurredAt(timestamp, skew), received, limits), "timestamp_out_of_range">>,
     <<~ObjectOrNull(item.properties), "invalid_properties">>,
     <<TooManyKeys(Properties(item), MaxPropertyKeys), "too_many_keys">>,
     <<BadKeys(Properties(item)), "invalid_properties">>,
     <<~ObjectOrNull(item.context), "invalid_context">>,
     <<TooManyKeys(Context(item, batchContext), MaxContextKeys), "too_many_keys">>,
     <<BadKeys(Context(item, batchContext)), "invalid_context">> >>

\* The first check that fails decides.
Reason(item, timestamp, batchContext, skew, received, limits) ==
  LET failures == Failures(item, timestamp, batchContext, skew, received, limits)
      failed == {i \in DOMAIN failures : failures[i][1]}
  IN IF failed = {} THEN Accepted ELSE failures[Min(failed)][2]

(* A whole body: what is not JSON, has no sentAt, no events or too many of *)
(* them, or a context that is no object, is refused as a whole.            *)
Malformed(body) ==
  \/ ~body.json \/ ~body.sentAt
  \/ Len(body.items) \notin 1 .. MaxEvents
  \/ ~ObjectOrNull(body.context)

\* For each item of the body its reason, or Accepted.
Normalize(body, timestamp, sent, received, limits) ==
  [i \in DOMAIN body.items |->
     Reason(body.items[i], timestamp, PairsOf(body.context), received - sent, received, limits)]

=============================================================================
