-------------------------------- MODULE Contexts -------------------------------
(***************************************************************************)
(* What the protocol crate makes of contexts and properties: an event's    *)
(* own context merged over the batch's, and objects flattened to dotted    *)
(* keys.                                                                   *)
(***************************************************************************)
EXTENDS Protocol, SequencesExt

CONSTANT MAX_DEPTH     \* objects nested deeper are kept as JSON text

Array == [kind |-> "array"]
Short(text) == [kind |-> "text", text |-> text]
Long(text) == [kind |-> "long", text |-> text]
Json(value) == [kind |-> "json", of |-> value]

PlaceOf(pairs, key) == CHOOSE i \in DOMAIN pairs : pairs[i].key = key
ValueOf(pairs, key) == pairs[PlaceOf(pairs, key)].value

\* Map::insert: a key that is there keeps its place.
Inserted(pairs, key, value) ==
  IF key \in Keys(pairs)
  THEN [pairs EXCEPT ![PlaceOf(pairs, key)].value = value]
  ELSE Append(pairs, [key |-> key, value |-> value])

-----------------------------------------------------------------------------
(* A context of the event's own over the batch's.                          *)

RECURSIVE DeepMerge(_, _)

\* Mutant: an object of the event's replaces the batch's whole.
ShallowMerge(base, over) ==
  FoldLeft(LAMBDA pairs, pair : Inserted(pairs, pair.key, pair.value), base, over)

DeepMerge(base, over) ==
  IF over = << >> THEN base
  ELSE LET key == Head(over).key
           value == Head(over).value
           merges == key \in Keys(base) /\ IsObject(value) /\ IsObject(ValueOf(base, key))
           merged == IF merges THEN Object(DeepMerge(ValueOf(base, key).pairs, value.pairs))
                     ELSE value
       IN DeepMerge(Inserted(base, key, merged), Tail(over))

Truncated(value) == IF value.kind = "long" THEN [value EXCEPT !.kind = "cut"] ELSE value

RECURSIVE Walk(_, _, _, _)
Walk(pairs, prefix, depth, flat) ==
  IF pairs = << >> THEN flat
  ELSE LET path == prefix \o Head(pairs).key
           value == Head(pairs).value
       IN Walk(Tail(pairs), prefix, depth,
            IF IsObject(value) /\ depth < MAX_DEPTH
            THEN Walk(value.pairs, path, depth + 1, flat)
            ELSE IF value.kind \in {"object", "array"} THEN Inserted(flat, path, Json(value))
            ELSE Inserted(flat, path, Truncated(value)))

Flatten(pairs) == Walk(pairs, << >>, 1, << >>)

-----------------------------------------------------------------------------
(* What merging and flattening must come to, told by the places of values. *)

RECURSIVE Nodes(_, _)
Nodes(pairs, prefix) ==
  UNION {LET path == Append(prefix, pairs[i].key)
             value == pairs[i].value
         IN {[path |-> path, value |-> value]}
              \union (IF IsObject(value) THEN Nodes(value.pairs, path) ELSE {}) :
         i \in DOMAIN pairs}

Leaves(pairs) == {node \in Nodes(pairs, << >>) : ~IsObject(node.value)}

\* The values that get a dotted key of their own.
Written(pairs) ==
  {node \in Nodes(pairs, << >>) :
     \/ Len(node.path) < MAX_DEPTH /\ ~IsObject(node.value)
     \/ Len(node.path) = MAX_DEPTH}

Dotted(path) == FlattenSeq(path)

\* Whether `over` has something at the path, or no object above it.
Covers(over, path) ==
  \E node \in Nodes(over, << >>) :
    \/ node.path = path
    \/ IsPrefix(node.path, path) /\ ~IsObject(node.value)

\* "Deep-merged under every event's own context; the event wins on conflict"
\* (PROTOCOL.md): each value of the event's is found under its dotted key, and
\* each of the batch's that the event says nothing about, unless another value
\* has the same dotted key or the value is too deep; and nothing else is found.
MergedAndFlattened(batch, own) ==
  LET flat == Flatten(DeepMerge(batch, own))
      written == Written(batch) \union Written(own)
      Plain(leaf) ==
        /\ leaf \in written
        /\ \A other \in written : Dotted(other.path) = Dotted(leaf.path) => other.path = leaf.path
      Found(leaf) ==
        /\ Dotted(leaf.path) \in Keys(flat)
        /\ ValueOf(flat, Dotted(leaf.path)) =
             (IF leaf.value.kind = "array" THEN Json(leaf.value) ELSE Truncated(leaf.value))
  IN /\ \A leaf \in Leaves(own) : Plain(leaf) => Found(leaf)
     /\ \A leaf \in Leaves(batch) : Plain(leaf) /\ ~Covers(own, leaf.path) => Found(leaf)
     /\ Len(flat) = Cardinality(Keys(flat))
     /\ \A key \in Keys(flat) :
          \E node \in Nodes(batch, << >>) \union Nodes(own, << >>) : key = Dotted(node.path)

=============================================================================
