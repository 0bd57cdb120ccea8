--------------------------- MODULE MCStoreProgress --------------------------
(* The event store's progress on small instances.                          *)
EXTENDS EventStoreProgress, MCStore

=============================================================================
