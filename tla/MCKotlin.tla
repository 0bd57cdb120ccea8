----------------------------- MODULE MCKotlin ------------------------------
(* The Kotlin client on small instances. *)
EXTENDS KotlinClient

CONSTANTS t1, f1, f2

MCTrackers == {t1}
OneFlusher == {f1}
TwoFlushers == {f1, f2}

=============================================================================
