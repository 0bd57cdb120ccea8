------------------------------ MODULE MCRust -------------------------------
(* The Rust client on a small instance: two concurrent callers.            *)
EXTENDS RustClient, TLC

CONSTANTS c1, c2

MCCallers == {c1, c2}

CallerSymmetry == Permutations(MCCallers)

=============================================================================
