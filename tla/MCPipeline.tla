----------------------------- MODULE MCPipeline -----------------------------
(* A device, the store and another device, on a small instance.            *)
EXTENDS Pipeline, TLC

OneActorEach == [m \in Messages |-> m]
NoDestination == << >>
OneEvent == <<1>>

CONSTANTS r1, r2, j1, j2

TwoRequests == {r1, r2}
TwoJobs == {j1, j2}

Interchangeable == Permutations(TwoRequests) \union Permutations(TwoJobs)

=============================================================================
