------------------------------- MODULE MCStore ------------------------------
(* The event store on small instances.                                     *)
EXTENDS EventStore, TLC

OneActorEach == [m \in Messages |-> m]

NoDestination == << >>
OneDestination == <<"mixpanel">>
TwoDestinations == <<"mixpanel", "warehouse">>

CONSTANTS r1, r2, j1, j2, p1, p2

TwoRequests == {r1, r2}
TwoJobs == {j1, j2}
TwoDeliverers == {p1, p2}

Interchangeable ==
  Permutations(TwoRequests) \union Permutations(TwoJobs) \union Permutations(TwoDeliverers)

=============================================================================
