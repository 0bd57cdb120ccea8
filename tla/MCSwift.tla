------------------------------ MODULE MCSwift ------------------------------
(* The Swift client on small instances.                                    *)
EXTENDS SwiftClient, TLC

CONSTANTS o1, o2

OneObject == {o1}
TwoObjects == {o1, o2}

ObjectSymmetry == Permutations(TwoObjects)

=============================================================================
