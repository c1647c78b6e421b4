----------------------------- MODULE MCMutation -----------------------------
(* Instances of Mutation for TLC.                                          *)
EXTENDS Mutation, TLC

CONSTANTS r1, r2, r3, a, b, x, y

TwoReplicas == <<r1, r2>>
ThreeReplicas == <<r1, r2, r3>>

\* One record of one unit, one of two.
ShortAndLong == (a :> 1) @@ (b :> 2)
One == a :> 1

Callers == Permutations({x, y})

=============================================================================
