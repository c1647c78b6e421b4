------------------------------ MODULE MCClient ------------------------------
(* Instances of Client for TLC.                                            *)
EXTENDS Client, TLC

CONSTANTS c1, c2, s1, s2

\* From the first chunk into the second one.
Spans == {<<0, 3>>}

Symmetry == Permutations(Client) \cup Permutations(Server)

=============================================================================
