------------------------------ MODULE MCMaster ------------------------------
(* Instances of Master for TLC.                                            *)
EXTENDS Master

CONSTANTS a, b, s, t

\* Two files side by side.
FlatPaths == {<<a>>, <<b>>}

\* Two names, one of which can be a directory with an entry below it.
TreePaths == {<<a>>, <<b>>, <<a, b>>}

NameSymmetry == Permutations({a, b})
ServerSymmetry == Permutations({s, t}) \cup Permutations({a, b})

=============================================================================
