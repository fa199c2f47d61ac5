------------------------------ MODULE MCAgent ------------------------------
(* Small instances of Agent for TLC.                                        *)
EXTENDS Agent, TLC

CONSTANTS c1, c2, s1, s2

Symmetry == Permutations({c1, c2}) \cup Permutations({s1, s2})

=============================================================================
