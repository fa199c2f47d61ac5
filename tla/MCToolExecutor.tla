--------------------------- MODULE MCToolExecutor ---------------------------
(* Small instances of ToolExecutor for TLC.                                  *)
EXTENDS ToolExecutor, TLC

CONSTANTS b1, b2, k1, k2

(* Two calls of one tool with different arguments. *)
MCToolOf == k1 :> "calculator" @@ k2 :> "calculator"

MCSingle == {<<k1>>}
MCOneTwo == {<<k1>>, <<k1, k2>>}
MCNoneThree == {<<>>, <<k1, k2, k1>>}

Symmetry == Permutations({b1, b2})

=============================================================================
