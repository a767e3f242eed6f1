-------------------------- MODULE MCBlockerKiller --------------------------
(* A specific rule with a short delay before a broad one with a longer. *)
EXTENDS BlockerKiller, TLC

MCAfter == <<1, 2>>
MCSymmetry == Permutations(Sid)

=============================================================================
