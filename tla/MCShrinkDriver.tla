--------------------------- MODULE MCShrinkDriver ---------------------------
(* Steps that start, halve and grow within the bounds; a first file of 1 MB, *)
(* and a second of up to 2 MB that others may grow while it is in hand.      *)
EXTENDS ShrinkDriver

MCTierStep == [small |-> 1, medium |-> 2, large |-> 3]
MCMaxSize == <<1, 2>>
MCGrowTo == <<0, 1>>

=============================================================================
