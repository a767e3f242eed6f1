---------------------------- MODULE MCLiveRules ----------------------------
(* One rule: nobody is ignored at first, and it may be killed for.         *)
EXTENDS LiveRules

MCRule    == {"r1"}
MCInitial == [k \in Kind |-> IF k = "kill" THEN MCRule ELSE {}]

=============================================================================
