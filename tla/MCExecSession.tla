--------------------------- MODULE MCExecSession ---------------------------
(* Two session ids: a session left behind and the one that replaced it, or a
   stranger that took the id of either. *)
EXTENDS ExecSession

MCIds == 1..2

=============================================================================
