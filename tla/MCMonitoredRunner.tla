------------------------- MODULE MCMonitoredRunner -------------------------
(* Every kind of operation: a resumable rebuild, a reorganize, an offline   *)
(* one, each with and without ignore_blocking and max_block_minutes.        *)
EXTENDS MonitoredRunner

MCCaps == {c \in [resumable : BOOLEAN, paced : BOOLEAN, ignore : BOOLEAN, cap : BOOLEAN] :
             ~(c.resumable /\ c.paced)}

=============================================================================
