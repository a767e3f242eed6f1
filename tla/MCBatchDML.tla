----------------------------- MODULE MCBatchDML -----------------------------
(* Three rows under two columns, an identity and its reverse, and two      *)
(* statements whose filters overlap.                                       *)
EXTENDS BatchDML

MCRow   == 1..3
MCKey   == [a |-> [r \in MCRow |-> r], b |-> [r \in MCRow |-> 4 - r]]
MCKeyA  == [a |-> [r \in MCRow |-> r]]
MCWhere == [s \in {1} |-> MCRow]
MCTwo   == [s \in {1, 2} |-> IF s = 1 THEN MCRow ELSE {1, 2}]

=============================================================================
