---------------------------- MODULE MCCollector ----------------------------
(* Instances of Collector for model checking. *)
EXTENDS Collector

\* Entry 3 does not fit in one transaction.
OversizedSize == [id \in Ids |-> IF id = 3 THEN 3 ELSE 1]
=============================================================================
