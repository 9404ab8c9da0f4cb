--------------------------- MODULE MCCollectorApi --------------------------
(* Instances of CollectorApi for model checking. *)
EXTENDS CollectorApi

UnitSize == [id \in Ids |-> 1]
=============================================================================
