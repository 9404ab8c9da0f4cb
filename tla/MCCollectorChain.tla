-------------------------- MODULE MCCollectorChain --------------------------
(* Instances of CollectorChain for model checking. *)
EXTENDS CollectorChain

\* The last entry fits, but not together with another.
LastAlone == [id \in Ids |-> IF \A i \in Ids : i <= id THEN Capacity ELSE 1]
=============================================================================
