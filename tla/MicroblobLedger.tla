-------------------------- MODULE MicroblobLedger --------------------------
(***************************************************************************)
(* What the collector promises about the microblobs it accepts, with the   *)
(* key-value indexes, the workers and the clock left out:                  *)
(*                                                                         *)
(*   - an accepted microblob is pending until it is settled, and is        *)
(*     settled at most once;                                               *)
(*   - it is only ever settled with a blob transaction that was sent and   *)
(*     whose entry list carries it;                                        *)
(*   - only accepted microblobs are published.                             *)
(*                                                                         *)
(* A transaction hash is the position of the transaction in `published';   *)
(* NoHash is the undefined bundleTxHash of a record that has none.         *)
(***************************************************************************)
EXTENDS Naturals, Sequences

CONSTANTS Ids,           \* the microblob ids
          MaxBatch       \* the most entries one transaction carries

VARIABLES status,        \* status[id]: "absent", "pending" or "bundled"
          settledBy,     \* settledBy[id]: the transaction it was settled with
          published      \* the entry lists of the transactions sent, in order

ledgerVars == <<status, settledBy, published>>

NoHash == 0

Entries(batch) == {batch[i] : i \in DOMAIN batch}

\* A nonempty list of at most MaxBatch entries, none of them twice.
Batches ==
  {batch \in UNION {[1..n -> Ids] : n \in 1..MaxBatch} :
     \A i, j \in DOMAIN batch : batch[i] = batch[j] => i = j}

LedgerTypeOK ==
  /\ status \in [Ids -> {"absent", "pending", "bundled"}]
  /\ settledBy \in [Ids -> Nat]
  /\ published \in Seq(Batches)

Init ==
  /\ status = [id \in Ids |-> "absent"]
  /\ settledBy = [id \in Ids |-> NoHash]
  /\ published = <<>>

Accept(id) ==
  /\ status[id] = "absent"
  /\ status' = [status EXCEPT ![id] = "pending"]
  /\ UNCHANGED <<settledBy, published>>

Publish(batch) ==
  /\ \A id \in Entries(batch) : status[id] # "absent"
  /\ published' = Append(published, batch)
  /\ UNCHANGED <<status, settledBy>>

Settle(id, tx) ==
  /\ status[id] = "pending"
  /\ tx \in DOMAIN published
  /\ id \in Entries(published[tx])
  /\ status' = [status EXCEPT ![id] = "bundled"]
  /\ settledBy' = [settledBy EXCEPT ![id] = tx]
  /\ UNCHANGED published

Next ==
  \/ \E id \in Ids : Accept(id)
  \/ \E batch \in Batches : Publish(batch)
  \/ \E id \in Ids, tx \in DOMAIN published : Settle(id, tx)

Spec == Init /\ [][Next]_ledgerVars
=============================================================================
