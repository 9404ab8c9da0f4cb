------------------------------ MODULE BlobSync ------------------------------
(***************************************************************************)
(* fetch_blobs of blob-sync: for a list of references to L1 transactions,  *)
(* ask an L1 node for each block once, a beacon node for the sidecars of   *)
(* its slot, match every blob of a referenced transaction to a sidecar,    *)
(* verify each block's matches in a batch, and return one bundle per blob. *)
(*                                                                         *)
(* A blob is named by the commitment it has, and a versioned hash by the   *)
(* commitment it is the hash of.  The nodes are not trusted to agree with  *)
(* each other, nor with what they said before: every answer is arbitrary.  *)
(***************************************************************************)
EXTENDS Integers, Sequences, SequencesExt

CONSTANTS Blocks,          \* L1 block numbers
          Commitments,
          RefLists,        \* the lists of references the host may be given
          TxLists,         \* what an L1 node may answer: the hashes of each transaction
          SidecarLists,    \* what a beacon node may answer
          VerifyKzg        \* verify_kzg of FetchConfig

\* kzg_proof: the blob it was computed for.
Sidecars == [commitment : Commitments, blob : Commitments, kzg_proof : Commitments]

ASSUME BlobSyncAssumption ==
  /\ RefLists \subseteq Seq([block : Blocks, tx : Nat])
  /\ TxLists \subseteq Seq(Seq(Commitments))
  /\ SidecarLists \subseteq Seq(Sidecars)
  /\ VerifyKzg \in BOOLEAN

VARIABLES pc,              \* where the call is
          refs,
          next,            \* index in refs, of the loop the call is in
          pending,         \* answers of L1 not yet joined by their sidecars: at most one
          block_data,      \* the blocks fetched, with their sidecars
          kzg_buffer,      \* block -> the matched sidecars to verify
          bundles

vars == <<pc, refs, next, pending, block_data, kzg_buffer, bundles>>

BlobRefs == [tx : Nat, index : Nat, hash : Commitments]

Bundles == [block : Blocks, tx : Nat, index : Nat, hash : Commitments,
            commitment : Commitments, raw : Commitments]

Fetched == DOMAIN block_data

TypeOK ==
  /\ pc \in {"start", "fetch", "sidecars", "walk", "verify", "ok", "err"}
  /\ refs \in RefLists
  /\ next \in 1..(Len(refs) + 1)
  /\ pending \in Seq(TxLists) /\ Len(pending) = (IF pc = "sidecars" THEN 1 ELSE 0)
  /\ Fetched \subseteq Blocks
  /\ \A b \in Fetched : block_data[b] \in [txs : TxLists, sidecars : SidecarLists]
  /\ kzg_buffer \in [Blocks -> Seq(Sidecars)]
  /\ bundles \in Seq(Bundles)

-----------------------------------------------------------------------------
(* The blobs of a block, each with its transaction.  Transactions are      *)
(* counted from 0, and those that carry no blob count too.                 *)

HashesAt(txs, k) == [i \in DOMAIN txs[k] |-> [tx |-> k - 1, index |-> i - 1, hash |-> txs[k][i]]]

\* A slip: only the transactions that carry blobs are counted.
BlobRefsOfBlobTxs(txs) ==
  LET carrying == SelectSeq(txs, LAMBDA hashes : hashes # <<>>)
  IN FlattenSeq([k \in DOMAIN carrying |-> HashesAt(carrying, k)])

BlobRefsOf(txs) == FlattenSeq([k \in DOMAIN txs |-> HashesAt(txs, k)])

\* The blobs of block b in the transaction with index tx.
TxBlobs(b, tx) ==
  LET blobs == BlobRefsOf(block_data[b].txs)
  IN FlattenSeq([i \in DOMAIN blobs |-> IF blobs[i].tx = tx THEN <<blobs[i]>> ELSE <<>>])

\* The first sidecar with the commitment; its index is 0 when there is none.
SidecarIndex(b, hash) == SelectInSeq(block_data[b].sidecars, LAMBDA s : s.commitment = hash)

MatchedSidecar(b, blob) == block_data[b].sidecars[SidecarIndex(b, blob.hash)]

\* The proof holds: it was computed for this blob, which has this commitment.
Verifies(sidecar) ==
  sidecar.blob = sidecar.commitment /\ sidecar.kzg_proof = sidecar.blob

\* A slip: a batch is rejected only when every blob of it is wrong.
AnyVerified(sidecars) == sidecars = <<>> \/ \E i \in DOMAIN sidecars : Verifies(sidecars[i])

\* verify_blob_kzg_proof_batch: all blobs verify, or the batch does not.
VerifyBatch(sidecars) == \A i \in DOMAIN sidecars : Verifies(sidecars[i])

-----------------------------------------------------------------------------
Init ==
  /\ pc = "start"
  /\ refs \in RefLists
  /\ next = 1
  /\ pending = <<>>
  /\ block_data = <<>>
  /\ kzg_buffer = [b \in Blocks |-> <<>>]
  /\ bundles = <<>>

\* No reference: an empty answer, without asking anyone.
NothingAsked ==
  /\ pc = "start"
  /\ refs = <<>>
  /\ pc' = "ok"
  /\ UNCHANGED <<refs, next, pending, block_data, kzg_buffer, bundles>>

\* BeaconClient::new: genesis and spec are answered.
Bootstrap ==
  /\ pc = "start"
  /\ refs # <<>>
  /\ pc' = "fetch"
  /\ UNCHANGED <<refs, next, pending, block_data, kzg_buffer, bundles>>

\* A slip: the reference of a known block is not passed over.
KnownBlockStays ==
  /\ pc = "fetch" /\ next <= Len(refs)
  /\ refs[next].block \in Fetched
  /\ UNCHANGED vars

\* A reference to a block that was fetched for an earlier one.
KnownBlock ==
  /\ pc = "fetch" /\ next <= Len(refs)
  /\ refs[next].block \in Fetched
  /\ next' = next + 1
  /\ UNCHANGED <<pc, refs, pending, block_data, kzg_buffer, bundles>>

\* A slip: the block is fetched again.
AsksAlways == pc = "fetch" /\ next <= Len(refs)

AsksL1 == pc = "fetch" /\ next <= Len(refs) /\ refs[next].block \notin Fetched

\* The L1 node answers with the block; one without blobs is an error.
AnswerBlock(txs) ==
  /\ AsksL1
  /\ IF BlobRefsOf(txs) = <<>>
     THEN pc' = "err" /\ UNCHANGED pending
     ELSE pc' = "sidecars" /\ pending' = <<txs>>
  /\ UNCHANGED <<refs, next, block_data, kzg_buffer, bundles>>

\* A slip: on 404 the block is kept as if more answers were to come.
AnswerSidecarsKeeping(sidecars) ==
  /\ pc = "sidecars"
  /\ sidecars = <<>>
  /\ pc' = "err"
  /\ UNCHANGED <<refs, next, pending, block_data, kzg_buffer, bundles>>

\* The beacon node answers for the block's slot; 404 is the empty list, an error here.
AnswerSidecars(sidecars) ==
  /\ pc = "sidecars"
  /\ pending' = <<>>
  /\ IF sidecars = <<>>
     THEN pc' = "err" /\ UNCHANGED <<next, block_data>>
     ELSE /\ pc' = "fetch"
          /\ next' = next + 1
          /\ block_data' = [b \in Fetched \cup {refs[next].block} |->
                              IF b = refs[next].block
                              THEN [txs |-> pending[1], sidecars |-> sidecars]
                              ELSE block_data[b]]
  /\ UNCHANGED <<refs, kzg_buffer, bundles>>

\* A request fails: transport, status, a block that is missing or older than
\* the beacon chain, an answer that does not decode.
RequestFails ==
  /\ \/ pc = "start" /\ refs # <<>>
     \/ AsksL1
     \/ pc = "sidecars"
  /\ pc' = "err"
  /\ pending' = <<>>
  /\ UNCHANGED <<refs, next, block_data, kzg_buffer, bundles>>

AllFetched ==
  /\ pc = "fetch" /\ next > Len(refs)
  /\ pc' = "walk"
  /\ next' = 1
  /\ UNCHANGED <<refs, pending, block_data, kzg_buffer, bundles>>

\* One reference: a transaction without blobs or a blob without a sidecar is
\* an error, otherwise there is a bundle per blob, in the transaction's order.
Walk ==
  /\ pc = "walk" /\ next <= Len(refs)
  /\ LET b == refs[next].block
         blobs == TxBlobs(b, refs[next].tx)
         matched == [i \in DOMAIN blobs |-> MatchedSidecar(b, blobs[i])]
     IN IF blobs = <<>> \/ \E i \in DOMAIN blobs : SidecarIndex(b, blobs[i].hash) = 0
        THEN pc' = "err" /\ UNCHANGED <<next, kzg_buffer, bundles>>
        ELSE /\ UNCHANGED pc
             /\ next' = next + 1
             /\ bundles' = bundles \o
                  [i \in DOMAIN blobs |->
                     [block |-> b, tx |-> blobs[i].tx, index |-> blobs[i].index,
                      hash |-> blobs[i].hash, commitment |-> matched[i].commitment,
                      raw |-> matched[i].blob]]
             /\ kzg_buffer' = IF VerifyKzg THEN [kzg_buffer EXCEPT ![b] = @ \o matched]
                                           ELSE kzg_buffer
  /\ UNCHANGED <<refs, pending, block_data>>

AllWalked ==
  /\ pc = "walk" /\ next > Len(refs)
  /\ pc' = "verify"
  /\ UNCHANGED <<refs, next, pending, block_data, kzg_buffer, bundles>>

\* Every block's batch is verified before anything is returned.
Verify ==
  /\ pc = "verify"
  /\ pc' = IF \A b \in Blocks : VerifyBatch(kzg_buffer[b]) THEN "ok" ELSE "err"
  /\ UNCHANGED <<refs, next, pending, block_data, kzg_buffer, bundles>>

Next ==
  \/ NothingAsked \/ Bootstrap
  \/ KnownBlock
  \/ \E txs \in TxLists : AnswerBlock(txs)
  \/ \E sidecars \in SidecarLists : AnswerSidecars(sidecars)
  \/ RequestFails
  \/ AllFetched \/ Walk \/ AllWalked \/ Verify

\* A request is answered or fails, and the code between two awaits runs on.
Spec == Init /\ [][Next]_vars /\ WF_vars(Next)

-----------------------------------------------------------------------------
(* Properties.                                                             *)

\* What the L1 answers say a reference stands for: its transaction's hashes.
Referenced(ref) ==
  LET hashes == block_data[ref.block].txs[ref.tx + 1]
  IN [i \in DOMAIN hashes |-> <<ref.block, ref.tx, i - 1, hashes[i]>>]

\* A successful call returns exactly the blobs of the referenced transactions,
\* in the order of the references and of each transaction, none left out and
\* none twice (fetch_blobs: "Output order matches the input order").
BundlesFollowRefs ==
  pc = "ok" =>
    [i \in DOMAIN bundles |->
       <<bundles[i].block, bundles[i].tx, bundles[i].index, bundles[i].hash>>]
      = FlattenSeq([k \in DOMAIN refs |-> Referenced(refs[k])])

\* With verification on, what a successful call returns as the bytes of a blob
\* are those the transaction committed to, whatever the beacon node answered:
\* the hash check ties the commitment and the batch ties the bytes to it.
BlobsAreCommitted ==
  pc = "ok" /\ VerifyKzg => \A i \in DOMAIN bundles : bundles[i].raw = bundles[i].hash

\* A block and its sidecars are asked for once in a call: all references to a
\* block are served from one view of it, even if L1 reorganises meanwhile.
OneViewOfABlock ==
  [][\A b \in Fetched : b \in Fetched' /\ block_data'[b] = block_data[b]]_vars
=============================================================================
