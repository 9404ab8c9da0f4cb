------------------------------ MODULE DiskSync ------------------------------
(***************************************************************************)
(* The block sync of nowkzg: it walks a range of L1 blocks and writes the  *)
(* blobs of each to a directory of the block, a file per blob, then a      *)
(* manifest of them.  The process may die between any two calls, is run    *)
(* again over the same directory, possibly with other flags, and the nodes *)
(* may answer differently the next time (L1 may have reorganised).         *)
(*                                                                         *)
(* As in BlobSync a blob is named by the commitment it has.  Creating a    *)
(* file empties it; its bytes arrive in a second step.                     *)
(***************************************************************************)
EXTENDS Integers, Sequences, SequencesExt

CONSTANTS StartBlock, EndBlock, \* the range of blocks
          Commitments,
          Canonical,       \* the blobs whose field elements all have a zero high byte
          Senders,
          AnySender,       \* no filter
          TxLists,         \* what an L1 node may answer: sender and hashes of each transaction
          SidecarLists,    \* what a beacon node may answer
          VerifyKzg,       \* not --no-kzg-verify
          Absent, Torn,    \* a file that is not there, or only in part
          MaxRuns          \* bound: how often the sync is started

Blocks == StartBlock..EndBlock
\* kzg_proof: the blob it was computed for.
Sidecars == [commitment : Commitments, blob : Commitments, kzg_proof : Commitments]

ASSUME DiskSyncAssumption ==
  /\ StartBlock \in Nat /\ EndBlock \in Nat /\ StartBlock <= EndBlock /\ MaxRuns \in Nat
  /\ Canonical \subseteq Commitments
  /\ VerifyKzg \in BOOLEAN
  /\ AnySender \notin Senders
  /\ TxLists \subseteq Seq([from : Senders, hashes : Seq(Commitments)])
  /\ SidecarLists \subseteq Seq(Sidecars)
  /\ Absent \notin Commitments /\ Torn \notin Commitments /\ Absent # Torn

VARIABLES pc,
          runs,            \* how often the sync was started
          cfg,             \* the flags of this run
          n,               \* the block the run is at
          blobs,           \* per block, its blobs as this run was told
          payloads,        \* of block n, what is to be written
          i,               \* index of the file being written
          files,           \* per block and file name, what the file holds
          manifest         \* per block, the manifest file

vars == <<pc, runs, cfg, n, blobs, payloads, i, files, manifest>>
disk == <<files, manifest>>

\* The name of a blob's file: its versioned hash, .bin decoded or .blob raw.
FileNames == [hash : Commitments, decode : BOOLEAN]
BlobRefs == [from : Senders, index : Nat, hash : Commitments]
Configs == [batcher : Senders \cup {AnySender}, decode : BOOLEAN]
Manifests == [state : {"absent", "torn", "whole"}, names : Seq(FileNames)]

NoManifest == [state |-> "absent", names |-> <<>>]

TypeOK ==
  /\ pc \in {"stopped", "block", "sidecars", "create", "fill", "open", "manifest", "done"}
  /\ runs \in 0..MaxRuns
  /\ cfg \in Configs
  /\ n \in StartBlock..(EndBlock + 1) /\ (n > EndBlock => pc \in {"stopped", "done"})
  /\ blobs \in [Blocks -> Seq(BlobRefs)]
  /\ payloads \in Seq(Commitments)
  /\ pc \in {"create", "fill"} => i \in DOMAIN payloads
  /\ pc \in {"create", "fill", "open", "manifest"} => Len(payloads) = Len(blobs[n])
  /\ files \in [Blocks -> [FileNames -> Commitments \cup {Absent, Torn}]]
  /\ manifest \in [Blocks -> Manifests]

-----------------------------------------------------------------------------
(* One block's answers.                                                    *)

\* The blobs of the transactions of the batcher, or of all.
BlobRefsOf(txs) ==
  FlattenSeq([k \in DOMAIN txs |->
    IF cfg.batcher \notin {AnySender, txs[k].from} THEN <<>> ELSE
    [j \in DOMAIN txs[k].hashes |->
       [from |-> txs[k].from, index |-> j - 1, hash |-> txs[k].hashes[j]]]])

\* The first sidecar with the commitment; its index is 0 when there is none.
SidecarIndex(sidecars, hash) == SelectInSeq(sidecars, LAMBDA s : s.commitment = hash)

\* A slip: the batch of proofs is not verified.
VerifyNothing(sidecars) == TRUE

\* Each proof was computed for its blob, which has the commitment beside it.
VerifyBatch(sidecars) ==
  VerifyKzg => \A k \in DOMAIN sidecars : /\ sidecars[k].blob = sidecars[k].commitment
                                         /\ sidecars[k].kzg_proof = sidecars[k].blob

Decodes(sidecars) == cfg.decode => \A k \in DOMAIN sidecars : sidecars[k].blob \in Canonical

\* The name write_block gives the file of a blob.
FileName(hash) == [hash |-> hash, decode |-> cfg.decode]

-----------------------------------------------------------------------------
Init ==
  /\ pc = "stopped"
  /\ runs = 0
  /\ cfg \in Configs
  /\ n = StartBlock
  /\ blobs = [b \in Blocks |-> <<>>]
  /\ payloads = <<>>
  /\ i = 1
  /\ files = [b \in Blocks |-> [f \in FileNames |-> Absent]]
  /\ manifest = [b \in Blocks |-> NoManifest]

\* The sync is started, or started again.
Start(c) ==
  /\ pc \in {"stopped", "done"}
  /\ runs < MaxRuns
  /\ pc' = "block"
  /\ runs' = runs + 1
  /\ cfg' = c
  /\ n' = StartBlock
  /\ blobs' = [b \in Blocks |-> <<>>]
  /\ payloads' = <<>>
  /\ i' = 1
  /\ UNCHANGED disk

\* On to the next block, or the end of the range.
NextBlock ==
  /\ n' = n + 1
  /\ pc' = IF n < EndBlock THEN "block" ELSE "done"
  /\ payloads' = <<>>
  /\ i' = 1

\* The L1 node answers; a block without blobs is passed over.
AnswerBlock(txs) ==
  /\ pc = "block"
  /\ blobs' = [blobs EXCEPT ![n] = BlobRefsOf(txs)]
  /\ IF BlobRefsOf(txs) = <<>> THEN NextBlock
                               ELSE pc' = "sidecars" /\ UNCHANGED <<n, payloads, i>>
  /\ UNCHANGED <<runs, cfg, files, manifest>>

\* Nothing of the block is written unless every blob has a sidecar, the batch
\* verifies and, if asked to, every blob decodes.
AnswerSidecars(sidecars) ==
  /\ pc = "sidecars"
  /\ LET found == [k \in DOMAIN blobs[n] |-> SidecarIndex(sidecars, blobs[n][k].hash)]
         matched == [k \in DOMAIN found |-> sidecars[found[k]]]
     IN IF (\E k \in DOMAIN found : found[k] = 0) \/ ~VerifyBatch(matched) \/ ~Decodes(matched)
        THEN pc' = "stopped" /\ UNCHANGED payloads
        ELSE /\ pc' = "create"
             /\ payloads' = [k \in DOMAIN matched |-> matched[k].blob]
  /\ UNCHANGED <<runs, cfg, n, blobs, i, files, manifest>>

WriteFile(content) == files' = [files EXCEPT ![n][FileName(blobs[n][i].hash)] = content]

\* File::create: the file is there and empty, whatever it held before.
CreateFile ==
  /\ pc = "create"
  /\ WriteFile(Torn)
  /\ pc' = "fill"
  /\ UNCHANGED <<runs, cfg, n, blobs, payloads, i, manifest>>

\* A slip: a file is created and filled for all but the last blob.
FillFileShort ==
  /\ pc = "fill"
  /\ WriteFile(payloads[i])
  /\ IF i + 1 < Len(payloads) THEN pc' = "create" /\ i' = i + 1
                              ELSE pc' = "open" /\ UNCHANGED i
  /\ UNCHANGED <<runs, cfg, n, blobs, payloads, manifest>>

\* A slip: one file too many.
FillFilePast ==
  /\ pc = "fill"
  /\ WriteFile(payloads[i])
  /\ IF i <= Len(payloads) THEN pc' = "create" /\ i' = i + 1
                           ELSE pc' = "open" /\ UNCHANGED i
  /\ UNCHANGED <<runs, cfg, n, blobs, payloads, manifest>>

\* write_all; after the last file comes the manifest.
FillFile ==
  /\ pc = "fill"
  /\ WriteFile(payloads[i])
  /\ IF i < Len(payloads) THEN pc' = "create" /\ i' = i + 1
                          ELSE pc' = "open" /\ UNCHANGED i
  /\ UNCHANGED <<runs, cfg, n, blobs, payloads, manifest>>

\* A slip: the manifest of an earlier run is kept.
OpenManifestUnlessWhole ==
  /\ pc = "open"
  /\ IF manifest[n].state = "whole"
     THEN NextBlock /\ UNCHANGED manifest
     ELSE /\ manifest' = [manifest EXCEPT ![n] = [state |-> "torn", names |-> <<>>]]
          /\ pc' = "manifest"
          /\ UNCHANGED <<n, payloads, i>>
  /\ UNCHANGED <<runs, cfg, blobs, files>>

\* fs::write empties the manifest, then writes it.
OpenManifest ==
  /\ pc = "open"
  /\ manifest' = [manifest EXCEPT ![n] = [state |-> "torn", names |-> <<>>]]
  /\ pc' = "manifest"
  /\ UNCHANGED <<runs, cfg, n, blobs, payloads, i, files>>

FillManifest ==
  /\ pc = "manifest"
  /\ manifest' = [manifest EXCEPT ![n] =
                    [state |-> "whole",
                     names |-> [k \in DOMAIN blobs[n] |-> FileName(blobs[n][k].hash)]]]
  /\ NextBlock
  /\ UNCHANGED <<runs, cfg, blobs, files>>

\* The process dies, a request or a write fails: the disk stays as it is.
Die ==
  /\ pc \notin {"stopped", "done"}
  /\ pc' = "stopped"
  /\ UNCHANGED <<runs, cfg, n, blobs, payloads, i, files, manifest>>

Next ==
  \/ \E c \in Configs : Start(c)
  \/ \E txs \in TxLists : AnswerBlock(txs)
  \/ \E sidecars \in SidecarLists : AnswerSidecars(sidecars)
  \/ CreateFile \/ FillFile \/ OpenManifest \/ FillManifest
  \/ Die

Spec == Init /\ [][Next]_vars

-----------------------------------------------------------------------------
(* Properties.                                                             *)

\* The manifest m of block b lists files that are there in full.
Holds(b, m) == \A k \in DOMAIN m.names : files[b][m.names[k]] \notin {Absent, Torn}

\* A manifest is the commit point of its block: it becomes whole only when all
\* the files it lists are (write_block writes it last), so a block whose first
\* writing was cut short has no manifest.
ManifestCommitsFiles ==
  [][\A b \in Blocks :
       manifest'[b] # manifest[b] /\ manifest'[b].state = "whole" => Holds(b, manifest[b])']_vars

\* Reruns repair what was cut short: once a run is done, every block it was
\* told had blobs has a whole manifest of exactly these blobs, in their order
\* and in the form this run was asked for, and every file is whole, whatever
\* earlier runs left behind.
FinishedRunIsOnDisk ==
  pc = "done" =>
    \A b \in Blocks : blobs[b] # <<>> =>
      /\ manifest[b].state = "whole"
      /\ manifest[b].names = [k \in DOMAIN blobs[b] |-> FileName(blobs[b][k].hash)]
      /\ Holds(b, manifest[b])

\* No bytes reach the disk that were not verified and, for a decoded file,
\* decodable, at any crash point and whatever was there before ("before
\* persisting anything").
OnlyVerifiedOnDisk ==
  VerifyKzg => \A b \in Blocks : \A f \in FileNames :
    /\ files[b][f] \in {Absent, Torn, f.hash}
    /\ f.decode => files[b][f] \in {Absent, Torn} \cup Canonical
=============================================================================
