--------------------------- MODULE DiskSyncProofs ---------------------------
(***************************************************************************)
(* Proofs about the block sync of nowkzg: for every range of blocks, every *)
(* answer of the nodes, every flag and every point at which the process    *)
(* dies, what reaches the disk was verified, a manifest is written when    *)
(* its files are there, and a run that ends has repaired what earlier runs *)
(* left behind.                                                            *)
(***************************************************************************)
EXTENDS DiskSync, RecursionFacts

-----------------------------------------------------------------------------
(* The inductive invariant.                                                *)

\* The file of the blob with this hash is there in full.
Whole(b, hash) == files[b][FileName(hash)] \notin {Absent, Torn}

\* Block b is on disk as this run wants it.
OnDisk(b) ==
  /\ manifest[b].state = "whole"
  /\ manifest[b].names = [k \in DOMAIN blobs[b] |-> FileName(blobs[b][k].hash)]
  /\ Holds(b, manifest[b])

\* Where the run is: it starts each block at its first file, has blobs to ask
\* sidecars for, and ends behind the last block.
PlaceInv ==
  /\ pc \in {"block", "sidecars"} => i = 1
  /\ pc = "sidecars" => blobs[n] # <<>>
  /\ pc = "done" => n = EndBlock + 1

\* What is to be written is what the sidecars' checks let through.
PayloadInv ==
  pc \in {"create", "fill", "open", "manifest"} => \A k \in DOMAIN payloads :
    /\ VerifyKzg => payloads[k] = blobs[n][k].hash
    /\ cfg.decode => payloads[k] \in Canonical

\* The files before the current one are whole; only a second blob of the same
\* hash empties one of them, for as long as it is being written.
FilledInv ==
  /\ pc = "create" => \A k \in 1..(i - 1) : Whole(n, blobs[n][k].hash)
  /\ pc = "fill" => \A k \in 1..(i - 1) :
                      blobs[n][k].hash = blobs[n][i].hash \/ Whole(n, blobs[n][k].hash)
  /\ pc \in {"open", "manifest"} => \A k \in DOMAIN blobs[n] : Whole(n, blobs[n][k].hash)

\* The blocks this run has left behind are on disk.
BehindInv ==
  pc # "stopped" => \A b \in Blocks : b < n /\ blobs[b] # <<>> => OnDisk(b)

-----------------------------------------------------------------------------
(* The answers.                                                            *)

\* A block's answer gives a list of blobs.
LEMMA RefsTyped ==
  ASSUME DiskSyncAssumption, cfg \in Configs, NEW txs \in TxLists
  PROVE  BlobRefsOf(txs) \in Seq(BlobRefs)
<1> DEFINE Refs(k) == [j \in DOMAIN txs[k].hashes |->
                         [from |-> txs[k].from, index |-> j - 1, hash |-> txs[k].hashes[j]]]
           Kept(k) == IF cfg.batcher \notin {AnySender, txs[k].from} THEN <<>> ELSE Refs(k)
           seqs == [k \in DOMAIN txs |-> Kept(k)]
<1> DEFINE Txs == [from : Senders, hashes : Seq(Commitments)]
<1>1. txs \in Seq(Txs)
  <2>1. TxLists \subseteq Seq(Txs)
    BY DEF DiskSyncAssumption
  <2> HIDE DEF Txs
  <2>2. QED
    BY <2>1
<1>2. ASSUME NEW k \in DOMAIN txs
      PROVE  Kept(k) \in Seq(BlobRefs)
  <2>1. txs[k] \in Txs
    <3> HIDE DEF Txs
    <3>1. QED
      BY <1>1
  <2>2. PICK from \in Senders, hs \in Seq(Commitments) : from = txs[k].from /\ hs = txs[k].hashes
    BY <2>1
  <2>3. \A j \in 1..Len(hs) : [from |-> from, index |-> j - 1, hash |-> hs[j]] \in BlobRefs
    BY DEF BlobRefs
  <2>4. [j \in 1..Len(hs) |-> [from |-> from, index |-> j - 1, hash |-> hs[j]]] \in Seq(BlobRefs)
    BY <2>3
  <2>5. Refs(k) = [j \in 1..Len(hs) |-> [from |-> from, index |-> j - 1, hash |-> hs[j]]]
    <3>1. DOMAIN txs[k].hashes = 1..Len(hs)
      BY <2>2
    <3>2. QED
      BY <2>2, <3>1
  <2> HIDE DEF Refs
  <2>6. QED
    BY <2>4, <2>5
<1>3. seqs \in Seq(Seq(BlobRefs))
  <2> HIDE DEF Kept, Txs
  <2>1. DOMAIN txs = 1..Len(txs) /\ Len(txs) \in Nat
    BY <1>1
  <2>2. QED
    BY <1>2, <2>1
<1>4. BlobRefsOf(txs) = FlattenSeq(seqs)
  BY DEF BlobRefsOf
<1>5. QED
  <2> HIDE DEF seqs
  <2>1. QED
    BY <1>3, <1>4, FlattenTyped

\* The sidecar that is found has the commitment.
LEMMA Found ==
  ASSUME NEW sidecars \in Seq(Sidecars), NEW hash, SidecarIndex(sidecars, hash) # 0
  PROVE  /\ SidecarIndex(sidecars, hash) \in DOMAIN sidecars
         /\ sidecars[SidecarIndex(sidecars, hash)].commitment = hash
<1> DEFINE I == {k \in 1..Len(sidecars) : sidecars[k].commitment = hash}
<1>1. SidecarIndex(sidecars, hash) = IF I # {} THEN Min(I) ELSE 0
  BY DEF SidecarIndex, SelectInSeq
<1>2. I \subseteq Nat /\ I # {}
  BY <1>1
<1>3. Min(I) \in I
  <2> HIDE DEF I
  <2>1. QED
    BY <1>2, MinIsLeast
<1>4. QED
  BY <1>1, <1>2, <1>3

\* The sidecars of a block: if each of its blobs has one, they are a list of
\* sidecars, each with the commitment of its blob.
LEMMA Matched ==
  ASSUME DiskSyncAssumption, TypeOK, pc = "sidecars", NEW sidecars \in Seq(Sidecars),
         \A k \in DOMAIN blobs[n] : SidecarIndex(sidecars, blobs[n][k].hash) # 0
  PROVE  \E m \in Seq(Sidecars) :
           /\ Len(m) = Len(blobs[n])
           /\ m = [k \in DOMAIN blobs[n] |-> sidecars[SidecarIndex(sidecars, blobs[n][k].hash)]]
           /\ \A k \in DOMAIN m : m[k].commitment = blobs[n][k].hash
<1>1. n \in Blocks
  BY DEF TypeOK, Blocks, DiskSyncAssumption
<1>2. PICK bs \in Seq(BlobRefs) : bs = blobs[n]
  BY <1>1 DEF TypeOK
<1> DEFINE At(k) == sidecars[SidecarIndex(sidecars, bs[k].hash)]
           m == [k \in 1..Len(bs) |-> At(k)]
<1>3. ASSUME NEW k \in 1..Len(bs)
      PROVE  At(k) \in Sidecars /\ At(k).commitment = bs[k].hash
  <2>1. SidecarIndex(sidecars, bs[k].hash) # 0
    BY <1>2
  <2>2. /\ SidecarIndex(sidecars, bs[k].hash) \in DOMAIN sidecars
        /\ At(k).commitment = bs[k].hash
    BY <2>1, Found
  <2>3. QED
    BY <2>2
<1>4. m \in Seq(Sidecars) /\ Len(m) = Len(bs) /\ \A k \in DOMAIN m : m[k].commitment = bs[k].hash
  <2> HIDE DEF At
  <2>1. QED
    BY <1>3
<1>5. m = [k \in DOMAIN blobs[n] |-> sidecars[SidecarIndex(sidecars, blobs[n][k].hash)]]
  BY <1>2
<1>6. QED
  <2> HIDE DEF m
  <2>1. QED
    BY <1>2, <1>4, <1>5

\* What a successful answer of the sidecars leads to.
LEMMA Answered ==
  ASSUME DiskSyncAssumption, TypeOK, NEW sidecars \in SidecarLists, AnswerSidecars(sidecars),
         pc' # "stopped"
  PROVE  /\ pc = "sidecars" /\ pc' = "create"
         /\ payloads' \in Seq(Commitments) /\ Len(payloads') = Len(blobs[n])
         /\ \A k \in DOMAIN payloads' :
              /\ VerifyKzg => payloads'[k] = blobs[n][k].hash
              /\ cfg.decode => payloads'[k] \in Canonical
<1>1. sidecars \in Seq(Sidecars) /\ pc = "sidecars"
  BY DEF DiskSyncAssumption, AnswerSidecars
<1> DEFINE found == [k \in DOMAIN blobs[n] |-> SidecarIndex(sidecars, blobs[n][k].hash)]
           matched == [k \in DOMAIN found |-> sidecars[found[k]]]
<1>2. /\ ~(\E k \in DOMAIN found : found[k] = 0) /\ VerifyBatch(matched) /\ Decodes(matched)
      /\ pc' = "create" /\ payloads' = [k \in DOMAIN matched |-> matched[k].blob]
  BY DEF AnswerSidecars
<1>3. \A k \in DOMAIN blobs[n] : SidecarIndex(sidecars, blobs[n][k].hash) # 0
  BY <1>2
<1>4. PICK m \in Seq(Sidecars) :
        /\ Len(m) = Len(blobs[n])
        /\ m = [k \in DOMAIN blobs[n] |-> sidecars[SidecarIndex(sidecars, blobs[n][k].hash)]]
        /\ \A k \in DOMAIN m : m[k].commitment = blobs[n][k].hash
  BY <1>1, <1>3, Matched
<1>5. matched = m
  BY <1>4
<1> HIDE DEF matched
<1>6. payloads' = [k \in 1..Len(m) |-> m[k].blob]
  BY <1>2, <1>5
<1>7. ASSUME NEW k \in 1..Len(m)
      PROVE  m[k].blob \in Commitments
  <2>1. m[k] \in Sidecars
    OBVIOUS
  <2>2. QED
    BY <2>1 DEF Sidecars
<1>8. PICK p \in Seq(Commitments) : p = [k \in 1..Len(m) |-> m[k].blob]
  <2> DEFINE Blob(k) == m[k].blob
  <2>1. \A k \in 1..Len(m) : Blob(k) \in Commitments
    BY <1>7
  <2> HIDE DEF Blob
  <2>2. [k \in 1..Len(m) |-> Blob(k)] \in Seq(Commitments)
    BY <2>1
  <2>3. QED
    BY <2>2 DEF Blob
<1>9. payloads' = p /\ DOMAIN p = 1..Len(m) /\ Len(p) = Len(m) /\ \A k \in 1..Len(m) : p[k] = m[k].blob
  BY <1>6, <1>8
<1>10. /\ VerifyKzg => \A k \in 1..Len(m) : m[k].blob = m[k].commitment
       /\ cfg.decode => \A k \in 1..Len(m) : m[k].blob \in Canonical
  BY <1>2, <1>5 DEF VerifyBatch, Decodes
<1>11. \A k \in 1..Len(m) : m[k].commitment = blobs[n][k].hash
  <2>1. \A k \in DOMAIN m : m[k].commitment = blobs[n][k].hash
    BY <1>4, Zenon
  <2>2. DOMAIN m = 1..Len(m)
    OBVIOUS
  <2>3. QED
    BY <2>1, <2>2, Zenon
<1>12. ASSUME NEW k \in DOMAIN payloads'
       PROVE  /\ VerifyKzg => payloads'[k] = blobs[n][k].hash
              /\ cfg.decode => payloads'[k] \in Canonical
  BY <1>9, <1>10, <1>11
<1>13. payloads' \in Seq(Commitments) /\ Len(payloads') = Len(blobs[n])
  BY <1>4, <1>9
<1>14. QED
  BY <1>1, <1>2, <1>12, <1>13

-----------------------------------------------------------------------------
(* Types and places.                                                       *)

\* Going on to the next block, from one of the range.
LEMMA NextBlockPlace ==
  ASSUME DiskSyncAssumption, n \in Blocks, NextBlock
  PROVE  /\ n' = n + 1 /\ i' = 1 /\ payloads' = <<>> /\ pc' \in {"block", "done"}
         /\ n' \in StartBlock..(EndBlock + 1)
         /\ n' > EndBlock => pc' = "done"
         /\ pc' = "done" => n' = EndBlock + 1
BY DEF DiskSyncAssumption, Blocks, NextBlock

\* A run has a block of the range in hand until it is done.
LEMMA InRange ==
  ASSUME DiskSyncAssumption, TypeOK, pc \notin {"stopped", "done"}
  PROVE  n \in Blocks
BY DEF DiskSyncAssumption, TypeOK, Blocks

\* The initial states.
LEMMA InitTypePlace ==
  ASSUME DiskSyncAssumption, Init
  PROVE  TypeOK /\ PlaceInv
<1>1. [f \in FileNames |-> Absent] \in [FileNames -> Commitments \cup {Absent, Torn}]
  OBVIOUS
<1>2. NoManifest \in Manifests
  <2>1. <<>> \in Seq(FileNames)
    OBVIOUS
  <2> HIDE DEF FileNames
  <2>2. QED
    BY <2>1 DEF NoManifest, Manifests
<1>3. files \in [Blocks -> [FileNames -> Commitments \cup {Absent, Torn}]]
  <2> DEFINE F == [FileNames -> Commitments \cup {Absent, Torn}]
             empty == [f \in FileNames |-> Absent]
  <2>1. empty \in F /\ files = [b \in Blocks |-> empty]
    BY <1>1 DEF Init
  <2> HIDE DEF F, empty
  <2>2. files \in [Blocks -> F]
    BY <2>1
  <2>3. QED
    BY <2>2 DEF F
<1>4. manifest \in [Blocks -> Manifests]
  BY <1>2 DEF Init
<1>5. blobs \in [Blocks -> Seq(BlobRefs)] /\ payloads \in Seq(Commitments)
  BY DEF Init
<1>6. n \in StartBlock..(EndBlock + 1) /\ runs \in 0..MaxRuns
  BY DEF Init, DiskSyncAssumption
<1>7. QED
  BY <1>3, <1>4, <1>5, <1>6 DEF Init, TypeOK, PlaceInv

\* Every step keeps the types, and the run in its place.
LEMMA TypePlaceStep ==
  ASSUME DiskSyncAssumption, TypeOK, PlaceInv, [Next]_vars
  PROVE  TypeOK' /\ PlaceInv'
<1>0. /\ pc \in {"stopped", "block", "sidecars", "create", "fill", "open", "manifest", "done"}
      /\ runs \in 0..MaxRuns /\ cfg \in Configs
      /\ n \in StartBlock..(EndBlock + 1) /\ (n > EndBlock => pc \in {"stopped", "done"})
      /\ blobs \in [Blocks -> Seq(BlobRefs)]
      /\ payloads \in Seq(Commitments)
      /\ pc \in {"create", "fill"} => i \in DOMAIN payloads
      /\ pc \in {"create", "fill", "open", "manifest"} => Len(payloads) = Len(blobs[n])
      /\ files \in [Blocks -> [FileNames -> Commitments \cup {Absent, Torn}]]
      /\ manifest \in [Blocks -> Manifests]
  BY DEF TypeOK
<1>1. ASSUME NEW c \in Configs, Start(c)
      PROVE  TypeOK' /\ PlaceInv'
  <2>1. n' \in StartBlock..(EndBlock + 1) /\ n' <= EndBlock /\ runs' \in 0..MaxRuns
    BY <1>0, <1>1 DEF Start, DiskSyncAssumption
  <2>2. blobs' \in [Blocks -> Seq(BlobRefs)] /\ payloads' \in Seq(Commitments)
    BY <1>1 DEF Start
  <2>3. ~(n' > EndBlock)
    BY <2>1 DEF DiskSyncAssumption
  <2>4. QED
    BY <1>0, <1>1, <2>1, <2>2, <2>3 DEF Start, TypeOK, PlaceInv, disk
<1>2. ASSUME NEW txs \in TxLists, AnswerBlock(txs)
      PROVE  TypeOK' /\ PlaceInv'
  <2>1. pc = "block" /\ n \in Blocks
    BY <1>2, InRange DEF AnswerBlock
  <2>2. BlobRefsOf(txs) \in Seq(BlobRefs)
    BY <1>0, RefsTyped
  <2>3. blobs' \in [Blocks -> Seq(BlobRefs)] /\ blobs'[n] = BlobRefsOf(txs)
    BY <1>0, <1>2, <2>1, <2>2 DEF AnswerBlock
  <2>4. CASE BlobRefsOf(txs) = <<>>
    <3>1. NextBlock
      BY <1>2, <2>4 DEF AnswerBlock
    <3>2. /\ n' = n + 1 /\ i' = 1 /\ payloads' = <<>> /\ pc' \in {"block", "done"}
          /\ n' \in StartBlock..(EndBlock + 1)
          /\ n' > EndBlock => pc' = "done"
          /\ pc' = "done" => n' = EndBlock + 1
      BY <2>1, <3>1, NextBlockPlace
    <3>3. payloads' \in Seq(Commitments)
      BY <3>2
    <3>4. UNCHANGED <<runs, cfg, files, manifest>>
      BY <1>2 DEF AnswerBlock
    <3>5. QED
      BY <1>0, <2>3, <3>2, <3>3, <3>4 DEF TypeOK, PlaceInv
  <2>5. CASE BlobRefsOf(txs) # <<>>
    <3>1. pc' = "sidecars" /\ UNCHANGED <<n, payloads, i, runs, cfg, files, manifest>>
      BY <1>2, <2>5 DEF AnswerBlock
    <3>2. QED
      BY <1>0, <2>1, <2>3, <2>5, <3>1 DEF TypeOK, PlaceInv
  <2>6. QED
    BY <2>4, <2>5
<1>3. ASSUME NEW sidecars \in SidecarLists, AnswerSidecars(sidecars)
      PROVE  TypeOK' /\ PlaceInv'
  <2>1. pc = "sidecars" /\ n \in Blocks /\ UNCHANGED <<runs, cfg, n, blobs, i, files, manifest>>
    BY <1>3, InRange DEF AnswerSidecars
  <2>2. CASE pc' = "stopped"
    <3>1. payloads' \in Seq(Commitments)
      <4>1. payloads' = payloads
        BY <1>3, <2>2 DEF AnswerSidecars
      <4>2. QED
        BY <1>0, <4>1
    <3>2. QED
      BY <1>0, <2>1, <2>2, <3>1 DEF TypeOK, PlaceInv
  <2>3. CASE pc' # "stopped"
    <3>1. pc' = "create" /\ payloads' \in Seq(Commitments) /\ Len(payloads') = Len(blobs[n])
      BY <1>3, <2>3, Answered
    <3>2. i' \in DOMAIN payloads'
      <4>1. blobs[n] # <<>> /\ i = 1
        BY <2>1 DEF PlaceInv
      <4>2. blobs[n] \in Seq(BlobRefs)
        BY <1>0, <2>1
      <4>3. Len(blobs[n]) \in Nat \ {0}
        BY <4>1, <4>2, EmptySeq
      <4>4. QED
        BY <2>1, <3>1, <4>1, <4>3
    <3>3. QED
      BY <1>0, <2>1, <3>1, <3>2 DEF TypeOK, PlaceInv
  <2>4. QED
    BY <2>2, <2>3
<1>4. ASSUME NEW content \in Commitments \cup {Torn}, WriteFile(content), n \in Blocks
      PROVE  files' \in [Blocks -> [FileNames -> Commitments \cup {Absent, Torn}]]
  <2> DEFINE C == Commitments \cup {Absent, Torn}
  <2>1. files[n] \in [FileNames -> C]
    BY <1>0, <1>4
  <2>2. PICK name : name = FileName(blobs[n][i].hash)
    OBVIOUS
  <2>3. PICK d \in [FileNames -> C] : d = [files[n] EXCEPT ![name] = content]
    BY <2>1
  <2>4. files' = [files EXCEPT ![n] = d]
    BY <1>4, <2>2, <2>3 DEF WriteFile
  <2> HIDE DEF C
  <2>5. files \in [Blocks -> [FileNames -> C]]
    BY <1>0 DEF C
  <2>6. files' \in [Blocks -> [FileNames -> C]]
    BY <2>3, <2>4, <2>5
  <2>7. QED
    BY <2>6 DEF C
<1>5. ASSUME CreateFile
      PROVE  TypeOK' /\ PlaceInv'
  <2>1. pc = "create" /\ n \in Blocks /\ WriteFile(Torn)
    BY <1>5, InRange DEF CreateFile
  <2>2. files' \in [Blocks -> [FileNames -> Commitments \cup {Absent, Torn}]]
    BY <1>4, <2>1
  <2>3. QED
    BY <1>0, <1>5, <2>1, <2>2 DEF CreateFile, TypeOK, PlaceInv
<1>6. ASSUME FillFile
      PROVE  TypeOK' /\ PlaceInv'
  <2>1. pc = "fill" /\ n \in Blocks /\ WriteFile(payloads[i]) /\ i \in DOMAIN payloads
    BY <1>0, <1>6, InRange DEF FillFile
  <2>2. payloads[i] \in Commitments
    BY <1>0, <2>1
  <2>3. files' \in [Blocks -> [FileNames -> Commitments \cup {Absent, Torn}]]
    BY <1>4, <2>1, <2>2
  <2>4. /\ UNCHANGED <<runs, cfg, n, blobs, payloads, manifest>>
        /\ \/ pc' = "create" /\ i' = i + 1 /\ i < Len(payloads)
           \/ pc' = "open" /\ i' = i
    BY <1>6 DEF FillFile
  <2>5. pc' = "create" => i' \in DOMAIN payloads'
    BY <1>0, <2>1, <2>4
  <2>6. QED
    BY <1>0, <2>1, <2>3, <2>4, <2>5 DEF TypeOK, PlaceInv
<1>7. ASSUME NEW m \in Manifests, manifest' = [manifest EXCEPT ![n] = m]
      PROVE  manifest' \in [Blocks -> Manifests]
  BY <1>0, <1>7
<1>8. ASSUME OpenManifest
      PROVE  TypeOK' /\ PlaceInv'
  <2>1. [state |-> "torn", names |-> <<>>] \in Manifests
    BY DEF Manifests
  <2>2. pc = "open" /\ n \in Blocks /\ manifest' \in [Blocks -> Manifests]
    BY <1>7, <1>8, <2>1, InRange DEF OpenManifest
  <2>3. QED
    BY <1>0, <1>8, <2>2 DEF OpenManifest, TypeOK, PlaceInv
<1>9. ASSUME FillManifest
      PROVE  TypeOK' /\ PlaceInv'
  <2>1. pc = "manifest" /\ n \in Blocks /\ NextBlock
    BY <1>9, InRange DEF FillManifest
  <2>2. PICK bs \in Seq(BlobRefs) : bs = blobs[n]
    BY <1>0, <2>1
  <2>3. PICK names \in Seq(FileNames) : names = [k \in DOMAIN blobs[n] |-> FileName(blobs[n][k].hash)]
    <3>1. cfg.decode \in BOOLEAN
      BY <1>0 DEF Configs
    <3>2. \A k \in 1..Len(bs) : bs[k] \in BlobRefs
      OBVIOUS
    <3>3. \A k \in 1..Len(bs) : FileName(bs[k].hash) \in FileNames
      BY <3>1, <3>2 DEF FileName, FileNames, BlobRefs
    <3> DEFINE Name(k) == FileName(bs[k].hash)
               names == [k \in 1..Len(bs) |-> Name(k)]
    <3>4. names \in Seq(FileNames)
      <4> HIDE DEF Name
      <4>1. QED
        BY <3>3 DEF Name
    <3>5. names = [k \in DOMAIN blobs[n] |-> FileName(blobs[n][k].hash)]
      BY <2>2
    <3> HIDE DEF names
    <3>6. QED
      BY <3>4, <3>5
  <2>4. [state |-> "whole", names |-> names] \in Manifests
    BY DEF Manifests
  <2>5. manifest' \in [Blocks -> Manifests]
    BY <1>7, <1>9, <2>3, <2>4 DEF FillManifest
  <2>6. /\ n' = n + 1 /\ i' = 1 /\ payloads' = <<>> /\ pc' \in {"block", "done"}
        /\ n' \in StartBlock..(EndBlock + 1)
        /\ n' > EndBlock => pc' = "done"
        /\ pc' = "done" => n' = EndBlock + 1
    BY <2>1, NextBlockPlace
  <2>7. payloads' \in Seq(Commitments)
    BY <2>6
  <2>8. UNCHANGED <<runs, cfg, blobs, files>>
    BY <1>9 DEF FillManifest
  <2>9. QED
    BY <1>0, <2>5, <2>6, <2>7, <2>8 DEF TypeOK, PlaceInv
<1>10. CASE Die
  BY <1>0, <1>10 DEF Die, TypeOK, PlaceInv
<1>11. CASE UNCHANGED vars
  BY <1>11 DEF vars, TypeOK, PlaceInv
<1>12. QED
  BY <1>1, <1>2, <1>3, <1>5, <1>6, <1>8, <1>9, <1>10, <1>11 DEF Next

-----------------------------------------------------------------------------
(* What is written.                                                        *)

\* A write reaches the file named by the blob, and no other.
LEMMA Written ==
  ASSUME TypeOK, n \in Blocks, NEW content, WriteFile(content)
  PROVE  \A b \in Blocks : \A f \in FileNames :
           files'[b][f] = IF b = n /\ f = FileName(blobs[n][i].hash) THEN content ELSE files[b][f]
<1>1. PICK name : name = FileName(blobs[n][i].hash)
  OBVIOUS
<1>2. files' = [files EXCEPT ![n][name] = content]
  BY <1>1 DEF WriteFile
<1> DEFINE C == Commitments \cup {Absent, Torn}
<1>3. files \in [Blocks -> [FileNames -> C]]
  BY DEF TypeOK
<1> HIDE DEF C
<1>4. ASSUME NEW b \in Blocks, NEW f \in FileNames
      PROVE  files'[b][f] = IF b = n /\ f = name THEN content ELSE files[b][f]
  BY <1>2, <1>3
<1>5. QED
  BY <1>1, <1>4

\* The blobs of the block in hand have files.
LEMMA Named ==
  ASSUME DiskSyncAssumption, TypeOK, n \in Blocks, NEW k \in DOMAIN blobs[n]
  PROVE  FileName(blobs[n][k].hash) \in FileNames
<1>1. PICK bs \in Seq(BlobRefs) : bs = blobs[n]
  BY DEF TypeOK
<1>2. bs[k] \in BlobRefs
  BY <1>1
<1>3. cfg.decode \in BOOLEAN
  BY DEF TypeOK, Configs
<1>4. QED
  BY <1>1, <1>2, <1>3 DEF BlobRefs, FileName, FileNames

\* What is to be written stays what was let through, and so does the disk.
LEMMA VerifiedStep ==
  ASSUME DiskSyncAssumption, TypeOK, PayloadInv, OnlyVerifiedOnDisk, [Next]_vars
  PROVE  PayloadInv' /\ OnlyVerifiedOnDisk'
<1>1. ASSUME NEW c \in Configs, Start(c)
      PROVE  PayloadInv' /\ OnlyVerifiedOnDisk'
  BY <1>1 DEF Start, disk, PayloadInv, OnlyVerifiedOnDisk
<1>2. ASSUME NEW txs \in TxLists, AnswerBlock(txs)
      PROVE  PayloadInv' /\ OnlyVerifiedOnDisk'
  BY <1>2 DEF AnswerBlock, NextBlock, PayloadInv, OnlyVerifiedOnDisk
<1>3. ASSUME NEW sidecars \in SidecarLists, AnswerSidecars(sidecars)
      PROVE  PayloadInv' /\ OnlyVerifiedOnDisk'
  <2>1. UNCHANGED <<runs, cfg, n, blobs, i, files, manifest>>
    BY <1>3 DEF AnswerSidecars
  <2>2. PayloadInv'
    <3>1. CASE pc' = "stopped"
      BY <3>1 DEF PayloadInv
    <3>2. CASE pc' # "stopped"
      <4>1. \A k \in DOMAIN payloads' :
              /\ VerifyKzg => payloads'[k] = blobs[n][k].hash
              /\ cfg.decode => payloads'[k] \in Canonical
        BY <1>3, <3>2, Answered
      <4>2. QED
        BY <2>1, <4>1 DEF PayloadInv
    <3>3. QED
      BY <3>1, <3>2
  <2>3. QED
    BY <2>1, <2>2 DEF OnlyVerifiedOnDisk
<1>4. ASSUME NEW content, n \in Blocks, WriteFile(content),
             VerifyKzg => content \in {Torn, blobs[n][i].hash},
             VerifyKzg /\ cfg.decode => content \in {Torn} \cup Canonical
      PROVE  OnlyVerifiedOnDisk'
  <2> SUFFICES ASSUME VerifyKzg, NEW b \in Blocks, NEW f \in FileNames
               PROVE  /\ files'[b][f] \in {Absent, Torn, f.hash}
                      /\ f.decode => files'[b][f] \in {Absent, Torn} \cup Canonical
    BY DEF OnlyVerifiedOnDisk
  <2>1. files'[b][f] = IF b = n /\ f = FileName(blobs[n][i].hash) THEN content ELSE files[b][f]
    BY <1>4, Written
  <2>2. CASE b = n /\ f = FileName(blobs[n][i].hash)
    <3>1. f.hash = blobs[n][i].hash /\ f.decode = cfg.decode
      BY <2>2 DEF FileName
    <3>2. QED
      BY <1>4, <2>1, <2>2, <3>1
  <2>3. CASE ~(b = n /\ f = FileName(blobs[n][i].hash))
    BY <2>1, <2>3 DEF OnlyVerifiedOnDisk
  <2>4. QED
    BY <2>2, <2>3
<1>5. ASSUME CreateFile
      PROVE  PayloadInv' /\ OnlyVerifiedOnDisk'
  <2>1. n \in Blocks /\ WriteFile(Torn)
    BY <1>5, InRange DEF CreateFile
  <2>2. OnlyVerifiedOnDisk'
    BY <1>4, <2>1
  <2>3. QED
    BY <1>5, <2>2 DEF CreateFile, PayloadInv
<1>6. ASSUME FillFile
      PROVE  PayloadInv' /\ OnlyVerifiedOnDisk'
  <2>1. pc = "fill" /\ n \in Blocks /\ WriteFile(payloads[i]) /\ i \in DOMAIN payloads
    BY <1>6, InRange DEF FillFile, TypeOK
  <2>2. /\ VerifyKzg => payloads[i] = blobs[n][i].hash
        /\ cfg.decode => payloads[i] \in Canonical
    BY <2>1 DEF PayloadInv
  <2>3. OnlyVerifiedOnDisk'
    BY <1>4, <2>1, <2>2
  <2>4. UNCHANGED <<cfg, n, blobs, payloads>>
    BY <1>6 DEF FillFile
  <2>5. PayloadInv'
    BY <2>1, <2>4 DEF PayloadInv
  <2>6. QED
    BY <2>3, <2>5
<1>7. CASE OpenManifest
  BY <1>7 DEF OpenManifest, PayloadInv, OnlyVerifiedOnDisk
<1>8. CASE FillManifest
  BY <1>8 DEF FillManifest, NextBlock, PayloadInv, OnlyVerifiedOnDisk
<1>9. CASE Die
  BY <1>9 DEF Die, PayloadInv, OnlyVerifiedOnDisk
<1>10. CASE UNCHANGED vars
  BY <1>10 DEF vars, PayloadInv, OnlyVerifiedOnDisk
<1>11. QED
  BY <1>1, <1>2, <1>3, <1>5, <1>6, <1>7, <1>8, <1>9, <1>10 DEF Next

-----------------------------------------------------------------------------
(* What is there.                                                          *)

\* A write of all of a file's bytes leaves it whole, and other files as they were.
LEMMA WholeAfter ==
  ASSUME DiskSyncAssumption, TypeOK, n \in Blocks, NEW content, WriteFile(content),
         UNCHANGED <<cfg, n, blobs>>, NEW k \in DOMAIN blobs[n],
         IF blobs[n][k].hash = blobs[n][i].hash THEN content \notin {Absent, Torn}
                                               ELSE Whole(n, blobs[n][k].hash)
  PROVE  Whole(n, blobs[n][k].hash)'
<1>1. PICK h : h = blobs[n][k].hash
  OBVIOUS
<1>2. FileName(h) \in FileNames
  BY <1>1, Named
<1>3. FileName(h) = FileName(blobs[n][i].hash) <=> h = blobs[n][i].hash
  BY DEF FileName
<1>4. files'[n][FileName(h)] = IF h = blobs[n][i].hash THEN content ELSE files[n][FileName(h)]
  BY <1>2, <1>3, Written
<1>5. files'[n][FileName(h)] \notin {Absent, Torn}
  BY <1>1, <1>4 DEF Whole
<1>6. Whole(n, blobs[n][k].hash)' = (files'[n][FileName(h)] \notin {Absent, Torn})
  BY <1>1 DEF Whole, FileName
<1>7. QED
  BY <1>5, <1>6

\* Every step keeps what is filled.
LEMMA FilledStep ==
  ASSUME DiskSyncAssumption, TypeOK, PlaceInv, FilledInv, [Next]_vars
  PROVE  FilledInv'
<1>1. ASSUME NEW c \in Configs, Start(c)
      PROVE  FilledInv'
  BY <1>1 DEF Start, FilledInv
<1>2. ASSUME NEW txs \in TxLists, AnswerBlock(txs)
      PROVE  FilledInv'
  BY <1>2 DEF AnswerBlock, NextBlock, FilledInv
<1>3. ASSUME NEW sidecars \in SidecarLists, AnswerSidecars(sidecars)
      PROVE  FilledInv'
  <2>1. i' = 1 /\ pc' \in {"stopped", "create"}
    BY <1>3 DEF AnswerSidecars, PlaceInv
  <2>2. QED
    BY <2>1 DEF FilledInv
<1>4. ASSUME n \in Blocks, Len(payloads) = Len(blobs[n])
      PROVE  DOMAIN blobs[n] = DOMAIN payloads /\ DOMAIN payloads = 1..Len(payloads)
             /\ Len(payloads) \in Nat
  <2>1. blobs[n] \in Seq(BlobRefs) /\ payloads \in Seq(Commitments)
    BY <1>4 DEF TypeOK
  <2>2. QED
    BY <1>4, <2>1
<1>5. ASSUME CreateFile
      PROVE  FilledInv'
  <2>1. /\ pc = "create" /\ pc' = "fill" /\ n \in Blocks /\ WriteFile(Torn)
        /\ UNCHANGED <<cfg, n, blobs, i>> /\ Len(payloads) = Len(blobs[n]) /\ i \in DOMAIN payloads
    BY <1>5, InRange DEF CreateFile, TypeOK
  <2>2. ASSUME NEW k \in 1..(i - 1), blobs[n][k].hash # blobs[n][i].hash
        PROVE  Whole(n, blobs[n][k].hash)'
    <3>1. k \in DOMAIN blobs[n]
      BY <1>4, <2>1
    <3>2. Whole(n, blobs[n][k].hash)
      BY <2>1 DEF FilledInv
    <3>3. QED
      BY <2>1, <2>2, <3>1, <3>2, WholeAfter
  <2>3. QED
    BY <2>1, <2>2 DEF FilledInv
<1>6. ASSUME FillFile
      PROVE  FilledInv'
  <2>1. /\ pc = "fill" /\ n \in Blocks /\ WriteFile(payloads[i])
        /\ UNCHANGED <<cfg, n, blobs>> /\ Len(payloads) = Len(blobs[n]) /\ i \in DOMAIN payloads
        /\ \/ pc' = "create" /\ i' = i + 1 /\ i < Len(payloads)
           \/ pc' = "open" /\ i' = i /\ ~(i < Len(payloads))
    BY <1>6, InRange DEF FillFile, TypeOK
  <2>2. payloads[i] \notin {Absent, Torn}
    <3>1. payloads[i] \in Commitments
      BY <2>1 DEF TypeOK
    <3>2. QED
      BY <3>1 DEF DiskSyncAssumption
  <2>3. ASSUME NEW k \in 1..i
        PROVE  Whole(n, blobs[n][k].hash)'
    <3>1. k \in DOMAIN blobs[n]
      BY <1>4, <2>1
    <3>2. CASE blobs[n][k].hash = blobs[n][i].hash
      BY <2>1, <2>2, <3>1, <3>2, WholeAfter
    <3>3. CASE blobs[n][k].hash # blobs[n][i].hash
      <4>1. k # i
        BY <3>3
      <4>2. k \in 1..(i - 1)
        BY <1>4, <2>1, <4>1
      <4>3. Whole(n, blobs[n][k].hash)
        BY <2>1, <3>3, <4>2 DEF FilledInv
      <4>4. QED
        BY <2>1, <3>1, <3>3, <4>3, WholeAfter
    <3>4. QED
      BY <3>2, <3>3
  <2>4. CASE pc' = "create"
    <3>1. i' - 1 = i
      BY <1>4, <2>1, <2>4
    <3>2. QED
      BY <2>1, <2>3, <2>4, <3>1 DEF FilledInv
  <2>5. CASE pc' = "open"
    <3>1. DOMAIN blobs[n] = 1..i
      BY <1>4, <2>1, <2>5
    <3>2. QED
      BY <2>1, <2>3, <2>5, <3>1 DEF FilledInv
  <2>6. QED
    BY <2>1, <2>4, <2>5
<1>7. CASE OpenManifest
  BY <1>7 DEF OpenManifest, FilledInv, Whole, FileName
<1>8. CASE FillManifest
  BY <1>8 DEF FillManifest, NextBlock, FilledInv
<1>9. CASE Die
  BY <1>9 DEF Die, FilledInv
<1>10. CASE UNCHANGED vars
  BY <1>10 DEF vars, FilledInv, Whole, FileName
<1>11. QED
  BY <1>1, <1>2, <1>3, <1>5, <1>6, <1>7, <1>8, <1>9, <1>10 DEF Next

\* The manifest of the block in hand lists its files, and they are there.
LEMMA ManifestWritten ==
  ASSUME DiskSyncAssumption, TypeOK, FilledInv, FillManifest
  PROVE  \A b \in Blocks : b = n => OnDisk(b)'
<1> SUFFICES ASSUME NEW b \in Blocks, b = n
             PROVE  OnDisk(b)'
  OBVIOUS
<1>1. /\ pc = "manifest" /\ UNCHANGED <<cfg, blobs, files>>
      /\ \A k \in DOMAIN blobs[b] : Whole(b, blobs[b][k].hash)
  BY DEF FillManifest, FilledInv
<1>2. PICK names : names = [k \in DOMAIN blobs[b] |-> FileName(blobs[b][k].hash)]
  OBVIOUS
<1>3. manifest'[b] = [state |-> "whole", names |-> names]
  BY <1>2 DEF FillManifest, TypeOK
<1>4. manifest'[b].state = "whole" /\ manifest'[b].names = names
  BY <1>3
<1>5. (manifest[b].names = [k \in DOMAIN blobs[b] |-> FileName(blobs[b][k].hash)])'
  BY <1>1, <1>2, <1>4 DEF FileName
<1>6. \A k \in DOMAIN names : files'[b][names[k]] \notin {Absent, Torn}
  BY <1>1, <1>2 DEF Whole
<1>7. Holds(b, manifest[b])'
  BY <1>4, <1>6 DEF Holds
<1>8. QED
  BY <1>4, <1>5, <1>7 DEF OnDisk

\* A block that a step leaves as it was stays on disk.
LEMMA OnDiskStays ==
  ASSUME NEW b, OnDisk(b), cfg' = cfg, blobs'[b] = blobs[b],
         files'[b] = files[b], manifest'[b] = manifest[b]
  PROVE  OnDisk(b)'
<1>1. (manifest[b].state = "whole")' /\ Holds(b, manifest[b])'
  BY DEF OnDisk, Holds
<1>2. (manifest[b].names = [k \in DOMAIN blobs[b] |-> FileName(blobs[b][k].hash)])'
  BY DEF OnDisk, FileName
<1>3. QED
  BY <1>1, <1>2 DEF OnDisk

\* Every step keeps the blocks behind the run on disk.
LEMMA BehindStep ==
  ASSUME DiskSyncAssumption, TypeOK, PlaceInv, FilledInv, BehindInv, [Next]_vars
  PROVE  BehindInv'
<1>0. n \in Int /\ \A b \in Blocks : b \in Int
  BY DEF TypeOK, Blocks, DiskSyncAssumption
<1>1. ASSUME pc # "stopped", cfg' = cfg, n' = n,
             \A b \in Blocks : b < n => /\ blobs'[b] = blobs[b] /\ files'[b] = files[b]
                                        /\ manifest'[b] = manifest[b]
      PROVE  BehindInv'
  <2>1. ASSUME NEW b \in Blocks, b < n', blobs'[b] # <<>>
        PROVE  OnDisk(b)'
    <3>1. OnDisk(b)
      BY <1>1, <2>1 DEF BehindInv
    <3>2. QED
      BY <1>1, <2>1, <3>1, OnDiskStays
  <2>2. QED
    BY <2>1 DEF BehindInv
<1>2. ASSUME pc # "stopped", cfg' = cfg, n' = n + 1,
             \A b \in Blocks : b < n => /\ blobs'[b] = blobs[b] /\ files'[b] = files[b]
                                        /\ manifest'[b] = manifest[b],
             \A b \in Blocks : b = n /\ blobs'[b] # <<>> => OnDisk(b)'
      PROVE  BehindInv'
  <2>1. ASSUME NEW b \in Blocks, b < n', blobs'[b] # <<>>
        PROVE  OnDisk(b)'
    <3>1. b < n \/ b = n
      BY <1>0, <1>2, <2>1
    <3>2. CASE b < n
      <4>1. OnDisk(b)
        BY <1>2, <2>1, <3>2 DEF BehindInv
      <4>2. QED
        BY <1>2, <3>2, <4>1, OnDiskStays
    <3>3. CASE b = n
      BY <1>2, <2>1, <3>3
    <3>4. QED
      BY <3>1, <3>2, <3>3
  <2>2. QED
    BY <2>1 DEF BehindInv
<1>3. ASSUME NEW c \in Configs, Start(c)
      PROVE  BehindInv'
  <2>1. n' = StartBlock
    BY <1>3 DEF Start
  <2>2. \A b \in Blocks : ~(b < n')
    BY <2>1 DEF Blocks, DiskSyncAssumption
  <2>3. QED
    BY <2>2 DEF BehindInv
<1>4. ASSUME NEW txs \in TxLists, AnswerBlock(txs)
      PROVE  BehindInv'
  <2>1. /\ pc = "block" /\ UNCHANGED <<cfg, files, manifest>>
        /\ blobs' = [blobs EXCEPT ![n] = BlobRefsOf(txs)]
    BY <1>4 DEF AnswerBlock
  <2>2. \A b \in Blocks : b < n => blobs'[b] = blobs[b]
    BY <1>0, <2>1 DEF TypeOK
  <2>3. CASE BlobRefsOf(txs) = <<>>
    <3>1. n' = n + 1
      BY <1>4, <2>3 DEF AnswerBlock, NextBlock
    <3>2. \A b \in Blocks : b = n => blobs'[b] = <<>>
      BY <2>1, <2>3 DEF TypeOK
    <3>3. QED
      BY <1>2, <2>1, <2>2, <3>1, <3>2
  <2>4. CASE BlobRefsOf(txs) # <<>>
    <3>1. n' = n
      BY <1>4, <2>4 DEF AnswerBlock
    <3>2. QED
      BY <1>1, <2>1, <2>2, <3>1
  <2>5. QED
    BY <2>3, <2>4
<1>5. ASSUME NEW sidecars \in SidecarLists, AnswerSidecars(sidecars)
      PROVE  BehindInv'
  BY <1>1, <1>5 DEF AnswerSidecars
<1>6. ASSUME NEW content, WriteFile(content)
      PROVE  \A b \in Blocks : b < n => files'[b] = files[b]
  BY <1>0, <1>6 DEF WriteFile, TypeOK
<1>7. ASSUME CreateFile
      PROVE  BehindInv'
  BY <1>1, <1>6, <1>7 DEF CreateFile
<1>8. ASSUME FillFile
      PROVE  BehindInv'
  BY <1>1, <1>6, <1>8 DEF FillFile
<1>9. ASSUME OpenManifest
      PROVE  BehindInv'
  <2>1. /\ pc = "open" /\ UNCHANGED <<cfg, n, blobs, files>>
        /\ \A b \in Blocks : b < n => manifest'[b] = manifest[b]
    BY <1>0, <1>9 DEF OpenManifest, TypeOK
  <2>2. QED
    BY <1>1, <2>1
<1>10. ASSUME FillManifest
       PROVE  BehindInv'
  <2>1. /\ pc = "manifest" /\ UNCHANGED <<cfg, blobs, files>> /\ n' = n + 1
        /\ \A b \in Blocks : b < n => manifest'[b] = manifest[b]
    BY <1>0, <1>10 DEF FillManifest, NextBlock, TypeOK
  <2>2. \A b \in Blocks : b = n => OnDisk(b)'
    BY <1>10, ManifestWritten
  <2>3. QED
    BY <1>2, <2>1, <2>2
<1>11. CASE Die
  BY <1>11 DEF Die, BehindInv
<1>12. CASE UNCHANGED vars
  <2>1. CASE pc = "stopped"
    BY <1>12, <2>1 DEF vars, BehindInv
  <2>2. CASE pc # "stopped"
    BY <1>1, <1>12, <2>2 DEF vars
  <2>3. QED
    BY <2>1, <2>2
<1>13. QED
  BY <1>3, <1>4, <1>5, <1>7, <1>8, <1>9, <1>10, <1>11, <1>12 DEF Next

-----------------------------------------------------------------------------
(* The theorems.                                                           *)

\* Together these hold at first and are kept by every step.
DiskSyncInv == TypeOK /\ PlaceInv /\ PayloadInv /\ OnlyVerifiedOnDisk /\ FilledInv /\ BehindInv

\* The invariant holds of every run.
LEMMA DiskSyncInvHolds == Spec => []DiskSyncInv
<1>1. Init => DiskSyncInv
  <2> SUFFICES ASSUME Init
               PROVE  DiskSyncInv
    OBVIOUS
  <2>1. TypeOK /\ PlaceInv
    BY DiskSyncAssumption, InitTypePlace
  <2>2. PayloadInv /\ FilledInv /\ BehindInv
    BY DEF Init, PayloadInv, FilledInv, BehindInv
  <2>3. OnlyVerifiedOnDisk
    BY DEF Init, OnlyVerifiedOnDisk
  <2>4. QED
    BY <2>1, <2>2, <2>3 DEF DiskSyncInv
<1>2. DiskSyncInv /\ [Next]_vars => DiskSyncInv'
  BY DiskSyncAssumption, TypePlaceStep, VerifiedStep, FilledStep, BehindStep DEF DiskSyncInv
<1>3. QED
  BY <1>1, <1>2, PTL DEF Spec

\* The variables of the block sync stay in their types: the file being written
\* is one of the block's, and there are as many payloads as blobs.
THEOREM TypeCorrect == Spec => []TypeOK
<1>1. DiskSyncInv => TypeOK
  BY DEF DiskSyncInv
<1>2. QED
  BY <1>1, DiskSyncInvHolds, PTL

\* At every crash point the disk holds only bytes that were verified and, in a
\* decoded file, decodable (write_block is reached with nothing else).
THEOREM DiskVerified == Spec => []OnlyVerifiedOnDisk
<1>1. DiskSyncInv => OnlyVerifiedOnDisk
  BY DEF DiskSyncInv
<1>2. QED
  BY <1>1, DiskSyncInvHolds, PTL

\* A run that comes to its end leaves every block it was told had blobs on disk,
\* whatever earlier runs left there and wherever they died.
THEOREM RerunRepairs == Spec => []FinishedRunIsOnDisk
<1>1. DiskSyncInv => FinishedRunIsOnDisk
  <2> SUFFICES ASSUME DiskSyncInv, pc = "done", NEW b \in Blocks, blobs[b] # <<>>
               PROVE  OnDisk(b)
    BY DEF FinishedRunIsOnDisk, OnDisk
  <2>1. b < n
    BY DiskSyncAssumption DEF DiskSyncInv, PlaceInv, Blocks, DiskSyncAssumption
  <2>2. QED
    BY <2>1 DEF DiskSyncInv, BehindInv
<1>2. QED
  BY <1>1, DiskSyncInvHolds, PTL

\* The manifest is the commit point: it becomes whole in a step after which
\* every file it lists is whole.
THEOREM ManifestIsCommit == Spec => ManifestCommitsFiles
<1> DEFINE Commit == \A b \in Blocks :
             manifest'[b] # manifest[b] /\ manifest'[b].state = "whole" => Holds(b, manifest[b])'
<1>1. DiskSyncInv /\ [Next]_vars => [Commit]_vars
  <2> SUFFICES ASSUME DiskSyncInv, Next, NEW b \in Blocks,
                      manifest'[b] # manifest[b], manifest'[b].state = "whole"
               PROVE  Holds(b, manifest[b])'
    OBVIOUS
  <2>1. OpenManifest \/ FillManifest
    BY DEF Next, Start, AnswerBlock, AnswerSidecars, CreateFile, FillFile, Die, disk
  <2>2. CASE OpenManifest
    <3>1. b = n \/ manifest'[b] = manifest[b]
      BY <2>2 DEF OpenManifest, DiskSyncInv, TypeOK
    <3>2. manifest'[b] = [state |-> "torn", names |-> <<>>]
      BY <2>2, <3>1 DEF OpenManifest, DiskSyncInv, TypeOK
    <3>3. QED
      BY <3>2
  <2>3. CASE FillManifest
    <3>1. b = n
      BY <2>3 DEF FillManifest, DiskSyncInv, TypeOK
    <3>2. OnDisk(b)'
      BY <2>3, <3>1, DiskSyncAssumption, ManifestWritten DEF DiskSyncInv
    <3>3. QED
      BY <3>2 DEF OnDisk
  <2>4. QED
    BY <2>1, <2>2, <2>3
<1>2. QED
  BY <1>1, DiskSyncInvHolds, PTL DEF Spec, ManifestCommitsFiles
=============================================================================
