---------------------------- MODULE ProverProofs ----------------------------
(***************************************************************************)
(* Proofs about fetch_blobs: for every list of references and whatever the *)
(* nodes answer, a successful call returns the blobs of the referenced     *)
(* transactions, all of them and in their order, with the bytes that the   *)
(* transactions committed to, out of one view of each block.  And about    *)
(* the prover around it: what there is a proof of, and that there is one.  *)
(***************************************************************************)
EXTENDS Prover, EncodingProofs, SequenceTheorems

-----------------------------------------------------------------------------
(* The blobs of one transaction, out of those of its block.                *)

\* A blob, if it is of the transaction.
IfOf(blob, tx) == IF blob.tx = tx THEN <<blob>> ELSE <<>>

\* The filter of TxBlobs.
OfTx(blobs, tx) == FlattenSeq([i \in DOMAIN blobs |-> IfOf(blobs[i], tx)])

\* It goes through a list one blob after the other.
LEMMA OfTxAppend ==
  ASSUME NEW blobs \in Seq(BlobRefs), NEW blob \in BlobRefs, NEW tx
  PROVE  /\ OfTx(blobs, tx) \in Seq(BlobRefs)
         /\ OfTx(Append(blobs, blob), tx) = OfTx(blobs, tx) \o IfOf(blob, tx)
<1> DEFINE parts == [i \in 1..Len(blobs) |-> IfOf(blobs[i], tx)]
<1>1. \A b \in BlobRefs : IfOf(b, tx) \in Seq(BlobRefs)
  BY DEF IfOf
<1>2. parts \in Seq(Seq(BlobRefs)) /\ Len(parts) = Len(blobs)
  <2>1. \A i \in 1..Len(blobs) : IfOf(blobs[i], tx) \in Seq(BlobRefs)
    BY <1>1, ElementOfSeq
  <2>2. QED
    BY <2>1
<1>3. PICK all : all = Append(blobs, blob)
  OBVIOUS
<1>4. PICK part \in Seq(BlobRefs) : part = IfOf(blob, tx)
  BY <1>1
<1>5. [i \in DOMAIN all |-> IfOf(all[i], tx)] = Append(parts, part)
  <2> DEFINE left == [i \in 1..(Len(blobs) + 1) |-> IfOf(all[i], tx)]
             right == Append(parts, part)
  <2>1. /\ all \in Seq(BlobRefs) /\ Len(all) = Len(blobs) + 1 /\ all[Len(blobs) + 1] = blob
        /\ \A i \in 1..Len(blobs) : all[i] = blobs[i]
    BY <1>3
  <2>2. left \in Seq(Seq(BlobRefs)) /\ Len(left) = Len(blobs) + 1
    <3>1. \A i \in 1..Len(all) : IfOf(all[i], tx) \in Seq(BlobRefs)
      BY <1>1, <2>1, ElementOfSeq
    <3>2. QED
      BY <2>1, <3>1
  <2>3. /\ right \in Seq(Seq(BlobRefs)) /\ Len(right) = Len(blobs) + 1
        /\ right[Len(blobs) + 1] = part /\ \A i \in 1..Len(blobs) : right[i] = parts[i]
    <3> HIDE DEF parts
    <3>1. QED
      BY <1>2
  <2>4. \A i \in 1..Len(left) : left[i] = right[i]
    <3>1. ASSUME NEW i \in 1..Len(left)
          PROVE  left[i] = right[i]
      <4>1. left[i] = IfOf(all[i], tx)
        BY <2>2
      <4>2. CASE i = Len(blobs) + 1
        <5> HIDE DEF left, right
        <5>1. QED
          BY <1>4, <2>1, <2>3, <4>1, <4>2
      <4>3. CASE i # Len(blobs) + 1
        <5>1. i \in 1..Len(blobs)
          BY <2>2, <4>3
        <5>2. right[i] = IfOf(blobs[i], tx)
          BY <2>3, <5>1
        <5> HIDE DEF left, right
        <5>3. QED
          BY <2>1, <4>1, <5>1, <5>2
      <4>4. QED
        BY <4>2, <4>3
    <3>2. QED
      BY <3>1
  <2>5. left = right
    <3> HIDE DEF left, right
    <3>1. QED
      BY <2>2, <2>3, <2>4, SeqEqual
  <2>6. DOMAIN all = 1..(Len(blobs) + 1)
    BY <2>1
  <2>7. QED
    BY <2>5, <2>6
<1>6. OfTx(blobs, tx) = FlattenSeq(parts) /\ OfTx(all, tx) = FlattenSeq(Append(parts, part))
  <2>1. DOMAIN blobs = 1..Len(blobs)
    OBVIOUS
  <2>2. QED
    BY <1>5, <2>1 DEF OfTx
<1> HIDE DEF parts
<1>7. FlattenSeq(parts) \in Seq(BlobRefs)
  BY <1>2, FlattenTyped
<1>8. FlattenSeq(Append(parts, part)) = FlattenSeq(parts) \o part
  BY <1>2, FlattenAppend
<1>9. QED
  BY <1>3, <1>4, <1>6, <1>7, <1>8

\* All of these are blobs of transaction c.
AllOf(blobs, c) == \A j \in 1..Len(blobs) : blobs[j].tx = c

\* A list goes on with the blobs of transaction c.
LEMMA OfTxJoin ==
  ASSUME NEW s \in Seq(BlobRefs), NEW c, NEW t \in Seq(BlobRefs), AllOf(t, c), NEW tx
  PROVE  OfTx(s \o t, tx) = OfTx(s, tx) \o (IF c = tx THEN t ELSE <<>>)
<1> DEFINE Start(m) == SubSeq(t, 1, m)
           Goes(m) == OfTx(s \o Start(m), tx) = OfTx(s, tx) \o (IF c = tx THEN Start(m) ELSE <<>>)
           N == {m \in Nat : m <= Len(t) => Goes(m)}
<1>0. OfTx(s, tx) \in Seq(BlobRefs)
  <2>1. CASE BlobRefs = {}
    <3>1. s = <<>>
      BY <2>1
    <3>2. QED
      BY <3>1 DEF OfTx, FlattenSeq
  <2>2. CASE BlobRefs # {}
    BY <2>2, OfTxAppend
  <2>3. QED
    BY <2>1, <2>2
<1>1. 0 \in N
  <2>1. Start(0) = <<>>
    OBVIOUS
  <2>2. s \o <<>> = s /\ OfTx(s, tx) \o <<>> = OfTx(s, tx)
    BY <1>0
  <2>3. Goes(0)
    BY <2>1, <2>2
  <2> HIDE DEF Goes
  <2>4. QED
    BY <2>3
<1>2. ASSUME NEW m \in Nat, m \in N, m + 1 <= Len(t)
      PROVE  Goes(m + 1)
  <2>1. Goes(m)
    <3> HIDE DEF Goes
    <3>1. QED
      BY <1>2
  <2>2. t[m + 1] \in BlobRefs /\ t[m + 1].tx = c
    BY <1>2 DEF AllOf
  <2>3. Start(m) \in Seq(BlobRefs) /\ Start(m + 1) = Start(m) \o <<t[m + 1]>>
    <3>1. \A j \in 1..m : t[j] \in BlobRefs
      BY <1>2
    <3>2. SubSeq(t, 1, m) \in Seq(BlobRefs)
      BY <3>1, SubSeqProperties
    <3>3. SubSeq(t, 1, m + 1) = SubSeq(t, 1, (m + 1) - 1) \o <<t[m + 1]>>
      <4>1. 1 \in 1..Len(t) /\ m + 1 \in 1..Len(t)
        BY <1>2
      <4>2. QED
        BY <4>1, SubSeqRecursiveSecond
    <3>4. (m + 1) - 1 = m
      OBVIOUS
    <3>5. QED
      BY <3>2, <3>3, <3>4
  <2> HIDE DEF Start
  <2>4. PICK e \in BlobRefs : e = t[m + 1]
    BY <2>2
  <2>5. <<e>> \in Seq(BlobRefs) /\ <<>> \in Seq(BlobRefs)
    OBVIOUS
  <2>6. s \o Start(m) \in Seq(BlobRefs)
    BY <2>3
  <2>7. s \o Start(m + 1) = Append(s \o Start(m), e)
    <3>1. s \o (Start(m) \o <<e>>) = (s \o Start(m)) \o <<e>>
      BY <2>3, <2>5, ConcatAssociative, SMTT(30)
    <3>2. Append(s \o Start(m), e) = (s \o Start(m)) \o <<e>>
      BY <2>6, AppendIsConcat
    <3>3. QED
      BY <2>3, <2>4, <3>1, <3>2
  <2>8. OfTx(s \o Start(m + 1), tx) = OfTx(s \o Start(m), tx) \o IfOf(e, tx)
    BY <2>6, <2>7, OfTxAppend
  <2>9. CASE c = tx
    <3>1. IfOf(e, tx) = <<e>>
      BY <2>2, <2>4, <2>9 DEF IfOf
    <3>2. (OfTx(s, tx) \o Start(m)) \o <<e>> = OfTx(s, tx) \o (Start(m) \o <<e>>)
      <4>1. PICK before \in Seq(BlobRefs) : before = OfTx(s, tx)
        BY <1>0
      <4>2. PICK start \in Seq(BlobRefs) : start = Start(m)
        BY <2>3
      <4>3. (before \o start) \o <<e>> = before \o (start \o <<e>>)
        BY <2>5, ConcatAssociative, SMTT(30)
      <4>4. QED
        BY <4>1, <4>2, <4>3
    <3>3. QED
      BY <2>1, <2>3, <2>4, <2>8, <2>9, <3>1, <3>2
  <2>10. CASE c # tx
    <3>1. IfOf(e, tx) = <<>>
      BY <2>2, <2>4, <2>10 DEF IfOf
    <3>2. (OfTx(s, tx) \o <<>>) \o <<>> = OfTx(s, tx) \o <<>>
      BY <1>0
    <3>3. QED
      BY <2>1, <2>8, <2>10, <3>1, <3>2
  <2>11. QED
    BY <2>9, <2>10
<1>3. Len(t) \in N
  <2>1. ASSUME NEW m \in Nat, m \in N
        PROVE  m + 1 \in N
    <3> HIDE DEF Goes
    <3>1. QED
      BY <1>2, <2>1
  <2> HIDE DEF N
  <2>2. QED
    BY <1>1, <2>1, Induct
<1>4. Start(Len(t)) = t
  BY SubSeqFull
<1>5. Goes(Len(t))
  <2> HIDE DEF Goes
  <2>1. QED
    BY <1>3
<1>6. QED
  BY <1>4, <1>5

\* What L1 says the blobs of a transaction are.
LEMMA HashesTyped ==
  ASSUME NEW txs \in Seq(Seq(Commitments)), NEW k \in 1..Len(txs)
  PROVE  /\ HashesAt(txs, k) \in Seq(BlobRefs)
         /\ Len(HashesAt(txs, k)) = Len(txs[k])
         /\ \A i \in 1..Len(HashesAt(txs, k)) :
              HashesAt(txs, k)[i] = [tx |-> k - 1, index |-> i - 1, hash |-> txs[k][i]]
<1>1. PICK hs \in Seq(Commitments) : hs = txs[k]
  BY ElementOfSeq
<1>2. k - 1 \in Nat
  OBVIOUS
<1>3. \A i \in 1..Len(hs) : [tx |-> k - 1, index |-> i - 1, hash |-> hs[i]] \in BlobRefs
  BY <1>2 DEF BlobRefs
<1>4. HashesAt(txs, k) = [i \in 1..Len(hs) |-> [tx |-> k - 1, index |-> i - 1, hash |-> hs[i]]]
  BY <1>1 DEF HashesAt
<1>5. QED
  BY <1>1, <1>3, <1>4

\* The blobs of a block are a list of blobs, and picking those of a transaction
\* out of it gives what the transaction has, nothing if it is not there.
LEMMA TxBlobsAre ==
  ASSUME NEW txs \in Seq(Seq(Commitments)), NEW tx \in Nat
  PROVE  /\ BlobRefsOf(txs) \in Seq(BlobRefs)
         /\ OfTx(BlobRefsOf(txs), tx) = IF tx + 1 \in 1..Len(txs) THEN HashesAt(txs, tx + 1) ELSE <<>>
<1>0. PICK parts : parts = [k \in 1..Len(txs) |-> HashesAt(txs, k)]
  OBVIOUS
<1> DEFINE Picks(n) == /\ UpTo(parts, n) \in Seq(BlobRefs)
                       /\ OfTx(UpTo(parts, n), tx) = IF tx + 1 \in 1..n THEN parts[tx + 1] ELSE <<>>
           N == {n \in Nat : n <= Len(txs) => Picks(n)}
<1>1. \A k \in 1..Len(txs) : parts[k] = HashesAt(txs, k) /\ parts[k] \in Seq(BlobRefs)
  BY <1>0, HashesTyped
<1>2. 0 \in N
  <2>1. UpTo(parts, 0) = <<>>
    BY UpToNone
  <2>2. OfTx(<<>>, tx) = <<>>
    BY DEF OfTx, FlattenSeq
  <2>3. Picks(0)
    <3>1. tx + 1 \notin 1..0 /\ <<>> \in Seq(BlobRefs)
      OBVIOUS
    <3>2. QED
      BY <2>1, <2>2, <3>1
  <2> HIDE DEF Picks
  <2>4. QED
    BY <2>3
<1>3. ASSUME NEW n \in Nat, n + 1 <= Len(txs), Picks(n)
      PROVE  Picks(n + 1)
  <2>1. PartsOf(parts, n + 1, BlobRefs)
    BY <1>1, <1>3 DEF PartsOf
  <2>2. UpTo(parts, n + 1) = UpTo(parts, n) \o parts[n + 1]
    BY <2>1, UpToStep
  <2>3. n + 1 \in 1..Len(txs)
    BY <1>3
  <2>4. PICK t \in Seq(BlobRefs) : t = parts[n + 1] /\ t = HashesAt(txs, n + 1)
    BY <1>1, <2>3
  <2>5. PICK s \in Seq(BlobRefs) : s = UpTo(parts, n)
    BY <1>3
  <2>6. AllOf(t, n)
    <3>1. \A j \in 1..Len(t) : t[j] = [tx |-> (n + 1) - 1, index |-> j - 1, hash |-> txs[n + 1][j]]
      BY <2>3, <2>4, HashesTyped
    <3>2. (n + 1) - 1 = n
      OBVIOUS
    <3>3. ASSUME NEW j \in 1..Len(t)
          PROVE  t[j].tx = n
      <4>1. t[j] = [tx |-> n, index |-> j - 1, hash |-> txs[n + 1][j]]
        BY <3>1, <3>2, Zenon
      <4>2. QED
        BY <4>1
    <3>4. QED
      BY <3>3 DEF AllOf
  <2>7. OfTx(s \o t, tx) = OfTx(s, tx) \o (IF n = tx THEN t ELSE <<>>)
    BY <2>6, OfTxJoin
  <2>8. UpTo(parts, n + 1) = s \o t /\ s \o t \in Seq(BlobRefs)
    BY <2>2, <2>4, <2>5
  <2>9. CASE n = tx
    <3>1. ~(tx + 1 \in 1..n) /\ tx + 1 \in 1..(n + 1)
      BY <2>9
    <3>2. OfTx(s, tx) = <<>>
      BY <1>3, <2>5, <3>1
    <3>3. OfTx(s \o t, tx) = <<>> \o t
      BY <2>7, <2>9, <3>2
    <3>4. <<>> \o t = t
      BY ConcatEmptySeq
    <3>5. QED
      BY <2>4, <2>8, <2>9, <3>1, <3>3, <3>4
  <2>10. CASE n # tx
    <3>1. tx + 1 \in 1..n <=> tx + 1 \in 1..(n + 1)
      BY <2>10
    <3>2. PICK o : o = IF tx + 1 \in 1..n THEN parts[tx + 1] ELSE <<>>
      OBVIOUS
    <3>3. o \in Seq(BlobRefs)
      <4>1. CASE tx + 1 \in 1..n
        <5>1. tx + 1 \in 1..Len(txs)
          BY <1>3, <4>1
        <5>2. QED
          BY <1>1, <3>2, <4>1, <5>1
      <4>2. CASE tx + 1 \notin 1..n
        BY <3>2, <4>2
      <4>3. QED
        BY <4>1, <4>2
    <3>4. OfTx(s \o t, tx) = o \o <<>>
      BY <1>3, <2>5, <2>7, <2>10, <3>2
    <3>5. o \o <<>> = o
      BY <3>3, ConcatEmptySeq
    <3>6. OfTx(UpTo(parts, n + 1), tx) = IF tx + 1 \in 1..(n + 1) THEN parts[tx + 1] ELSE <<>>
      BY <2>8, <3>1, <3>2, <3>4, <3>5
    <3>7. QED
      BY <2>8, <3>6
  <2>11. QED
    BY <2>9, <2>10
<1>4. Len(txs) \in N
  <2>1. ASSUME NEW n \in Nat, n \in N
        PROVE  n + 1 \in N
    <3>1. n + 1 <= Len(txs) => Picks(n)
      <4> HIDE DEF Picks
      <4>1. QED
        BY <2>1
    <3> HIDE DEF Picks
    <3>2. QED
      BY <1>3, <3>1
  <2> HIDE DEF N
  <2>2. QED
    BY <1>2, <2>1, Induct, SMTT(30)
<1>5. Picks(Len(txs))
  <2> HIDE DEF Picks
  <2>1. QED
    BY <1>4
<1>6. BlobRefsOf(txs) = UpTo(parts, Len(txs))
  <2>1. [k \in 1..Len(txs) |-> parts[k]] = [k \in DOMAIN txs |-> HashesAt(txs, k)]
    BY <1>1
  <2>2. QED
    BY <2>1 DEF BlobRefsOf, UpTo
<1>7. tx + 1 \in 1..Len(txs) => parts[tx + 1] = HashesAt(txs, tx + 1)
  BY <1>1
<1>8. QED
  BY <1>5, <1>6, <1>7

-----------------------------------------------------------------------------
(* The inductive invariant.                                                *)

\* Where the call is: a block is only asked for when it is not known yet, the
\* blocks of the references behind are known, and nothing is left at the end.
PlaceInv ==
  /\ pc = "sidecars" => next <= Len(refs) /\ refs[next].block \notin Fetched
  /\ pc \in {"start", "fetch", "sidecars"} => bundles = <<>>
  /\ pc = "start" => next = 1
  /\ pc \in {"fetch", "sidecars"} => \A k \in 1..(next - 1) : refs[k].block \in Fetched
  /\ pc \in {"walk", "verify", "ok"} => \A k \in DOMAIN refs : refs[k].block \in Fetched
  /\ pc \in {"verify", "ok"} => next = Len(refs) + 1

\* What the bundles say of L1, without the bytes.
Entry(bundle) == <<bundle.block, bundle.tx, bundle.index, bundle.hash>>

\* What the references up to this one stand for.
Parts == [k \in DOMAIN refs |-> Referenced(refs[k])]

\* The bundles are those of the references walked, each with its blobs.
FollowInv ==
  pc \in {"walk", "verify", "ok"} =>
    /\ [i \in DOMAIN bundles |-> Entry(bundles[i])] = UpTo(Parts, next - 1)
    /\ \A k \in 1..(next - 1) : /\ refs[k].tx + 1 \in DOMAIN block_data[refs[k].block].txs
                                /\ block_data[refs[k].block].txs[refs[k].tx + 1] # <<>>

\* Every bundle's commitment is the one L1 knows, and its bytes wait in its
\* block's batch to be verified, until they are.
CommitInv ==
  \A i \in DOMAIN bundles :
    /\ bundles[i].commitment = bundles[i].hash
    /\ VerifyKzg => \E j \in DOMAIN kzg_buffer[bundles[i].block] :
         /\ kzg_buffer[bundles[i].block][j].commitment = bundles[i].commitment
         /\ kzg_buffer[bundles[i].block][j].blob = bundles[i].raw

-----------------------------------------------------------------------------
(* One reference.                                                          *)

\* The bundles that the blobs of block b give with their sidecars.
NewBundles(b, blobs, matched) ==
  [i \in 1..Len(blobs) |->
     [block |-> b, tx |-> blobs[i].tx, index |-> blobs[i].index, hash |-> blobs[i].hash,
      commitment |-> matched[i].commitment, raw |-> matched[i].blob]]

\* The blobs of transaction tx with these hashes.
BlobsOf(tx, hs) == [i \in 1..Len(hs) |-> [tx |-> tx, index |-> i - 1, hash |-> hs[i]]]

\* These are its bundles.
AreNew(new, b, tx, hs, matched) ==
  /\ new \in Seq(Bundles) /\ Len(new) = Len(hs)
  /\ \A i \in 1..Len(hs) :
       new[i] = [block |-> b, tx |-> tx, index |-> i - 1, hash |-> hs[i],
                 commitment |-> matched[i].commitment, raw |-> matched[i].blob]

\* The references are of blocks and transactions.
LEMMA RefTyped ==
  ASSUME BlobSyncAssumption, TypeOK
  PROVE  /\ refs \in Seq([block : Blocks, tx : Nat]) /\ Len(refs) \in Nat
         /\ next \in 1..(Len(refs) + 1)
         /\ \A k \in 1..Len(refs) : refs[k].block \in Blocks /\ refs[k].tx \in Nat
<1>1. /\ refs \in Seq([block : Blocks, tx : Nat]) /\ Len(refs) \in Nat
      /\ next \in 1..(Len(refs) + 1)
  <2> DEFINE R == [block : Blocks, tx : Nat]
  <2>1. refs \in Seq(R) /\ next \in 1..(Len(refs) + 1)
    BY DEF BlobSyncAssumption, TypeOK
  <2> HIDE DEF R
  <2>2. Len(refs) \in Nat
    BY <2>1
  <2>3. QED
    BY <2>1, <2>2 DEF R
<1>2. \A k \in 1..Len(refs) : refs[k] \in [block : Blocks, tx : Nat]
  BY <1>1, ElementOfSeq
<1>3. QED
  BY <1>1, <1>2

\* The data of a known block.
LEMMA KnownTyped ==
  ASSUME BlobSyncAssumption, TypeOK, NEW b \in Fetched
  PROVE  block_data[b].txs \in Seq(Seq(Commitments)) /\ block_data[b].sidecars \in Seq(Sidecars)
<1>1. block_data[b] \in [txs : TxLists, sidecars : SidecarLists]
  BY DEF TypeOK
<1>2. block_data[b].txs \in TxLists /\ block_data[b].sidecars \in SidecarLists
  BY <1>1
<1>3. QED
  BY <1>2 DEF BlobSyncAssumption

\* The sidecar that is found has the commitment.
LEMMA Found ==
  ASSUME BlobSyncAssumption, TypeOK, NEW b \in Fetched, NEW blob, SidecarIndex(b, blob.hash) # 0
  PROVE  MatchedSidecar(b, blob) \in Sidecars /\ MatchedSidecar(b, blob).commitment = blob.hash
<1>1. PICK sidecars \in Seq(Sidecars) : sidecars = block_data[b].sidecars
  BY KnownTyped
<1> DEFINE I == {k \in 1..Len(sidecars) : sidecars[k].commitment = blob.hash}
<1>2. SidecarIndex(b, blob.hash) = IF I # {} THEN Min(I) ELSE 0
  BY <1>1 DEF SidecarIndex, SelectInSeq
<1>3. I \subseteq Nat /\ I # {}
  BY <1>2
<1>4. Min(I) \in I
  <2> HIDE DEF I
  <2>1. QED
    BY <1>3, MinIsLeast
<1>5. MatchedSidecar(b, blob) = sidecars[Min(I)]
  <2> HIDE DEF I
  <2>1. QED
    BY <1>1, <1>2, <1>3 DEF MatchedSidecar
<1>6. PICK k \in I : MatchedSidecar(b, blob) = sidecars[k]
  BY <1>4, <1>5
<1>7. sidecars[k] \in Sidecars /\ sidecars[k].commitment = blob.hash
  BY <1>6
<1>8. QED
  BY <1>6, <1>7

\* What a reference contributes when it is not refused.
LEMMA Walked ==
  ASSUME BlobSyncAssumption, TypeOK, PlaceInv, Walk, pc' # "err"
  PROVE  \E b \in Blocks : \E tx \in Nat : \E hs \in Seq(Commitments) : \E matched \in Seq(Sidecars) :
           /\ b = refs[next].block /\ b \in Fetched /\ tx = refs[next].tx
           /\ tx + 1 \in DOMAIN block_data[b].txs /\ hs = block_data[b].txs[tx + 1] /\ hs # <<>>
           /\ Len(matched) = Len(hs) /\ \A i \in 1..Len(hs) : matched[i].commitment = hs[i]
           /\ bundles' = bundles \o NewBundles(b, BlobsOf(tx, hs), matched)
           /\ kzg_buffer' = IF VerifyKzg THEN [kzg_buffer EXCEPT ![b] = @ \o matched]
                                         ELSE kzg_buffer
<1>1. pc = "walk" /\ next \in 1..Len(refs)
  <2>1. pc = "walk" /\ next <= Len(refs)
    BY DEF Walk
  <2>2. next \in 1..(Len(refs) + 1) /\ Len(refs) \in Nat
    BY RefTyped
  <2>3. QED
    BY <2>1, <2>2
<1>2. PICK b \in Blocks, tx \in Nat : b = refs[next].block /\ tx = refs[next].tx
  BY <1>1, RefTyped
<1>3. b \in Fetched
  BY <1>1, <1>2, RefTyped DEF PlaceInv
<1>4. PICK txs \in Seq(Seq(Commitments)) : txs = block_data[b].txs
  BY <1>3, KnownTyped
<1>5. PICK blobs : blobs = TxBlobs(b, tx)
  OBVIOUS
<1>6. blobs = IF tx + 1 \in 1..Len(txs) THEN HashesAt(txs, tx + 1) ELSE <<>>
  <2>1. blobs = OfTx(BlobRefsOf(txs), tx)
    BY <1>4, <1>5 DEF TxBlobs, OfTx, IfOf
  <2>2. QED
    BY <2>1, TxBlobsAre
<1>7. PICK matched : matched = [i \in DOMAIN blobs |-> MatchedSidecar(b, blobs[i])]
  OBVIOUS
<1>8. /\ blobs # <<>> /\ \A i \in DOMAIN blobs : SidecarIndex(b, blobs[i].hash) # 0
      /\ bundles' = bundles \o
           [i \in DOMAIN blobs |->
              [block |-> b, tx |-> blobs[i].tx, index |-> blobs[i].index, hash |-> blobs[i].hash,
               commitment |-> matched[i].commitment, raw |-> matched[i].blob]]
      /\ kzg_buffer' = IF VerifyKzg THEN [kzg_buffer EXCEPT ![b] = @ \o matched] ELSE kzg_buffer
  BY <1>2, <1>5, <1>7 DEF Walk
<1>9. tx + 1 \in 1..Len(txs) /\ blobs = HashesAt(txs, tx + 1)
  BY <1>6, <1>8
<1>10. PICK hs \in Seq(Commitments) : hs = txs[tx + 1]
  BY <1>9, ElementOfSeq
<1>11. blobs = [i \in 1..Len(hs) |-> [tx |-> tx, index |-> i - 1, hash |-> hs[i]]] /\ hs # <<>>
  <2>1. (tx + 1) - 1 = tx /\ DOMAIN hs = 1..Len(hs)
    OBVIOUS
  <2>2. blobs = [i \in 1..Len(hs) |-> [tx |-> tx, index |-> i - 1, hash |-> hs[i]]]
    BY <1>9, <1>10, <2>1 DEF HashesAt
  <2>3. hs # <<>>
    <3>1. hs = <<>> => blobs = <<>>
      BY <2>2
    <3>2. QED
      BY <1>8, <3>1
  <2>4. QED
    BY <2>2, <2>3
<1>12. DOMAIN blobs = 1..Len(hs) /\ Len(blobs) = Len(hs) /\ \A i \in 1..Len(hs) : blobs[i].hash = hs[i]
  BY <1>11
<1>13. ASSUME NEW i \in 1..Len(hs)
       PROVE  MatchedSidecar(b, blobs[i]) \in Sidecars
              /\ MatchedSidecar(b, blobs[i]).commitment = hs[i]
  BY <1>3, <1>8, <1>12, Found
<1>14. matched \in Seq(Sidecars) /\ Len(matched) = Len(hs)
       /\ \A i \in 1..Len(hs) : matched[i].commitment = hs[i]
  BY <1>7, <1>12, <1>13
<1>15. bundles' = bundles \o NewBundles(b, blobs, matched)
  BY <1>8, <1>12 DEF NewBundles
<1>16. tx + 1 \in DOMAIN block_data[b].txs
  BY <1>4, <1>9
<1>17. blobs = BlobsOf(tx, hs)
  BY <1>11 DEF BlobsOf
<1>18. /\ b = refs[next].block /\ b \in Fetched /\ tx = refs[next].tx
       /\ tx + 1 \in DOMAIN block_data[b].txs /\ hs = block_data[b].txs[tx + 1] /\ hs # <<>>
       /\ Len(matched) = Len(hs) /\ \A i \in 1..Len(hs) : matched[i].commitment = hs[i]
       /\ bundles' = bundles \o NewBundles(b, BlobsOf(tx, hs), matched)
       /\ kzg_buffer' = IF VerifyKzg THEN [kzg_buffer EXCEPT ![b] = @ \o matched]
                                     ELSE kzg_buffer
  <2>1. hs = block_data[b].txs[tx + 1] /\ hs # <<>>
    BY <1>4, <1>10, <1>11
  <2>2. bundles' = bundles \o NewBundles(b, BlobsOf(tx, hs), matched)
    BY <1>15, <1>17
  <2>3. QED
    BY <1>2, <1>3, <1>8, <1>14, <1>16, <2>1, <2>2
<1>19. matched \in Seq(Sidecars)
  BY <1>14
<1>20. QED
  BY <1>18, <1>19, Zenon

-----------------------------------------------------------------------------
(* Types and places.                                                       *)

\* The bundles of a reference are bundles.
LEMMA NewTyped ==
  ASSUME NEW b \in Blocks, NEW tx \in Nat, NEW hs \in Seq(Commitments),
         NEW matched \in Seq(Sidecars), Len(matched) = Len(hs)
  PROVE  AreNew(NewBundles(b, BlobsOf(tx, hs), matched), b, tx, hs, matched)
<1> DEFINE new(i) == [block |-> b, tx |-> tx, index |-> i - 1, hash |-> hs[i],
                      commitment |-> matched[i].commitment, raw |-> matched[i].blob]
<1>1. ASSUME NEW i \in 1..Len(hs)
      PROVE  new(i) \in Bundles
  <2>1. matched[i] \in Sidecars
    BY ElementOfSeq
  <2>2. matched[i].commitment \in Commitments /\ matched[i].blob \in Commitments
    BY <2>1 DEF Sidecars
  <2>3. hs[i] \in Commitments /\ i - 1 \in Nat
    OBVIOUS
  <2>4. QED
    BY <2>2, <2>3 DEF Bundles
<1>2. PICK made : made = NewBundles(b, BlobsOf(tx, hs), matched)
  OBVIOUS
<1>3. made = [i \in 1..Len(hs) |-> new(i)]
  <2>1. Len(BlobsOf(tx, hs)) = Len(hs)
    BY DEF BlobsOf
  <2>2. QED
    BY <1>2, <2>1 DEF NewBundles, BlobsOf
<1>4. [i \in 1..Len(hs) |-> new(i)] \in Seq(Bundles)
  <2> HIDE DEF new
  <2>1. QED
    BY <1>1
<1>5. QED
  <2>1. \A i \in 1..Len(hs) : made[i] = new(i)
    BY <1>3
  <2>2. Len(made) = Len(hs) /\ made \in Seq(Bundles)
    <3> HIDE DEF new
    <3>1. QED
      BY <1>3, <1>4
  <2>3. QED
    BY <1>2, <2>1, <2>2 DEF AreNew

\* The initial states.
LEMMA InitTypePlace ==
  ASSUME BlobSyncAssumption, Init
  PROVE  TypeOK /\ PlaceInv
<1>1. refs \in Seq([block : Blocks, tx : Nat])
  BY DEF Init, BlobSyncAssumption
<1>2. next \in 1..(Len(refs) + 1)
  BY <1>1 DEF Init
<1>3. pending \in Seq(TxLists) /\ Len(pending) = 0 /\ bundles \in Seq(Bundles)
  BY DEF Init
<1>4. kzg_buffer \in [Blocks -> Seq(Sidecars)]
  BY DEF Init
<1>5. Fetched = {}
  BY DEF Init, Fetched
<1>6. TypeOK
  BY <1>2, <1>3, <1>4, <1>5 DEF Init, TypeOK
<1>7. PlaceInv
  BY DEF Init, PlaceInv
<1>8. QED
  BY <1>6, <1>7

\* Every step keeps the types.
LEMMA TypeStep ==
  ASSUME BlobSyncAssumption, TypeOK, PlaceInv, [Next]_vars
  PROVE  TypeOK'
<1>0. /\ pc \in {"start", "fetch", "sidecars", "walk", "verify", "ok", "err"}
      /\ refs \in RefLists /\ Len(refs) \in Nat
      /\ next \in 1..(Len(refs) + 1)
      /\ pending \in Seq(TxLists) /\ Len(pending) = (IF pc = "sidecars" THEN 1 ELSE 0)
      /\ Fetched \subseteq Blocks
      /\ \A b \in Fetched : block_data[b] \in [txs : TxLists, sidecars : SidecarLists]
      /\ kzg_buffer \in [Blocks -> Seq(Sidecars)]
      /\ bundles \in Seq(Bundles)
  BY RefTyped DEF TypeOK
<1>1. CASE NothingAsked \/ Bootstrap
  BY <1>0, <1>1 DEF NothingAsked, Bootstrap, TypeOK, Fetched
<1>2. CASE KnownBlock
  <2>1. next' \in 1..(Len(refs) + 1)
    BY <1>0, <1>2 DEF KnownBlock
  <2>2. QED
    BY <1>0, <1>2, <2>1 DEF KnownBlock, TypeOK, Fetched
<1>3. ASSUME NEW txs \in TxLists, AnswerBlock(txs)
      PROVE  TypeOK'
  <2>1. <<txs>> \in Seq(TxLists) /\ Len(<<txs>>) = 1
    OBVIOUS
  <2>2. pc = "fetch" /\ pc' \in {"err", "sidecars"}
    BY <1>3 DEF AnswerBlock, AsksL1
  <2>3. pending' \in Seq(TxLists) /\ Len(pending') = (IF pc' = "sidecars" THEN 1 ELSE 0)
    BY <1>0, <1>3, <2>1, <2>2 DEF AnswerBlock
  <2>4. QED
    BY <1>0, <1>3, <2>2, <2>3 DEF AnswerBlock, TypeOK, Fetched
<1>4. ASSUME NEW sidecars \in SidecarLists, AnswerSidecars(sidecars)
      PROVE  TypeOK'
  <2>1. pc = "sidecars" /\ next <= Len(refs) /\ pending[1] \in TxLists
    <3>1. pc = "sidecars"
      BY <1>4 DEF AnswerSidecars
    <3>2. next <= Len(refs)
      BY <3>1 DEF PlaceInv
    <3>3. pending \in Seq(TxLists) /\ Len(pending) = 1
      BY <1>0, <3>1
    <3>4. 1 \in 1..Len(pending)
      BY <3>3
    <3>5. pending[1] \in TxLists
      BY <3>3, <3>4, ElementOfSeq
    <3>6. QED
      BY <3>1, <3>2, <3>5
  <2>2. /\ pending' = <<>> /\ UNCHANGED <<refs, kzg_buffer, bundles>>
        /\ pending' \in Seq(TxLists) /\ Len(pending') = 0
    BY <1>4 DEF AnswerSidecars
  <2>3. CASE sidecars = <<>>
    <3>1. pc' = "err" /\ UNCHANGED <<next, block_data>>
      BY <1>4, <2>3 DEF AnswerSidecars
    <3>2. QED
      BY <1>0, <2>2, <3>1 DEF TypeOK, Fetched
  <2>4. CASE sidecars # <<>>
    <3>1. PICK b \in Blocks : b = refs[next].block
      <4>1. next \in 1..Len(refs)
        BY <1>0, <2>1
      <4>2. QED
        BY <4>1, RefTyped
    <3>2. pc' = "fetch" /\ next' = next + 1
          /\ block_data' = [c \in Fetched \cup {b} |->
                              IF c = b THEN [txs |-> pending[1], sidecars |-> sidecars]
                                       ELSE block_data[c]]
      BY <1>4, <2>4, <3>1 DEF AnswerSidecars
    <3>3. next' \in 1..(Len(refs) + 1)
      BY <1>0, <2>1, <3>2
    <3>4. Fetched' = Fetched \cup {b}
      BY <3>2 DEF Fetched
    <3>5. [txs |-> pending[1], sidecars |-> sidecars] \in [txs : TxLists, sidecars : SidecarLists]
      BY <2>1
    <3>6. ASSUME NEW c \in Fetched'
          PROVE  block_data'[c] \in [txs : TxLists, sidecars : SidecarLists]
      <4> DEFINE D == [txs : TxLists, sidecars : SidecarLists]
                 d == [txs |-> pending[1], sidecars |-> sidecars]
      <4>1. d \in D /\ \A x \in Fetched : block_data[x] \in D
        BY <1>0, <3>5
      <4>2. block_data'[c] = IF c = b THEN d ELSE block_data[c]
        BY <3>2, <3>4
      <4> HIDE DEF D, d
      <4>3. block_data'[c] \in D
        BY <3>4, <4>1, <4>2
      <4>4. QED
        BY <4>3 DEF D
    <3>7. pc' = "fetch" /\ Len(pending') = (IF pc' = "sidecars" THEN 1 ELSE 0)
      BY <2>2, <3>2
    <3>8. refs' \in RefLists /\ next' \in 1..(Len(refs') + 1) /\ pending' \in Seq(TxLists)
      BY <1>0, <2>2, <3>3
    <3>9. Fetched' \subseteq Blocks
      BY <1>0, <3>4
    <3>10. kzg_buffer' \in [Blocks -> Seq(Sidecars)] /\ bundles' \in Seq(Bundles)
      BY <1>0, <2>2
    <3>11. QED
      BY <3>6, <3>7, <3>8, <3>9, <3>10 DEF TypeOK
  <2>5. QED
    BY <2>3, <2>4
<1>5. CASE RequestFails
  <2>1. <<>> \in Seq(TxLists) /\ Len(<<>>) = 0
    OBVIOUS
  <2>2. pending' = <<>> /\ pc' = "err"
    BY <1>5 DEF RequestFails
  <2>3. QED
    BY <1>0, <1>5, <2>1, <2>2 DEF RequestFails, TypeOK, Fetched
<1>6. CASE AllFetched
  <2>1. next' \in 1..(Len(refs) + 1)
    BY <1>0, <1>6 DEF AllFetched
  <2>2. QED
    BY <1>0, <1>6, <2>1 DEF AllFetched, TypeOK, Fetched
<1>7. ASSUME Walk
      PROVE  TypeOK'
  <2>1. /\ pc = "walk" /\ next <= Len(refs) /\ pc' \in {"walk", "err"}
        /\ UNCHANGED <<refs, pending, block_data>>
        /\ pc' = "err" => UNCHANGED <<next, kzg_buffer, bundles>>
        /\ pc' # "err" => next' = next + 1
    BY <1>7 DEF Walk
  <2>2. CASE pc' = "err"
    BY <1>0, <2>1, <2>2 DEF TypeOK, Fetched
  <2>3. CASE pc' # "err"
    <3>1. PICK b \in Blocks, tx \in Nat, hs \in Seq(Commitments), matched \in Seq(Sidecars) :
            /\ Len(matched) = Len(hs)
            /\ bundles' = bundles \o NewBundles(b, BlobsOf(tx, hs), matched)
            /\ kzg_buffer' = IF VerifyKzg THEN [kzg_buffer EXCEPT ![b] = @ \o matched]
                                          ELSE kzg_buffer
      BY <1>7, <2>3, Walked
    <3>2. PICK new : new = NewBundles(b, BlobsOf(tx, hs), matched)
      OBVIOUS
    <3>3. new \in Seq(Bundles)
      BY <3>1, <3>2, NewTyped DEF AreNew
    <3>4. bundles' \in Seq(Bundles)
      BY <1>0, <3>1, <3>2, <3>3, ConcatProperties
    <3>5. kzg_buffer' \in [Blocks -> Seq(Sidecars)]
      <4>1. kzg_buffer[b] \o matched \in Seq(Sidecars)
        BY <1>0
      <4>2. QED
        BY <1>0, <3>1, <4>1
    <3>6. next' \in 1..(Len(refs) + 1)
      BY <1>0, <2>1, <2>3
    <3>7. QED
      BY <1>0, <2>1, <2>3, <3>4, <3>5, <3>6 DEF TypeOK, Fetched
  <2>4. QED
    BY <2>2, <2>3
<1>8. CASE AllWalked \/ Verify
  BY <1>0, <1>8 DEF AllWalked, Verify, TypeOK, Fetched
<1>9. CASE UNCHANGED vars
  BY <1>0, <1>9 DEF vars, TypeOK, Fetched
<1>10. QED
  BY <1>1, <1>2, <1>3, <1>4, <1>5, <1>6, <1>7, <1>8, <1>9 DEF Next

\* A step only adds to what is known of blocks, and changes nothing of it.
LEMMA KnownStays ==
  ASSUME BlobSyncAssumption, TypeOK, PlaceInv, [Next]_vars, NEW b \in Fetched
  PROVE  b \in Fetched' /\ block_data'[b] = block_data[b]
<1>1. CASE block_data' = block_data
  BY <1>1 DEF Fetched
<1>2. ASSUME NEW sidecars \in SidecarLists, AnswerSidecars(sidecars), block_data' # block_data
      PROVE  b \in Fetched' /\ block_data'[b] = block_data[b]
  <2>1. refs[next].block \notin Fetched
    BY <1>2 DEF AnswerSidecars, PlaceInv
  <2>2. block_data' = [c \in Fetched \cup {refs[next].block} |->
                         IF c = refs[next].block
                         THEN [txs |-> pending[1], sidecars |-> sidecars]
                         ELSE block_data[c]]
    BY <1>2 DEF AnswerSidecars
  <2>3. b # refs[next].block /\ b \in Fetched \cup {refs[next].block}
    BY <2>1
  <2>4. block_data'[b] = block_data[b]
    BY <2>2, <2>3
  <2>5. Fetched' = Fetched \cup {refs[next].block}
    BY <2>2 DEF Fetched
  <2>6. QED
    BY <2>4, <2>5
<1>3. \/ block_data' = block_data
      \/ \E sidecars \in SidecarLists : AnswerSidecars(sidecars) /\ block_data' # block_data
  BY DEF Next, vars, NothingAsked, Bootstrap, KnownBlock, AnswerBlock, RequestFails, AllFetched,
         Walk, AllWalked, Verify
<1>4. QED
  BY <1>1, <1>2, <1>3

\* Every step keeps the call in its place.
LEMMA PlaceStep ==
  ASSUME BlobSyncAssumption, TypeOK, PlaceInv, [Next]_vars
  PROVE  PlaceInv'
<1>0. /\ Len(refs) \in Nat /\ next \in 1..(Len(refs) + 1) /\ DOMAIN refs = 1..Len(refs)
      /\ \A k \in 1..Len(refs) : refs[k].block \in Blocks
  <2>1. DOMAIN refs = 1..Len(refs)
    BY RefTyped, LenProperties
  <2>2. QED
    BY <2>1, RefTyped
<1>1. CASE NothingAsked
  <2>1. Len(refs) = 0 /\ DOMAIN refs = {}
    BY <1>1 DEF NothingAsked
  <2>2. QED
    BY <1>1, <2>1 DEF NothingAsked, PlaceInv, Fetched
<1>2. CASE Bootstrap
  BY <1>0, <1>2 DEF Bootstrap, PlaceInv, Fetched
<1>3. CASE KnownBlock
  <2>1. /\ pc = "fetch" /\ next' = next + 1 /\ refs[next].block \in Fetched
        /\ UNCHANGED <<pc, refs, pending, block_data, kzg_buffer, bundles>> /\ Fetched' = Fetched
    BY <1>3 DEF KnownBlock, Fetched
  <2>2. \A k \in 1..(next' - 1) : refs[k].block \in Fetched
    <3>1. \A k \in 1..(next' - 1) : k \in 1..(next - 1) \/ k = next
      BY <1>0, <2>1
    <3>2. QED
      BY <2>1, <3>1 DEF PlaceInv
  <2>3. QED
    BY <2>1, <2>2 DEF PlaceInv
<1>4. ASSUME NEW txs \in TxLists, AnswerBlock(txs)
      PROVE  PlaceInv'
  BY <1>0, <1>4 DEF AnswerBlock, AsksL1, PlaceInv, Fetched
<1>5. ASSUME NEW sidecars \in SidecarLists, AnswerSidecars(sidecars)
      PROVE  PlaceInv'
  <2>1. pc = "sidecars" /\ bundles' = bundles /\ refs' = refs /\ bundles = <<>>
    BY <1>5 DEF AnswerSidecars, PlaceInv
  <2>2. CASE sidecars = <<>>
    <3>1. pc' = "err"
      BY <1>5, <2>2 DEF AnswerSidecars
    <3>2. QED
      BY <3>1 DEF PlaceInv
  <2>3. CASE sidecars # <<>>
    <3>1. pc' = "fetch" /\ next' = next + 1
      BY <1>5, <2>3 DEF AnswerSidecars
    <3>2. refs[next].block \in Fetched'
      BY <1>5, <2>3 DEF AnswerSidecars, Fetched
    <3>3. \A k \in 1..(next - 1) : refs[k].block \in Fetched'
      BY <2>1, KnownStays DEF PlaceInv
    <3>4. \A k \in 1..(next' - 1) : k \in 1..(next - 1) \/ k = next
      BY <1>0, <3>1
    <3>5. QED
      BY <2>1, <3>1, <3>2, <3>3, <3>4 DEF PlaceInv
  <2>4. QED
    BY <2>2, <2>3
<1>6. CASE RequestFails
  BY <1>6 DEF RequestFails, PlaceInv
<1>7. CASE AllFetched
  <2>1. pc = "fetch" /\ pc' = "walk" /\ UNCHANGED <<refs, block_data>> /\ Fetched' = Fetched
    BY <1>7 DEF AllFetched, Fetched
  <2>2. next = Len(refs) + 1
    BY <1>0, <1>7 DEF AllFetched
  <2>3. \A k \in DOMAIN refs : k \in 1..(next - 1)
    BY <1>0, <2>2
  <2>4. \A k \in DOMAIN refs : refs[k].block \in Fetched
    BY <2>1, <2>3 DEF PlaceInv
  <2>5. QED
    BY <2>1, <2>4 DEF PlaceInv
<1>8. CASE Walk
  BY <1>0, <1>8 DEF Walk, PlaceInv, Fetched
<1>9. CASE AllWalked
  BY <1>0, <1>9 DEF AllWalked, PlaceInv, Fetched
<1>10. CASE Verify
  BY <1>0, <1>10 DEF Verify, PlaceInv, Fetched
<1>11. CASE UNCHANGED vars
  BY <1>0, <1>11 DEF vars, PlaceInv, Fetched
<1>12. QED
  BY <1>1, <1>2, <1>3, <1>4, <1>5, <1>6, <1>7, <1>8, <1>9, <1>10, <1>11 DEF Next

-----------------------------------------------------------------------------
(* The bundles follow the references.                                      *)

\* What an entry is.
Places == Blocks \X Nat \X Nat \X Commitments

\* The entries of a list of bundles that goes on.
LEMMA EntriesJoin ==
  ASSUME NEW s \in Seq(Bundles), NEW t \in Seq(Bundles)
  PROVE  /\ [i \in DOMAIN s |-> Entry(s[i])] \in Seq(Places)
         /\ [i \in DOMAIN (s \o t) |-> Entry((s \o t)[i])]
              = [i \in DOMAIN s |-> Entry(s[i])] \o [i \in DOMAIN t |-> Entry(t[i])]
<1>1. \A x \in Bundles : Entry(x) \in Places
  BY DEF Bundles, Entry, Places
<1>2. ASSUME NEW u \in Seq(Bundles)
      PROVE  /\ [i \in DOMAIN u |-> Entry(u[i])] \in Seq(Places)
             /\ Len([i \in DOMAIN u |-> Entry(u[i])]) = Len(u)
             /\ DOMAIN u = 1..Len(u) /\ Len(u) \in Nat
  <2>1. DOMAIN u = 1..Len(u) /\ Len(u) \in Nat
    OBVIOUS
  <2>2. \A i \in 1..Len(u) : Entry(u[i]) \in Places
    BY <1>1, ElementOfSeq
  <2>3. QED
    BY <2>1, <2>2
<1>3. PICK st \in Seq(Bundles) : st = s \o t
  BY ConcatProperties
<1>4. /\ Len(st) = Len(s) + Len(t)
      /\ \A i \in 1..(Len(s) + Len(t)) : st[i] = IF i <= Len(s) THEN s[i] ELSE t[i - Len(s)]
  BY <1>3, ConcatProperties
<1>5. PICK es \in Seq(Places) : es = [i \in DOMAIN s |-> Entry(s[i])]
  BY <1>2
<1>6. PICK et \in Seq(Places) : et = [i \in DOMAIN t |-> Entry(t[i])]
  BY <1>2
<1>7. PICK est \in Seq(Places) : est = [i \in DOMAIN st |-> Entry(st[i])]
  BY <1>2
<1>8. Len(es) = Len(s) /\ Len(et) = Len(t) /\ Len(est) = Len(s) + Len(t)
  BY <1>2, <1>4, <1>5, <1>6, <1>7
<1>9. /\ es \o et \in Seq(Places) /\ Len(es \o et) = Len(s) + Len(t)
      /\ \A i \in 1..(Len(s) + Len(t)) : (es \o et)[i] = IF i <= Len(s) THEN es[i] ELSE et[i - Len(s)]
  <2>1. /\ es \o et \in Seq(Places) /\ Len(es \o et) = Len(es) + Len(et)
        /\ \A i \in 1..(Len(es) + Len(et)) :
             (es \o et)[i] = IF i <= Len(es) THEN es[i] ELSE et[i - Len(es)]
    BY ConcatProperties
  <2>2. QED
    BY <1>8, <2>1
<1>10. ASSUME NEW i \in 1..(Len(s) + Len(t))
       PROVE  est[i] = (es \o et)[i]
  <2>1. Len(s) \in Nat /\ Len(t) \in Nat /\ DOMAIN st = 1..(Len(s) + Len(t))
    BY <1>2, <1>4
  <2>2. est[i] = Entry(st[i])
    BY <1>7, <2>1
  <2>3. CASE i <= Len(s)
    <3>1. i \in DOMAIN s
      BY <1>2, <2>1, <2>3
    <3>2. es[i] = Entry(s[i])
      BY <1>5, <3>1
    <3>3. QED
      BY <1>4, <1>9, <2>2, <2>3, <3>2
  <2>4. CASE ~(i <= Len(s))
    <3>1. i - Len(s) \in DOMAIN t
      BY <1>2, <2>1, <2>4
    <3>2. et[i - Len(s)] = Entry(t[i - Len(s)])
      BY <1>6, <3>1
    <3>3. QED
      BY <1>4, <1>9, <2>2, <2>4, <3>2
  <2>5. QED
    BY <2>3, <2>4
<1>11. est = es \o et
  BY <1>8, <1>9, <1>10, SeqEqual
<1>12. QED
  BY <1>3, <1>5, <1>6, <1>7, <1>11

\* What a reference to a known transaction stands for.
LEMMA ReferencedTyped ==
  ASSUME BlobSyncAssumption, TypeOK, NEW ref, ref.block \in Fetched, ref.block \in Blocks,
         ref.tx \in Nat, ref.tx + 1 \in DOMAIN block_data[ref.block].txs
  PROVE  /\ Referenced(ref) \in Seq(Places)
         /\ Len(Referenced(ref)) = Len(block_data[ref.block].txs[ref.tx + 1])
<1>1. PICK txs \in Seq(Seq(Commitments)) : txs = block_data[ref.block].txs
  BY KnownTyped
<1>2. ref.tx + 1 \in 1..Len(txs)
  BY <1>1
<1>3. PICK hs \in Seq(Commitments) : hs = txs[ref.tx + 1]
  BY <1>2, ElementOfSeq
<1>4. DOMAIN hs = 1..Len(hs) /\ \A i \in 1..Len(hs) : i - 1 \in Nat /\ hs[i] \in Commitments
  OBVIOUS
<1>5. \A i \in 1..Len(hs) : <<ref.block, ref.tx, i - 1, hs[i]>> \in Places
  BY <1>4 DEF Places
<1>6. Referenced(ref) = [i \in 1..Len(hs) |-> <<ref.block, ref.tx, i - 1, hs[i]>>]
  BY <1>1, <1>3, <1>4 DEF Referenced
<1>7. QED
  BY <1>1, <1>3, <1>5, <1>6

\* Every step keeps the bundles in the order of the references.
LEMMA FollowStep ==
  ASSUME BlobSyncAssumption, TypeOK, PlaceInv, FollowInv, [Next]_vars
  PROVE  FollowInv'
<1>0. /\ Len(refs) \in Nat /\ next \in 1..(Len(refs) + 1) /\ DOMAIN refs = 1..Len(refs)
      /\ \A k \in 1..Len(refs) : refs[k].block \in Blocks /\ refs[k].tx \in Nat
  <2>1. DOMAIN refs = 1..Len(refs)
    BY RefTyped, LenProperties
  <2>2. QED
    BY <2>1, RefTyped
<1>1. ASSUME UNCHANGED <<refs, block_data, bundles>>, next' = 1, bundles = <<>>
      PROVE  FollowInv'
  <2>1. (UpTo(Parts, next - 1) = <<>>)'
    <3>1. next' - 1 = 0
      BY <1>1
    <3>2. UpTo(Parts', 0) = <<>>
      BY UpToNone
    <3>3. UpTo(Parts', next' - 1) = <<>>
      BY <3>1, <3>2
    <3>4. QED
      BY <3>3
  <2>2. ([i \in DOMAIN bundles |-> Entry(bundles[i])] = <<>>)'
    BY <1>1
  <2>3. \A k \in 1..(next' - 1) : FALSE
    BY <1>1
  <2>4. QED
    BY <2>1, <2>2, <2>3 DEF FollowInv
<1>2. ASSUME UNCHANGED <<refs, next, block_data, bundles>>, pc \in {"walk", "verify", "ok"}
      PROVE  FollowInv'
  <2>1. /\ [i \in DOMAIN bundles |-> Entry(bundles[i])] = UpTo(Parts, next - 1)
        /\ \A k \in 1..(next - 1) : /\ refs[k].tx + 1 \in DOMAIN block_data[refs[k].block].txs
                                    /\ block_data[refs[k].block].txs[refs[k].tx + 1] # <<>>
    BY <1>2 DEF FollowInv
  <2>2. Parts' = Parts
    BY <1>2 DEF Parts, Referenced
  <2>3. ([i \in DOMAIN bundles |-> Entry(bundles[i])] = UpTo(Parts, next - 1))'
    <3>1. next' - 1 = next - 1
      BY <1>2
    <3>2. [i \in DOMAIN bundles' |-> Entry(bundles'[i])] = [i \in DOMAIN bundles |-> Entry(bundles[i])]
      BY <1>2
    <3>3. QED
      BY <2>1, <2>2, <3>1, <3>2
  <2>4. QED
    BY <1>2, <2>1, <2>3 DEF FollowInv
<1>3. CASE NothingAsked
  BY <1>1, <1>3 DEF NothingAsked, PlaceInv
<1>4. CASE AllFetched
  BY <1>1, <1>4 DEF AllFetched, PlaceInv
<1>5. ASSUME Walk
      PROVE  FollowInv'
  <2>1. CASE pc' = "err"
    BY <2>1 DEF FollowInv
  <2>2. CASE pc' # "err"
    <3>1. pc = "walk" /\ next' = next + 1 /\ next <= Len(refs) /\ UNCHANGED <<refs, block_data>>
      BY <1>5, <2>2 DEF Walk
    <3>2. PICK b \in Blocks, tx \in Nat, hs \in Seq(Commitments), matched \in Seq(Sidecars) :
            /\ b = refs[next].block /\ b \in Fetched /\ tx = refs[next].tx
            /\ tx + 1 \in DOMAIN block_data[b].txs /\ hs = block_data[b].txs[tx + 1] /\ hs # <<>>
            /\ Len(matched) = Len(hs)
            /\ bundles' = bundles \o NewBundles(b, BlobsOf(tx, hs), matched)
      BY <1>5, <2>2, Walked, ZenonT(30)
    <3>3. PICK new : new = NewBundles(b, BlobsOf(tx, hs), matched)
      OBVIOUS
    <3>4. AreNew(new, b, tx, hs, matched)
      BY <3>2, <3>3, NewTyped
    <3>5. bundles' = bundles \o new
      BY <3>2, <3>3
    <3>6. Len(new) = Len(hs) /\ \A i \in 1..Len(hs) : Entry(new[i]) = <<b, tx, i - 1, hs[i]>>
      <4>1. ASSUME NEW i \in 1..Len(hs)
            PROVE  Entry(new[i]) = <<b, tx, i - 1, hs[i]>>
        <5>1. new[i] = [block |-> b, tx |-> tx, index |-> i - 1, hash |-> hs[i],
                        commitment |-> matched[i].commitment, raw |-> matched[i].blob]
          BY <3>4 DEF AreNew
        <5>2. new[i].block = b /\ new[i].tx = tx /\ new[i].index = i - 1 /\ new[i].hash = hs[i]
          BY <5>1
        <5>3. QED
          BY <5>2 DEF Entry
      <4>2. QED
        BY <3>4, <4>1 DEF AreNew
    <3>7. [i \in DOMAIN new |-> Entry(new[i])] = Parts[next]
      <4>1. next \in DOMAIN refs
        BY <1>0, <3>1
      <4>2. Parts[next] = [i \in DOMAIN hs |-> <<b, tx, i - 1, hs[i]>>]
        BY <3>2, <4>1 DEF Parts, Referenced
      <4>3. DOMAIN new = 1..Len(hs) /\ DOMAIN hs = 1..Len(hs)
        BY <3>4 DEF AreNew
      <4>4. QED
        BY <3>6, <4>2, <4>3
    <3>8. bundles \in Seq(Bundles) /\ [i \in DOMAIN bundles |-> Entry(bundles[i])] = UpTo(Parts, next - 1)
      BY <3>1 DEF TypeOK, FollowInv
    <3>9. [i \in DOMAIN bundles' |-> Entry(bundles'[i])] = UpTo(Parts, next - 1) \o Parts[next]
      <4>1. new \in Seq(Bundles)
        BY <3>4 DEF AreNew
      <4>2. QED
        BY <3>5, <3>7, <3>8, <4>1, EntriesJoin, ZenonT(30)
    <3>10. /\ \A k \in 1..next : /\ refs[k].tx + 1 \in DOMAIN block_data[refs[k].block].txs
                                 /\ block_data[refs[k].block].txs[refs[k].tx + 1] # <<>>
      <4>1. \A k \in 1..next : k \in 1..(next - 1) \/ k = next
        BY <1>0
      <4>2. QED
        BY <3>1, <3>2, <4>1 DEF FollowInv
    <3>11. PartsOf(Parts, (next - 1) + 1, Places)
      <4>1. ASSUME NEW k \in 1..next
            PROVE  Parts[k] \in Seq(Places)
        <5>1. k \in DOMAIN refs
          BY <1>0, <3>1
        <5>2. refs[k].block \in Fetched
          BY <3>1, <5>1 DEF PlaceInv
        <5>3. Referenced(refs[k]) \in Seq(Places)
          BY <1>0, <3>10, <5>1, <5>2, ReferencedTyped
        <5>4. QED
          BY <5>1, <5>3 DEF Parts
      <4>2. (next - 1) + 1 = next
        BY <1>0
      <4>3. QED
        BY <4>1, <4>2 DEF PartsOf
    <3>12. UpTo(Parts, (next - 1) + 1) = UpTo(Parts, next - 1) \o Parts[(next - 1) + 1]
      <4>1. next - 1 \in Nat
        BY <1>0
      <4>2. QED
        BY <3>11, <4>1, UpToStep
    <3>13. (next - 1) + 1 = next /\ next' - 1 = next
      BY <1>0, <3>1
    <3>14. Parts' = Parts
      BY <3>1 DEF Parts, Referenced
    <3>15. ([i \in DOMAIN bundles |-> Entry(bundles[i])] = UpTo(Parts, next - 1))'
      <4>1. PICK list : list = UpTo(Parts, next)
        OBVIOUS
      <4>2. UpTo(Parts', next' - 1) = list
        BY <3>13, <3>14, <4>1
      <4>3. ([i \in DOMAIN bundles |-> Entry(bundles[i])])' = list
        BY <3>9, <3>12, <3>13, <4>1 DEF Entry
      <4>4. QED
        BY <4>2, <4>3
    <3>16. \A k \in 1..(next' - 1) :
             /\ refs'[k].tx + 1 \in DOMAIN block_data'[refs'[k].block].txs
             /\ block_data'[refs'[k].block].txs[refs'[k].tx + 1] # <<>>
      BY <3>1, <3>10, <3>13
    <3>17. QED
      BY <3>15, <3>16 DEF FollowInv
  <2>3. QED
    BY <2>1, <2>2
<1>6. CASE AllWalked
  BY <1>2, <1>6 DEF AllWalked
<1>7. CASE Verify
  BY <1>2, <1>7 DEF Verify
<1>8. CASE UNCHANGED vars
  <2>1. CASE pc \in {"walk", "verify", "ok"}
    BY <1>2, <1>8, <2>1 DEF vars
  <2>2. CASE pc \notin {"walk", "verify", "ok"}
    BY <1>8, <2>2 DEF vars, FollowInv
  <2>3. QED
    BY <2>1, <2>2
<1>9. ASSUME pc' \notin {"walk", "verify", "ok"}
      PROVE  FollowInv'
  BY <1>9 DEF FollowInv
<1>10. QED
  <2>1. \/ pc' \notin {"walk", "verify", "ok"}
        \/ NothingAsked \/ AllFetched \/ Walk \/ AllWalked \/ Verify \/ UNCHANGED vars
    BY DEF Next, Bootstrap, KnownBlock, AnswerBlock, AsksL1, AnswerSidecars, RequestFails
  <2>2. QED
    BY <1>3, <1>4, <1>5, <1>6, <1>7, <1>8, <1>9, <2>1

-----------------------------------------------------------------------------
(* The bundles are committed to.                                           *)

\* What CommitInv says of one bundle.
Awaits(bundle, buffer) ==
  /\ bundle.commitment = bundle.hash
  /\ VerifyKzg => \E j \in DOMAIN buffer[bundle.block] :
       /\ buffer[bundle.block][j].commitment = bundle.commitment
       /\ buffer[bundle.block][j].blob = bundle.raw

\* Every step keeps that.
LEMMA CommitStep ==
  ASSUME BlobSyncAssumption, TypeOK, PlaceInv, CommitInv, [Next]_vars
  PROVE  CommitInv'
<1>1. CASE UNCHANGED <<kzg_buffer, bundles>>
  BY <1>1 DEF CommitInv
<1>2. ASSUME Walk, pc' # "err"
      PROVE  CommitInv'
  <2>1. PICK b \in Blocks, tx \in Nat, hs \in Seq(Commitments), matched \in Seq(Sidecars) :
          /\ Len(matched) = Len(hs) /\ \A i \in 1..Len(hs) : matched[i].commitment = hs[i]
          /\ bundles' = bundles \o NewBundles(b, BlobsOf(tx, hs), matched)
          /\ kzg_buffer' = IF VerifyKzg THEN [kzg_buffer EXCEPT ![b] = @ \o matched]
                                        ELSE kzg_buffer
    BY <1>2, Walked, ZenonT(30)
  <2>2. PICK new : new = NewBundles(b, BlobsOf(tx, hs), matched)
    OBVIOUS
  <2>3. AreNew(new, b, tx, hs, matched)
    BY <2>1, <2>2, NewTyped
  <2>4. /\ bundles \in Seq(Bundles) /\ new \in Seq(Bundles) /\ bundles' = bundles \o new
        /\ Len(new) = Len(hs)
    BY <2>1, <2>2, <2>3 DEF TypeOK, AreNew
  <2>5. /\ Len(bundles') = Len(bundles) + Len(hs) /\ Len(bundles) \in Nat /\ Len(hs) \in Nat
        /\ DOMAIN bundles' = 1..(Len(bundles) + Len(hs)) /\ DOMAIN bundles = 1..Len(bundles)
        /\ \A i \in 1..(Len(bundles) + Len(hs)) :
             bundles'[i] = IF i <= Len(bundles) THEN bundles[i] ELSE new[i - Len(bundles)]
    <3>1. bundles' \in Seq(Bundles)
      BY <2>4, ConcatProperties
    <3>2. DOMAIN bundles' = 1..Len(bundles') /\ DOMAIN bundles = 1..Len(bundles)
          /\ Len(bundles) \in Nat /\ Len(hs) \in Nat
      BY <2>4, <3>1, LenProperties
    <3>3. /\ Len(bundles') = Len(bundles) + Len(hs)
          /\ \A i \in 1..(Len(bundles) + Len(hs)) :
               bundles'[i] = IF i <= Len(bundles) THEN bundles[i] ELSE new[i - Len(bundles)]
      <4>1. PICK old \in Seq(Bundles) : old = bundles
        BY <2>4
      <4>2. /\ Len(old \o new) = Len(old) + Len(new)
            /\ \A i \in 1..(Len(old) + Len(new)) :
                 (old \o new)[i] = IF i <= Len(old) THEN old[i] ELSE new[i - Len(old)]
        BY <2>4, ConcatProperties
      <4>3. QED
        BY <2>4, <4>1, <4>2
    <3>4. QED
      BY <3>2, <3>3
  <2>6. PICK buffer \in Seq(Sidecars) : buffer = kzg_buffer[b]
    BY DEF TypeOK
  <2>7. /\ buffer \o matched \in Seq(Sidecars) /\ Len(buffer \o matched) = Len(buffer) + Len(hs)
        /\ DOMAIN (buffer \o matched) = 1..(Len(buffer) + Len(hs))
        /\ DOMAIN buffer = 1..Len(buffer) /\ Len(buffer) \in Nat
        /\ \A j \in 1..(Len(buffer) + Len(hs)) :
             (buffer \o matched)[j] = IF j <= Len(buffer) THEN buffer[j] ELSE matched[j - Len(buffer)]
    <3>1. /\ buffer \o matched \in Seq(Sidecars) /\ Len(buffer \o matched) = Len(buffer) + Len(hs)
          /\ \A j \in 1..(Len(buffer) + Len(hs)) :
               (buffer \o matched)[j] = IF j <= Len(buffer) THEN buffer[j] ELSE matched[j - Len(buffer)]
      <4>1. Len(matched) = Len(hs)
        BY <2>1
      <4>2. /\ buffer \o matched \in Seq(Sidecars) /\ Len(buffer \o matched) = Len(buffer) + Len(matched)
            /\ \A j \in 1..(Len(buffer) + Len(matched)) :
                 (buffer \o matched)[j]
                   = IF j <= Len(buffer) THEN buffer[j] ELSE matched[j - Len(buffer)]
        BY ConcatProperties
      <4>3. QED
        BY <4>1, <4>2
    <3>2. DOMAIN (buffer \o matched) = 1..(Len(buffer) + Len(hs))
      BY <3>1, LenProperties
    <3>3. QED
      BY <3>1, <3>2, LenProperties
  <2>8. ASSUME VerifyKzg
        PROVE  \A c \in Blocks : kzg_buffer'[c] = IF c = b THEN buffer \o matched ELSE kzg_buffer[c]
    BY <2>1, <2>6, <2>8 DEF TypeOK
  <2>9. ASSUME NEW bundle \in Bundles, Awaits(bundle, kzg_buffer)
        PROVE  Awaits(bundle, kzg_buffer')
    <3>1. bundle.block \in Blocks
      BY <2>9 DEF Bundles
    <3>2. ASSUME VerifyKzg
          PROVE  \E j \in DOMAIN kzg_buffer'[bundle.block] :
                   /\ kzg_buffer'[bundle.block][j].commitment = bundle.commitment
                   /\ kzg_buffer'[bundle.block][j].blob = bundle.raw
      <4>1. PICK j \in DOMAIN kzg_buffer[bundle.block] :
              /\ kzg_buffer[bundle.block][j].commitment = bundle.commitment
              /\ kzg_buffer[bundle.block][j].blob = bundle.raw
        BY <2>9, <3>2 DEF Awaits
      <4>2. CASE bundle.block = b
        <5>1. j \in 1..(Len(buffer) + Len(hs)) /\ j <= Len(buffer)
          BY <2>5, <2>6, <2>7, <4>1, <4>2
        <5>2. (buffer \o matched)[j] = buffer[j]
          BY <2>7, <5>1
        <5>3. QED
          BY <2>6, <2>7, <2>8, <3>1, <3>2, <4>1, <4>2, <5>1, <5>2
      <4>3. CASE bundle.block # b
        BY <2>8, <3>1, <3>2, <4>1, <4>3
      <4>4. QED
        BY <4>2, <4>3
    <3>3. QED
      BY <2>9, <3>2 DEF Awaits
  <2>10. ASSUME NEW i \in 1..Len(hs)
         PROVE  Awaits(new[i], kzg_buffer')
    <3>1. PICK bundle : bundle = [block |-> b, tx |-> tx, index |-> i - 1, hash |-> hs[i],
                                  commitment |-> matched[i].commitment, raw |-> matched[i].blob]
      OBVIOUS
    <3>2. new[i] = bundle
      BY <2>3, <3>1 DEF AreNew
    <3>3. /\ bundle.block = b /\ bundle.hash = hs[i] /\ bundle.commitment = matched[i].commitment
          /\ bundle.raw = matched[i].blob /\ matched[i].commitment = hs[i]
      BY <2>1, <3>1
    <3>4. ASSUME VerifyKzg
          PROVE  \E j \in DOMAIN kzg_buffer'[b] :
                   /\ kzg_buffer'[b][j].commitment = bundle.commitment
                   /\ kzg_buffer'[b][j].blob = bundle.raw
      <4>1. PICK j : j = Len(buffer) + i
        OBVIOUS
      <4>2. j \in 1..(Len(buffer) + Len(hs)) /\ ~(j <= Len(buffer)) /\ j - Len(buffer) = i
        BY <2>5, <2>7, <4>1
      <4>3. (buffer \o matched)[j] = matched[i] /\ kzg_buffer'[b] = buffer \o matched
        BY <2>7, <2>8, <3>4, <4>2
      <4>4. QED
        BY <2>7, <3>3, <4>2, <4>3
    <3>5. Awaits(bundle, kzg_buffer')
      BY <3>3, <3>4 DEF Awaits
    <3>6. QED
      BY <3>2, <3>5
  <2>11. ASSUME NEW i \in DOMAIN bundles'
         PROVE  Awaits(bundles'[i], kzg_buffer')
    <3>1. CASE i <= Len(bundles)
      <4>1. i \in DOMAIN bundles /\ bundles'[i] = bundles[i] /\ bundles[i] \in Bundles
        BY <2>4, <2>5, <3>1
      <4>2. Awaits(bundles[i], kzg_buffer)
        BY <4>1 DEF CommitInv, Awaits
      <4>3. QED
        BY <2>9, <4>1, <4>2
    <3>2. CASE ~(i <= Len(bundles))
      <4>1. i - Len(bundles) \in 1..Len(hs) /\ bundles'[i] = new[i - Len(bundles)]
        BY <2>5, <3>2
      <4>2. QED
        BY <2>10, <4>1
    <3>3. QED
      BY <3>1, <3>2
  <2>12. QED
    BY <2>11 DEF CommitInv, Awaits
<1>3. QED
  <2>1. UNCHANGED <<kzg_buffer, bundles>> \/ (Walk /\ pc' # "err")
    BY DEF Next, vars, NothingAsked, Bootstrap, KnownBlock, AnswerBlock, AnswerSidecars,
           RequestFails, AllFetched, Walk, AllWalked, Verify
  <2>2. QED
    BY <1>1, <1>2, <2>1

\* Whatever is returned was verified.
LEMMA VerifiedStep ==
  ASSUME BlobSyncAssumption, TypeOK, PlaceInv, CommitInv, BlobsAreCommitted, [Next]_vars
  PROVE  BlobsAreCommitted'
<1> SUFFICES ASSUME pc' = "ok", VerifyKzg, NEW i \in DOMAIN bundles'
             PROVE  bundles'[i].raw = bundles'[i].hash
  BY DEF BlobsAreCommitted
<1>1. NothingAsked \/ Verify \/ (pc = "ok" /\ UNCHANGED vars)
  BY DEF Next, vars, Bootstrap, KnownBlock, AnswerBlock, AsksL1, AnswerSidecars, RequestFails,
         AllFetched, Walk, AllWalked
<1>2. CASE NothingAsked
  BY <1>2 DEF NothingAsked, PlaceInv
<1>3. CASE Verify
  <2>1. bundles' = bundles /\ \A b \in Blocks : VerifyBatch(kzg_buffer[b])
    BY <1>3 DEF Verify
  <2>2. bundles[i] \in Bundles
    BY <2>1 DEF TypeOK
  <2>3. bundles[i].block \in Blocks
    BY <2>2 DEF Bundles
  <2>4. bundles[i].commitment = bundles[i].hash
    BY <2>1 DEF CommitInv
  <2>5. PICK j \in DOMAIN kzg_buffer[bundles[i].block] :
          /\ kzg_buffer[bundles[i].block][j].commitment = bundles[i].commitment
          /\ kzg_buffer[bundles[i].block][j].blob = bundles[i].raw
    BY <2>1 DEF CommitInv
  <2>6. kzg_buffer[bundles[i].block][j].blob = kzg_buffer[bundles[i].block][j].commitment
    BY <2>1, <2>3, <2>5 DEF VerifyBatch, Verifies
  <2>7. QED
    BY <2>1, <2>4, <2>5, <2>6
<1>4. CASE pc = "ok" /\ UNCHANGED vars
  BY <1>4 DEF vars, BlobsAreCommitted
<1>5. QED
  BY <1>1, <1>2, <1>3, <1>4

-----------------------------------------------------------------------------
(* The theorems.                                                           *)

\* Together these hold at first and are kept by every step.
BlobSyncInv == TypeOK /\ PlaceInv /\ FollowInv /\ CommitInv /\ BlobsAreCommitted

\* They hold at first.
LEMMA InitHolds ==
  ASSUME BlobSyncAssumption, Init
  PROVE  BlobSyncInv
<1>1. FollowInv /\ CommitInv /\ BlobsAreCommitted
  BY DEF Init, FollowInv, CommitInv, BlobsAreCommitted
<1>2. QED
  BY <1>1, InitTypePlace DEF BlobSyncInv

\* Every step keeps them.
LEMMA StepHolds ==
  ASSUME BlobSyncAssumption, BlobSyncInv, [Next]_vars
  PROVE  BlobSyncInv'
BY TypeStep, PlaceStep, FollowStep, CommitStep, VerifiedStep DEF BlobSyncInv

\* The references walked are all of them in the end.
LEMMA AllFollowed ==
  ASSUME BlobSyncAssumption, BlobSyncInv
  PROVE  BundlesFollowRefs
<1> SUFFICES ASSUME pc = "ok"
             PROVE  [i \in DOMAIN bundles |-> Entry(bundles[i])]
                      = FlattenSeq([k \in DOMAIN refs |-> Referenced(refs[k])])
  BY DEF BundlesFollowRefs, Entry
<1>1. next - 1 = Len(refs) /\ DOMAIN refs = 1..Len(refs)
  <2>1. next = Len(refs) + 1
    BY DEF BlobSyncInv, PlaceInv
  <2>2. Len(refs) \in Nat
    BY RefTyped DEF BlobSyncInv
  <2>3. DOMAIN refs = 1..Len(refs)
    BY RefTyped, LenProperties DEF BlobSyncInv
  <2>4. QED
    BY <2>1, <2>2, <2>3
<1>2. [i \in DOMAIN bundles |-> Entry(bundles[i])] = UpTo(Parts, next - 1)
  BY DEF BlobSyncInv, FollowInv
<1>3. UpTo(Parts, next - 1) = FlattenSeq([k \in DOMAIN refs |-> Parts[k]])
  BY <1>1 DEF UpTo
<1>4. [k \in DOMAIN refs |-> Parts[k]] = [k \in DOMAIN refs |-> Referenced(refs[k])]
  BY DEF Parts
<1>5. QED
  BY <1>2, <1>3, <1>4

\* The invariant holds of every call.
LEMMA BlobSyncInvHolds == Spec => []BlobSyncInv
<1>1. Init => BlobSyncInv
  BY BlobSyncAssumption, InitHolds
<1>2. BlobSyncInv /\ [Next]_vars => BlobSyncInv'
  BY BlobSyncAssumption, StepHolds
<1>3. QED
  BY <1>1, <1>2, PTL DEF Spec

\* The variables of a call stay in their types: there is at most one answer of
\* L1 that waits for its sidecars.
THEOREM TypeCorrect == Spec => []TypeOK
<1>1. BlobSyncInv => TypeOK
  BY DEF BlobSyncInv
<1>2. QED
  BY <1>1, BlobSyncInvHolds, PTL

\* A successful call of fetch_blobs returns exactly the blobs of the referenced
\* transactions, in the order of the references and of each transaction.
THEOREM OutputFollowsInput == Spec => []BundlesFollowRefs
<1>1. BlobSyncInv => BundlesFollowRefs
  BY BlobSyncAssumption, AllFollowed
<1>2. QED
  BY <1>1, BlobSyncInvHolds, PTL

\* With verification on, the bytes a successful call returns are those that the
\* transactions committed to, whatever the beacon node answered.
THEOREM BytesAreCommitted == Spec => []BlobsAreCommitted
<1>1. BlobSyncInv => BlobsAreCommitted
  BY DEF BlobSyncInv
<1>2. QED
  BY <1>1, BlobSyncInvHolds, PTL

\* All references to a block are served from one answer: nothing that is known
\* of a block is asked for again or replaced.
THEOREM OneView == Spec => OneViewOfABlock
<1> DEFINE Stays == \A b \in Fetched : b \in Fetched' /\ block_data'[b] = block_data[b]
<1>1. BlobSyncInv /\ [Next]_vars => [Stays]_vars
  BY BlobSyncAssumption, KnownStays DEF BlobSyncInv
<1>2. QED
  BY <1>1, BlobSyncInvHolds, PTL DEF Spec, OneViewOfABlock

-----------------------------------------------------------------------------
(* The amounts.                                                            *)

\* What the auths pay.
Amounts(auths) == [i \in DOMAIN auths |-> auths[i].ether_amount]

\* At most the ceiling.
Capped(n) == IF n < MaxEther THEN n ELSE MaxEther

\* What sum_ether is of each set of the auths.
IsTotal(g, auths) ==
  g = [s \in SUBSET DOMAIN auths |->
         IF s = {} THEN 0
         ELSE Min({g[s \ {CHOOSE x \in s : TRUE}]
                     + auths[CHOOSE x \in s : TRUE].ether_amount, MaxEther})]

\* Of two numbers Min is the lesser.
LEMMA MinOfTwo ==
  ASSUME NEW a \in Nat, NEW b \in Nat
  PROVE  Min({a, b}) = IF a < b THEN a ELSE b
<1>1. Min({a, b}) \in {a, b} /\ \A m \in {a, b} : Min({a, b}) <= m
  BY MinIsLeast
<1>2. QED
  BY <1>1

\* The auths are finitely many, with natural amounts.
LEMMA AmountsTyped ==
  ASSUME ProverAssumption, NEW auths \in Seq(EntryAuths)
  PROVE  /\ IsFiniteSet(DOMAIN auths) /\ DOMAIN Amounts(auths) = DOMAIN auths
         /\ \A i \in DOMAIN auths : /\ auths[i].ether_amount \in Nat
                                    /\ Amounts(auths)[i] = auths[i].ether_amount
<1>1. MaxEther \in Nat
  BY DEF ProverAssumption
<1>2. DOMAIN auths = 1..Len(auths) /\ Len(auths) \in Nat
  BY LenProperties
<1>3. IsFiniteSet(DOMAIN auths)
  BY <1>2, FS_Interval
<1>4. \A i \in DOMAIN auths : auths[i] \in EntryAuths
  BY <1>2, ElementOfSeq
<1>5. \A i \in DOMAIN auths : auths[i].ether_amount \in Nat
  BY <1>1, <1>4 DEF EntryAuths
<1>6. QED
  BY <1>3, <1>5 DEF Amounts

\* The capped sums of the sets are such totals.
LEMMA TotalExists ==
  ASSUME ProverAssumption, NEW auths \in Seq(EntryAuths)
  PROVE  IsTotal([s \in SUBSET DOMAIN auths |-> Capped(SumOver(Amounts(auths), s))], auths)
<1> DEFINE S == DOMAIN auths
           f == Amounts(auths)
           g == [s \in SUBSET S |-> Capped(SumOver(f, s))]
           One(s) == CHOOSE x \in s : TRUE
           More(s) == Min({g[s \ {One(s)}] + auths[One(s)].ether_amount, MaxEther})
<1>1. IsFiniteSet(S) /\ \A x \in S : f[x] \in Nat /\ f[x] = auths[x].ether_amount
  BY AmountsTyped
<1>2. MaxEther \in Nat
  BY DEF ProverAssumption
<1> HIDE DEF f, S
<1>3. ASSUME NEW s \in SUBSET S
      PROVE  g[s] = IF s = {} THEN 0 ELSE More(s)
  <2>1. IsFiniteSet(s) /\ \A x \in s : f[x] \in Nat
    BY <1>1, FS_Subset
  <2>2. g[s] = Capped(SumOver(f, s))
    OBVIOUS
  <2>3. CASE s = {}
    <3>1. SumOver(f, s) = 0
      BY <2>1, <2>3, SumStep
    <3>2. QED
      BY <1>2, <2>2, <2>3, <3>1 DEF Capped
  <2>4. CASE s # {}
    <3>1. PICK x \in s : x = One(s) /\ SumOver(f, s) = f[x] + SumOver(f, s \ {x})
      BY <2>1, <2>4, SumStep
    <3>2. IsFiniteSet(s \ {x}) /\ \A y \in s \ {x} : f[y] \in Nat
      BY <2>1, FS_Subset
    <3>3. PICK a \in Nat : a = SumOver(f, s \ {x})
      BY <3>2, SumStep
    <3>4. s \ {x} \in SUBSET S
      OBVIOUS
    <3>5. g[s \ {x}] = Capped(a)
      BY <3>3, <3>4
    <3>6. f[x] \in Nat /\ f[x] = auths[x].ether_amount
      BY <1>1
    <3>7. Capped(a) \in Nat
      BY <1>2 DEF Capped
    <3>8. Min({Capped(a) + f[x], MaxEther}) = Capped(f[x] + a)
      <4>1. Capped(a) + f[x] \in Nat
        BY <3>6, <3>7
      <4>2. Min({Capped(a) + f[x], MaxEther})
              = IF Capped(a) + f[x] < MaxEther THEN Capped(a) + f[x] ELSE MaxEther
        BY <1>2, <4>1, MinOfTwo
      <4>3. QED
        BY <1>2, <3>6, <4>2 DEF Capped
    <3>9. More(s) = Min({Capped(a) + f[x], MaxEther})
      BY <3>1, <3>5, <3>6
    <3> HIDE DEF g, More, One
    <3>10. QED
      BY <2>2, <2>4, <3>1, <3>3, <3>8, <3>9
  <2>5. QED
    BY <2>3, <2>4
<1>4. [s \in SUBSET S |-> g[s]] = [s \in SUBSET S |-> IF s = {} THEN 0 ELSE More(s)]
  <2> HIDE DEF g, More
  <2>1. QED
    BY <1>3
<1>5. g = [s \in SUBSET S |-> g[s]]
  OBVIOUS
<1>6. QED
  BY <1>4, <1>5 DEF IsTotal, S, f

\* And there is one only.
LEMMA TotalUnique ==
  ASSUME ProverAssumption, NEW auths \in Seq(EntryAuths),
         NEW g, IsTotal(g, auths), NEW h, IsTotal(h, auths)
  PROVE  g = h
<1> DEFINE S == DOMAIN auths
           One(s) == CHOOSE x \in s : TRUE
           Value(k, s) == IF s = {} THEN 0
                          ELSE Min({k[s \ {One(s)}] + auths[One(s)].ether_amount, MaxEther})
           Good == {s \in SUBSET S : g[s] = h[s]}
<1>1. IsFiniteSet(S)
  BY AmountsTyped
<1>2. \A s \in SUBSET S : g[s] = Value(g, s) /\ h[s] = Value(h, s)
  BY DEF IsTotal
<1>3. g = [s \in SUBSET S |-> g[s]] /\ h = [s \in SUBSET S |-> h[s]]
  BY DEF IsTotal
<1>4. ASSUME NEW s \in SUBSET S,
             \A t \in SUBSET S : Cardinality(t) < Cardinality(s) => t \in Good
      PROVE  s \in Good
  <2>1. CASE s = {}
    BY <1>2, <2>1
  <2>2. CASE s # {}
    <3>1. PICK x \in s : x = One(s)
      BY <2>2
    <3>2. PICK t \in SUBSET S : t = s \ {x}
      OBVIOUS
    <3>3. IsFiniteSet(s)
      BY <1>1, FS_Subset
    <3>4. Cardinality(t) < Cardinality(s)
      <4>1. Cardinality(s \ {x}) = Cardinality(s) - 1 /\ Cardinality(s) \in Nat
        BY <3>3, Smaller
      <4>2. QED
        BY <3>2, <4>1
    <3>5. g[t] = h[t]
      BY <1>4, <3>4
    <3>6. Value(g, s) = Value(h, s)
      <4>1. s \ {One(s)} = t
        BY <3>1, <3>2
      <4> HIDE DEF One
      <4>2. QED
        BY <3>5, <4>1
    <3> HIDE DEF Value
    <3>7. QED
      BY <1>2, <3>6
  <2>3. QED
    BY <2>1, <2>2
<1>5. \A s \in SUBSET S : s \in Good
  <2>1. Good \in SUBSET SUBSET S
    OBVIOUS
  <2> HIDE DEF Good, S
  <2>2. QED
    BY <1>1, <1>4, <2>1, SizeInduct
<1>6. [s \in SUBSET S |-> g[s]] = [s \in SUBSET S |-> h[s]]
  BY <1>5
<1>7. QED
  BY <1>3, <1>6

\* sum_ether adds up the amounts and stops at the ceiling.
LEMMA SumIsCapped ==
  ASSUME ProverAssumption, NEW auths \in Seq(EntryAuths)
  PROVE  /\ sum_ether(auths) = Capped(SumFunction(Amounts(auths)))
         /\ SumFunction(Amounts(auths)) \in Nat
         /\ sum_ether(auths) \in 0..MaxEther
<1> DEFINE g == CHOOSE iter : iter = [s \in SUBSET DOMAIN auths |->
                  IF s = {} THEN 0
                  ELSE Min({iter[s \ {CHOOSE x \in s : TRUE}]
                              + auths[CHOOSE x \in s : TRUE].ether_amount, MaxEther})]
           h == [s \in SUBSET DOMAIN auths |-> Capped(SumOver(Amounts(auths), s))]
<1>1. sum_ether(auths) = g[DOMAIN auths]
  BY DEF sum_ether, FoldSeq, FoldFunction, FoldFunctionOnSet, MapThenFoldSet
<1>2. IsTotal(h, auths)
  BY TotalExists
<1>3. IsTotal(g, auths)
  <2> HIDE DEF h
  <2>1. \E iter : IsTotal(iter, auths)
    BY <1>2
  <2>2. QED
    BY <2>1 DEF IsTotal
<1>4. g = h
  <2> HIDE DEF g, h
  <2>1. QED
    BY <1>2, <1>3, TotalUnique
<1>5. h[DOMAIN auths] = Capped(SumOver(Amounts(auths), DOMAIN auths))
  OBVIOUS
<1>6. SumFunction(Amounts(auths)) = SumOver(Amounts(auths), DOMAIN auths)
  <2>1. DOMAIN Amounts(auths) = DOMAIN auths
    BY AmountsTyped
  <2>2. QED
    BY <2>1 DEF SumFunction, SumFunctionOnSet, FoldFunctionOnSet, SumOver, MapThenSumSet,
             MapThenFoldSet
<1>7. SumOver(Amounts(auths), DOMAIN auths) \in Nat
  <2>1. IsFiniteSet(DOMAIN auths) /\ \A i \in DOMAIN auths : Amounts(auths)[i] \in Nat
    BY AmountsTyped
  <2>2. QED
    BY <2>1, SumStep
<1> HIDE DEF g, h
<1>8. sum_ether(auths) = Capped(SumFunction(Amounts(auths)))
  BY <1>1, <1>4, <1>5, <1>6
<1>9. MaxEther \in Nat
  BY DEF ProverAssumption
<1>10. QED
  BY <1>6, <1>7, <1>8, <1>9 DEF Capped
-----------------------------------------------------------------------------
(* What the host writes for the guest.                                     *)

SampleAuths ==
  [i \in DOMAIN SampleEntries |-> sign_entry(Anvil, SampleEntries[i], SampleAmounts[i])]

\* The inputs around the fetched blobs, field by field.
FetchedInputs(auths) ==
  [blobs |-> refs, total_ether_paid |-> sum_ether(SampleAuths),
   expected_public_inputs_hash |-> compute_public_inputs_hash(refs, sum_ether(SampleAuths)),
   blob_data |-> fetch_blob_data, entry_auths |-> auths]

\* Nothing is written while the host fetches.  Then it is the sample, when
\* nothing was asked for, or is built over the bundles of a call that succeeded;
\* what is committed, and whether the guest panics, is decided by it alone.
HostInv ==
  /\ host \in {"fetching", "proving", "proved", "panicked", "failed"}
  /\ host = "fetching" => inputs = <<>>
  /\ host # "fetching" => \/ pc = "start" /\ inputs = <<sample_inputs>>
                          \/ pc = "ok" /\ \E auths \in AuthLists : inputs = <<FetchedInputs(auths)>>
  /\ output = IF host = "proved" THEN <<Commit(inputs[1])>> ELSE <<>>
  /\ host = "proved" => Accepts(inputs[1])
  /\ host = "panicked" => ~Accepts(inputs[1])

ProverInv == BlobSyncInv /\ HostInv

LEMMA SignedIs ==
  ASSUME NEW signer \in Signers, NEW data \in Seq(Bytes), NEW amount \in 0..MaxEther
  PROVE  /\ sign_entry(signer, data, amount) \in EntryAuths
         /\ Recovers(sign_entry(signer, data, amount))
         /\ sign_entry(signer, data, amount).data = data
<1>1. \A low_s, recoverable :
        [[signer |-> signer, data |-> data, v |-> 27, low_s |-> low_s,
          recoverable |-> recoverable, ether_amount |-> 0] EXCEPT !.ether_amount = amount]
          = [signer |-> signer, data |-> data, v |-> 27, low_s |-> low_s,
             recoverable |-> recoverable, ether_amount |-> amount]
  OBVIOUS
<1>2. \A low_s, recoverable \in BOOLEAN :
        [signer |-> signer, data |-> data, v |-> 27, low_s |-> low_s,
         recoverable |-> recoverable, ether_amount |-> amount] \in EntryAuths
  BY DEF EntryAuths
<1>3. sign_entry(signer, data, amount)
        = [signer |-> signer, data |-> data, v |-> 27, low_s |-> TRUE,
           recoverable |-> TRUE, ether_amount |-> amount]
  BY <1>1, Zenon DEF sign_entry, sign_eip191
<1>4. sign_entry(signer, data, amount) \in EntryAuths
  BY <1>2, <1>3, Zenon
<1>5. /\ sign_entry(signer, data, amount).data = data
      /\ sign_entry(signer, data, amount).v = 27
      /\ sign_entry(signer, data, amount).low_s = TRUE
      /\ sign_entry(signer, data, amount).recoverable = TRUE
  <2>1. \A fine :
          LET r == [signer |-> signer, data |-> data, v |-> 27, low_s |-> fine,
                    recoverable |-> fine, ether_amount |-> amount]
          IN r.data = data /\ r.v = 27 /\ r.low_s = fine /\ r.recoverable = fine
    OBVIOUS
  <2>2. QED
    BY <1>3, <2>1, Zenon
<1>6. Recovers(sign_entry(signer, data, amount))
  BY <1>5, Zenon DEF Recovers
<1>7. QED
  BY <1>4, <1>5, <1>6, Zenon

LEMMA SampleIs ==
  ASSUME ProverAssumption
  PROVE  /\ SampleAuths \in Seq(EntryAuths) /\ Len(SampleAuths) = Len(SampleEntries)
         /\ \A i \in 1..Len(SampleEntries) :
              /\ Recovers(SampleAuths[i]) /\ SampleAuths[i].data = SampleEntries[i]
              /\ SampleEntries[i] # <<>>
         /\ sample_inputs =
              [blobs |-> <<SampleRef>>, total_ether_paid |-> sum_ether(SampleAuths),
               expected_public_inputs_hash |->
                 compute_public_inputs_hash(<<SampleRef>>, sum_ether(SampleAuths)),
               blob_data |-> pack_blob(encode_entries(SampleEntries)),
               entry_auths |-> SampleAuths]
<1>1. SampleEntries \in Seq(Seq(Bytes) \ {<<>>})
  BY DEF ProverAssumption
<1>2. PICK n \in Nat : n = Len(SampleEntries) /\ DOMAIN SampleEntries = 1..n
  BY <1>1
<1>3. \A i \in 1..n : /\ SampleEntries[i] \in Seq(Bytes) /\ SampleEntries[i] # <<>>
                      /\ SampleAmounts[i] \in 0..MaxEther
  BY <1>1, <1>2 DEF ProverAssumption
<1>4. \A i \in 1..n :
        SampleAuths[i] = sign_entry(Anvil, SampleEntries[i], SampleAmounts[i])
  BY <1>2 DEF SampleAuths
<1>5. \A i \in 1..n : SampleAuths[i] \in EntryAuths
  <2>1. Anvil \in Signers
    BY DEF ProverAssumption
  <2>2. QED
    BY <1>3, <1>4, <2>1, SignedIs
<1>6. SampleAuths = [i \in 1..n |-> SampleAuths[i]]
  BY <1>2 DEF SampleAuths
<1>7. SampleAuths \in Seq(EntryAuths) /\ Len(SampleAuths) = n
  <2>1. SampleAuths \in [1..n -> EntryAuths]
    BY <1>5, <1>6
  <2>2. QED
    BY <2>1
<1>8. \A i \in 1..n : Recovers(SampleAuths[i]) /\ SampleAuths[i].data = SampleEntries[i]
  <2>1. Anvil \in Signers
    BY DEF ProverAssumption
  <2>2. QED
    BY <1>3, <1>4, <2>1, SignedIs
<1>9. QED
  BY <1>2, <1>3, <1>7, <1>8 DEF sample_inputs, SampleAuths

\* A record of the five fields.
InputsOf(blobs, total, digest, data, auths) ==
  [blobs |-> blobs, total_ether_paid |-> total, expected_public_inputs_hash |-> digest,
   blob_data |-> data, entry_auths |-> auths]

\* What the host adds to the sample is all that matters of it.
LEMMA InputsAre ==
  ASSUME ProverAssumption, NEW auths
  PROVE  [sample_inputs EXCEPT
            !.blobs = refs, !.blob_data = fetch_blob_data, !.entry_auths = auths,
            !.expected_public_inputs_hash =
               compute_public_inputs_hash(refs, sample_inputs.total_ether_paid)]
           = FetchedInputs(auths)
<1>1. PICK b, p, d, a : sample_inputs = InputsOf(b, sum_ether(SampleAuths), p, d, a)
  BY SampleIs DEF InputsOf
<1>2. sample_inputs.total_ether_paid = sum_ether(SampleAuths)
  BY SampleIs
<1>3. PICK digest : digest = compute_public_inputs_hash(refs, sum_ether(SampleAuths))
  OBVIOUS
<1>4. FetchedInputs(auths) = InputsOf(refs, sum_ether(SampleAuths), digest, fetch_blob_data, auths)
  BY <1>3 DEF FetchedInputs, InputsOf
<1>5. [sample_inputs EXCEPT !.blobs = refs, !.blob_data = fetch_blob_data,
                            !.entry_auths = auths, !.expected_public_inputs_hash = digest]
        = InputsOf(refs, sum_ether(SampleAuths), digest, fetch_blob_data, auths)
  <2>1. PICK r1 : r1 = [sample_inputs EXCEPT !.blobs = refs]
    OBVIOUS
  <2>2. PICK r2 : r2 = [r1 EXCEPT !.blob_data = fetch_blob_data]
    OBVIOUS
  <2>3. PICK r3 : r3 = [r2 EXCEPT !.entry_auths = auths]
    OBVIOUS
  <2>4. PICK t, data : t = sum_ether(SampleAuths) /\ data = fetch_blob_data
    OBVIOUS
  <2>5. r1 = InputsOf(refs, t, p, d, a)
    BY ONLY <1>1, <2>1, <2>4 DEF InputsOf
  <2>6. r2 = InputsOf(refs, t, p, data, a)
    BY ONLY <2>2, <2>4, <2>5 DEF InputsOf
  <2>7. r3 = InputsOf(refs, t, p, data, auths)
    BY ONLY <2>3, <2>6 DEF InputsOf
  <2>8. [r3 EXCEPT !.expected_public_inputs_hash = digest] = InputsOf(refs, t, digest, data, auths)
    BY ONLY <2>7 DEF InputsOf
  <2>9. [sample_inputs EXCEPT !.blobs = refs, !.blob_data = fetch_blob_data,
                            !.entry_auths = auths, !.expected_public_inputs_hash = digest]
          = [r3 EXCEPT !.expected_public_inputs_hash = digest]
    BY ONLY <2>1, <2>2, <2>3
  <2>10. QED
    BY <2>4, <2>8, <2>9, Zenon
<1>6. QED
  BY <1>2, <1>3, <1>4, <1>5

LEMMA HostStep ==
  ASSUME ProverAssumption, ProverInv, [ProverNext]_<<vars, proverVars>>
  PROVE  HostInv'
<1>1. CASE UseSample
  BY <1>1 DEF UseSample, ProverInv, HostInv, vars
<1>2. CASE Fetch
  BY <1>2 DEF Fetch, ProverInv, HostInv, proverVars
<1>3. ASSUME NEW auths \in AuthLists, BuildInputs(auths)
      PROVE  HostInv'
  <2>1. inputs' = <<FetchedInputs(auths)>>
    BY <1>3, InputsAre DEF BuildInputs
  <2>2. FetchedInputs(auths)' = FetchedInputs(auths)
    BY <1>3 DEF BuildInputs, vars, FetchedInputs, fetch_blob_data
  <2>3. QED
    BY <1>3, <2>1, <2>2 DEF BuildInputs, ProverInv, HostInv, vars
<1>4. CASE SdkFails \/ Prove \/ UNCHANGED <<vars, proverVars>>
  <2>1. \A auths \in AuthLists : FetchedInputs(auths)' = FetchedInputs(auths)
    BY <1>4 DEF SdkFails, Prove, vars, FetchedInputs, fetch_blob_data
  <2>2. CASE SdkFails
    BY <2>1, <2>2 DEF SdkFails, ProverInv, HostInv, vars
  <2>3. CASE Prove
    BY <2>1, <2>3 DEF Prove, ProverInv, HostInv, vars
  <2>4. CASE UNCHANGED <<vars, proverVars>>
    BY <2>1, <2>4 DEF ProverInv, HostInv, vars, proverVars
  <2>5. QED
    BY <1>4, <2>2, <2>3, <2>4
<1>5. QED
  BY <1>1, <1>2, <1>3, <1>4 DEF ProverNext

\* A step of the prover is one of fetch_blobs or leaves its state alone.
LEMMA FetchesOrNot == [ProverNext]_<<vars, proverVars>> => [Next]_vars
BY DEF ProverNext, UseSample, Fetch, BuildInputs, SdkFails, Prove

LEMMA ProverInvHolds == ProverSpec => []ProverInv
<1>1. ProverInit => ProverInv
  BY BlobSyncAssumption, InitHolds DEF ProverInit, ProverInv, HostInv
<1>2. ProverInv /\ [ProverNext]_<<vars, proverVars>> => ProverInv'
  <2>1. ASSUME ProverInv, [ProverNext]_<<vars, proverVars>>
        PROVE  ProverInv'
    <3>1. [Next]_vars
      BY <2>1, FetchesOrNot
    <3>2. BlobSyncInv'
      BY <2>1, <3>1, BlobSyncAssumption, StepHolds DEF ProverInv
    <3>3. HostInv'
      BY <2>1, ProverAssumption, HostStep
    <3>4. QED
      BY <3>2, <3>3 DEF ProverInv
  <2>2. QED
    BY <2>1
<1>3. QED
  BY <1>1, <1>2, PTL DEF ProverSpec

-----------------------------------------------------------------------------
(* The stream the guest reads out of the fetched blobs is the one that the *)
(* referenced transactions committed to.                                   *)

\* The blobs that the bundles stand for.
Raws == [i \in 1..Len(bundles) |-> Content[bundles[i].raw]]

LEMMA ContentIs ==
  ASSUME ProverAssumption, NEW c \in Commitments
  PROVE  Content[c] \in Seq(Bytes) /\ Len(Content[c]) = BLOB_RAW_BYTES
<1>1. Content[c] \in [1..BLOB_RAW_BYTES -> Bytes]
  BY DEF ProverAssumption
<1>2. BLOB_RAW_BYTES \in Nat
  BY Sizes
<1>3. QED
  BY <1>1, <1>2

\* What UnpackedAll and RawBlobIs ask of the fetched blobs.
LEMMA FetchedData ==
  ASSUME ProverAssumption, BlobSyncInv, pc = "ok"
  PROVE  /\ bundles \in Seq(Bundles) /\ Len(bundles) \in Nat
         /\ fetch_blob_data = UpTo(Raws, Len(bundles))
         /\ PartsOf(Raws, Len(bundles), Bytes) /\ Even(Raws, Len(bundles), BLOB_RAW_BYTES)
         /\ \A i \in 1..Len(bundles) : /\ bundles[i].hash \in Commitments
                                       /\ Raws[i] = Content[bundles[i].hash]
<1>1. bundles \in Seq(Bundles)
  BY DEF BlobSyncInv, TypeOK
<1>2. PICK n \in Nat : n = Len(bundles) /\ DOMAIN bundles = 1..n
  BY <1>1
<1>3. \A i \in 1..n : bundles[i].hash \in Commitments /\ bundles[i].raw \in Commitments
  <2>1. \A i \in 1..n : bundles[i] \in Bundles
    BY ONLY <1>1, <1>2
  <2>2. \A bundle \in Bundles : bundle.hash \in Commitments /\ bundle.raw \in Commitments
    BY ONLY TRUE DEF Bundles
  <2>3. QED
    BY <2>1, <2>2
<1>4. \A i \in 1..n : bundles[i].raw = bundles[i].hash
  BY <1>2 DEF BlobSyncInv, BlobsAreCommitted, ProverAssumption
<1>5. \A i \in 1..n : Raws[i] = Content[bundles[i].raw]
  BY <1>2 DEF Raws
<1>6. PartsOf(Raws, n, Bytes) /\ Even(Raws, n, BLOB_RAW_BYTES)
  BY <1>3, <1>5, ContentIs DEF PartsOf, Even
<1>7. fetch_blob_data = UpTo(Raws, n)
  <2>1. [i \in DOMAIN bundles |-> Content[bundles[i].raw]] = [k \in 1..n |-> Raws[k]]
    BY <1>2, <1>5
  <2>2. QED
    BY <2>1 DEF fetch_blob_data, UpTo
<1>8. QED
  BY <1>1, <1>2, <1>3, <1>4, <1>5, <1>6, <1>7

\* The blob at a place, unpacked.
StreamAt == [place \in Places |-> unpack_blob(Content[place[4]])]

\* Each reference stands for some blobs.
LEMMA PartsAre ==
  ASSUME BlobSyncInv, pc = "ok"
  PROVE  /\ refs \in Seq([block : Blocks, tx : Nat]) /\ Len(refs) \in Nat
         /\ PartsOf(Parts, Len(refs), Places)
         /\ \A k \in 1..Len(refs) : Parts[k] = Referenced(refs[k]) /\ Parts[k] # <<>>
         /\ [i \in DOMAIN bundles |-> Entry(bundles[i])] = UpTo(Parts, Len(refs))
<1>1. TypeOK /\ PlaceInv /\ FollowInv
  BY DEF BlobSyncInv
<1>2. /\ refs \in Seq([block : Blocks, tx : Nat]) /\ Len(refs) \in Nat
      /\ \A k \in 1..Len(refs) : refs[k].block \in Blocks /\ refs[k].tx \in Nat
  BY <1>1, BlobSyncAssumption, RefTyped
<1>3. next - 1 = Len(refs) /\ \A k \in 1..Len(refs) : refs[k].block \in Fetched
  BY <1>1, <1>2 DEF PlaceInv
<1>4. \A k \in 1..Len(refs) : Parts[k] = Referenced(refs[k])
  BY <1>2 DEF Parts
<1>5. ASSUME NEW k \in 1..Len(refs)
      PROVE  Referenced(refs[k]) \in Seq(Places) /\ Referenced(refs[k]) # <<>>
  <2>1. PICK ref : ref = refs[k]
    OBVIOUS
  <2>2. PICK hs : hs = block_data[ref.block].txs[ref.tx + 1]
    OBVIOUS
  <2>3. /\ ref.block \in Fetched /\ ref.block \in Blocks /\ ref.tx \in Nat
        /\ ref.tx + 1 \in DOMAIN block_data[ref.block].txs /\ hs # <<>>
    BY <1>1, <1>2, <1>3, <2>1, <2>2 DEF FollowInv
  <2>4. Referenced(ref) \in Seq(Places) /\ Len(Referenced(ref)) = Len(hs)
    BY <1>1, <2>2, <2>3, BlobSyncAssumption, ReferencedTyped
  <2>5. hs \in Seq(Commitments)
    <3>1. PICK txs \in Seq(Seq(Commitments)) : txs = block_data[ref.block].txs
      BY <1>1, <2>3, BlobSyncAssumption, KnownTyped
    <3>2. QED
      BY ONLY <2>2, <2>3, <3>1
  <2>6. Len(hs) # 0
    BY <2>3, <2>5
  <2>7. QED
    BY <2>1, <2>4, <2>6
<1>6. PartsOf(Parts, Len(refs), Places)
  BY <1>4, <1>5 DEF PartsOf
<1>7. [i \in DOMAIN bundles |-> Entry(bundles[i])] = UpTo(Parts, Len(refs))
  BY <1>1, <1>3 DEF FollowInv
<1>8. QED
  BY <1>2, <1>4, <1>5, <1>6, <1>7

LEMMA StreamAtIs ==
  ASSUME ProverAssumption
  PROVE  MapsInto(StreamAt, Places, Bytes)
<1>1. ASSUME NEW place \in Places
      PROVE  StreamAt[place] \in Seq(Bytes)
  <2>1. PICK c \in Commitments : c = place[4]
    BY DEF Places
  <2>2. Content[c] \in Seq(Bytes) /\ Len(Content[c]) = BLOB_RAW_BYTES
    BY ContentIs
  <2>3. unpack_blob(Content[c]) \in Seq(Bytes)
    BY <2>2, Unpacked
  <2>4. StreamAt[place] = unpack_blob(Content[c])
    BY <2>1 DEF StreamAt
  <2>5. QED
    BY <2>3, <2>4
<1>2. QED
  BY <1>1 DEF MapsInto

LEMMA MappedIs ==
  ASSUME NEW s \in Seq(Places)
  PROVE  Mapped(StreamAt, s) = FlattenSeq([j \in 1..Len(s) |-> unpack_blob(Content[s[j][4]])])
<1>1. PICK n \in Nat : n = Len(s) /\ \A j \in 1..n : s[j] \in Places
  OBVIOUS
<1>2. \A j \in 1..n : StreamAt[s[j]] = unpack_blob(Content[s[j][4]])
  BY <1>1 DEF StreamAt
<1>3. [k \in 1..n |-> [j \in 1..n |-> StreamAt[s[j]]][k]]
        = [j \in 1..n |-> unpack_blob(Content[s[j][4]])]
  BY <1>2
<1>4. QED
  BY <1>1, <1>3 DEF Mapped, UpTo

LEMMA StreamIsCommitted ==
  ASSUME ProverAssumption, BlobSyncInv, pc = "ok"
  PROVE  /\ unpack_blobs(fetch_blob_data, Len(bundles)) = Committed
         /\ Committed \in Seq(Bytes)
         /\ Len(fetch_blob_data) = BLOB_RAW_BYTES * Len(bundles)
         /\ (\A i \in 1..Len(bundles) : Canonical(Content[bundles[i].hash]))
              <=> Unpacks(fetch_blob_data, Len(bundles))
<1>1. /\ bundles \in Seq(Bundles) /\ Len(bundles) \in Nat
      /\ fetch_blob_data = UpTo(Raws, Len(bundles))
      /\ PartsOf(Raws, Len(bundles), Bytes) /\ Even(Raws, Len(bundles), BLOB_RAW_BYTES)
      /\ \A i \in 1..Len(bundles) : Raws[i] = Content[bundles[i].hash]
  BY FetchedData
<1>2. /\ Len(refs) \in Nat /\ DOMAIN refs = 1..Len(refs)
      /\ PartsOf(Parts, Len(refs), Places)
      /\ \A k \in 1..Len(refs) : Parts[k] = Referenced(refs[k])
      /\ [i \in DOMAIN bundles |-> Entry(bundles[i])] = UpTo(Parts, Len(refs))
  BY PartsAre
<1>3. PICK n \in Nat : n = Len(bundles)
  BY <1>1
<1>4. PICK places \in Seq(Places) :
        /\ places = UpTo(Parts, Len(refs)) /\ Len(places) = n
        /\ \A i \in 1..n : places[i] = Entry(bundles[i])
  <2>1. [i \in DOMAIN bundles |-> Entry(bundles[i])] \in Seq(Places)
    BY <1>1, EntriesJoin
  <2>2. DOMAIN bundles = 1..n
    BY <1>1, <1>3
  <2>3. PICK places \in Seq(Places) : places = [i \in 1..n |-> Entry(bundles[i])]
    BY <2>1, <2>2
  <2>4. Len(places) = n /\ \A i \in 1..n : places[i] = Entry(bundles[i])
    BY ONLY <1>1, <1>3, <2>3
  <2>5. QED
    BY <1>2, <2>2, <2>3, <2>4
<1>5. Mapped(StreamAt, places) = unpack_blobs(fetch_blob_data, n)
  <2>1. \A i \in 1..n : places[i][4] = bundles[i].hash
    BY <1>4 DEF Entry
  <2>2. [j \in 1..n |-> unpack_blob(Content[places[j][4]])] = [j \in 1..n |-> unpack_blob(Raws[j])]
    BY <1>1, <1>3, <2>1
  <2>3. unpack_blobs(UpTo(Raws, n), n) = FlattenSeq([j \in 1..n |-> unpack_blob(Raws[j])])
    BY <1>1, <1>3, UnpackedAll
  <2>4. Mapped(StreamAt, places) = FlattenSeq([j \in 1..n |-> unpack_blob(Content[places[j][4]])])
    BY <1>4, MappedIs
  <2>5. QED
    BY <1>1, <1>3, <2>2, <2>3, <2>4
<1>6. Committed = Mapped(StreamAt, places)
  <2>1. PICK g : g = [k \in 1..Len(refs) |-> Mapped(StreamAt, Parts[k])]
    OBVIOUS
  <2>2. \A k \in 1..Len(refs) : g[k] = Mapped(StreamAt, Parts[k])
    BY <2>1
  <2>3. UpTo(g, Len(refs)) = Mapped(StreamAt, UpTo(Parts, Len(refs)))
    <3>1. EachMapped(g, StreamAt, Parts, Len(refs))
      BY <2>2 DEF EachMapped
    <3>2. QED
      BY <1>2, <3>1, StreamAtIs, MappedParts
  <2>4. ASSUME NEW k \in 1..Len(refs)
        PROVE  g[k] = FlattenSeq([i \in DOMAIN Referenced(refs[k]) |->
                        unpack_blob(Content[Referenced(refs[k])[i][4]])])
    <3>1. PICK part \in Seq(Places) : part = Parts[k] /\ part = Referenced(refs[k])
      BY <1>2 DEF PartsOf
    <3>2. DOMAIN part = 1..Len(part)
      BY <3>1
    <3>3. QED
      BY <2>2, <3>1, <3>2, MappedIs
  <2>5. Committed = UpTo(g, Len(refs))
    <3>1. [k \in DOMAIN refs |-> FlattenSeq([i \in DOMAIN Referenced(refs[k]) |->
             unpack_blob(Content[Referenced(refs[k])[i][4]])])]
            = [k \in 1..Len(refs) |-> g[k]]
      BY <1>2, <2>4
    <3>2. QED
      BY <3>1 DEF Committed, UpTo
  <2>6. QED
    BY <1>4, <2>3, <2>5
<1>7. Committed \in Seq(Bytes)
  BY <1>4, <1>6, StreamAtIs, MappedJoin
<1>8. Len(fetch_blob_data) = BLOB_RAW_BYTES * n
  BY <1>1, <1>3, RawBlobIs
<1>9. (\A i \in 1..n : Canonical(Content[bundles[i].hash])) <=> Unpacks(fetch_blob_data, n)
  <2>1. (\A j \in 1..n : Canonical(Raws[j])) <=> Unpacks(UpTo(Raws, n), n)
    BY <1>1, <1>3, UnpackedAll
  <2>2. QED
    BY <1>1, <1>3, <2>1
<1>10. QED
  BY <1>3, <1>5, <1>6, <1>7, <1>8, <1>9

-----------------------------------------------------------------------------
(* What there is a proof of.                                               *)

\* As many blobs as references, when the guest does not panic.
LEMMA AsManyBlobs ==
  ASSUME ProverAssumption, BlobSyncInv, pc = "ok", NEW auths, Accepts(FetchedInputs(auths))
  PROVE  /\ Len(bundles) = Len(refs) /\ StreamOf(FetchedInputs(auths)) = Committed
         /\ EntriesDecode(Committed)
         /\ Len(decode_entries(Committed)) = Len(auths)
<1>1. PICK in : in = FetchedInputs(auths)
  OBVIOUS
<1>2. in.blobs = refs /\ in.blob_data = fetch_blob_data /\ in.entry_auths = auths
  BY <1>1 DEF FetchedInputs
<1>3. Len(bundles) = Len(refs)
  <2>1. PICK n \in Nat, m \in Nat, size \in Nat :
          n = Len(bundles) /\ m = Len(refs) /\ size = BLOB_RAW_BYTES /\ size > 0
    BY FetchedData, PartsAre, Sizes
  <2>2. Len(fetch_blob_data) = size * n
    BY <2>1, StreamIsCommitted
  <2>3. Len(fetch_blob_data) = size * m
    BY <1>1, <1>2, <2>1 DEF Accepts, Unpacks
  <2>4. \A a, b, c \in Nat : c > 0 /\ c * a = c * b => a = b
    OBVIOUS
  <2>5. QED
    BY ONLY <2>1, <2>2, <2>3, <2>4
<1>4. StreamOf(in) = Committed
  BY <1>2, <1>3, StreamIsCommitted DEF StreamOf
<1>5. QED
  BY <1>1, <1>2, <1>3, <1>4 DEF Accepts, Entries

\* There is one of each.
LEMMA OneOfEach ==
  ASSUME ProverAssumption, BlobSyncInv, pc = "ok", NEW auths, Accepts(FetchedInputs(auths))
  PROVE  refs # <<>> /\ \A k \in DOMAIN refs : Len(Referenced(refs[k])) = 1
<1>1. Len(bundles) = Len(refs) /\ EntriesDecode(Committed)
  BY AsManyBlobs
<1>2. refs # <<>>
  <2>1. SUFFICES ASSUME refs = <<>>
                 PROVE  FALSE
    OBVIOUS
  <2>2. Committed = <<>>
    <3>1. [k \in DOMAIN refs |-> FlattenSeq([i \in DOMAIN Referenced(refs[k]) |->
             unpack_blob(Content[Referenced(refs[k])[i][4]])])]
            = [k \in 1..0 |-> Parts[k]]
      BY <2>1
    <3>2. QED
      BY <3>1, UpToNone DEF Committed, UpTo
  <2>3. QED
    BY <1>1, <2>2 DEF EntriesDecode, HeaderDecodes
<1>3. PICK n \in Nat : n = Len(refs) /\ DOMAIN refs = 1..n
  BY PartsAre
<1>4. /\ PartsOf(Parts, n, Places) /\ \A k \in 1..n : Parts[k] # <<>>
      /\ Len(UpTo(Parts, n)) = n
  <2>1. [i \in DOMAIN bundles |-> Entry(bundles[i])] = UpTo(Parts, n)
    BY <1>3, PartsAre
  <2>2. Len([i \in DOMAIN bundles |-> Entry(bundles[i])]) = Len(bundles)
    BY FetchedData
  <2>3. QED
    BY <1>1, <1>3, <2>1, <2>2, PartsAre
<1>5. \A k \in 1..n : Len(Parts[k]) = 1
  BY <1>4, SingleParts
<1>6. QED
  BY <1>2, <1>3, <1>5, PartsAre

\* Signers that are all known have signed the entries that the guest read.
LEMMA KnownSigners ==
  ASSUME NEW auths \in Seq(EntryAuths), NEW in, in.entry_auths = auths,
         Stranger \notin ToSet(Commit(in).signersHash),
         DOMAIN Entries(in) = DOMAIN auths
  PROVE  \A i \in DOMAIN auths : auths[i].data = Entries(in)[i]
<1>1. Commit(in).signersHash = [i \in DOMAIN auths |-> recover(auths[i], Entries(in)[i])]
  BY DEF Commit, keccak_signers
<1>2. PICK signers : signers = [i \in DOMAIN auths |-> recover(auths[i], Entries(in)[i])]
  OBVIOUS
<1>3. ToSet(signers) = {signers[i] : i \in DOMAIN auths}
  BY <1>2 DEF ToSet
<1>4. \A i \in DOMAIN auths : signers[i] # Stranger
  BY <1>1, <1>2, <1>3
<1>5. QED
  BY <1>2, <1>4 DEF recover

LEMMA ProvedOf ==
  ASSUME ProverAssumption, BlobSyncInv, pc = "ok", NEW auths \in Seq(EntryAuths),
         Accepts(FetchedInputs(auths)), NEW out, out = Commit(FetchedInputs(auths))
  PROVE  /\ Stranger \notin ToSet(out.signersHash) =>
              IsPrefix(encode_entries(DataOf(auths)), Committed)
         /\ out.publicInputsHash[1] = refs
         /\ out.totalEtherAccumulated = Capped(SumFunction(Amounts(auths)))
<1>1. PICK in : in = FetchedInputs(auths)
  OBVIOUS
<1>2. in.blobs = refs /\ in.entry_auths = auths
  BY <1>1 DEF FetchedInputs
<1>3. out.publicInputsHash[1] = refs
  BY <1>1, <1>2 DEF Commit, compute_public_inputs_hash
<1>4. out.totalEtherAccumulated = Capped(SumFunction(Amounts(auths)))
  BY <1>1, <1>2, SumIsCapped DEF Commit
<1>5. ASSUME Stranger \notin ToSet(out.signersHash)
      PROVE  IsPrefix(encode_entries(DataOf(auths)), Committed)
  <2>1. /\ Entries(in) = decode_entries(Committed)
        /\ EntriesDecode(Committed) /\ Len(decode_entries(Committed)) = Len(auths)
    BY <1>1, AsManyBlobs DEF Entries
  <2>2. PICK entries \in Seq(Seq(Bytes)) :
          /\ entries = decode_entries(Committed)
          /\ IsPrefix(encode_entries(entries), Committed)
    BY <2>1, StreamIsCommitted, OnlyEncodingsDecode
  <2>3. DOMAIN entries = DOMAIN auths
    BY <2>1, <2>2
  <2>4. \A i \in DOMAIN auths : auths[i].data = entries[i]
    <3>1. Stranger \notin ToSet(Commit(in).signersHash)
      BY <1>1, <1>5
    <3>2. DOMAIN Entries(in) = DOMAIN auths /\ Entries(in) = entries
      BY <2>1, <2>2, <2>3
    <3>3. \A i \in DOMAIN auths : auths[i].data = Entries(in)[i]
      BY <1>2, <3>1, <3>2, KnownSigners
    <3>4. QED
      BY <3>2, <3>3
  <2>5. DataOf(auths) = entries
    <3>1. [i \in DOMAIN auths |-> auths[i].data] = [i \in DOMAIN entries |-> entries[i]]
      BY <2>3, <2>4
    <3>2. entries = [i \in DOMAIN entries |-> entries[i]]
      OBVIOUS
    <3>3. QED
      BY <3>1, <3>2 DEF DataOf
  <2>6. QED
    BY <2>2, <2>5
<1>6. QED
  BY <1>3, <1>4, <1>5

-----------------------------------------------------------------------------
(* What is proved over.                                                    *)

LEMMA EncodedEntries ==
  ASSUME NEW entries \in Seq(Seq(Nat))
  PROVE  encode_entries(entries) \in Seq(Nat)
<1>1. PICK payload \in Seq(Nat) : payload = UpTo(EncodedEach(entries), Len(entries))
  BY ItemsRoundTrip
<1>2. PICK size \in Nat : size = Len(payload)
  BY <1>1
<1>3. PICK head \in Seq(Nat) : head = encode_header(TRUE, size)
  BY WrittenHead
<1>4. head \o payload \in Seq(Nat)
  BY Joined
<1>5. DOMAIN entries = 1..Len(entries)
  OBVIOUS
<1>6. QED
  BY <1>1, <1>2, <1>3, <1>4, <1>5, ListPayload

LEMMA PrefixIsStart ==
  ASSUME NEW T, NEW s \in Seq(T), NEW t \in Seq(T), IsPrefix(s, t)
  PROVE  IsStart(s, t)
<1>1. Len(s) \in Nat /\ Len(t) \in Nat /\ Len(s) <= Len(t)
  BY DEF IsPrefix
<1>2. SubSeq(s, 1, Len(s)) = SubSeq(t, 1, Len(s))
  BY DEF IsPrefix
<1>3. \A k \in 1..Len(s) : SubSeq(s, 1, Len(s))[k] = s[k] /\ SubSeq(t, 1, Len(s))[k] = t[k]
  BY <1>1
<1>4. QED
  BY <1>1, <1>2, <1>3 DEF IsStart, Agree

\* An encoding at the front of the stream is read as what was encoded.
LEMMA ReadBack ==
  ASSUME NEW entries \in Seq(Seq(Nat)), NoneEmpty(entries), NEW s \in Seq(Bytes),
         NEW e, e = encode_entries(entries), IsStart(e, s)
  PROVE  EntriesDecode(s) /\ decode_entries(s) = entries
<1>1. Bytes \subseteq Nat
  BY DEF Bytes
<1>2. s \in Seq(Nat)
  BY <1>1, Widened
<1>3. QED
  BY <1>2, EntriesRoundTrip

LEMMA InputsTyped ==
  ASSUME NEW blobs \in Seq([block : Blocks, tx : Nat]), NEW total \in 0..MaxEther,
         NEW other \in 0..MaxEther, NEW data \in Seq(Bytes), NEW auths \in Seq(EntryAuths)
  PROVE  InputsOf(blobs, total, <<blobs, other>>, data, auths) \in GuestInputs
<1>1. PICK Refs, Totals, Datas, Auth : /\ Refs = Seq([block : Blocks, tx : Nat])
                                       /\ Totals = 0..MaxEther
                                       /\ Datas = Seq(Bytes) /\ Auth = Seq(EntryAuths)
  OBVIOUS
<1>2. /\ blobs \in Refs /\ total \in Totals /\ other \in Totals /\ data \in Datas
      /\ auths \in Auth
  BY <1>1
<1>3. [blobs |-> blobs, total_ether_paid |-> total, expected_public_inputs_hash |-> <<blobs, other>>,
       blob_data |-> data, entry_auths |-> auths]
        \in [blobs : Refs, total_ether_paid : Totals, expected_public_inputs_hash : Refs \X Totals,
             blob_data : Datas, entry_auths : Auth]
  BY ONLY <1>2
<1>4. QED
  BY ONLY <1>1, <1>3 DEF InputsOf, GuestInputs

LEMMA SampleAccepted ==
  ASSUME ProverAssumption
  PROVE  Accepts(sample_inputs) /\ sample_inputs \in GuestInputs
<1>1. PICK entries : entries = SampleEntries
  OBVIOUS
<1>2. PICK e \in Seq(Bytes) : e = encode_entries(entries) /\ Len(e) <= BLOB_PAYLOAD_BYTES
  BY <1>1 DEF ProverAssumption
<1>3. PICK blob : blob = pack_blob(e)
  OBVIOUS
<1>4. Bytes \subseteq Nat /\ 0 \in Bytes
  BY EncodingAssumption DEF Bytes, ListBase
<1>5. /\ blob \in Seq(Bytes) /\ Len(blob) = BLOB_RAW_BYTES /\ Canonical(blob)
      /\ unpack_blob(blob) = Padded(e)
  BY <1>2, <1>3, <1>4, Packed
<1>6. PICK f : f = [k \in 1..1 |-> blob]
  OBVIOUS
<1>7. PartsOf(f, 1, Bytes) /\ Even(f, 1, BLOB_RAW_BYTES) /\ f[1] = blob
  BY <1>5, <1>6 DEF PartsOf, Even
<1>8. UpTo(f, 1) = blob
  BY <1>7, UpToOne
<1>9. Unpacks(blob, 1)
  <2>1. (\A j \in 1..1 : Canonical(f[j])) <=> Unpacks(UpTo(f, 1), 1)
    BY <1>7, UnpackedAll
  <2>2. \A j \in 1..1 : Canonical(f[j])
    BY <1>5, <1>6
  <2>3. QED
    BY <1>8, <2>1, <2>2
<1>10. PICK padded \in Seq(Bytes) : padded = Padded(e)
  BY <1>2, <1>4, PaddedIs
<1>11. unpack_blobs(blob, 1) = padded
  <2>1. unpack_blobs(UpTo(f, 1), 1) = FlattenSeq([j \in 1..1 |-> unpack_blob(f[j])])
    BY <1>7, UnpackedAll
  <2>2. PICK g : g = [j \in 1..1 |-> unpack_blob(f[j])]
    OBVIOUS
  <2>3. g[1] = padded
    BY <1>5, <1>7, <1>10, <2>2
  <2>4. PartsOf(g, 1, Bytes)
    BY <2>3 DEF PartsOf
  <2>5. UpTo(g, 1) = g[1]
    BY <2>4, UpToOne
  <2>6. UpTo(g, 1) = padded
    BY <2>3, <2>5
  <2>7. [j \in 1..1 |-> g[j]] = [j \in 1..1 |-> unpack_blob(f[j])]
    BY <2>2
  <2>8. QED
    BY <1>8, <2>1, <2>6, <2>7 DEF UpTo
<1>12. entries \in Seq(Seq(Nat)) /\ NoneEmpty(entries)
  <2>1. SampleEntries \in Seq(Seq(Bytes) \ {<<>>})
    BY DEF ProverAssumption
  <2>2. Seq(Bytes) \ {<<>>} \subseteq Seq(Nat)
    BY <1>4, Widened
  <2>3. entries \in Seq(Seq(Nat))
    BY <1>1, <2>1, <2>2, Widened
  <2>4. NoneEmpty(entries)
    BY <1>1, <2>1 DEF NoneEmpty
  <2>5. QED
    BY <2>3, <2>4
<1>13. IsStart(e, padded)
  <2>1. PICK zeros : zeros = Zeros(BLOB_PAYLOAD_BYTES - Len(e))
    OBVIOUS
  <2>2. zeros \in Seq(Nat) /\ e \in Seq(Nat)
    <3>1. BLOB_PAYLOAD_BYTES - Len(e) \in Nat
      BY <1>2, Sizes
    <3>2. zeros \in Seq(Nat)
      BY <2>1, <3>1 DEF Zeros
    <3>3. QED
      BY <1>2, <1>4, <3>2, Widened
  <2>3. padded = e \o zeros
    BY <1>10, <2>1 DEF Padded
  <2>4. /\ Len(padded) = Len(e) + Len(zeros) /\ Len(e) \in Nat /\ Len(zeros) \in Nat
        /\ \A k \in 1..Len(e) : padded[k] = e[k]
    BY <2>2, <2>3, Joined
  <2>5. QED
    BY <2>4 DEF IsStart, Agree
<1>14. EntriesDecode(padded) /\ decode_entries(padded) = entries
  BY <1>2, <1>12, <1>13, ReadBack
<1>15. PICK in : in = sample_inputs
  OBVIOUS
<1>16. /\ in.blobs = <<SampleRef>> /\ in.blob_data = blob /\ in.entry_auths = SampleAuths
       /\ compute_public_inputs_hash(in.blobs, in.total_ether_paid) = in.expected_public_inputs_hash
  <2>1. in.blobs = <<SampleRef>> /\ in.entry_auths = SampleAuths
    BY <1>15, SampleIs
  <2>2. in.blob_data = pack_blob(encode_entries(SampleEntries))
    BY <1>15, SampleIs
  <2>3. /\ in.total_ether_paid = sum_ether(SampleAuths)
        /\ in.expected_public_inputs_hash
             = compute_public_inputs_hash(<<SampleRef>>, sum_ether(SampleAuths))
    BY <1>15, SampleIs
  <2>4. QED
    BY <1>1, <1>2, <1>3, <2>1, <2>2, <2>3
<1>17. Len(in.blobs) = 1
  BY <1>16
<1>18. StreamOf(in) = padded
  BY <1>11, <1>16, <1>17 DEF StreamOf
<1>19. Len(Entries(in)) = Len(in.entry_auths)
  BY <1>1, <1>14, <1>16, <1>18, SampleIs DEF Entries
<1>20. \A i \in DOMAIN in.entry_auths : Recovers(in.entry_auths[i])
  <2>1. DOMAIN SampleAuths = 1..Len(SampleEntries)
    BY SampleIs
  <2>2. QED
    BY <1>16, <2>1, SampleIs
<1>21. Accepts(in)
  BY <1>9, <1>14, <1>16, <1>17, <1>18, <1>19, <1>20 DEF Accepts
<1>22. in \in GuestInputs
  <2>1. SampleAuths \in Seq(EntryAuths) /\ sum_ether(SampleAuths) \in 0..MaxEther
    BY SampleIs, SumIsCapped
  <2>2. <<SampleRef>> \in Seq([block : Blocks, tx : Nat])
    BY DEF ProverAssumption
  <2>3. in = InputsOf(<<SampleRef>>, sum_ether(SampleAuths), <<<<SampleRef>>, sum_ether(SampleAuths)>>,
                      blob, SampleAuths)
    BY <1>1, <1>2, <1>3, <1>15, SampleIs DEF InputsOf, compute_public_inputs_hash
  <2>4. QED
    BY <1>5, <2>1, <2>2, <2>3, InputsTyped
<1>23. QED
  BY <1>15, <1>21, <1>22

LEMMA HonestAccepted ==
  ASSUME ProverAssumption, BlobSyncInv, pc = "ok", NEW auths \in Seq(EntryAuths),
         \A i \in DOMAIN auths : Recovers(auths[i]) /\ auths[i].data # <<>>,
         \A k \in DOMAIN refs : Len(Referenced(refs[k])) = 1,
         \A k \in DOMAIN refs : Canonical(Content[Referenced(refs[k])[1][4]]),
         IsPrefix(encode_entries(DataOf(auths)), Committed)
  PROVE  Accepts(FetchedInputs(auths))
<1>1. PICK n \in Nat : n = Len(refs) /\ DOMAIN refs = 1..n
  BY PartsAre
<1>2. PICK m \in Nat : m = Len(bundles) /\ DOMAIN bundles = 1..m
  BY FetchedData
<1>3. /\ PartsOf(Parts, n, Places) /\ \A k \in 1..n : Parts[k] = Referenced(refs[k])
      /\ [i \in 1..m |-> Entry(bundles[i])] = UpTo(Parts, n)
  BY <1>1, <1>2, PartsAre
<1>4. Even(Parts, n, 1)
  BY <1>1, <1>3 DEF Even
<1>5. Len(UpTo(Parts, n)) = n * 1 /\ \A i \in 1..n : IsPlacedEvenly(Parts, n, 1, i)
  BY <1>3, <1>4, EvenParts
<1>6. m = n
  BY <1>2, <1>3, <1>5
<1>7. ASSUME NEW i \in 1..n
      PROVE  Canonical(Content[bundles[i].hash])
  <2>1. UpTo(Parts, n)[(i - 1) * 1 + 1] = Parts[i][1]
    BY <1>5 DEF IsPlacedEvenly
  <2>2. (i - 1) * 1 + 1 = i
    OBVIOUS
  <2>3. Entry(bundles[i]) = Parts[i][1]
    BY <1>3, <1>6, <2>1, <2>2
  <2>4. Entry(bundles[i])[4] = bundles[i].hash
    BY DEF Entry
  <2>5. Parts[i][1] = Referenced(refs[i])[1]
    BY <1>3
  <2>6. bundles[i].hash = Referenced(refs[i])[1][4]
    BY <2>3, <2>4, <2>5
  <2>7. QED
    BY <1>1, <2>6
<1>8. Unpacks(fetch_blob_data, n)
  BY <1>2, <1>6, <1>7, StreamIsCommitted
<1>9. unpack_blobs(fetch_blob_data, n) = Committed /\ Committed \in Seq(Bytes)
  BY <1>2, <1>6, StreamIsCommitted
<1>10. PICK data \in Seq(Seq(Nat)) : data = DataOf(auths) /\ NoneEmpty(data) /\ Len(data) = Len(auths)
  <2>1. Bytes \subseteq Nat
    BY DEF Bytes
  <2>2. \A i \in 1..Len(auths) : auths[i].data \in Seq(Nat)
    <3>1. \A i \in 1..Len(auths) : auths[i] \in EntryAuths
      OBVIOUS
    <3>2. \A auth \in EntryAuths : auth.data \in Seq(Bytes)
      BY DEF EntryAuths
    <3>3. QED
      BY <2>1, <3>1, <3>2, Widened
  <2>3. DOMAIN auths = 1..Len(auths) /\ Len(auths) \in Nat
    OBVIOUS
  <2>4. DataOf(auths) = [i \in 1..Len(auths) |-> auths[i].data]
    BY <2>3 DEF DataOf
  <2>5. PICK data \in Seq(Seq(Nat)) : data = [i \in 1..Len(auths) |-> auths[i].data]
    <3>1. [i \in 1..Len(auths) |-> auths[i].data] \in [1..Len(auths) -> Seq(Nat)]
      BY <2>2
    <3>2. PICK size \in Nat : size = Len(auths)
      BY <2>3
    <3>3. PICK S : S = Seq(Nat)
      OBVIOUS
    <3>4. \A g \in [1..size -> S] : g \in Seq(S)
      BY ONLY size \in Nat
    <3>5. QED
      BY ONLY <3>1, <3>2, <3>3, <3>4, Zenon
  <2>6. Len(data) = Len(auths) /\ \A i \in 1..Len(auths) : data[i] = auths[i].data
    BY <2>3, <2>5
  <2>7. NoneEmpty(data)
    BY <2>3, <2>5, <2>6 DEF NoneEmpty
  <2>8. QED
    BY <2>4, <2>5, <2>6, <2>7
<1>11. PICK e \in Seq(Nat) : e = encode_entries(data)
  BY EncodedEntries
<1>12. IsStart(e, Committed)
  <2>1. Committed \in Seq(Nat)
    <3>1. Bytes \subseteq Nat
      BY DEF Bytes
    <3>2. QED
      BY <1>9, <3>1, Widened
  <2>2. IsPrefix(e, Committed)
    BY <1>10, <1>11
  <2>3. QED
    BY <2>1, <2>2, PrefixIsStart
<1>13. EntriesDecode(Committed) /\ decode_entries(Committed) = data
  BY <1>9, <1>10, <1>11, <1>12, ReadBack
<1>14. PICK in : in = FetchedInputs(auths)
  OBVIOUS
<1>15. /\ in.blobs = refs /\ in.blob_data = fetch_blob_data /\ in.entry_auths = auths
       /\ compute_public_inputs_hash(in.blobs, in.total_ether_paid) = in.expected_public_inputs_hash
  BY <1>14 DEF FetchedInputs
<1>16. StreamOf(in) = Committed
  BY <1>1, <1>9, <1>15 DEF StreamOf
<1>17. Accepts(in)
  BY <1>1, <1>8, <1>10, <1>13, <1>15, <1>16 DEF Accepts, Entries
<1>18. QED
  BY <1>14, <1>17

-----------------------------------------------------------------------------
(* Theorems.                                                               *)

\* The output is typed when the guest does not panic.
LEMMA OutputTyped ==
  ASSUME ProverAssumption, NEW blobs \in Seq([block : Blocks, tx : Nat]), NEW total \in 0..MaxEther,
         NEW auths \in Seq(EntryAuths), NEW in,
         in.blobs = blobs, in.total_ether_paid = total, in.entry_auths = auths
  PROVE  Commit(in) \in Output
<1>1. PICK hash : hash = <<blobs, total>>
  OBVIOUS
<1>2. hash \in Seq([block : Blocks, tx : Nat]) \X (0..MaxEther)
  BY <1>1
<1>3. PICK sum \in 0..MaxEther : sum = sum_ether(auths)
  BY SumIsCapped
<1>4. PICK signers \in Seq(Signers \cup {Stranger}) :
        signers = [i \in DOMAIN auths |-> recover(auths[i], Entries(in)[i])]
  <2>1. PICK n \in Nat : n = Len(auths) /\ DOMAIN auths = 1..n
    BY ONLY auths \in Seq(EntryAuths)
  <2>2. \A i \in 1..n : auths[i].signer \in Signers
    <3>1. \A i \in 1..n : auths[i] \in EntryAuths
      BY ONLY auths \in Seq(EntryAuths), <2>1
    <3>2. \A auth \in EntryAuths : auth.signer \in Signers
      BY ONLY TRUE DEF EntryAuths
    <3>3. QED
      BY <3>1, <3>2
  <2>3. \A i \in 1..n : recover(auths[i], Entries(in)[i]) \in Signers \cup {Stranger}
    BY ONLY <2>2 DEF recover
  <2>4. [i \in 1..n |-> recover(auths[i], Entries(in)[i])] \in [1..n -> Signers \cup {Stranger}]
    BY ONLY <2>3
  <2>5. PICK All : All = Signers \cup {Stranger}
    OBVIOUS
  <2>6. [i \in 1..n |-> recover(auths[i], Entries(in)[i])] \in Seq(All)
    BY ONLY <2>4, <2>5, n \in Nat
  <2>7. QED
    BY <2>1, <2>5, <2>6, Zenon
<1>5. Commit(in) = [publicInputsHash |-> hash, valid |-> TRUE, totalEtherAccumulated |-> sum,
                    signersHash |-> signers]
  BY <1>1, <1>3, <1>4, Zenon DEF Commit, compute_public_inputs_hash, keccak_signers
<1>6. \A T : \A t \in T :
        [publicInputsHash |-> hash, valid |-> t, totalEtherAccumulated |-> sum, signersHash |-> signers]
          \in [publicInputsHash : Seq([block : Blocks, tx : Nat]) \X (0..MaxEther), valid : T,
               totalEtherAccumulated : 0..MaxEther, signersHash : Seq(Signers \cup {Stranger})]
  BY ONLY <1>2, <1>3, <1>4
<1>7. TRUE \in {TRUE}
  OBVIOUS
<1>8. QED
  BY <1>5, <1>6, <1>7, Zenon DEF Output

LEMMA InputsOfHost ==
  ASSUME ProverAssumption, ProverInv, host # "fetching"
  PROVE  /\ Len(inputs) = 1 /\ inputs[1] \in GuestInputs
         /\ \/ pc = "start" /\ inputs[1] = sample_inputs
            \/ pc = "ok" /\ \E auths \in AuthLists : inputs[1] = FetchedInputs(auths)
<1>1. BlobSyncInv
  BY DEF ProverInv
<1>2. PICK in : in = inputs[1] /\ inputs = <<in>>
  BY DEF ProverInv, HostInv
<1>3. \/ pc = "start" /\ in = sample_inputs
      \/ pc = "ok" /\ \E auths \in AuthLists : in = FetchedInputs(auths)
  BY <1>2 DEF ProverInv, HostInv
<1>4. CASE in = sample_inputs
  BY <1>2, <1>3, <1>4, SampleAccepted
<1>5. ASSUME pc = "ok", NEW auths \in AuthLists, in = FetchedInputs(auths)
      PROVE  in \in GuestInputs
  <2>1. auths \in Seq(EntryAuths)
    BY DEF ProverAssumption
  <2>2. refs \in Seq([block : Blocks, tx : Nat])
    BY <1>1, <1>5, PartsAre
  <2>3. PICK total \in 0..MaxEther : total = sum_ether(SampleAuths)
    BY SampleIs, SumIsCapped
  <2>4. PICK data \in Seq(Bytes) : data = fetch_blob_data
    <3>1. /\ fetch_blob_data = UpTo(Raws, Len(bundles)) /\ Len(bundles) \in Nat
          /\ PartsOf(Raws, Len(bundles), Bytes) /\ Even(Raws, Len(bundles), BLOB_RAW_BYTES)
      BY <1>1, <1>5, FetchedData
    <3>2. QED
      BY <3>1, RawBlobIs
  <2>5. in = InputsOf(refs, total, <<refs, total>>, data, auths)
    BY <1>5, <2>3, <2>4 DEF FetchedInputs, InputsOf, compute_public_inputs_hash
  <2>6. QED
    BY <2>1, <2>2, <2>5, InputsTyped
<1>6. in \in GuestInputs
  BY <1>3, <1>4, <1>5, SampleAccepted
<1>7. QED
  BY <1>2, <1>3, <1>6

LEMMA ProverTyped ==
  ASSUME ProverAssumption, ProverInv
  PROVE  ProverTypeOK
<1>1. TypeOK /\ host \in {"fetching", "proving", "proved", "panicked", "failed"}
  BY DEF ProverInv, BlobSyncInv, HostInv
<1>2. inputs \in Seq(GuestInputs) /\ Len(inputs) = (IF host = "fetching" THEN 0 ELSE 1)
  <2>1. CASE host = "fetching"
    BY <2>1 DEF ProverInv, HostInv
  <2>2. CASE host # "fetching"
    <3>1. PICK in \in GuestInputs : inputs = <<in>>
      BY <2>2, InputsOfHost DEF ProverInv, HostInv
    <3>2. QED
      BY <2>2, <3>1
  <2>3. QED
    BY <2>1, <2>2
<1>3. output \in Seq(Output) /\ Len(output) = (IF host = "proved" THEN 1 ELSE 0)
  <2>1. CASE host = "proved"
    <3>1. PICK in \in GuestInputs : in = inputs[1]
      BY <2>1, InputsOfHost
    <3>2. /\ in.blobs \in Seq([block : Blocks, tx : Nat]) /\ in.total_ether_paid \in 0..MaxEther
          /\ in.entry_auths \in Seq(EntryAuths)
      BY ONLY in \in GuestInputs DEF GuestInputs
    <3>3. PICK out \in Output : out = Commit(in)
      BY <3>2, OutputTyped
    <3>4. output = <<out>>
      BY <2>1, <3>1, <3>3 DEF ProverInv, HostInv
    <3>5. QED
      BY <2>1, <3>4
  <2>2. CASE host # "proved"
    BY <2>2 DEF ProverInv, HostInv
  <2>3. QED
    BY <2>1, <2>2
<1>4. QED
  BY <1>1, <1>2, <1>3 DEF ProverTypeOK

\* The state of the host beside that of fetch_blobs, and what is written for the
\* guest and committed by it, are what the types say, in every state.
THEOREM ProverTypeCorrect == ProverSpec => []ProverTypeOK
<1>1. ProverInv => ProverTypeOK
  BY ProverAssumption, ProverTyped
<1>2. QED
  BY <1>1, ProverInvHolds, PTL

\* What main hands to the guest are the bytes that the transactions committed to
\* (fetch_blobs within the prover).
THEOREM ProverBytesAreCommitted == ProverSpec => []BlobsAreCommitted
<1>1. ProverInv => BlobsAreCommitted
  BY DEF ProverInv, BlobSyncInv
<1>2. QED
  BY <1>1, ProverInvHolds, PTL

\* A proof with known signers is over the list that the referenced transactions
\* committed to, and over nothing else, whatever the two nodes answered; it
\* names the transactions and the total.
THEOREM ProofsAreOfCommittedBatches == ProverSpec => []ProofIsOfCommittedBatch
<1>1. ProverInv => ProofIsOfCommittedBatch
  <2>1. SUFFICES ASSUME ProverInv, Real, host = "proved"
                 PROVE  LET sum == SumFunction([i \in DOMAIN Auths |-> Auths[i].ether_amount])
                        IN /\ Stranger \notin ToSet(output[1].signersHash) =>
                                IsPrefix(encode_entries(DataOf(Auths)), Committed)
                           /\ output[1].publicInputsHash[1] = refs
                           /\ output[1].totalEtherAccumulated = (IF sum < MaxEther THEN sum ELSE MaxEther)
    BY DEF ProofIsOfCommittedBatch
  <2>2. PICK auths \in AuthLists : inputs[1] = FetchedInputs(auths)
    BY <2>1, ProverAssumption, InputsOfHost DEF Real
  <2>3. auths \in Seq(EntryAuths)
    BY ProverAssumption DEF ProverAssumption
  <2>4. Auths = auths
    BY <2>2 DEF Auths, FetchedInputs
  <2>5. PICK out : out = Commit(FetchedInputs(auths)) /\ output[1] = out
    BY <2>1, <2>2 DEF ProverInv, HostInv
  <2>6. Accepts(FetchedInputs(auths)) /\ BlobSyncInv /\ pc = "ok"
    BY <2>1, <2>2 DEF ProverInv, HostInv, Real
  <2>7. /\ Stranger \notin ToSet(out.signersHash) =>
             IsPrefix(encode_entries(DataOf(auths)), Committed)
        /\ out.publicInputsHash[1] = refs
        /\ out.totalEtherAccumulated = Capped(SumFunction(Amounts(auths)))
    BY <2>3, <2>5, <2>6, ProverAssumption, ProvedOf
  <2>8. QED
    BY <2>4, <2>5, <2>7 DEF Amounts, Capped
<1>2. QED
  BY <1>1, ProverInvHolds, PTL

\* The divergence that SpanningInputsProve shows, for every value of the constants:
\* the guest counts blobs where the host counts references, so that nothing is
\* proved over a transaction of several blobs.
THEOREM OnlySingleBlobsAreProved ==
  ProverSpec => [](Real /\ host = "proved" => refs # <<>> /\ OneBlobEach)
<1>1. ProverInv => (Real /\ host = "proved" => refs # <<>> /\ OneBlobEach)
  <2>1. SUFFICES ASSUME ProverInv, Real, host = "proved"
                 PROVE  refs # <<>> /\ \A k \in DOMAIN refs : Len(Referenced(refs[k])) = 1
    BY DEF OneBlobEach
  <2>2. PICK auths \in AuthLists : inputs[1] = FetchedInputs(auths)
    BY <2>1, ProverAssumption, InputsOfHost DEF Real
  <2>3. Accepts(FetchedInputs(auths)) /\ BlobSyncInv /\ pc = "ok"
    BY <2>1, <2>2 DEF ProverInv, HostInv, Real
  <2>4. QED
    BY <2>3, ProverAssumption, OneOfEach
<1>2. QED
  BY <1>1, ProverInvHolds, PTL

\* Nothing else stands in the way of a proof: the guest does not panic over the
\* sample, nor over well-formed signatures of the entries that are on chain.
THEOREM HonestInputsAreProved == ProverSpec => []HonestInputsProve
<1>1. ProverInv => HonestInputsProve
  <2>1. SUFFICES ASSUME ProverInv, host = "panicked"
                 PROVE  Real /\ ~(SignedAsCommitted /\ OneBlobEach)
    BY DEF HonestInputsProve
  <2>2. ~Accepts(inputs[1]) /\ BlobSyncInv
    BY <2>1 DEF ProverInv, HostInv
  <2>3. PICK auths \in AuthLists : inputs[1] = FetchedInputs(auths) /\ pc = "ok"
    BY <2>1, <2>2, ProverAssumption, InputsOfHost, SampleAccepted
  <2>4. auths \in Seq(EntryAuths) /\ Auths = auths
    BY <2>3, ProverAssumption DEF ProverAssumption, Auths, FetchedInputs
  <2>5. ASSUME \A i \in DOMAIN auths : Recovers(auths[i]) /\ auths[i].data # <<>>,
               \A k \in DOMAIN refs : Len(Referenced(refs[k])) = 1,
               \A k \in DOMAIN refs : Canonical(Content[Referenced(refs[k])[1][4]]),
               IsPrefix(encode_entries(DataOf(auths)), Committed)
        PROVE  FALSE
    <3>1. Accepts(FetchedInputs(auths))
      BY <2>2, <2>3, <2>4, <2>5, ProverAssumption, HonestAccepted
    <3>2. QED
      BY <2>2, <2>3, <3>1
  <2>6. ASSUME SignedAsCommitted, OneBlobEach, NEW k \in DOMAIN refs
        PROVE  Canonical(Content[Referenced(refs[k])[1][4]])
    <3>1. Len(Referenced(refs[k])) = 1
      BY <2>6 DEF OneBlobEach
    <3>2. 1 \in DOMAIN Referenced(refs[k])
      BY <2>2, <2>3, <2>6, <3>1, PartsAre
    <3>3. QED
      BY <2>6, <3>2 DEF SignedAsCommitted
  <2>7. QED
    BY <2>3, <2>4, <2>5, <2>6 DEF Real, SignedAsCommitted, OneBlobEach
<1>2. QED
  BY <1>1, ProverInvHolds, PTL

\* Within the prover too fetch_blobs returns the blobs of the references, in
\* their order.
THEOREM ProverOutputFollowsInput == ProverSpec => []BundlesFollowRefs
<1>1. ProverInv => BundlesFollowRefs
  BY BlobSyncAssumption, AllFollowed DEF ProverInv
<1>2. QED
  BY <1>1, ProverInvHolds, PTL

\* Nothing that is known of a block is asked for again or replaced while the
\* prover runs.
THEOREM ProverOneView == ProverSpec => OneViewOfABlock
<1> DEFINE Stays == \A b \in Fetched : b \in Fetched' /\ block_data'[b] = block_data[b]
<1>1. ProverInv /\ [ProverNext]_<<vars, proverVars>> => [Stays]_vars
  BY BlobSyncAssumption, FetchesOrNot, KnownStays DEF ProverInv, BlobSyncInv
<1>2. QED
  BY <1>1, ProverInvHolds, PTL DEF ProverSpec, OneViewOfABlock
=============================================================================
