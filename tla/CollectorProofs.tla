-------------------------- MODULE CollectorProofs --------------------------
(***************************************************************************)
(* Proofs about Collector, for any number of microblobs, workers, time     *)
(* steps and failures; then about CollectorApi, what the landing page and  *)
(* the sidecar of a transaction show, and about CollectorChain.            *)
(***************************************************************************)
EXTENDS CollectorApi, CollectorChain, FiniteSetTheorems, SequenceTheorems, TLAPS

USE DEF NoHash

-----------------------------------------------------------------------------
(* The inductive invariant.                                                *)

\* What a worker carries as a batch: up to ListLimit accepted microblobs, none
\* of them twice.
IsBatch(batch) ==
  /\ batch \in Seq(Ids)
  /\ Len(batch) \in 1..ListLimit
  /\ \A i, j \in 1..Len(batch) : batch[i] = batch[j] => i = j
  /\ \A i \in 1..Len(batch) : kv[batch[i]].status # "absent"

\* The version of a record tells its status.
VersionsOK ==
  \A id \in Ids :
    /\ kv[id].status = "absent" <=> kv[id].version = 0
    /\ kv[id].status = "pending" <=> kv[id].version = 1
    /\ kv[id].status = "bundled" <=> kv[id].version = 2

\* A record that is not there has no transaction.
MissingOK == \A id \in Ids : kv[id].status = "absent" => kv[id].bundleTxHash = NoHash

\* A worker marks entries of the transaction it sent, and what it holds of a
\* record is the record, as long as the version has not moved.
WorkerOK(s) ==
  /\ s \in WorkerState
  /\ s.pc # "idle" => IsBatch(s.batch)
  /\ s.pc \in {"get", "commit"} =>
       /\ s.tx \in 1..Len(txs)
       /\ \A i \in 1..Len(s.batch) : \E j \in 1..Len(txs[s.tx]) : s.batch[i] = txs[s.tx][j]
  /\ s.pc = "commit" =>
       /\ s.entry.version = 1
       /\ Unchanged(s.batch[1], s.entry) => kv[s.batch[1]] = s.entry

WorkersOK == \A w \in Workers : WorkerOK(worker[w])

TxsOK == \A t \in 1..Len(txs) : IsBatch(txs[t])

Inv ==
  /\ TypeOK
  /\ VersionsOK
  /\ MissingOK
  /\ WorkersOK
  /\ TxsOK
  /\ IndexesMatchRecords
  /\ BundledWasPublished

-----------------------------------------------------------------------------
(* The lists a worker handles.                                             *)

\* The pending index is finite, and empty only when its size is 0.
LEMMA PendingIdxFinite ==
  ASSUME TypeOK
  PROVE  /\ IsFiniteSet(pendingIdx)
         /\ Cardinality(pendingIdx) \in Nat
         /\ Cardinality(pendingIdx) = 0 => pendingIdx = {}
<1>1. IsFiniteSet(Time)
  BY FS_Interval, CollectorAssumption DEF Time
<1>2. IsFiniteSet(Time \X Ids)
  BY <1>1, FS_Product, CollectorAssumption
<1>3. IsFiniteSet(pendingIdx)
  BY <1>2, FS_Subset DEF TypeOK
<1>4. QED
  BY <1>3, FS_CardinalityType, FS_EmptySet

\* What a tick lists of a nonempty pending index is a batch of pending records.
LEMMA ListingIsBatch ==
  ASSUME TypeOK, IndexesMatchRecords, pendingIdx # {},
         NEW ids \in NewestFirst(pendingIdx, ListLimit)
  PROVE  IsBatch(ids)
<1> DEFINE len == IF Cardinality(pendingIdx) < ListLimit THEN Cardinality(pendingIdx)
                  ELSE ListLimit
<1>1. len \in 1..ListLimit
  BY PendingIdxFinite, CollectorAssumption
<1>2. PICK keys \in [1..len -> pendingIdx] :
        /\ ids = [i \in 1..len |-> keys[i][2]]
        /\ \A i, j \in 1..len : i < j => Before(keys[j], keys[i])
  BY DEF NewestFirst
<1> HIDE DEF len
<1>3. \A i \in 1..len : /\ keys[i][2] \in Ids
                        /\ kv[keys[i][2]].status = "pending"
                        /\ keys[i] = <<kv[keys[i][2]].createdAt, keys[i][2]>>
  BY <1>2 DEF IndexesMatchRecords
<1>4. ids \in Seq(Ids) /\ Len(ids) = len
  BY <1>1, <1>2, <1>3, CollectorAssumption
<1>5. ASSUME NEW i \in 1..len, NEW j \in 1..len, ids[i] = ids[j], i < j
      PROVE  FALSE
  <2>1. keys[i] = keys[j]
    BY <1>2, <1>3, <1>5
  <2>2. Before(keys[j], keys[i])
    BY <1>2, <1>5
  <2>3. keys[i][1] \in Nat /\ keys[i][2] \in Nat
    <3> DEFINE id == keys[i][2]
    <3>1. id \in Ids /\ keys[i] = <<kv[id].createdAt, id>>
      BY <1>3, <1>5
    <3>2. kv[id] \in Microblob
      BY <3>1 DEF TypeOK
    <3>3. kv[id].createdAt \in Nat
      BY <3>2, CollectorAssumption DEF Microblob, Time
    <3>4. id \in Nat
      BY <3>1, CollectorAssumption
    <3> HIDE DEF id
    <3>5. keys[i][1] = kv[id].createdAt /\ keys[i][2] = id
      BY <3>1
    <3>6. QED
      BY <3>3, <3>4, <3>5
  <2>4. QED
    BY <2>1, <2>2, <2>3 DEF Before
<1>6. \A i, j \in 1..len : ids[i] = ids[j] => i = j
  BY <1>1, <1>5
<1>7. QED
  BY <1>1, <1>2, <1>3, <1>4, <1>6, CollectorAssumption DEF IsBatch

\* Passing over records that are not there leaves a batch, if anything.
LEMMA PresentIsBatch ==
  ASSUME NEW batch, IsBatch(batch), NEW found \in Present(batch), found # <<>>
  PROVE  IsBatch(found)
<1> DEFINE here == {i \in DOMAIN batch : kv[batch[i]].status # "absent"}
           len == Cardinality(here)
<1>1. PICK at \in [1..len -> here] :
        /\ found = [i \in 1..len |-> batch[at[i]]]
        /\ \A i, j \in 1..len : i < j => at[i] < at[j]
  BY DEF Present
<1>2. DOMAIN batch = 1..Len(batch) /\ Len(batch) \in Nat /\ Len(batch) <= ListLimit
  BY CollectorAssumption DEF IsBatch
<1>3. IsFiniteSet(1..Len(batch)) /\ Cardinality(1..Len(batch)) = Len(batch)
  BY <1>2, FS_Interval, SMTT(30)
<1>4. len \in Nat /\ len <= Len(batch)
  BY <1>2, <1>3, FS_Subset, FS_CardinalityType
<1> HIDE DEF len
<1>5. \A i \in 1..len : at[i] \in 1..Len(batch) /\ kv[batch[at[i]]].status # "absent"
  BY <1>1, <1>2
<1> HIDE DEF here
<1>6. found \in Seq(Ids) /\ Len(found) = len
  BY <1>1, <1>4, <1>5 DEF IsBatch
<1>7. len # 0
  BY <1>6
<1>8. ASSUME NEW i \in 1..len, NEW j \in 1..len, found[i] = found[j], i < j
      PROVE  FALSE
  BY <1>1, <1>5, <1>8, <1>2 DEF IsBatch
<1>9. QED
  BY <1>1, <1>2, <1>4, <1>5, <1>6, <1>7, <1>8, CollectorAssumption DEF IsBatch

\* So does taking the head off.
LEMMA TailIsBatch ==
  ASSUME NEW batch, IsBatch(batch), Tail(batch) # <<>>
  PROVE  /\ IsBatch(Tail(batch))
         /\ \A i \in 1..Len(Tail(batch)) : i + 1 \in 1..Len(batch)
                                        /\ Tail(batch)[i] = batch[i + 1]
<1>1. Len(batch) \in Nat /\ Len(batch) >= 1 /\ Len(batch) <= ListLimit
  BY CollectorAssumption DEF IsBatch
<1>2. /\ Tail(batch) \in Seq(Ids)
      /\ Len(Tail(batch)) = Len(batch) - 1
      /\ \A i \in 1..Len(Tail(batch)) : Tail(batch)[i] = batch[i + 1]
  BY <1>1 DEF IsBatch
<1>3. Len(Tail(batch)) # 0
  BY <1>2
<1>4. QED
  BY <1>1, <1>2, <1>3, CollectorAssumption DEF IsBatch

-----------------------------------------------------------------------------
(* The inductive invariant holds.                                          *)

\* An empty store with idle workers satisfies the invariant.
LEMMA InitInv == Init => Inv
<1> SUFFICES ASSUME Init PROVE Inv
  OBVIOUS
<1> USE CollectorAssumption DEF Init
<1>1. TypeOK
  BY DEF TypeOK, Time, Microblob, Missing, WorkerState, Idle
<1>2. VersionsOK /\ IndexesMatchRecords /\ BundledWasPublished
  BY DEF VersionsOK, IndexesMatchRecords, BundledWasPublished, IsBundled, Missing
<1>3. WorkersOK /\ TxsOK /\ MissingOK
  BY DEF WorkersOK, WorkerOK, TxsOK, MissingOK, Idle, WorkerState, Microblob, Missing, Time
<1>4. QED
  BY <1>1, <1>2, <1>3 DEF Inv

\* A worker that carries nothing carries it correctly.
LEMMA IdleOK == WorkerOK(Idle)
BY CollectorAssumption DEF WorkerOK, Idle, WorkerState, Microblob, Missing, Time

\* A worker that stands at its first record of a batch, or is done.
LEMMA MarkingOK ==
  ASSUME NEW batch, batch # <<>> => IsBatch(batch), batch \in Seq(Ids),
         NEW tx \in 1..Len(txs), txs \in Seq(Seq(Ids)),
         \A i \in 1..Len(batch) : \E j \in 1..Len(txs[tx]) : batch[i] = txs[tx][j]
  PROVE  WorkerOK(Marking(batch, tx))
<1>1. CASE batch = <<>>
  BY <1>1, IdleOK DEF Marking
<1>2. CASE batch # <<>>
  BY <1>2, CollectorAssumption
     DEF Marking, WorkerOK, WorkerState, Microblob, Missing, Time
<1>3. QED
  BY <1>1, <1>2

\* A step that writes no record: one worker moves to a state it may be in, and
\* at most one more batch is sent.
QuietStep(w, s) ==
  /\ worker' = [worker EXCEPT ![w] = s]
  /\ \/ txs' = txs
     \/ \E used \in Seq(Ids) : IsBatch(used) /\ txs' = Append(txs, used)
  /\ faults' \in 0..MaxFaults
  /\ UNCHANGED <<now, key, kvVars>>

\* Sending a transaction leaves the ones sent before where they are.
LEMMA SentStays ==
  ASSUME TypeOK, NEW used \in Seq(Ids), txs' = Append(txs, used)
  PROVE  /\ txs' \in Seq(Seq(Ids)) /\ Len(txs') = Len(txs) + 1
         /\ \A t \in 1..Len(txs) : t \in 1..Len(txs') /\ txs'[t] = txs[t]
         /\ txs'[Len(txs) + 1] = used
BY DEF TypeOK

\* A step of one worker that writes nothing to the store keeps the invariant,
\* when the state it leaves the worker in is a correct one.
LEMMA QuietStepInv ==
  ASSUME Inv, NEW w \in Workers, NEW s, WorkerOK(s)', QuietStep(w, s)
  PROVE  Inv'
<1> USE DEF Inv
<1>1. /\ txs' \in Seq(Seq(Ids)) /\ Len(txs) <= Len(txs')
      /\ \A t \in 1..Len(txs) : t \in 1..Len(txs') /\ txs'[t] = txs[t]
      /\ \A t \in 1..Len(txs') : t \in 1..Len(txs) \/ IsBatch(txs'[t])
  <2>1. CASE txs' = txs
    BY <2>1 DEF TypeOK
  <2>2. CASE \E used \in Seq(Ids) : IsBatch(used) /\ txs' = Append(txs, used)
    <3>1. PICK used \in Seq(Ids) : IsBatch(used) /\ txs' = Append(txs, used)
      BY <2>2
    <3>2. Len(txs) \in Nat
      BY DEF TypeOK
    <3>3. QED
      BY <3>1, <3>2, SentStays
  <2>3. QED
    BY <2>1, <2>2 DEF QuietStep
<1>2. kv' = kv /\ pendingIdx' = pendingIdx /\ bundledIdx' = bundledIdx /\ byTx' = byTx
      /\ now' = now /\ key' = key
  BY DEF QuietStep, kvVars
<1>3. TypeOK'
  <2>1. s \in WorkerState
    BY DEF WorkerOK
  <2>2. QED
    BY <1>1, <1>2, <2>1 DEF TypeOK, QuietStep
<1>4. \A b : IsBatch(b) => IsBatch(b)'
  BY <1>2 DEF IsBatch
<1>5. ASSUME NEW v \in Workers
      PROVE  WorkerOK(worker[v])'
  <2>1. CASE v = w
    BY <2>1 DEF QuietStep, TypeOK
  <2>2. CASE v # w
    <3>1. worker'[v] = worker[v] /\ WorkerOK(worker[v])
      BY <2>2 DEF QuietStep, TypeOK, WorkersOK
    <3>2. ASSUME NEW x, WorkerOK(x)
          PROVE  WorkerOK(x)'
      <4>1. ASSUME x.pc \in {"get", "commit"}
            PROVE  /\ x.tx \in 1..Len(txs')
                   /\ \A i \in 1..Len(x.batch) :
                        \E j \in 1..Len(txs'[x.tx]) : x.batch[i] = txs'[x.tx][j]
        <5>1. /\ x.tx \in 1..Len(txs)
              /\ \A i \in 1..Len(x.batch) : \E j \in 1..Len(txs[x.tx]) : x.batch[i] = txs[x.tx][j]
          BY <3>2, <4>1 DEF WorkerOK
        <5>2. x.tx \in 1..Len(txs') /\ txs'[x.tx] = txs[x.tx]
          BY <1>1, <5>1
        <5>3. QED
          BY <5>1, <5>2
      <4>2. ASSUME x.pc = "commit"
            PROVE  /\ x.entry.version = 1
                   /\ Unchanged(x.batch[1], x.entry)' => kv'[x.batch[1]] = x.entry
        BY <1>2, <3>2, <4>2 DEF WorkerOK, Unchanged
      <4>3. x.pc # "idle" => IsBatch(x.batch)'
        BY <1>4, <3>2 DEF WorkerOK
      <4>4. QED
        BY <3>2, <4>1, <4>2, <4>3 DEF WorkerOK
    <3>3. QED
      BY <3>1, <3>2
  <2>3. QED
    BY <2>1, <2>2
<1>6. TxsOK'
  BY <1>1, <1>4, <1>2 DEF TxsOK, IsBatch
<1>7. VersionsOK' /\ MissingOK' /\ IndexesMatchRecords'
  BY <1>2 DEF VersionsOK, MissingOK, IndexesMatchRecords, IsBundled
<1>8. BundledWasPublished'
  <2>1. DOMAIN txs = 1..Len(txs) /\ DOMAIN txs' = 1..Len(txs')
    BY <1>1 DEF TypeOK
  <2>2. ASSUME NEW id \in Ids, IsBundled(id)'
        PROVE  /\ kv'[id].bundleTxHash \in DOMAIN txs'
               /\ id \in Entries(txs'[kv'[id].bundleTxHash])
    <3>1. /\ kv[id].bundleTxHash \in DOMAIN txs
          /\ id \in Entries(txs[kv[id].bundleTxHash])
      BY <1>2, <2>2 DEF BundledWasPublished, IsBundled
    <3>2. QED
      BY <1>1, <1>2, <2>1, <3>1
  <2>3. QED
    BY <2>2 DEF BundledWasPublished, Entries
<1>9. QED
  BY <1>3, <1>5, <1>6, <1>7, <1>8 DEF WorkersOK

\* A step that writes one record, to a later version: what the workers hold
\* stays in order.
LEMMA RecordStepWorkers ==
  ASSUME Inv, NEW id \in Ids, NEW r, r.status # "absent", r.version \in Nat,
         kv' = [kv EXCEPT ![id] = r], txs' = txs,
         r.version # 1 \/ kv[id].status = "absent",
         NEW s, WorkerOK(s)
  PROVE  WorkerOK(s)'
<1> USE DEF Inv
<1>1. \A i \in Ids : kv'[i] = IF i = id THEN r ELSE kv[i]
  BY DEF TypeOK
<1>2. \A b : IsBatch(b) => IsBatch(b)'
  BY <1>1 DEF IsBatch
<1>3. ASSUME s.pc = "commit", Unchanged(s.batch[1], s.entry)'
      PROVE  kv'[s.batch[1]] = s.entry
  <2>1. /\ s.batch[1] \in Ids /\ kv[s.batch[1]].status # "absent"
        /\ s.entry.version = 1
    <3>1. IsBatch(s.batch) /\ s.entry.version = 1
      BY <1>3, Zenon DEF WorkerOK
    <3>2. \A b : IsBatch(b) => 1 \in 1..Len(b) /\ b[1] \in Ids
      BY ONLY TRUE DEF IsBatch
    <3>3. \A b : IsBatch(b) => \A i \in 1..Len(b) : kv[b[i]].status # "absent"
      BY Zenon DEF IsBatch
    <3>4. QED
      BY <3>1, <3>2, <3>3, Zenon
  <2>2. kv'[s.batch[1]].version = 1
    BY <1>3, <2>1 DEF Unchanged
  <2>3. s.batch[1] # id
    BY <1>1, <2>1, <2>2
  <2>4. kv'[s.batch[1]] = kv[s.batch[1]]
    BY <1>1, <2>1, <2>3
  <2>5. QED
    BY <1>3, <2>1, <2>2, <2>4 DEF WorkerOK, Unchanged
<1>4. QED
  BY <1>2, <1>3 DEF WorkerOK

\* A stored submission keeps the invariant.
LEMMA PostInv ==
  ASSUME Inv, NEW id \in Ids, NEW createdAt \in Time, Post(id, createdAt)
  PROVE  Inv'
<1> USE CollectorAssumption DEF Inv
<1> DEFINE r == [status |-> "pending", createdAt |-> createdAt, bundledAt |-> 0,
                 bundleTxHash |-> NoHash, version |-> 1]
<1>1. /\ kv' = [kv EXCEPT ![id] = r] /\ kv[id].status = "absent"
      /\ pendingIdx' = pendingIdx \cup {<<createdAt, id>>}
      /\ UNCHANGED <<bundledIdx, byTx, now, key, worker, txs, faults>>
  BY DEF Post, putMicroblob, PENDING_KEY
<1>2. /\ r \in Microblob /\ r.status = "pending" /\ r.version = 1
      /\ r.createdAt = createdAt /\ r.status # "absent" /\ r.version \in Nat
  <2>1. 0 \in Time
    BY DEF Time
  <2>2. QED
    BY <2>1 DEF Microblob
<1> HIDE DEF r
<1>3. \A i \in Ids : kv'[i] = IF i = id THEN r ELSE kv[i]
  BY <1>1 DEF TypeOK
<1>4. TypeOK'
  BY <1>1, <1>2, <1>3 DEF TypeOK
<1>5. VersionsOK' /\ MissingOK'
  BY <1>2, <1>3 DEF VersionsOK, MissingOK
<1>6. WorkersOK'
  <2>1. ASSUME NEW s, WorkerOK(s)
        PROVE  WorkerOK(s)'
    BY <1>1, <1>2, <2>1, RecordStepWorkers
  <2>2. QED
    BY <1>1, <2>1 DEF WorkersOK
<1>7. TxsOK'
  BY <1>1, <1>2, <1>3, SMTT(30) DEF TxsOK, IsBatch
<1>8. IndexesMatchRecords'
  <2>1. {i \in Ids : kv'[i].status = "pending"} = {i \in Ids : kv[i].status = "pending"} \cup {id}
    BY <1>1, <1>2, <1>3
  <2>2. pendingIdx' = {<<kv'[i].createdAt, i>> : i \in {j \in Ids : kv'[j].status = "pending"}}
    <3>1. pendingIdx = {<<kv[i].createdAt, i>> : i \in {j \in Ids : kv[j].status = "pending"}}
      BY DEF IndexesMatchRecords
    <3>2. \A i \in {j \in Ids : kv[j].status = "pending"} : kv'[i].createdAt = kv[i].createdAt
      BY <1>1, <1>3
    <3>3. kv'[id].createdAt = createdAt
      BY <1>2, <1>3
    <3>4. QED
      BY <1>1, <2>1, <3>1, <3>2, <3>3
  <2>3. {i \in Ids : IsBundled(i)'} = {i \in Ids : IsBundled(i)}
    BY <1>1, <1>2, <1>3 DEF IsBundled
  <2>4. \A i \in {j \in Ids : IsBundled(j)} : kv'[i] = kv[i]
    BY <1>1, <1>3 DEF IsBundled
  <2>5. QED
    BY <1>1, <2>2, <2>3, <2>4 DEF IndexesMatchRecords
<1>9. BundledWasPublished'
  BY <1>1, <1>2, <1>3 DEF BundledWasPublished, IsBundled
<1>10. QED
  BY <1>4, <1>5, <1>6, <1>7, <1>8, <1>9

\* The rest of a batch is marked with the same transaction.
LEMMA RestOK ==
  ASSUME Inv, NEW w \in Workers, worker[w].pc \in {"get", "commit"}
  PROVE  WorkerOK(Marking(Tail(worker[w].batch), worker[w].tx))
<1>1. WorkerOK(worker[w])
  BY DEF Inv, WorkersOK
<1>2. PICK batch : batch = worker[w].batch
  OBVIOUS
<1>3. PICK tx : tx = worker[w].tx
  OBVIOUS
<1>4. /\ IsBatch(batch) /\ tx \in 1..Len(txs)
      /\ \A i \in 1..Len(batch) : \E j \in 1..Len(txs[tx]) : batch[i] = txs[tx][j]
  BY <1>1, <1>2, <1>3 DEF WorkerOK
<1>5. Tail(batch) \in Seq(Ids) /\ (Tail(batch) # <<>> => IsBatch(Tail(batch)))
  BY <1>4, TailIsBatch, SMTT(30) DEF IsBatch
<1>6. \A i \in 1..Len(Tail(batch)) : \E j \in 1..Len(txs[tx]) : Tail(batch)[i] = txs[tx][j]
  <2>1. CASE Tail(batch) = <<>>
    <3>1. Len(Tail(batch)) = 0
      BY <2>1, EmptySeq
    <3>2. QED
      BY <3>1
  <2>2. CASE Tail(batch) # <<>>
    BY <1>4, <2>2, TailIsBatch
  <2>3. QED
    BY <2>1, <2>2
<1>7. QED
  BY <1>2, <1>3, <1>4, <1>5, <1>6, MarkingOK DEF Inv, TypeOK

\* The commit of markBundled, when nobody has written the record since.
LEMMA CommitInv ==
  ASSUME Inv, NEW w \in Workers, MarkCommit(w),
         Unchanged(worker[w].batch[1], worker[w].entry)
  PROVE  Inv'
<1> USE CollectorAssumption DEF Inv
<1> DEFINE batch == worker[w].batch
           id == batch[1]
           tx == worker[w].tx
           at == worker[w].at
           r == [status |-> "bundled", createdAt |-> kv[id].createdAt, bundledAt |-> at,
                 bundleTxHash |-> tx, version |-> 2]
<1>1. /\ WorkerOK(worker[w]) /\ worker[w].pc = "commit"
      /\ IsBatch(batch) /\ batch # <<>> /\ Head(batch) = id /\ id \in Ids
  BY DEF MarkCommit, WorkersOK, WorkerOK, IsBatch
<1>2. /\ kv[id] = worker[w].entry /\ kv[id].version = 1 /\ kv[id].status = "pending"
      /\ kv[id] \in Microblob
  BY <1>1 DEF WorkerOK, VersionsOK, TypeOK
<1>3. /\ tx \in 1..Len(txs) /\ id \in Entries(txs[tx]) /\ tx \in DOMAIN txs
      /\ tx \in Nat /\ at \in Time
  <2>1. worker[w] \in WorkerState /\ txs \in Seq(Seq(Ids))
    BY DEF TypeOK
  <2>2. tx \in 1..Len(txs) /\ DOMAIN txs = 1..Len(txs) /\ Len(txs) \in Nat
    BY <1>1, <2>1 DEF WorkerOK
  <2>3. txs[tx] \in Seq(Ids) /\ DOMAIN txs[tx] = 1..Len(txs[tx])
    BY <2>1, <2>2
  <2>4. PICK i \in 1..Len(batch) : id = batch[i]
    BY <1>1 DEF IsBatch
  <2>5. PICK j \in 1..Len(txs[tx]) : id = txs[tx][j]
    BY <1>1, <2>4 DEF WorkerOK
  <2>6. id \in Entries(txs[tx])
    BY <2>3, <2>5 DEF Entries
  <2>7. at \in Time
    BY <2>1 DEF WorkerState
  <2>8. QED
    BY <2>2, <2>6, <2>7
<1>4. /\ kv' = [kv EXCEPT ![id] = r]
      /\ pendingIdx' = pendingIdx \ {<<kv[id].createdAt, id>>}
      /\ bundledIdx' = bundledIdx \cup {<<at, id>>}
      /\ byTx' = byTx \cup {<<tx, kv[id].createdAt, id>>}
      /\ worker' = [worker EXCEPT ![w] = Marking(Tail(batch), tx)]
      /\ UNCHANGED <<now, key, txs, faults>>
  BY <1>1, <1>2 DEF MarkCommit, commitBundled, PENDING_KEY, BUNDLED_KEY, BY_TX_KEY
<1>5. r \in Microblob
  BY <1>2, <1>3 DEF Microblob
<1>6. /\ r.status = "bundled" /\ r.version = 2 /\ r.createdAt = kv[id].createdAt
      /\ r.bundledAt = at /\ r.bundleTxHash = tx
  OBVIOUS
<1>7. Tail(batch) \in Seq(Ids) /\ (Tail(batch) # <<>> => IsBatch(Tail(batch)))
  BY <1>1, TailIsBatch DEF IsBatch
<1>8. WorkerOK(Marking(Tail(batch), tx))
  BY <1>1, RestOK
<1> HIDE DEF r, at, tx, id, batch
<1>9. \A i \in Ids : kv'[i] = IF i = id THEN r ELSE kv[i]
  BY <1>4 DEF TypeOK
<1>10. TypeOK'
  <2>1. Marking(Tail(batch), tx) \in WorkerState
    BY <1>8 DEF WorkerOK
  <2>2. kv[id].createdAt \in Time
    BY <1>2 DEF Microblob
  <2>3. QED
    BY <1>1, <1>3, <1>4, <1>5, <2>1, <2>2 DEF TypeOK
<1>11. VersionsOK' /\ MissingOK'
  BY <1>6, <1>9 DEF VersionsOK, MissingOK
<1>12. WorkersOK'
  <2>1. ASSUME NEW s, WorkerOK(s)
        PROVE  WorkerOK(s)'
    <3>1. r.status # "absent" /\ r.version \in Nat /\ r.version # 1 /\ txs' = txs
      BY <1>4, <1>6
    <3>2. QED
      BY <1>1, <1>4, <2>1, <3>1, RecordStepWorkers
  <2>2. ASSUME NEW v \in Workers
        PROVE  WorkerOK(worker'[v])
    BY <1>4, <1>8, <2>2 DEF WorkersOK, TypeOK
  <2>3. QED
    BY <2>1, <2>2 DEF WorkersOK
<1>13. TxsOK'
  BY <1>4, <1>6, <1>9 DEF TxsOK, IsBatch
<1>14. IndexesMatchRecords'
  <2> DEFINE P == {i \in Ids : kv[i].status = "pending"}
             B == {i \in Ids : kv[i].status = "bundled"}
  <2>1. /\ {i \in Ids : kv'[i].status = "pending"} = P \ {id}
        /\ {i \in Ids : kv'[i].status = "bundled"} = B \cup {id}
        /\ id \in P /\ id \notin B
    BY <1>1, <1>2, <1>6, <1>9
  <2>2. /\ pendingIdx = {<<kv[i].createdAt, i>> : i \in P}
        /\ bundledIdx = {<<kv[i].bundledAt, i>> : i \in B}
        /\ byTx = {<<kv[i].bundleTxHash, kv[i].createdAt, i>> : i \in B}
    BY DEF IndexesMatchRecords, IsBundled
  <2>3. \A i \in (P \cup B) \ {id} : kv'[i] = kv[i]
    BY <1>9
  <2>4. kv'[id] = r
    BY <1>1, <1>9
  <2> HIDE DEF P, B
  <2>5. pendingIdx' = {<<kv'[i].createdAt, i>> : i \in P \ {id}}
    BY <1>4, <2>1, <2>2, <2>3
  <2>6. bundledIdx' = {<<kv'[i].bundledAt, i>> : i \in B \cup {id}}
    BY <1>4, <1>6, <2>1, <2>2, <2>3, <2>4
  <2>7. byTx' = {<<kv'[i].bundleTxHash, kv'[i].createdAt, i>> : i \in B \cup {id}}
    BY <1>4, <1>6, <2>1, <2>2, <2>3, <2>4
  <2>8. QED
    BY <2>1, <2>5, <2>6, <2>7 DEF IndexesMatchRecords, IsBundled
<1>15. BundledWasPublished'
  BY <1>3, <1>4, <1>6, <1>9 DEF BundledWasPublished, IsBundled
<1>16. QED
  BY <1>10, <1>11, <1>12, <1>13, <1>14, <1>15

\* A quiet step that sends nothing.
LEMMA LocalStepInv ==
  ASSUME Inv, NEW w \in Workers, NEW s, WorkerOK(s),
         worker' = [worker EXCEPT ![w] = s], faults' \in 0..MaxFaults,
         UNCHANGED <<now, key, kvVars, txs>>
  PROVE  Inv'
<1>1. WorkerOK(s)'
  BY DEF kvVars, WorkerOK, IsBatch, Unchanged
<1>2. QuietStep(w, s)
  BY DEF QuietStep
<1>3. QED
  BY <1>1, <1>2, QuietStepInv

\* The first half of listMicroblobs keeps the invariant.
LEMMA ListInv ==
  ASSUME Inv, NEW w \in Workers, List(w)
  PROVE  Inv'
<1> USE CollectorAssumption DEF Inv
<1>1. PICK ids \in NewestFirst(pendingIdx, ListLimit) :
        worker' = [worker EXCEPT ![w] = [Idle EXCEPT !.pc = "read", !.batch = ids]]
  BY DEF List
<1>2. PICK s : s = [Idle EXCEPT !.pc = "read", !.batch = ids]
  OBVIOUS
<1>3. s = [pc |-> "read", batch |-> ids, tx |-> NoHash, entry |-> Missing, at |-> 0]
  BY <1>2 DEF Idle
<1>4. IsBatch(ids)
  BY ListingIsBatch DEF List
<1>5. WorkerOK(s)
  BY <1>3, <1>4 DEF WorkerOK, WorkerState, IsBatch, Microblob, Missing, Time
<1>6. QED
  BY <1>1, <1>2, <1>5, LocalStepInv DEF List, TypeOK

\* The second half of listMicroblobs keeps the invariant.
LEMMA ReadInv ==
  ASSUME Inv, NEW w \in Workers, Read(w)
  PROVE  Inv'
<1> USE CollectorAssumption DEF Inv
<1>1. WorkerOK(worker[w]) /\ IsBatch(worker[w].batch)
  BY DEF Read, WorkersOK, WorkerOK
<1>2. PICK found \in Present(worker[w].batch) :
        worker' = [worker EXCEPT ![w] =
                     IF found = <<>> \/ key # "set" THEN Idle
                     ELSE [@ EXCEPT !.pc = "publish", !.batch = found]]
  BY DEF Read
<1>3. UNCHANGED <<now, key, kvVars, txs>> /\ faults' \in 0..MaxFaults
  BY DEF Read, TypeOK
<1>4. CASE found = <<>> \/ key # "set"
  BY <1>2, <1>3, <1>4, IdleOK, LocalStepInv
<1>5. CASE ~(found = <<>> \/ key # "set")
  <2>1. PICK s : s = [worker[w] EXCEPT !.pc = "publish", !.batch = found]
    OBVIOUS
  <2>2. IsBatch(found)
    BY <1>1, <1>5, PresentIsBatch
  <2>3. WorkerOK(s)
    BY <1>1, <2>1, <2>2, ZenonT(30) DEF WorkerOK, WorkerState, IsBatch
  <2>4. worker' = [worker EXCEPT ![w] = s]
    BY <1>2, <1>5, <2>1
  <2>5. QED
    BY <1>3, <2>3, <2>4, LocalStepInv
<1>6. QED
  BY <1>4, <1>5

\* publishMicroblobs keeps the invariant, however it ends.
LEMMA PublishInv ==
  ASSUME Inv, NEW w \in Workers, Publish(w)
  PROVE  Inv'
<1> USE CollectorAssumption DEF Inv
<1>1. WorkerOK(worker[w]) /\ IsBatch(worker[w].batch)
  BY DEF Publish, PublishAccepted, PublishTooLarge, PublishRefused, PublishUnanswered,
         WorkersOK, WorkerOK
<1>2. PICK used : used = worker[w].batch /\ IsBatch(used) /\ used \in Seq(Ids) /\ used # <<>>
  BY <1>1 DEF IsBatch
<1>3. CASE PublishAccepted(w)
  <2>1. /\ txs' = Append(txs, used)
        /\ worker' = [worker EXCEPT ![w] = Marking(used, Len(txs) + 1)]
    BY <1>2, <1>3 DEF PublishAccepted
  <2>2. PICK tx : tx = Len(txs) + 1
    OBVIOUS
  <2>3. PICK s : s = [pc |-> "get", batch |-> used, tx |-> tx, entry |-> Missing, at |-> 0]
    OBVIOUS
  <2>4. worker' = [worker EXCEPT ![w] = s]
    BY <1>2, <2>1, <2>2, <2>3 DEF Marking
  <2>5. tx \in 1..Len(txs') /\ tx \in Nat /\ txs'[tx] = used
    BY <1>2, <2>1, <2>2, SentStays DEF TypeOK
  <2>6. IsBatch(used)'
    BY <1>2, <1>3 DEF PublishAccepted, kvVars, IsBatch
  <2>7. s \in WorkerState
    BY <1>2, <2>3, <2>5 DEF WorkerState, Microblob, Missing, Time
  <2>8. WorkerOK(s)'
    BY <2>3, <2>5, <2>6, <2>7 DEF WorkerOK
  <2>9. QuietStep(w, s)
    BY <1>2, <1>3, <2>1, <2>4 DEF QuietStep, PublishAccepted, TypeOK
  <2>10. QED
    BY <2>8, <2>9, QuietStepInv
<1>4. CASE PublishUnanswered(w)
  <2>1. WorkerOK(Idle)'
    BY DEF WorkerOK, Idle, WorkerState, Microblob, Missing, Time
  <2>2. QuietStep(w, Idle)
    BY <1>2, <1>4 DEF PublishUnanswered, QuietStep, TypeOK
  <2>3. QED
    BY <2>1, <2>2, QuietStepInv
<1>5. CASE PublishTooLarge(w) \/ PublishRefused(w)
  BY <1>5, IdleOK, LocalStepInv DEF PublishTooLarge, PublishRefused, TypeOK
<1>6. QED
  BY <1>3, <1>4, <1>5 DEF Publish

\* The read of markBundled keeps the invariant.
LEMMA MarkGetInv ==
  ASSUME Inv, NEW w \in Workers, MarkGet(w)
  PROVE  Inv'
<1> USE CollectorAssumption DEF Inv
<1>1. PICK old : old = worker[w]
  OBVIOUS
<1>2. PICK entry : entry = kv[Head(old.batch)]
  OBVIOUS
<1>3. WorkerOK(old) /\ IsBatch(old.batch) /\ old.pc = "get"
  BY <1>1 DEF MarkGet, WorkersOK, WorkerOK
<1>4. Head(old.batch) = old.batch[1] /\ old.batch[1] \in Ids /\ entry \in Microblob
  <2>1. old.batch \in Seq(Ids) /\ Len(old.batch) \in Nat /\ Len(old.batch) >= 1
    BY <1>3 DEF IsBatch
  <2>2. old.batch # <<>> /\ 1 \in 1..Len(old.batch)
    BY <2>1
  <2>3. old.batch[1] \in Ids /\ Head(old.batch) = old.batch[1]
    BY <2>1, <2>2
  <2>4. QED
    BY <1>2, <2>3 DEF TypeOK
<1>5. UNCHANGED <<now, key, kvVars, txs>> /\ faults' \in 0..MaxFaults
  BY DEF MarkGet, TypeOK
<1>6. CASE entry.status = "pending"
  <2>1. PICK s : s = [old EXCEPT !.pc = "commit", !.entry = entry, !.at = now]
    OBVIOUS
  <2>2. worker' = [worker EXCEPT ![w] = s]
    BY <1>1, <1>2, <1>6, <2>1 DEF MarkGet
  <2>3. entry.version = 1
    BY <1>2, <1>4, <1>6 DEF VersionsOK
  <2>4. /\ s \in WorkerState /\ s.pc = "commit" /\ s.entry = entry
        /\ s.batch = old.batch /\ s.tx = old.tx
    BY <1>3, <1>4, <2>1 DEF WorkerOK, WorkerState, TypeOK
  <2>5. WorkerOK(s)
    BY <1>2, <1>3, <1>4, <2>3, <2>4 DEF WorkerOK
  <2>6. QED
    BY <1>5, <2>2, <2>5, LocalStepInv
<1>7. CASE entry.status # "pending"
  <2>1. worker' = [worker EXCEPT ![w] = Marking(Tail(worker[w].batch), worker[w].tx)]
    BY <1>1, <1>2, <1>7 DEF MarkGet
  <2>2. PICK s : s = Marking(Tail(worker[w].batch), worker[w].tx)
    OBVIOUS
  <2>3. WorkerOK(s)
    BY <1>1, <1>3, <2>2, RestOK
  <2>4. QED
    BY <1>5, <2>1, <2>2, <2>3, LocalStepInv
<1>8. QED
  BY <1>6, <1>7

\* The commit of markBundled keeps the invariant, whether its check holds or not.
LEMMA MarkCommitInv ==
  ASSUME Inv, NEW w \in Workers, MarkCommit(w)
  PROVE  Inv'
<1>1. Head(worker[w].batch) = worker[w].batch[1]
  <2>1. IsBatch(worker[w].batch)
    BY DEF MarkCommit, Inv, WorkersOK, WorkerOK
  <2>2. worker[w].batch \in Seq(Ids) /\ Len(worker[w].batch) \in Nat /\ Len(worker[w].batch) >= 1
    BY <2>1, CollectorAssumption DEF IsBatch
  <2>3. QED
    BY <2>2
<1>2. CASE Unchanged(worker[w].batch[1], worker[w].entry)
  BY <1>2, CommitInv
<1>3. CASE ~Unchanged(worker[w].batch[1], worker[w].entry)
  <2>1. PICK s : s = Marking(Tail(worker[w].batch), worker[w].tx)
    OBVIOUS
  <2>2. WorkerOK(s)
    BY <2>1, RestOK DEF MarkCommit
  <2>3. /\ worker' = [worker EXCEPT ![w] = s] /\ faults' \in 0..MaxFaults
        /\ UNCHANGED <<now, key, kvVars, txs>>
    BY <1>1, <1>3, <2>1 DEF MarkCommit, Inv, TypeOK
  <2>4. QED
    BY <2>2, <2>3, LocalStepInv
<1>4. QED
  BY <1>2, <1>3

\* The clock does not matter to the invariant.
LEMMA TickInv ==
  ASSUME Inv, Tick
  PROVE  Inv'
<1> USE CollectorAssumption DEF Inv
<1>1. UNCHANGED <<kvVars, worker, txs>>
  BY DEF Tick
<1>2. TypeOK'
  BY DEF Tick, TypeOK, Time, kvVars
<1>3. VersionsOK' /\ MissingOK' /\ TxsOK' /\ IndexesMatchRecords' /\ BundledWasPublished'
  BY <1>1 DEF kvVars, VersionsOK, MissingOK, TxsOK, IsBatch, IndexesMatchRecords, BundledWasPublished,
              IsBundled
<1>4. WorkersOK'
  BY <1>1 DEF kvVars, WorkersOK, WorkerOK, IsBatch, Unchanged
<1>5. QED
  BY <1>2, <1>3, <1>4

\* Every step keeps the invariant.
LEMMA NextInv == Inv /\ [Next]_vars => Inv'
<1> SUFFICES ASSUME Inv, [Next]_vars PROVE Inv'
  OBVIOUS
<1>1. CASE Tick
  BY <1>1, TickInv
<1>2. ASSUME NEW id \in Ids, NEW createdAt \in Time, Post(id, createdAt)
      PROVE  Inv'
  BY <1>2, PostInv
<1>3. ASSUME NEW w \in Workers, List(w) \/ Read(w)
      PROVE  Inv'
  BY <1>3, ListInv, ReadInv
<1>4. ASSUME NEW w \in Workers, Publish(w)
      PROVE  Inv'
  BY <1>4, PublishInv
<1>5. ASSUME NEW w \in Workers, MarkGet(w) \/ MarkCommit(w)
      PROVE  Inv'
  BY <1>5, MarkGetInv, MarkCommitInv
<1>6. ASSUME NEW w \in Workers, Fail(w)
      PROVE  Inv'
  <2>1. faults' \in 0..MaxFaults
    BY <1>6, CollectorAssumption DEF Fail, Inv, TypeOK
  <2>2. worker' = [worker EXCEPT ![w] = Idle] /\ UNCHANGED <<now, key, kvVars, txs>>
    BY <1>6 DEF Fail
  <2>3. QED
    BY <2>1, <2>2, IdleOK, LocalStepInv
<1>7. CASE UNCHANGED vars
  <2>1. UNCHANGED <<now, key, kv, pendingIdx, bundledIdx, byTx, worker, txs, faults>>
    BY <1>7 DEF vars, kvVars
  <2>2. TypeOK' /\ VersionsOK' /\ MissingOK' /\ TxsOK' /\ IndexesMatchRecords' /\ BundledWasPublished'
    BY <2>1 DEF Inv, TypeOK, VersionsOK, MissingOK, TxsOK, IsBatch, IndexesMatchRecords,
                BundledWasPublished, IsBundled
  <2>3. WorkersOK'
    BY <2>1 DEF Inv, WorkersOK, WorkerOK, IsBatch, Unchanged
  <2>4. QED
    BY <2>2, <2>3 DEF Inv
<1>8. QED
  BY <1>1, <1>2, <1>3, <1>4, <1>5, <1>6, <1>7 DEF Next

\* The invariant holds in every state the collector reaches: of kv.server.ts
\* under any interleaving of bundler-cron.server.ts workers and failures.
THEOREM InvHolds == Spec => []Inv
<1>1. QED
  BY InitInv, NextInv, PTL DEF Spec

-----------------------------------------------------------------------------
(* Theorems.                                                               *)

\* Every state of the collector has the type TypeOK gives it.
THEOREM TypeCorrect == Spec => []TypeOK
<1>1. Inv => TypeOK
  BY DEF Inv
<1>2. QED
  BY <1>1, InvHolds, PTL

\* The secondary indexes of kv.server.ts list exactly the records they should,
\* whatever the workers do.
THEOREM IndexesCorrect == Spec => []IndexesMatchRecords
<1>1. Inv => IndexesMatchRecords
  BY DEF Inv
<1>2. QED
  BY <1>1, InvHolds, PTL

\* A record that markBundled has marked names a transaction that was sent with
\* its entry.
THEOREM BundledCorrect == Spec => []BundledWasPublished
<1>1. Inv => BundledWasPublished
  BY DEF Inv
<1>2. QED
  BY <1>1, InvHolds, PTL

\* What a step does to the records: nothing, a first write of one that is
\* missing, or the marking of one that is pending with the transaction of a
\* worker that sent it.
LEMMA RecordSteps ==
  ASSUME Inv, [Next]_vars
  PROVE  \/ kv' = kv
         \/ \E id \in Ids :
              /\ kv[id].status = "absent"
              /\ kv' = [kv EXCEPT ![id] = kv'[id]]
              /\ kv'[id].status = "pending" /\ kv'[id].bundleTxHash = NoHash
              /\ txs' = txs
         \/ \E id \in Ids, tx \in DOMAIN txs :
              /\ kv[id].status = "pending" /\ id \in Entries(txs[tx])
              /\ kv' = [kv EXCEPT ![id] = kv'[id]]
              /\ kv'[id].status = "bundled" /\ kv'[id].bundleTxHash = tx
              /\ txs' = txs
<1>1. ASSUME NEW id \in Ids, NEW createdAt \in Time, Post(id, createdAt)
      PROVE  /\ kv[id].status = "absent"
             /\ kv' = [kv EXCEPT ![id] = kv'[id]]
             /\ kv'[id].status = "pending" /\ kv'[id].bundleTxHash = NoHash
             /\ txs' = txs
  BY <1>1 DEF Post, putMicroblob, Inv, TypeOK
<1>2. ASSUME NEW w \in Workers, MarkCommit(w), kv' # kv
      PROVE  \E id \in Ids, tx \in DOMAIN txs :
               /\ kv[id].status = "pending" /\ id \in Entries(txs[tx])
               /\ kv' = [kv EXCEPT ![id] = kv'[id]]
               /\ kv'[id].status = "bundled" /\ kv'[id].bundleTxHash = tx
               /\ txs' = txs
  <2>1. PICK id : id = Head(worker[w].batch)
    OBVIOUS
  <2>2. PICK tx : tx = worker[w].tx
    OBVIOUS
  <2>3. WorkerOK(worker[w]) /\ IsBatch(worker[w].batch) /\ worker[w].pc = "commit"
    BY <1>2 DEF MarkCommit, Inv, WorkersOK, WorkerOK
  <2>4. /\ worker[w].batch \in Seq(Ids) /\ Len(worker[w].batch) \in Nat
        /\ 1 \in 1..Len(worker[w].batch)
    BY <2>3, CollectorAssumption DEF IsBatch
  <2>5. id = worker[w].batch[1] /\ id \in Ids
    BY <2>1, <2>4
  <2>6. tx \in 1..Len(txs) /\ DOMAIN txs = 1..Len(txs) /\ txs[tx] \in Seq(Ids)
    BY <2>2, <2>3 DEF WorkerOK, Inv, TypeOK
  <2>7. id \in Entries(txs[tx])
    BY <2>2, <2>3, <2>4, <2>5, <2>6 DEF WorkerOK, Entries
  <2>8. kv[id].version = 1 /\ kv[id].status = "pending"
    BY <1>2, <2>1, <2>3, <2>5 DEF MarkCommit, kvVars, Unchanged, WorkerOK, Inv, VersionsOK
  <2>9. /\ kv' = [kv EXCEPT ![id] = kv'[id]]
        /\ kv'[id].status = "bundled" /\ kv'[id].bundleTxHash = tx /\ txs' = txs
    BY <1>2, <2>1, <2>2, <2>5 DEF MarkCommit, commitBundled, kvVars, Inv, TypeOK
  <2>10. QED
    BY <2>5, <2>6, <2>7, <2>8, <2>9
<1>3. ASSUME NEW w \in Workers,
             List(w) \/ Read(w) \/ Publish(w) \/ MarkGet(w) \/ Fail(w)
      PROVE  kv' = kv
  BY <1>3 DEF List, Read, Publish, PublishAccepted, PublishTooLarge, PublishRefused,
              PublishUnanswered, MarkGet, Fail, kvVars
<1>4. Tick \/ UNCHANGED vars => kv' = kv
  BY DEF Tick, vars, kvVars
<1>5. QED
  BY <1>1, <1>2, <1>3, <1>4 DEF Next

\* The first worker to mark a record settles it: no later step touches it.
THEOREM BundledFinal == Spec => BundledIsFinal
<1>1. Inv /\ [Next]_vars => [\A id \in Ids : IsBundled(id) => kv'[id] = kv[id]]_vars
  <2> SUFFICES ASSUME Inv, [Next]_vars, NEW id \in Ids, IsBundled(id)
               PROVE  kv'[id] = kv[id]
    OBVIOUS
  <2>1. QED
    BY RecordSteps DEF IsBundled, Inv, TypeOK
<1>2. QED
  BY <1>1, InvHolds, PTL DEF Spec, BundledIsFinal

\* The collector implements MicroblobLedger.
THEOREM LedgerImplemented == Spec => ImplementsLedger
<1>1. Init => Ledger!Init
  BY DEF Init, Ledger!Init, Missing, Ledger!NoHash
<1>2. Inv /\ [Next]_vars => [Ledger!Next]_(Ledger!ledgerVars)
  <2> SUFFICES ASSUME Inv, [Next]_vars PROVE [Ledger!Next]_(Ledger!ledgerVars)
    OBVIOUS
  <2> DEFINE status == [id \in Ids |-> kv[id].status]
             settledBy == [id \in Ids |-> kv[id].bundleTxHash]
  <2>1. CASE kv' = kv /\ txs' = txs
    BY <2>1 DEF Ledger!ledgerVars
  <2>2. CASE kv' = kv /\ txs' # txs
    <3>0. PICK w \in Workers : worker[w].pc = "publish"
                             /\ txs' = Append(txs, worker[w].batch)
      BY <2>2 DEF Next, Publish, Tick, Post, List, Read, PublishAccepted, PublishTooLarge,
                  PublishRefused, PublishUnanswered, MarkGet, MarkCommit, Fail, vars
    <3>1. PICK used : used = worker[w].batch /\ txs' = Append(txs, used)
      BY <3>0
    <3>2. IsBatch(used)
      BY <3>0, <3>1 DEF Inv, WorkersOK, WorkerOK
    <3>3. used \in Ledger!Batches
      BY <3>2, CollectorAssumption DEF IsBatch, Ledger!Batches
    <3>4. \A id \in Ledger!Entries(used) : status[id] # "absent"
      BY <3>2 DEF IsBatch, Ledger!Entries
    <3>5. Ledger!Publish(used)
      BY <2>2, <3>1, <3>4 DEF Ledger!Publish
    <3>6. QED
      BY <3>3, <3>5 DEF Ledger!Next
  <2>3. CASE \E id \in Ids :
               /\ kv[id].status = "absent"
               /\ kv' = [kv EXCEPT ![id] = kv'[id]]
               /\ kv'[id].status = "pending" /\ kv'[id].bundleTxHash = NoHash
               /\ txs' = txs
    <3>1. PICK id \in Ids :
            /\ kv[id].status = "absent"
            /\ kv' = [kv EXCEPT ![id] = kv'[id]]
            /\ kv'[id].status = "pending" /\ kv'[id].bundleTxHash = NoHash
            /\ txs' = txs
      BY <2>3
    <3>2. kv[id].bundleTxHash = NoHash
      BY <3>1 DEF Inv, MissingOK
    <3>3. status' = [status EXCEPT ![id] = "pending"] /\ settledBy' = settledBy
      BY <3>1, <3>2 DEF Inv, TypeOK
    <3>4. Ledger!Accept(id)
      BY <3>1, <3>3 DEF Ledger!Accept
    <3>5. QED
      BY <3>4 DEF Ledger!Next
  <2>4. CASE \E id \in Ids, tx \in DOMAIN txs :
               /\ kv[id].status = "pending" /\ id \in Entries(txs[tx])
               /\ kv' = [kv EXCEPT ![id] = kv'[id]]
               /\ kv'[id].status = "bundled" /\ kv'[id].bundleTxHash = tx
               /\ txs' = txs
    <3>1. PICK id \in Ids, tx \in DOMAIN txs :
            /\ kv[id].status = "pending" /\ id \in Entries(txs[tx])
            /\ kv' = [kv EXCEPT ![id] = kv'[id]]
            /\ kv'[id].status = "bundled" /\ kv'[id].bundleTxHash = tx
            /\ txs' = txs
      BY <2>4
    <3>2. /\ status' = [status EXCEPT ![id] = "bundled"]
          /\ settledBy' = [settledBy EXCEPT ![id] = tx]
      BY <3>1 DEF Inv, TypeOK
    <3>3. Ledger!Settle(id, tx)
      BY <3>1, <3>2 DEF Ledger!Settle, Ledger!Entries, Entries
    <3>4. QED
      BY <3>1, <3>3 DEF Ledger!Next
  <2>5. QED
    BY <2>1, <2>2, <2>3, <2>4, RecordSteps
<1>3. QED
  BY <1>1, <1>2, InvHolds, PTL DEF Spec, ImplementsLedger, Ledger!Spec

-----------------------------------------------------------------------------
(* How often the collector publishes: a transaction left with a pending    *)
(* entry costs a failure, and an entry is published at most once per       *)
(* worker and once per failure.  The inductive invariant of the counts.    *)

\* The transactions that UnsettledNeedsFailure counts.
Settled(t) == \A id \in Entries(txs[t]) : IsBundled(id)
Unsettled == {t \in DOMAIN txs : Finished(t) /\ ~Settled(t)}

\* A worker names a transaction while it marks, and no longer; what it has
\* taken off its batch by then is bundled.
MarksOK(s) ==
  /\ s.pc \notin {"get", "commit"} => s.tx = NoHash
  /\ s.pc \in {"get", "commit"} =>
       \A id \in Entries(txs[s.tx]) : IsBundled(id) \/ id \in Entries(s.batch)

MarksInv == \A w \in Workers : MarksOK(worker[w])

\* No two workers mark for the same transaction.
OneHolder ==
  \A v, w \in Workers : worker[v].tx = worker[w].tx => v = w \/ worker[w].tx = NoHash

\* The workers that have listed a record and not published yet.
Awaiting(id) ==
  {w \in Workers : worker[w].pc \in {"read", "publish"} /\ id \in Entries(worker[w].batch)}

\* Once a record is bundled nobody lists it any more: what is left are the
\* publications of those that had listed it before.
SpendingBounded ==
  \A id \in Ids : IsBundled(id) =>
    Cardinality(Publications(id)) + Cardinality(Awaiting(id)) <= Cardinality(Workers) + faults

HoldingInv == Inv /\ MarksInv /\ OneHolder

CountInv == HoldingInv /\ UnsettledNeedsFailure /\ SpendingBounded

BundledStays == \A id \in Ids : IsBundled(id) => IsBundled(id)'

TxsGrow == txs' = txs \/ \E used \in Seq(Ids) : txs' = Append(txs, used)

-----------------------------------------------------------------------------
(* Lists and sets.                                                         *)

\* The sets that are counted are finite.
LEMMA CountedFinite ==
  ASSUME TypeOK, NEW id
  PROVE  /\ IsFiniteSet(Unsettled) /\ Cardinality(Unsettled) \in Nat
         /\ IsFiniteSet(Publications(id)) /\ Cardinality(Publications(id)) \in Nat
         /\ IsFiniteSet(Awaiting(id)) /\ Cardinality(Awaiting(id)) \in Nat
         /\ IsFiniteSet(Workers) /\ Cardinality(Workers) \in Nat
<1>1. DOMAIN txs = 1..Len(txs) /\ Len(txs) \in Nat
  BY DEF TypeOK
<1>2. IsFiniteSet(DOMAIN txs)
  BY <1>1, FS_Interval
<1>3. IsFiniteSet(Unsettled) /\ IsFiniteSet(Publications(id))
  BY <1>2, FS_Subset DEF Unsettled, Publications
<1>4. IsFiniteSet(Awaiting(id)) /\ IsFiniteSet(Workers)
  BY CollectorAssumption, FS_Subset DEF Awaiting
<1>5. QED
  BY <1>3, <1>4, FS_CardinalityType

\* A set that gains at most one element grows by at most one.
LEMMA AtMostOneMore ==
  ASSUME NEW S, IsFiniteSet(S), NEW x, NEW T, T \subseteq S \cup {x}
  PROVE  /\ IsFiniteSet(T)
         /\ Cardinality(S) \in Nat /\ Cardinality(T) \in Nat
         /\ Cardinality(T) <= Cardinality(S) + 1
<1>1. Cardinality(S) \in Nat
  BY FS_CardinalityType
<1>2. IsFiniteSet(S \cup {x}) /\ Cardinality(S \cup {x}) <= Cardinality(S) + 1
  BY <1>1, FS_AddElement
<1>3. IsFiniteSet(T) /\ Cardinality(T) <= Cardinality(S \cup {x})
  BY <1>2, FS_Subset
<1>4. Cardinality(T) \in Nat /\ Cardinality(S \cup {x}) \in Nat
  BY <1>2, <1>3, FS_CardinalityType
<1>5. QED
  BY <1>1, <1>2, <1>3, <1>4

\* A union is at most as large as its parts, and as large when they are disjoint.
LEMMA UnionSize ==
  ASSUME NEW S, IsFiniteSet(S), NEW T, IsFiniteSet(T)
  PROVE  /\ IsFiniteSet(S \cup T)
         /\ Cardinality(S \cup T) \in Nat
         /\ Cardinality(S \cup T) <= Cardinality(S) + Cardinality(T)
         /\ S \cap T = {} => Cardinality(S \cup T) = Cardinality(S) + Cardinality(T)
<1>1. /\ IsFiniteSet(S \cup T)
      /\ Cardinality(S \cup T) = Cardinality(S) + Cardinality(T) - Cardinality(S \cap T)
  BY FS_Union
<1>2. IsFiniteSet(S \cap T)
  BY FS_Subset
<1>3. /\ Cardinality(S) \in Nat /\ Cardinality(T) \in Nat
      /\ Cardinality(S \cup T) \in Nat /\ Cardinality(S \cap T) \in Nat
  BY <1>1, <1>2, FS_CardinalityType
<1>4. S \cap T = {} => Cardinality(S \cap T) = 0
  BY FS_EmptySet
<1>5. QED
  BY <1>1, <1>3, <1>4

\* A tick lists pending records only.
LEMMA ListedArePending ==
  ASSUME TypeOK, IndexesMatchRecords, pendingIdx # {},
         NEW ids \in NewestFirst(pendingIdx, ListLimit), NEW id \in Entries(ids)
  PROVE  ~IsBundled(id)
<1> DEFINE len == IF Cardinality(pendingIdx) < ListLimit THEN Cardinality(pendingIdx)
                  ELSE ListLimit
<1>1. PICK keys \in [1..len -> pendingIdx] : ids = [i \in 1..len |-> keys[i][2]]
  BY DEF NewestFirst
<1> HIDE DEF len
<1>2. PICK i \in 1..len : id = keys[i][2]
  BY <1>1 DEF Entries
<1>3. keys[i] \in {<<kv[j].createdAt, j>> : j \in {j \in Ids : kv[j].status = "pending"}}
  BY <1>1 DEF IndexesMatchRecords
<1>4. QED
  BY <1>2, <1>3 DEF IsBundled

\* Reading the records adds nothing to a batch.
LEMMA PresentEntries ==
  ASSUME NEW batch, NEW found \in Present(batch)
  PROVE  Entries(found) \subseteq Entries(batch)
<1> DEFINE here == {i \in DOMAIN batch : kv[batch[i]].status # "absent"}
           len == Cardinality(here)
<1>1. PICK at \in [1..len -> here] : found = [i \in 1..len |-> batch[at[i]]]
  BY DEF Present
<1> HIDE DEF len
<1>2. QED
  BY <1>1 DEF Entries

\* The entries of a batch are its head and the entries of its tail.
LEMMA EntriesOfTail ==
  ASSUME NEW batch, IsBatch(batch)
  PROVE  /\ Entries(batch) = {batch[1]} \cup Entries(Tail(batch))
         /\ Head(batch) = batch[1] /\ batch[1] \in Ids
         /\ Tail(batch) \in Seq(Ids)
<1>1. batch \in Seq(Ids) /\ Len(batch) \in Nat /\ Len(batch) >= 1
  BY CollectorAssumption DEF IsBatch
<1>2. /\ Tail(batch) \in Seq(Ids) /\ DOMAIN Tail(batch) = 1..(Len(batch) - 1)
      /\ \A i \in 1..(Len(batch) - 1) : Tail(batch)[i] = batch[i + 1]
  BY <1>1
<1>3. DOMAIN batch = 1..Len(batch) /\ Head(batch) = batch[1] /\ batch[1] \in Ids
  BY <1>1
<1>4. ASSUME NEW i \in 1..Len(batch)
      PROVE  batch[i] \in {batch[1]} \cup Entries(Tail(batch))
  <2>1. CASE i = 1
    BY <2>1
  <2>2. CASE i # 1
    <3>1. i - 1 \in 1..(Len(batch) - 1) /\ (i - 1) + 1 = i
      BY <1>1, <2>2
    <3>2. QED
      BY <1>2, <3>1 DEF Entries
  <2>3. QED
    BY <2>1, <2>2
<1>5. ASSUME NEW i \in 1..(Len(batch) - 1)
      PROVE  Tail(batch)[i] \in Entries(batch)
  <2>1. i + 1 \in 1..Len(batch)
    BY <1>1
  <2>2. QED
    BY <1>2, <1>3, <2>1 DEF Entries
<1>6. batch[1] \in Entries(batch)
  BY <1>1, <1>3 DEF Entries
<1>7. QED
  BY <1>2, <1>3, <1>4, <1>5, <1>6 DEF Entries

-----------------------------------------------------------------------------
(* Steps of one worker.                                                    *)

\* The transactions already sent stay where they are.
LEMMA SentBefore ==
  ASSUME TypeOK, TxsGrow
  PROVE  /\ DOMAIN txs = 1..Len(txs) /\ Len(txs) \in Nat
         /\ DOMAIN txs' = 1..Len(txs')
         /\ \A t \in DOMAIN txs : t \in DOMAIN txs' /\ txs'[t] = txs[t]
         /\ \A t \in DOMAIN txs' : t \in DOMAIN txs \/ t = Len(txs) + 1
<1>1. CASE txs' = txs
  BY <1>1 DEF TypeOK
<1>2. CASE \E used \in Seq(Ids) : txs' = Append(txs, used)
  BY <1>2, SentStays DEF TypeOK
<1>3. QED
  BY <1>1, <1>2 DEF TxsGrow

\* A worker's hash is that of a transaction sent, or none.
LEMMA HashIsSent ==
  ASSUME Inv, MarksInv, NEW w \in Workers
  PROVE  worker[w].tx = NoHash \/ worker[w].tx \in DOMAIN txs
<1>1. CASE worker[w].pc \in {"get", "commit"}
  BY <1>1 DEF Inv, TypeOK, WorkersOK, WorkerOK
<1>2. CASE worker[w].pc \notin {"get", "commit"}
  BY <1>2 DEF MarksInv, MarksOK
<1>3. QED
  BY <1>1, <1>2

\* A step of one worker keeps what is said of the others, and only the
\* transaction it lets go of, or the one it sends and does not take up, may
\* become unsettled.
LEMMA WorkerMove ==
  ASSUME Inv, MarksInv, OneHolder, NEW w \in Workers, NEW s,
         worker' = [worker EXCEPT ![w] = s], TxsGrow, BundledStays, MarksOK(s)',
         \/ s.tx = NoHash
         \/ s.tx = worker[w].tx
         \/ s.tx = Len(txs) + 1
  PROVE  /\ MarksInv' /\ OneHolder'
         /\ \A t \in Unsettled' : \/ t \in Unsettled
                                  \/ t = worker[w].tx /\ s.tx # t
                                  \/ t = Len(txs) + 1 /\ s.tx # t /\ t \in DOMAIN txs'
<1>1. /\ DOMAIN txs = 1..Len(txs) /\ Len(txs) \in Nat
      /\ \A t \in DOMAIN txs : t \in DOMAIN txs' /\ txs'[t] = txs[t]
      /\ \A t \in DOMAIN txs' : t \in DOMAIN txs \/ t = Len(txs) + 1
  BY SentBefore DEF Inv
<1>2. \A v \in Workers : worker'[v] = IF v = w THEN s ELSE worker[v]
  BY DEF Inv, TypeOK
<1>3. \A v \in Workers : worker[v].tx = NoHash \/ worker[v].tx \in DOMAIN txs
  BY HashIsSent
<1>4. \A t \in DOMAIN txs : \A id \in Entries(txs[t]) : id \in Ids
  BY DEF Inv, TypeOK, Entries
<1>5. ASSUME NEW v \in Workers
      PROVE  MarksOK(worker[v])'
  <2>1. CASE v = w
    BY <1>2, <2>1 DEF MarksOK
  <2>2. CASE v # w
    <3>1. worker'[v] = worker[v] /\ MarksOK(worker[v])
      BY <1>2, <2>2 DEF MarksInv
    <3>2. CASE worker[v].pc \notin {"get", "commit"}
      BY <3>1, <3>2 DEF MarksOK
    <3>3. CASE worker[v].pc \in {"get", "commit"}
      <4>1. worker[v].tx \in DOMAIN txs
        BY <3>3, <1>1 DEF Inv, WorkersOK, WorkerOK
      <4>2. txs'[worker[v].tx] = txs[worker[v].tx]
        BY <1>1, <4>1
      <4>3. \A id \in Entries(txs[worker[v].tx]) :
              IsBundled(id)' \/ id \in Entries(worker[v].batch)
        BY <1>4, <3>1, <3>3, <4>1 DEF MarksOK, BundledStays
      <4>4. QED
        BY <3>1, <3>3, <4>2, <4>3 DEF MarksOK, Entries
    <3>4. QED
      BY <3>2, <3>3
  <2>3. QED
    BY <2>1, <2>2
<1>6. MarksInv'
  BY <1>5 DEF MarksInv, MarksOK, Entries, IsBundled
<1>7. OneHolder'
  <2> SUFFICES ASSUME NEW u \in Workers, NEW v \in Workers,
                      worker'[u].tx = worker'[v].tx, u # v, worker'[v].tx # NoHash
               PROVE  FALSE
    BY DEF OneHolder
  <2>1. Len(txs) + 1 \notin DOMAIN txs /\ Len(txs) + 1 # NoHash
    BY <1>1
  <2>2. QED
    BY <1>2, <1>3, <2>1 DEF OneHolder
<1>8. ASSUME NEW t \in Unsettled'
      PROVE  \/ t \in Unsettled
             \/ t = worker[w].tx /\ s.tx # t
             \/ t = Len(txs) + 1 /\ s.tx # t /\ t \in DOMAIN txs'
  <2>1. t \in DOMAIN txs' /\ (\A v \in Workers : worker'[v].tx # t)
    BY <1>8 DEF Unsettled, Finished
  <2>2. s.tx # t
    BY <1>2, <2>1
  <2>3. CASE t \in DOMAIN txs /\ worker[w].tx # t
    <3>1. Finished(t)
      BY <1>2, <2>1, <2>3 DEF Finished
    <3>2. ~Settled(t)
      <4>1. PICK id \in Entries(txs'[t]) : ~IsBundled(id)'
        BY <1>8 DEF Unsettled, Settled, Entries, IsBundled
      <4>2. id \in Entries(txs[t]) /\ id \in Ids
        BY <1>1, <1>4, <2>3, <4>1
      <4>3. QED
        BY <4>1, <4>2 DEF Settled, BundledStays
    <3>3. QED
      BY <2>3, <3>1, <3>2 DEF Unsettled
  <2>4. QED
    BY <1>1, <2>1, <2>2, <2>3
<1>9. QED
  BY <1>6, <1>7, <1>8

\* No step takes a record out of the bundled ones.
LEMMA NextBundledStays ==
  ASSUME Inv, [Next]_vars
  PROVE  BundledStays
<1> SUFFICES ASSUME NEW id \in Ids, IsBundled(id) PROVE kv'[id].status = "bundled"
  BY DEF BundledStays, IsBundled
<1>1. QED
  BY RecordSteps DEF IsBundled, Inv, TypeOK

\* What a step of a worker may do to the transactions: without a failure it
\* takes up what it sends, and lets go of what is settled only; a failure leaves
\* at most one transaction behind.
WorkerStep(w, s) ==
  /\ worker' = [worker EXCEPT ![w] = s]
  /\ TxsGrow
  /\ MarksOK(s)'
  /\ s.tx = NoHash \/ s.tx = worker[w].tx \/ s.tx = Len(txs) + 1
  /\ \/ /\ faults' = faults
        /\ \A t \in DOMAIN txs : t = worker[w].tx /\ t # s.tx => Settled(t)'
        /\ txs' = txs \/ s.tx = Len(txs) + 1
     \/ /\ faults' = faults + 1
        /\ worker[w].tx = NoHash \/ txs' = txs

\* Listing, reading and sending.
LEMMA PublishingSteps ==
  ASSUME HoldingInv, NEW w \in Workers, List(w) \/ Read(w) \/ Publish(w)
  PROVE  \E s : WorkerStep(w, s)
<1> USE DEF HoldingInv
<1>1. worker[w].pc \in {"idle", "read", "publish"} /\ worker[w].tx = NoHash
  <2>1. worker[w].pc \in {"idle", "read", "publish"}
    BY DEF List, Read, Publish, PublishAccepted, PublishTooLarge, PublishRefused,
           PublishUnanswered
  <2>2. QED
    BY <2>1 DEF MarksInv, MarksOK
<1>0. NoHash \notin DOMAIN txs
  BY DEF Inv, TypeOK
<1>2. MarksOK(Idle)' /\ Idle.tx = NoHash
  BY DEF MarksOK, Idle
<1>3. CASE List(w)
  <2>1. PICK ids : worker' = [worker EXCEPT ![w] = [Idle EXCEPT !.pc = "read", !.batch = ids]]
    BY <1>3 DEF List
  <2>2. PICK s : s = [Idle EXCEPT !.pc = "read", !.batch = ids]
    OBVIOUS
  <2>3. s.pc = "read" /\ s.tx = NoHash
    BY <2>2 DEF Idle
  <2>4. WorkerStep(w, s)
    BY <1>0, <1>1, <1>3, <2>1, <2>2, <2>3 DEF WorkerStep, List, TxsGrow, MarksOK
  <2>5. QED
    BY <2>4
<1>4. CASE Read(w)
  <2>1. PICK found : worker' = [worker EXCEPT ![w] =
                       IF found = <<>> \/ key # "set" THEN Idle
                       ELSE [worker[w] EXCEPT !.pc = "publish", !.batch = found]]
    BY <1>4 DEF Read
  <2>2. PICK s : s = IF found = <<>> \/ key # "set" THEN Idle
                     ELSE [worker[w] EXCEPT !.pc = "publish", !.batch = found]
    OBVIOUS
  <2>3. worker[w] \in WorkerState
    BY DEF Inv, TypeOK
  <2>4. s.pc \in {"idle", "publish"} /\ s.tx = NoHash
    BY <1>1, <2>2, <2>3 DEF Idle, WorkerState
  <2>5. WorkerStep(w, s)
    BY <1>0, <1>1, <1>4, <2>1, <2>2, <2>4 DEF WorkerStep, Read, TxsGrow, MarksOK
  <2>6. QED
    BY <2>5
<1>5. CASE PublishTooLarge(w) \/ PublishRefused(w)
  <2>1. WorkerStep(w, Idle)
    BY <1>0, <1>1, <1>2, <1>5 DEF WorkerStep, PublishTooLarge, PublishRefused, TxsGrow
  <2>2. QED
    BY <2>1
<1> DEFINE used == worker[w].batch
<1>6. worker[w].pc = "publish" => used \in Seq(Ids) /\ used # <<>>
  BY CollectorAssumption DEF Inv, WorkersOK, WorkerOK, IsBatch
<1>10. /\ PublishAccepted(w) \/ PublishUnanswered(w) => txs' = Append(txs, used)
       /\ PublishAccepted(w) => worker' = [worker EXCEPT ![w] = Marking(used, Len(txs) + 1)]
  BY DEF PublishAccepted, PublishUnanswered
<1> HIDE DEF used
<1>7. CASE PublishAccepted(w)
  <2>1. /\ txs' = Append(txs, used)
        /\ worker' = [worker EXCEPT ![w] = Marking(used, Len(txs) + 1)]
    BY <1>7, <1>10
  <2>2. PICK tx : tx = Len(txs) + 1
    OBVIOUS
  <2>3. PICK s : s = [pc |-> "get", batch |-> used, tx |-> tx, entry |-> Missing, at |-> 0]
    OBVIOUS
  <2>4. worker' = [worker EXCEPT ![w] = s] /\ used \in Seq(Ids)
    BY <1>6, <1>7, <2>1, <2>2, <2>3 DEF Marking, PublishAccepted
  <2>5. s.pc = "get" /\ s.tx = tx /\ s.batch = used
    BY <2>3
  <2>6. txs'[tx] = used
    BY <2>1, <2>2, <2>4, SentStays DEF Inv
  <2>7. MarksOK(s)'
    BY <2>5, <2>6 DEF MarksOK, Entries
  <2>8. WorkerStep(w, s)
    BY <1>0, <1>1, <1>7, <2>1, <2>2, <2>4, <2>5, <2>7 DEF WorkerStep, PublishAccepted, TxsGrow
  <2>9. QED
    BY <2>8
<1>8. CASE PublishUnanswered(w)
  <2>1. txs' = Append(txs, used)
    BY <1>8, <1>10
  <2>2. TxsGrow
    BY <1>6, <1>8, <2>1 DEF TxsGrow, PublishUnanswered
  <2>3. WorkerStep(w, Idle)
    BY <1>1, <1>2, <1>8, <2>2 DEF WorkerStep, PublishUnanswered
  <2>4. QED
    BY <2>3
<1>9. QED
  BY <1>3, <1>4, <1>5, <1>7, <1>8 DEF Publish

\* Going on to the rest of a batch, when its head is bundled.
LEMMA RestMarks ==
  ASSUME HoldingInv, NEW w \in Workers, worker[w].pc \in {"get", "commit"},
         NEW id \in Ids, id = worker[w].batch[1], IsBundled(id)',
         BundledStays, txs' = txs, faults' = faults,
         worker' = [worker EXCEPT ![w] = Marking(Tail(worker[w].batch), worker[w].tx)]
  PROVE  \E s : WorkerStep(w, s)
<1> USE DEF HoldingInv
<1>1. PICK batch, tx : batch = worker[w].batch /\ tx = worker[w].tx
  OBVIOUS
<1>2. PICK s : s = Marking(Tail(batch), tx)
  OBVIOUS
<1>3. IsBatch(batch) /\ tx \in DOMAIN txs
  BY <1>1 DEF Inv, TypeOK, WorkersOK, WorkerOK
<1>4. /\ Entries(batch) = {batch[1]} \cup Entries(Tail(batch))
      /\ Tail(batch) \in Seq(Ids)
  BY <1>3, EntriesOfTail
<1>5. \A i \in Entries(txs[tx]) : IsBundled(i) \/ i \in Entries(batch)
  BY <1>1 DEF MarksInv, MarksOK
<1>6. \A i \in Entries(txs[tx]) : i \in Ids
  BY <1>3 DEF Inv, TypeOK, Entries
<1>7. \A i \in Entries(txs[tx]) : IsBundled(i)' \/ i \in Entries(Tail(batch))
  BY <1>1, <1>4, <1>5, <1>6 DEF BundledStays
<1>8. CASE Tail(batch) = <<>>
  <2>1. s = Idle /\ s.pc = "idle" /\ s.tx = NoHash
    BY <1>2, <1>8 DEF Marking, Idle
  <2>2. Settled(tx)'
    BY <1>7, <1>8 DEF Settled, Entries, IsBundled
  <2>3. WorkerStep(w, s)
    BY <1>1, <1>2, <2>1, <2>2 DEF WorkerStep, TxsGrow, MarksOK
  <2>4. QED
    BY <2>3
<1>9. CASE Tail(batch) # <<>>
  <2>1. s = [pc |-> "get", batch |-> Tail(batch), tx |-> tx, entry |-> Missing, at |-> 0]
    BY <1>2, <1>9 DEF Marking
  <2>2. s.pc = "get" /\ s.tx = tx /\ s.batch = Tail(batch)
    BY <2>1
  <2>3. MarksOK(s)'
    BY <1>7, <2>2 DEF MarksOK, Entries
  <2>4. WorkerStep(w, s)
    BY <1>1, <1>2, <2>2, <2>3 DEF WorkerStep, TxsGrow
  <2>5. QED
    BY <2>4
<1>10. QED
  BY <1>8, <1>9

\* Marking, and failing.
LEMMA MarkingSteps ==
  ASSUME HoldingInv, BundledStays, NEW w \in Workers,
         MarkGet(w) \/ MarkCommit(w) \/ Fail(w)
  PROVE  \E s : WorkerStep(w, s)
<1> USE DEF HoldingInv
<1>1. CASE Fail(w)
  <2>1. WorkerStep(w, Idle)
    BY <1>1 DEF WorkerStep, Fail, TxsGrow, MarksOK, Idle
  <2>2. QED
    BY <2>1
<1>2. PICK id : id = worker[w].batch[1]
  OBVIOUS
<1>3. ASSUME worker[w].pc \in {"get", "commit"}
      PROVE  /\ WorkerOK(worker[w]) /\ id \in Ids /\ Head(worker[w].batch) = id
             /\ kv[id].status # "absent"
  <2>1. WorkerOK(worker[w]) /\ IsBatch(worker[w].batch)
    BY <1>3 DEF Inv, WorkersOK, WorkerOK
  <2>2. kv[id].status # "absent"
    BY <1>2, <2>1, CollectorAssumption DEF IsBatch
  <2>3. QED
    BY <1>2, <2>1, <2>2, EntriesOfTail
<1>4. CASE MarkGet(w)
  <2>1. CASE kv[id].status = "pending"
    <3>1. PICK s : s = [worker[w] EXCEPT !.pc = "commit", !.entry = kv[id], !.at = now]
      OBVIOUS
    <3>2. s.pc = "commit" /\ s.tx = worker[w].tx /\ s.batch = worker[w].batch
      BY <3>1 DEF Inv, TypeOK, WorkerState
    <3>3. worker' = [worker EXCEPT ![w] = s] /\ txs' = txs /\ faults' = faults /\ kv' = kv
      BY <1>3, <1>4, <2>1, <3>1 DEF MarkGet, kvVars
    <3>4. \A i \in Entries(txs[s.tx]) : IsBundled(i) \/ i \in Entries(s.batch)
      BY <1>4, <3>2 DEF MarkGet, MarksInv, MarksOK
    <3>5. MarksOK(s)'
      BY <3>2, <3>3, <3>4 DEF MarksOK, IsBundled, Entries
    <3>6. WorkerStep(w, s)
      BY <3>2, <3>3, <3>5 DEF WorkerStep, TxsGrow
    <3>7. QED
      BY <3>6
  <2>2. CASE kv[id].status # "pending"
    <3>1. kv[id].status = "bundled"
      BY <1>3, <1>4, <2>2 DEF MarkGet, Inv, TypeOK, Microblob
    <3>2. IsBundled(id)'
      BY <1>4, <3>1 DEF MarkGet, kvVars, IsBundled
    <3>3. worker' = [worker EXCEPT ![w] = Marking(Tail(worker[w].batch), worker[w].tx)]
      BY <1>3, <1>4, <2>2 DEF MarkGet
    <3>4. QED
      BY <1>2, <1>3, <1>4, <3>2, <3>3, RestMarks DEF MarkGet
  <2>3. QED
    BY <2>1, <2>2
<1>5. CASE MarkCommit(w)
  <2>1. worker[w].entry.version = 1 /\ worker[w].pc = "commit"
    BY <1>3, <1>5 DEF MarkCommit, WorkerOK
  <2>2. ASSUME Unchanged(id, worker[w].entry)
        PROVE  kv'[id].status = "bundled"
    BY <1>3, <1>5, <2>1, <2>2 DEF MarkCommit, commitBundled, IsBundled, Inv, TypeOK
  <2>3. ASSUME ~Unchanged(id, worker[w].entry)
        PROVE  kv'[id].status = "bundled"
    <3>1. kv[id].version # 1 /\ kv[id].status \in {"absent", "pending", "bundled"}
      BY <1>3, <1>5, <2>1, <2>3 DEF Unchanged, Inv, TypeOK, Microblob
    <3>2. kv[id].status = "bundled"
      BY <1>3, <2>1, <3>1 DEF Inv, VersionsOK
    <3>3. kv' = kv
      BY <1>3, <1>5, <2>1, <2>3 DEF MarkCommit, kvVars
    <3>4. QED
      BY <3>2, <3>3 DEF IsBundled
  <2>4. kv'[id].status = "bundled"
    BY <2>2, <2>3 DEF IsBundled
  <2>5. IsBundled(id)'
    BY <2>4 DEF IsBundled
  <2>6. QED
    BY <1>2, <1>3, <1>5, <2>1, <2>5, RestMarks DEF MarkCommit
<1>6. QED
  BY <1>1, <1>4, <1>5

\* A step of the collector is one of a worker, or touches neither the workers
\* nor the transactions.
LEMMA StepKinds ==
  ASSUME HoldingInv, [Next]_vars
  PROVE  \/ \E w \in Workers : \E s : WorkerStep(w, s)
         \/ UNCHANGED <<worker, txs, faults>>
<1>1. BundledStays
  BY NextBundledStays DEF HoldingInv
<1>2. ASSUME NEW w \in Workers,
             List(w) \/ Read(w) \/ Publish(w) \/ MarkGet(w) \/ MarkCommit(w) \/ Fail(w)
      PROVE  \E s : WorkerStep(w, s)
  BY <1>1, <1>2, PublishingSteps, MarkingSteps
<1>3. Tick \/ (\E id \in Ids, createdAt \in Time : Post(id, createdAt)) \/ UNCHANGED vars
        => UNCHANGED <<worker, txs, faults>>
  BY DEF Tick, Post, vars
<1>4. QED
  BY <1>2, <1>3 DEF Next

\* Who holds which transaction stays in order.
LEMMA HoldingStep ==
  ASSUME HoldingInv, [Next]_vars
  PROVE  HoldingInv'
<1>1. Inv' /\ BundledStays
  BY NextInv, NextBundledStays DEF HoldingInv
<1>2. CASE UNCHANGED <<worker, txs, faults>>
  <2>1. OneHolder'
    BY <1>2 DEF HoldingInv, OneHolder
  <2>2. ASSUME NEW v \in Workers
        PROVE  MarksOK(worker[v])'
    <3>1. MarksOK(worker[v])
      BY DEF HoldingInv, MarksInv
    <3>2. CASE worker[v].pc \notin {"get", "commit"}
      BY <1>2, <3>1, <3>2 DEF MarksOK
    <3>3. CASE worker[v].pc \in {"get", "commit"}
      <4>1. worker[v].tx \in DOMAIN txs /\ txs \in Seq(Seq(Ids))
        BY <3>3 DEF HoldingInv, Inv, TypeOK, WorkersOK, WorkerOK
      <4>2. \A i \in Entries(txs[worker[v].tx]) : i \in Ids
        BY <4>1 DEF Entries
      <4>3. \A i \in Entries(txs[worker[v].tx]) :
              IsBundled(i)' \/ i \in Entries(worker[v].batch)
        BY <1>1, <3>1, <3>3, <4>2 DEF MarksOK, BundledStays
      <4>4. QED
        BY <1>2, <3>3, <4>3 DEF MarksOK, Entries
    <3>4. QED
      BY <3>2, <3>3
  <2>3. QED
    BY <1>1, <2>1, <2>2 DEF HoldingInv, MarksInv
<1>3. CASE \E w \in Workers : \E s : WorkerStep(w, s)
  BY <1>1, <1>3, WorkerMove DEF HoldingInv, WorkerStep
<1>4. QED
  BY <1>2, <1>3, StepKinds

\* Every transaction left unsettled costs a failure.
LEMMA UnsettledStep ==
  ASSUME HoldingInv, UnsettledNeedsFailure, [Next]_vars
  PROVE  UnsettledNeedsFailure'
<1>1. BundledStays /\ TypeOK /\ TypeOK' /\ HoldingInv'
  BY NextBundledStays, HoldingStep DEF HoldingInv, Inv
<1>2. /\ IsFiniteSet(Unsettled) /\ Cardinality(Unsettled) \in Nat
      /\ Cardinality(Unsettled) <= faults /\ faults \in Nat
  <2>1. Cardinality(Unsettled) <= faults
    BY DEF UnsettledNeedsFailure, Unsettled, Settled
  <2>2. IsFiniteSet(Unsettled) /\ Cardinality(Unsettled) \in Nat
    BY <1>1, CountedFinite
  <2>3. faults \in Nat
    BY <1>1, CollectorAssumption DEF TypeOK
  <2>4. QED
    BY <2>1, <2>2, <2>3
<1>3. ASSUME Unsettled' \subseteq Unsettled, faults' = faults
      PROVE  Cardinality(Unsettled') <= faults'
  BY <1>2, <1>3, FS_Subset, FS_CardinalityType
<1>4. ASSUME NEW t, Unsettled' \subseteq Unsettled \cup {t}, faults' = faults + 1
      PROVE  Cardinality(Unsettled') <= faults'
  <2>1. /\ Cardinality(Unsettled') \in Nat
        /\ Cardinality(Unsettled') <= Cardinality(Unsettled) + 1
    BY <1>2, <1>4, AtMostOneMore
  <2>2. QED
    BY <1>2, <1>4, <2>1
<1>5. CASE UNCHANGED <<worker, txs, faults>>
  <2>1. Unsettled' \subseteq Unsettled
    <3> SUFFICES ASSUME NEW t \in Unsettled' PROVE t \in Unsettled
      OBVIOUS
    <3>1. t \in DOMAIN txs /\ Finished(t)
      BY <1>5 DEF Unsettled, Finished
    <3>2. PICK id \in Entries(txs'[t]) : ~IsBundled(id)'
      BY DEF Unsettled, Settled, Entries, IsBundled
    <3>3. id \in Entries(txs[t]) /\ id \in Ids
      BY <1>1, <1>5, <3>1, <3>2 DEF TypeOK, Entries
    <3>4. QED
      BY <1>1, <3>1, <3>2, <3>3 DEF Unsettled, Settled, BundledStays
  <2>2. QED
    BY <1>3, <1>5, <2>1 DEF UnsettledNeedsFailure, Unsettled, Settled
<1>6. ASSUME NEW w \in Workers, NEW s, WorkerStep(w, s)
      PROVE  Cardinality(Unsettled') <= faults'
  <2>1. \A t \in Unsettled' : \/ t \in Unsettled
                              \/ t = worker[w].tx /\ s.tx # t
                              \/ t = Len(txs) + 1 /\ s.tx # t /\ t \in DOMAIN txs'
    BY <1>1, <1>6, WorkerMove DEF WorkerStep, HoldingInv
  <2>2. DOMAIN txs = 1..Len(txs) /\ Len(txs) \in Nat /\ NoHash \notin DOMAIN txs
    BY <1>1 DEF TypeOK
  <2>3. worker[w].tx = NoHash \/ worker[w].tx \in DOMAIN txs
    BY HashIsSent DEF HoldingInv
  <2>4. \A t \in Unsettled' : t \in DOMAIN txs' /\ ~Settled(t)' /\ t # NoHash
    BY <1>1 DEF Unsettled, Settled, Finished, TypeOK, Entries, IsBundled
  <2>5. CASE /\ faults' = faults
             /\ \A t \in DOMAIN txs : t = worker[w].tx /\ t # s.tx => Settled(t)'
             /\ txs' = txs \/ s.tx = Len(txs) + 1
    <3>1. Unsettled' \subseteq Unsettled
      BY <2>1, <2>2, <2>3, <2>4, <2>5
    <3>2. QED
      BY <1>3, <2>5, <3>1
  <2>6. CASE faults' = faults + 1 /\ worker[w].tx = NoHash
    <3>1. Unsettled' \subseteq Unsettled \cup {Len(txs) + 1}
      BY <2>1, <2>4, <2>6
    <3>2. QED
      BY <1>4, <2>6, <3>1
  <2>7. CASE faults' = faults + 1 /\ txs' = txs
    <3>1. Unsettled' \subseteq Unsettled \cup {worker[w].tx}
      BY <2>1, <2>2, <2>7
    <3>2. QED
      BY <1>4, <2>7, <3>1
  <2>8. QED
    BY <1>6, <2>5, <2>6, <2>7 DEF WorkerStep
<1>7. QED
  BY <1>5, <1>6, StepKinds DEF UnsettledNeedsFailure, Unsettled, Settled

-----------------------------------------------------------------------------
(* How often a record is published.                                        *)

\* While a record is not bundled, each of its publications is held by a worker,
\* or unsettled; and a worker that awaits the record holds none.
LEMMA PendingBound ==
  ASSUME HoldingInv, UnsettledNeedsFailure, NEW id \in Ids, ~IsBundled(id)
  PROVE  Cardinality(Publications(id)) + Cardinality(Awaiting(id))
           <= Cardinality(Workers) + faults
<1> DEFINE Held == {w \in Workers : worker[w].tx \in Publications(id)}
           HeldTxs == {worker[w].tx : w \in Held}
           hash == [w \in Held |-> worker[w].tx]
<1>1. TypeOK /\ NoHash \notin DOMAIN txs /\ faults \in Nat
  BY CollectorAssumption DEF HoldingInv, Inv, TypeOK
<1>2. /\ IsFiniteSet(Unsettled) /\ Cardinality(Unsettled) \in Nat
      /\ Cardinality(Publications(id)) \in Nat
      /\ IsFiniteSet(Awaiting(id)) /\ Cardinality(Awaiting(id)) \in Nat
      /\ IsFiniteSet(Workers) /\ Cardinality(Workers) \in Nat
  BY <1>1, CountedFinite
<1>3. Cardinality(Unsettled) <= faults
  BY DEF UnsettledNeedsFailure, Unsettled, Settled
<1>4. Held \cap Awaiting(id) = {}
  BY <1>1 DEF HoldingInv, MarksInv, MarksOK, Awaiting, Publications
<1>5. /\ IsFiniteSet(Held) /\ Cardinality(Held) \in Nat
      /\ Cardinality(Held) + Cardinality(Awaiting(id)) <= Cardinality(Workers)
  <2>1. IsFiniteSet(Held)
    BY <1>2, FS_Subset
  <2>2. Cardinality(Held) \in Nat
    BY <2>1, FS_CardinalityType
  <2> HIDE DEF Held
  <2>3. /\ IsFiniteSet(Held \cup Awaiting(id))
        /\ Cardinality(Held \cup Awaiting(id)) = Cardinality(Held) + Cardinality(Awaiting(id))
    BY <1>2, <1>4, <2>1, UnionSize
  <2>4. Held \cup Awaiting(id) \subseteq Workers
    BY DEF Held, Awaiting
  <2>5. Cardinality(Held \cup Awaiting(id)) <= Cardinality(Workers)
    BY <1>2, <2>4, FS_Subset
  <2>6. QED
    BY <2>1, <2>2, <2>3, <2>5
<1>6. IsFiniteSet(HeldTxs) /\ Cardinality(HeldTxs) <= Cardinality(Held)
  <2>1. hash \in Surjection(Held, HeldTxs)
    BY DEF Surjection
  <2>2. QED
    BY <1>5, <2>1, FS_Surjection
<1>7. Publications(id) \subseteq HeldTxs \cup Unsettled
  BY DEF Publications, Finished, Unsettled, Settled
<1> HIDE DEF HeldTxs, hash, Held
<1>8. Cardinality(HeldTxs) \in Nat
  BY <1>6, FS_CardinalityType
<1>9. /\ IsFiniteSet(HeldTxs \cup Unsettled)
      /\ Cardinality(HeldTxs \cup Unsettled) \in Nat
      /\ Cardinality(HeldTxs \cup Unsettled) <= Cardinality(HeldTxs) + Cardinality(Unsettled)
  BY <1>2, <1>6, UnionSize
<1>10. Cardinality(Publications(id)) <= Cardinality(HeldTxs \cup Unsettled)
  BY <1>7, <1>9, FS_Subset
<1>11. QED
  BY <1>1, <1>2, <1>3, <1>5, <1>6, <1>8, <1>9, <1>10

\* What a step does to the publications of a bundled record, and to the
\* workers that may still publish it: nobody joins them, and one that
\* publishes it leaves them.
SpendingStep(id) ==
  \/ Publications(id)' \subseteq Publications(id) /\ Awaiting(id)' \subseteq Awaiting(id)
  \/ \E w \in Awaiting(id) :
       /\ Publications(id)' \subseteq Publications(id) \cup {Len(txs) + 1}
       /\ Awaiting(id)' \subseteq Awaiting(id) \ {w}

\* A step of one worker that sends nothing, and after which the worker does not
\* await a record it did not await before.
LEMMA QuietSpending ==
  ASSUME TypeOK, NEW id, NEW w \in Workers, NEW s, worker' = [worker EXCEPT ![w] = s],
         txs' = txs, s.pc \in {"read", "publish"} /\ id \in Entries(s.batch) => w \in Awaiting(id)
  PROVE  SpendingStep(id)
<1>1. Publications(id)' = Publications(id)
  BY DEF Publications, Entries
<1>2. \A v \in Workers : worker'[v] = IF v = w THEN s ELSE worker[v]
  BY DEF TypeOK
<1>3. ASSUME NEW v \in Awaiting(id)'
      PROVE  v \in Awaiting(id)
  <2>1. v \in Workers /\ worker'[v].pc \in {"read", "publish"} /\ id \in Entries(worker'[v].batch)
    BY DEF Awaiting, Entries
  <2>2. CASE v = w
    BY <1>2, <2>1, <2>2
  <2>3. CASE v # w
    BY <1>2, <2>1, <2>3 DEF Awaiting
  <2>4. QED
    BY <2>2, <2>3
<1>4. QED
  BY <1>1, <1>3 DEF SpendingStep

\* A step of one worker that sends some of what it holds, and awaits nothing
\* afterwards.
LEMMA SendingSpending ==
  ASSUME TypeOK, NEW id, NEW w \in Workers, NEW s, worker' = [worker EXCEPT ![w] = s],
         worker[w].pc = "publish", NEW used \in Seq(Ids), txs' = Append(txs, used),
         Entries(used) \subseteq Entries(worker[w].batch), s.pc \notin {"read", "publish"}
  PROVE  SpendingStep(id)
<1>1. \A v \in Workers : worker'[v] = IF v = w THEN s ELSE worker[v]
  BY DEF TypeOK
<1>2. Awaiting(id)' \subseteq Awaiting(id) \ {w}
  <2> SUFFICES ASSUME NEW v \in Awaiting(id)' PROVE v \in Awaiting(id) /\ v # w
    OBVIOUS
  <2>1. v \in Workers /\ worker'[v].pc \in {"read", "publish"} /\ id \in Entries(worker'[v].batch)
    BY DEF Awaiting, Entries
  <2>2. v # w
    BY <1>1, <2>1
  <2>3. QED
    BY <1>1, <2>1, <2>2 DEF Awaiting
<1>3. /\ \A t \in DOMAIN txs' : t \in DOMAIN txs \/ t = Len(txs) + 1
      /\ \A t \in DOMAIN txs : txs'[t] = txs[t]
      /\ txs'[Len(txs) + 1] = used
  BY SentStays DEF TypeOK
<1>4. \A t \in Publications(id)' : t \in DOMAIN txs' /\ id \in Entries(txs'[t])
  BY DEF Publications, Entries
<1>5. CASE id \in Entries(used)
  <2>1. w \in Awaiting(id)
    BY <1>5 DEF Awaiting
  <2>2. Publications(id)' \subseteq Publications(id) \cup {Len(txs) + 1}
    BY <1>3, <1>4 DEF Publications
  <2>3. QED
    BY <1>2, <2>1, <2>2 DEF SpendingStep
<1>6. CASE id \notin Entries(used)
  <2>1. Publications(id)' \subseteq Publications(id)
    BY <1>3, <1>4, <1>6 DEF Publications
  <2>2. QED
    BY <1>2, <2>1 DEF SpendingStep
<1>7. QED
  BY <1>5, <1>6

\* Every step spends publications of a bundled record that way, or changes
\* neither.
LEMMA EveryStepSpends ==
  ASSUME HoldingInv, [Next]_vars, NEW id \in Ids, IsBundled(id)
  PROVE  SpendingStep(id)
<1> USE DEF HoldingInv
<1>1. TypeOK /\ WorkersOK
  BY DEF Inv
<1>2. Idle.pc = "idle"
  BY DEF Idle
<1>3. ASSUME NEW batch, NEW tx
      PROVE  Marking(batch, tx).pc \in {"idle", "get"}
  BY DEF Marking, Idle
<1>4. CASE Tick \/ (\E i \in Ids, createdAt \in Time : Post(i, createdAt)) \/ UNCHANGED vars
  <2>1. UNCHANGED <<worker, txs>>
    BY <1>4 DEF Tick, Post, vars
  <2>2. Publications(id)' = Publications(id) /\ Awaiting(id)' = Awaiting(id)
    BY <2>1 DEF Publications, Awaiting, Entries
  <2>3. QED
    BY <2>2 DEF SpendingStep
<1>5. ASSUME NEW w \in Workers, List(w)
      PROVE  SpendingStep(id)
  <2>1. PICK ids \in NewestFirst(pendingIdx, ListLimit) :
          worker' = [worker EXCEPT ![w] = [Idle EXCEPT !.pc = "read", !.batch = ids]]
    BY <1>5 DEF List
  <2>2. PICK s : s = [Idle EXCEPT !.pc = "read", !.batch = ids]
    OBVIOUS
  <2>3. s.batch = ids
    BY <2>2 DEF Idle
  <2>4. id \notin Entries(s.batch)
    BY <1>5, <2>1, <2>3, ListedArePending DEF List, Inv
  <2>5. QED
    BY <1>1, <1>5, <2>1, <2>2, <2>4, QuietSpending DEF List
<1>6. ASSUME NEW w \in Workers, Read(w)
      PROVE  SpendingStep(id)
  <2>1. PICK found \in Present(worker[w].batch) :
          worker' = [worker EXCEPT ![w] =
                       IF found = <<>> \/ key # "set" THEN Idle
                       ELSE [worker[w] EXCEPT !.pc = "publish", !.batch = found]]
    BY <1>6 DEF Read
  <2>2. PICK s : s = IF found = <<>> \/ key # "set" THEN Idle
                     ELSE [worker[w] EXCEPT !.pc = "publish", !.batch = found]
    OBVIOUS
  <2>3. s.pc # "idle" => s.batch = found
    BY <1>1, <1>2, <2>2 DEF TypeOK, WorkerState
  <2>4. s.pc \in {"read", "publish"} /\ id \in Entries(s.batch) => w \in Awaiting(id)
    BY <1>6, <2>3, PresentEntries DEF Read, Awaiting
  <2>5. QED
    BY <1>1, <1>6, <2>1, <2>2, <2>4, QuietSpending DEF Read
<1>7. ASSUME NEW w \in Workers, PublishTooLarge(w) \/ PublishRefused(w) \/ Fail(w)
      PROVE  SpendingStep(id)
  BY <1>1, <1>2, <1>7, QuietSpending DEF PublishTooLarge, PublishRefused, Fail
<1>8. ASSUME NEW w \in Workers, worker[w].pc = "publish"
      PROVE  worker[w].batch \in Seq(Ids)
  BY <1>1, <1>8 DEF WorkersOK, WorkerOK, IsBatch
<1>9. ASSUME NEW w \in Workers, PublishAccepted(w)
      PROVE  SpendingStep(id)
  <2>1. /\ txs' = Append(txs, worker[w].batch)
        /\ worker' = [worker EXCEPT ![w] = Marking(worker[w].batch, Len(txs) + 1)]
    BY <1>9 DEF PublishAccepted
  <2>2. PICK s : s = Marking(worker[w].batch, Len(txs) + 1)
    OBVIOUS
  <2>3. worker[w].pc = "publish" /\ s.pc \notin {"read", "publish"}
    BY <1>3, <1>9, <2>2 DEF PublishAccepted
  <2>4. QED
    BY <1>1, <1>8, <2>1, <2>2, <2>3, SendingSpending
<1>10. ASSUME NEW w \in Workers, PublishUnanswered(w)
       PROVE  SpendingStep(id)
  <2>1. txs' = Append(txs, worker[w].batch)
    BY <1>10 DEF PublishUnanswered
  <2>2. worker[w].pc = "publish" /\ worker' = [worker EXCEPT ![w] = Idle]
    BY <1>10 DEF PublishUnanswered
  <2>3. QED
    BY <1>1, <1>2, <1>8, <2>1, <2>2, SendingSpending
<1>11. ASSUME NEW w \in Workers, MarkGet(w)
       PROVE  SpendingStep(id)
  <2>1. PICK s : /\ worker' = [worker EXCEPT ![w] = s]
                 /\ \/ s = [worker[w] EXCEPT !.pc = "commit",
                                             !.entry = kv[Head(worker[w].batch)], !.at = now]
                    \/ s = Marking(Tail(worker[w].batch), worker[w].tx)
    BY <1>11 DEF MarkGet
  <2>2. s.pc \notin {"read", "publish"}
    BY <1>1, <1>3, <2>1 DEF TypeOK, WorkerState
  <2>3. QED
    BY <1>1, <1>11, <2>1, <2>2, QuietSpending DEF MarkGet
<1>12. ASSUME NEW w \in Workers, MarkCommit(w)
       PROVE  SpendingStep(id)
  <2>1. PICK s : s = Marking(Tail(worker[w].batch), worker[w].tx)
    OBVIOUS
  <2>2. s.pc \notin {"read", "publish"}
    BY <1>3, <2>1
  <2>3. QED
    BY <1>1, <1>12, <2>1, <2>2, QuietSpending DEF MarkCommit
<1>13. QED
  BY <1>4, <1>5, <1>6, <1>7, <1>9, <1>10, <1>11, <1>12 DEF Next, Publish

\* The step that bundles a record sends nothing, and the worker that takes it
\* awaits nothing.
LEMMA BundlingIsQuiet ==
  ASSUME HoldingInv, [Next]_vars, NEW id \in Ids, ~IsBundled(id), IsBundled(id)'
  PROVE  SpendingStep(id) /\ faults' = faults
<1> USE DEF HoldingInv
<1>1. PICK w \in Workers : MarkCommit(w)
  <2>1. kv' # kv
    BY DEF IsBundled
  <2>2. ASSUME NEW i \in Ids, NEW createdAt \in Time, Post(i, createdAt)
        PROVE  FALSE
    BY <2>2 DEF Post, putMicroblob, IsBundled, Inv, TypeOK
  <2>3. QED
    BY <2>1, <2>2 DEF Next, Tick, List, Read, Publish, PublishAccepted, PublishTooLarge,
       PublishRefused, PublishUnanswered, MarkGet, Fail, vars, kvVars
<1>2. PICK s : s = Marking(Tail(worker[w].batch), worker[w].tx)
  OBVIOUS
<1>3. s.pc \notin {"read", "publish"}
  BY <1>2 DEF Marking, Idle
<1>4. QED
  BY <1>1, <1>2, <1>3, QuietSpending DEF MarkCommit, Inv

\* The bound on the publications of a bundled record holds step by step.
LEMMA SpendingBoundedStep ==
  ASSUME CountInv, [Next]_vars
  PROVE  SpendingBounded'
<1>1. HoldingInv /\ TypeOK /\ TypeOK' /\ BundledStays
  BY HoldingStep, NextBundledStays DEF CountInv, HoldingInv, Inv
<1>2. faults \in Nat /\ faults' \in Nat /\ faults <= faults'
  BY <1>1, StepKinds, CollectorAssumption DEF TypeOK, WorkerStep
<1>3. SUFFICES ASSUME NEW id \in Ids, IsBundled(id)'
               PROVE  Cardinality(Publications(id)') + Cardinality(Awaiting(id)')
                        <= Cardinality(Workers) + faults'
  BY DEF SpendingBounded, Publications, Awaiting, Entries, IsBundled
<1>4. SpendingStep(id)
  BY <1>1, <1>3, EveryStepSpends, BundlingIsQuiet
<1>5. Cardinality(Publications(id)) + Cardinality(Awaiting(id)) <= Cardinality(Workers) + faults
  BY <1>1, PendingBound DEF CountInv, SpendingBounded
<1> DEFINE P == Publications(id)
           A == Awaiting(id)
           Q == Publications(id)'
           B == Awaiting(id)'
<1>6. /\ IsFiniteSet(P) /\ Cardinality(P) \in Nat
      /\ IsFiniteSet(A) /\ Cardinality(A) \in Nat /\ Cardinality(Workers) \in Nat
  BY <1>1, CountedFinite
<1>7. SpendingStep(id) => \/ Q \subseteq P /\ B \subseteq A
                          \/ \E t : \E w \in A : Q \subseteq P \cup {t} /\ B \subseteq A \ {w}
  BY DEF SpendingStep
<1> HIDE DEF P, A, Q, B
<1>8. Cardinality(Q) + Cardinality(B) <= Cardinality(P) + Cardinality(A)
      /\ Cardinality(Q) \in Nat /\ Cardinality(B) \in Nat
  <2>1. CASE Q \subseteq P /\ B \subseteq A
    BY <1>6, <2>1, FS_Subset, FS_CardinalityType
  <2>2. ASSUME NEW t, NEW w \in A, Q \subseteq P \cup {t}, B \subseteq A \ {w}
        PROVE  /\ Cardinality(Q) + Cardinality(B) <= Cardinality(P) + Cardinality(A)
               /\ Cardinality(Q) \in Nat /\ Cardinality(B) \in Nat
    <3>1. Cardinality(Q) \in Nat /\ Cardinality(Q) <= Cardinality(P) + 1
      BY <1>6, <2>2, AtMostOneMore
    <3>2. IsFiniteSet(A \ {w}) /\ Cardinality(A \ {w}) = Cardinality(A) - 1
      BY <1>6, <2>2, FS_RemoveElement
    <3>3. IsFiniteSet(B) /\ Cardinality(B) <= Cardinality(A \ {w})
      BY <2>2, <3>2, FS_Subset
    <3>4. Cardinality(B) \in Nat
      BY <3>3, FS_CardinalityType
    <3>5. QED
      BY <1>6, <3>1, <3>2, <3>3, <3>4
  <2>3. QED
    BY <1>4, <1>7, <2>1, <2>2
<1>9. Cardinality(Q) + Cardinality(B) <= Cardinality(Workers) + faults'
  <2>1. Cardinality(P) + Cardinality(A) <= Cardinality(Workers) + faults
    BY <1>5 DEF P, A
  <2>2. QED
    BY <1>2, <1>6, <1>8, <2>1
<1>10. QED
  BY <1>9 DEF Q, B

-----------------------------------------------------------------------------
(* Theorems.                                                               *)

LEMMA CountInitInv == Init => CountInv
<1> SUFFICES ASSUME Init PROVE CountInv
  OBVIOUS
<1>1. Inv
  BY InitInv
<1>2. MarksInv /\ OneHolder
  BY DEF Init, MarksInv, MarksOK, OneHolder, Idle
<1>3. UnsettledNeedsFailure
  <2>1. Unsettled = {}
    BY DEF Init, Unsettled
  <2>2. Cardinality(Unsettled) <= faults
    BY <2>1, FS_EmptySet DEF Init
  <2>3. QED
    BY <2>2 DEF UnsettledNeedsFailure, Unsettled, Settled
<1>4. SpendingBounded
  BY DEF Init, SpendingBounded, IsBundled, Missing
<1>5. QED
  BY <1>1, <1>2, <1>3, <1>4 DEF CountInv, HoldingInv

LEMMA CountNextInv == CountInv /\ [Next]_vars => CountInv'
  BY HoldingStep, UnsettledStep, SpendingBoundedStep DEF CountInv

\* The counting invariant holds in every state the collector reaches.
THEOREM CountInvHolds == Spec => []CountInv
  BY CountInitInv, CountNextInv, PTL DEF Spec

\* A transaction whose worker is through with it in markBundled and that has a
\* pending entry is accounted for by a failure of its own.
THEOREM UnsettledCostsFailure == Spec => []UnsettledNeedsFailure
<1>1. CountInv => UnsettledNeedsFailure
  BY DEF CountInv
<1>2. QED
  BY <1>1, CountInvHolds, PTL

\* processPending publishes an entry at most once per worker and once per
\* failure, however the workers overlap.
THEOREM PublicationsCounted == Spec => []PublicationsBounded
<1>1. CountInv => PublicationsBounded
  <2> SUFFICES ASSUME CountInv, NEW id \in Ids
               PROVE  Cardinality(Publications(id)) <= Cardinality(Workers) + faults
    BY DEF PublicationsBounded
  <2>1. Cardinality(Publications(id)) + Cardinality(Awaiting(id)) <= Cardinality(Workers) + faults
    BY PendingBound DEF CountInv, SpendingBounded
  <2>2. /\ Cardinality(Publications(id)) \in Nat /\ Cardinality(Awaiting(id)) \in Nat
        /\ Cardinality(Workers) \in Nat
    BY CountedFinite DEF CountInv, HoldingInv, Inv
  <2>3. faults \in Nat
    BY CollectorAssumption DEF CountInv, HoldingInv, Inv, TypeOK
  <2>4. QED
    BY <2>1, <2>2, <2>3
<1>2. QED
  BY <1>1, CountInvHolds, PTL

-----------------------------------------------------------------------------
(* The lists a request handles.                                            *)

\* The positions of a list.
LEMMA Positions ==
  ASSUME NEW n \in Nat
  PROVE  IsFiniteSet(1..n) /\ Cardinality(1..n) = n
BY FS_Interval

\* A listing takes keys of the index, last one first, and all of them when the
\* limit allows it.
LEMMA ListingShape ==
  ASSUME NEW index, IsFiniteSet(index), index \subseteq Time \X Ids,
         NEW limit \in Nat, NEW ids \in NewestFirst(index, limit)
  PROVE  /\ ids \in Seq(Ids) /\ Len(ids) <= limit
         /\ \E keys \in [1..Len(ids) -> index] :
              /\ \A i \in 1..Len(ids) : ids[i] = keys[i][2]
              /\ \A i, j \in 1..Len(ids) : i < j => Before(keys[j], keys[i])
              /\ Cardinality(index) <= limit => \A k \in index : \E i \in 1..Len(ids) : keys[i] = k
<1> DEFINE len == IF Cardinality(index) < limit THEN Cardinality(index) ELSE limit
<1>1. Cardinality(index) \in Nat
  BY FS_CardinalityType
<1>2. len \in Nat /\ len <= limit /\ (Cardinality(index) <= limit => len = Cardinality(index))
  BY <1>1
<1>3. PICK keys \in [1..len -> index] :
        /\ ids = [i \in 1..len |-> keys[i][2]]
        /\ \A i, j \in 1..len : i < j => Before(keys[j], keys[i])
  BY DEF NewestFirst
<1> HIDE DEF len
<1>4. ids \in Seq(Ids) /\ Len(ids) = len
  BY <1>2, <1>3
<1>5. ASSUME Cardinality(index) <= limit
      PROVE  \A k \in index : \E i \in 1..len : keys[i] = k
  <2>1. ASSUME NEW i \in 1..len, NEW j \in 1..len, keys[i] = keys[j], i < j
        PROVE  FALSE
    <3>1. keys[i][1] \in Nat /\ keys[i][2] \in Nat
      <4>1. keys[i] \in Time \X Ids
        BY <1>3
      <4>2. Time \subseteq Nat /\ Ids \subseteq Nat
        BY CollectorAssumption DEF Time
      <4>3. QED
        BY <4>1, <4>2
    <3>2. Before(keys[j], keys[i])
      BY <1>3, <2>1
    <3>3. QED
      BY <2>1, <3>1, <3>2 DEF Before
  <2>2. \A i, j \in 1..len : keys[i] = keys[j] => i = j
    BY <1>2, <2>1
  <2>3. keys \in Injection(1..len, index)
    BY <1>3, <2>2 DEF Injection, IsInjective
  <2>4. Cardinality(1..len) = Cardinality(index)
    BY <1>2, <1>5, FS_Interval
  <2>5. keys \in Surjection(1..len, index)
    BY <2>3, <2>4, FS_Injection
  <2>6. QED
    BY <2>5 DEF Surjection
<1>6. QED
  BY <1>2, <1>3, <1>4, <1>5

\* getMany keeps the order of the ids, and every one whose record it finds.
LEMMA PresentShape ==
  ASSUME NEW batch \in Seq(Ids), NEW found \in Present(batch)
  PROVE  /\ found \in Seq(Ids) /\ Len(found) <= Len(batch)
         /\ \E at \in [1..Len(found) -> 1..Len(batch)] :
              /\ \A i \in 1..Len(found) : found[i] = batch[at[i]]
              /\ \A i \in 1..Len(found) : kv[found[i]].status # "absent"
              /\ \A i, j \in 1..Len(found) : i < j => at[i] < at[j]
              /\ \A k \in 1..Len(batch) :
                   kv[batch[k]].status # "absent" => \E i \in 1..Len(found) : at[i] = k
<1> DEFINE here == {i \in DOMAIN batch : kv[batch[i]].status # "absent"}
           len == Cardinality(here)
<1>1. PICK at \in [1..len -> here] :
        /\ found = [i \in 1..len |-> batch[at[i]]]
        /\ \A i, j \in 1..len : i < j => at[i] < at[j]
  BY DEF Present
<1>2. DOMAIN batch = 1..Len(batch) /\ Len(batch) \in Nat
  OBVIOUS
<1>3. /\ IsFiniteSet(1..Len(batch)) /\ Cardinality(1..Len(batch)) = Len(batch)
      /\ here \subseteq 1..Len(batch)
  <2>1. IsFiniteSet(1..Len(batch)) /\ Cardinality(1..Len(batch)) = Len(batch)
    BY <1>2, Positions
  <2>2. here \subseteq 1..Len(batch)
    BY <1>2
  <2>3. QED
    BY <2>1, <2>2
<1>4. IsFiniteSet(here) /\ len \in Nat /\ len <= Len(batch)
  BY <1>3, FS_Subset, FS_CardinalityType
<1> HIDE DEF here
<1>5. \A i \in 1..len : at[i] \in 1..Len(batch) /\ at[i] \in here
  BY <1>1, <1>3
<1>6. Cardinality(1..len) = len
  BY <1>4, FS_Interval
<1> HIDE DEF len
<1>7. found \in Seq(Ids) /\ Len(found) = len
  BY <1>1, <1>2, <1>4, <1>5
<1>8. at \in Surjection(1..len, here)
  <2>1. \A i, j \in 1..len : at[i] = at[j] => i = j
    <3>1. \A i \in 1..len : at[i] \in Nat
      BY <1>5
    <3>2. \A i, j \in 1..len : i < j => at[i] # at[j]
      BY <1>1, <3>1
    <3>3. QED
      BY <1>4, <3>2
  <2>2. at \in Injection(1..len, here)
    BY <1>1, <2>1 DEF Injection, IsInjective
  <2>3. Cardinality(here) = Cardinality(1..len)
    BY <1>6 DEF len
  <2>4. QED
    BY <1>4, <2>2, <2>3, FS_Injection
<1>9. \A k \in here : \E i \in 1..len : at[i] = k
  BY <1>8 DEF Surjection
<1>10. at \in [1..Len(found) -> 1..Len(batch)]
  BY <1>1, <1>5, <1>7
<1>11. \A i \in 1..len : kv[found[i]].status # "absent"
  BY <1>1, <1>5 DEF here
<1>12. \A k \in 1..Len(batch) : kv[batch[k]].status # "absent" => k \in here
  BY <1>2 DEF here
<1>13. QED
  BY <1>1, <1>4, <1>7, <1>9, <1>10, <1>11, <1>12

\* The items of an answer.
Item == [id: Ids, record: Microblob]

\* The order Array.prototype.sort leaves two items in.
Earlier(items, i, j) ==
  \/ items[i].record.createdAt < items[j].record.createdAt
  \/ items[i].record.createdAt = items[j].record.createdAt /\ i < j

\* Sorting rearranges the items, into that order.
LEMMA SortShape ==
  ASSUME NEW items \in Seq(Item)
  PROVE  /\ StableSort(items) \in Seq(Item) /\ Len(StableSort(items)) = Len(items)
         /\ \E pos \in [1..Len(items) -> 1..Len(items)] :
              /\ \A p \in 1..Len(items) : StableSort(items)[p] = items[pos[p]]
              /\ \A p, q \in 1..Len(items) : p < q => Earlier(items, pos[p], pos[q])
<1> DEFINE n == Len(items)
           Ranked(i) == {j \in 1..n : Earlier(items, j, i)}
           rank == [i \in 1..n |-> Cardinality(Ranked(i))]
           pos == [p \in 1..n |-> CHOOSE i \in 1..n : Cardinality(Ranked(i)) = p - 1]
<1>1. n \in Nat /\ DOMAIN items = 1..n
  OBVIOUS
<1>2. \A i \in 1..n : items[i] \in Item /\ items[i].record.createdAt \in Nat
  <2>1. \A x \in Item : x.record \in Microblob
    BY DEF Item
  <2>2. \A m \in Microblob : m.createdAt \in Nat
    BY CollectorAssumption DEF Microblob, Time
  <2>3. \A i \in 1..n : items[i] \in Item
    BY <1>1
  <2> HIDE DEF n
  <2>4. QED
    BY <2>1, <2>2, <2>3
<1>3. StableSort(items) = [p \in 1..n |-> items[pos[p]]]
  BY <1>1 DEF StableSort, Earlier
<1> HIDE DEF n
<1>4. IsFiniteSet(1..n) /\ Cardinality(1..n) = n /\ Cardinality(0..(n - 1)) = n
      /\ IsFiniteSet(0..(n - 1))
  <2>1. 1 \in Int /\ n \in Int /\ 0 \in Int /\ n - 1 \in Int
    BY <1>1
  <2>2. IsFiniteSet(1..n) /\ Cardinality(1..n) = IF 1 > n THEN 0 ELSE n - 1 + 1
    BY <2>1, FS_Interval
  <2>3. /\ IsFiniteSet(0..(n - 1))
        /\ Cardinality(0..(n - 1)) = IF 0 > n - 1 THEN 0 ELSE (n - 1) - 0 + 1
    BY <2>1, FS_Interval
  <2>4. QED
    BY <1>1, <2>2, <2>3
<1>5. \A i \in 1..n : IsFiniteSet(Ranked(i)) /\ Cardinality(Ranked(i)) \in Nat
  BY <1>4, FS_Subset, FS_CardinalityType
<1>6. ASSUME NEW i \in 1..n
      PROVE  Cardinality(Ranked(i)) \in 0..(n - 1)
  <2>1. Ranked(i) \subseteq (1..n) \ {i}
    BY <1>2 DEF Earlier
  <2>2. IsFiniteSet((1..n) \ {i}) /\ Cardinality((1..n) \ {i}) = n - 1
    BY <1>4, FS_RemoveElement
  <2>3. Cardinality(Ranked(i)) <= n - 1
    BY <2>1, <2>2, FS_Subset
  <2> HIDE DEF Ranked
  <2>4. QED
    BY <1>1, <1>5, <2>3
<1>7. ASSUME NEW i \in 1..n, NEW j \in 1..n, Earlier(items, i, j)
      PROVE  Cardinality(Ranked(i)) < Cardinality(Ranked(j))
  <2>1. Ranked(i) \subseteq Ranked(j)
    <3> SUFFICES ASSUME NEW k \in 1..n, Earlier(items, k, i) PROVE Earlier(items, k, j)
      OBVIOUS
    <3>1. QED
      BY <1>1, <1>2, <1>7 DEF Earlier
  <2>2. i \in Ranked(j) /\ i \notin Ranked(i)
    BY <1>2, <1>7 DEF Earlier
  <2>3. /\ Cardinality(Ranked(i)) <= Cardinality(Ranked(j))
        /\ Cardinality(Ranked(i)) # Cardinality(Ranked(j))
    <3> HIDE DEF Ranked
    <3>1. QED
      BY <1>5, <2>1, <2>2, FS_Subset
  <2> HIDE DEF Ranked
  <2>4. QED
    BY <1>5, <2>3
<1>8. \A i, j \in 1..n : i = j \/ Earlier(items, i, j) \/ Earlier(items, j, i)
  BY <1>1, <1>2 DEF Earlier
<1>9. rank \in Surjection(1..n, 0..(n - 1))
  <2>1. \A i, j \in 1..n : rank[i] = rank[j] => i = j
    <3> HIDE DEF Ranked
    <3>1. QED
      BY <1>5, <1>7, <1>8
  <2>2. rank \in [1..n -> 0..(n - 1)]
    BY <1>6
  <2> HIDE DEF rank
  <2>3. rank \in Injection(1..n, 0..(n - 1))
    BY <2>1, <2>2 DEF Injection, IsInjective
  <2>4. QED
    BY <1>4, <2>3, FS_Injection
<1>10. ASSUME NEW p \in 1..n
       PROVE  pos[p] \in 1..n /\ Cardinality(Ranked(pos[p])) = p - 1
  <2>1. p - 1 \in 0..(n - 1)
    BY <1>1
  <2>2. \E i \in 1..n : Cardinality(Ranked(i)) = p - 1
    BY <1>9, <2>1 DEF Surjection
  <2> HIDE DEF Ranked
  <2>3. QED
    BY <2>2
<1>11. ASSUME NEW p \in 1..n, NEW q \in 1..n, p < q
       PROVE  Earlier(items, pos[p], pos[q])
  <2> HIDE DEF Ranked, pos
  <2>1. Cardinality(Ranked(pos[p])) < Cardinality(Ranked(pos[q]))
    BY <1>1, <1>10, <1>11
  <2>2. pos[p] \in 1..n /\ pos[q] \in 1..n
    BY <1>10
  <2>3. QED
    BY <1>5, <1>7, <1>8, <2>1, <2>2
<1>12. pos \in [1..n -> 1..n]
  <2> HIDE DEF Ranked
  <2>1. QED
    BY <1>10
<1>13. StableSort(items) \in Seq(Item) /\ Len(StableSort(items)) = n
  <2> HIDE DEF pos
  <2>1. QED
    BY <1>1, <1>2, <1>3, <1>12
<1> HIDE DEF pos
<1>14. QED
  BY <1>3, <1>11, <1>12, <1>13 DEF n

-----------------------------------------------------------------------------
(* The order of the entries of a transaction.                              *)

\* Records are in the order of their index keys.
KeyOf(id) == <<kv[id].createdAt, id>>
Ascending(ids) == \A i, j \in 1..Len(ids) : i < j => Before(KeyOf(ids[i]), KeyOf(ids[j]))
Descending(ids) == \A i, j \in 1..Len(ids) : i < j => Before(KeyOf(ids[j]), KeyOf(ids[i]))

\* What a tick lists and publishes is newest first, and stays so.
BatchesOrdered ==
  /\ \A w \in Workers : worker[w].pc \in {"read", "publish"} => Descending(worker[w].batch)
  /\ \A t \in 1..Len(txs) : Descending(txs[t])

\* A step leaves a record as it is, or moves it to a later version; createdAt is
\* never written again, and a bundled record is not written at all.
LEMMA RecordsKeep ==
  ASSUME Inv, [Next]_vars, NEW id \in Ids
  PROVE  /\ kv[id].status # "absent" =>
              kv'[id].status # "absent" /\ kv'[id].createdAt = kv[id].createdAt
         /\ kv[id].version \in Nat /\ kv'[id].version \in Nat
         /\ kv[id].version <= kv'[id].version
         /\ kv[id].version = kv'[id].version => kv'[id] = kv[id]
         /\ IsBundled(id) => kv'[id] = kv[id]
<1>1. kv[id] \in Microblob /\ kv[id].version \in Nat
  BY DEF Inv, TypeOK, Microblob
<1>2. CASE kv' = kv
  BY <1>1, <1>2
<1>3. ASSUME NEW i \in Ids, NEW createdAt \in Time, Post(i, createdAt)
      PROVE  /\ kv[i].status = "absent" /\ kv[i].version = 0 /\ kv'[i].version = 1
             /\ kv' = [kv EXCEPT ![i] = kv'[i]]
  BY <1>3 DEF Post, putMicroblob, Inv, TypeOK, VersionsOK
<1>4. ASSUME NEW w \in Workers, MarkCommit(w), kv' # kv
      PROVE  \E i \in Ids :
               /\ kv[i].status = "pending" /\ kv[i].version = 1 /\ kv'[i].version = 2
               /\ kv'[i].status = "bundled" /\ kv'[i].createdAt = kv[i].createdAt
               /\ kv' = [kv EXCEPT ![i] = kv'[i]]
  <2>1. PICK i : i = worker[w].batch[1]
    OBVIOUS
  <2>2. WorkerOK(worker[w]) /\ IsBatch(worker[w].batch)
    BY <1>4 DEF MarkCommit, Inv, WorkersOK, WorkerOK
  <2>3. Head(worker[w].batch) = i /\ i \in Ids
    BY <2>1, <2>2, CollectorAssumption DEF IsBatch
  <2>4. Unchanged(i, worker[w].entry) /\ kv[i] = worker[w].entry /\ kv[i].version = 1
    BY <1>4, <2>1, <2>2, <2>3 DEF MarkCommit, kvVars, WorkerOK, Unchanged
  <2>5. kv' = [kv EXCEPT ![i] = [status |-> "bundled", createdAt |-> kv[i].createdAt,
                                 bundledAt |-> worker[w].at, bundleTxHash |-> worker[w].tx,
                                 version |-> 1 + 1]]
    BY <1>4, <2>3, <2>4 DEF MarkCommit, commitBundled, kvVars
  <2>6. kv[i].status = "pending"
    BY <2>3, <2>4 DEF Inv, VersionsOK
  <2>7. DOMAIN kv = Ids
    BY DEF Inv, TypeOK
  <2>8. PICK r : /\ r = [status |-> "bundled", createdAt |-> kv[i].createdAt,
                         bundledAt |-> worker[w].at, bundleTxHash |-> worker[w].tx,
                         version |-> 1 + 1]
                 /\ kv' = [kv EXCEPT ![i] = r]
    BY <2>5
  <2>9. kv'[i] = r /\ r.status = "bundled" /\ r.version = 2 /\ r.createdAt = kv[i].createdAt
    BY <2>3, <2>7, <2>8
  <2>10. QED
    BY <2>3, <2>4, <2>6, <2>8, <2>9
<1>5. ASSUME NEW w \in Workers,
             List(w) \/ Read(w) \/ Publish(w) \/ MarkGet(w) \/ Fail(w)
      PROVE  kv' = kv
  BY <1>5 DEF List, Read, Publish, PublishAccepted, PublishTooLarge, PublishRefused,
              PublishUnanswered, MarkGet, Fail, kvVars
<1>6. Tick \/ UNCHANGED vars => kv' = kv
  BY DEF Tick, vars, kvVars
<1>7. CASE \E i \in Ids : /\ kv[i].status = "absent" /\ kv[i].version = 0 /\ kv'[i].version = 1
                          /\ kv' = [kv EXCEPT ![i] = kv'[i]]
  BY <1>1, <1>7 DEF IsBundled, Inv, TypeOK
<1>8. CASE \E i \in Ids :
             /\ kv[i].status = "pending" /\ kv[i].version = 1 /\ kv'[i].version = 2
             /\ kv'[i].status = "bundled" /\ kv'[i].createdAt = kv[i].createdAt
             /\ kv' = [kv EXCEPT ![i] = kv'[i]]
  BY <1>1, <1>8 DEF IsBundled, Inv, TypeOK
<1>9. QED
  BY <1>2, <1>3, <1>4, <1>5, <1>6, <1>7, <1>8 DEF Next

\* So a batch stays in its order.
LEMMA OrderStays ==
  ASSUME Inv, [Next]_vars, NEW batch, IsBatch(batch), Descending(batch)
  PROVE  Descending(batch)'
<1>1. \A i \in 1..Len(batch) : batch[i] \in Ids /\ kv[batch[i]].status # "absent"
  BY DEF IsBatch
<1>2. \A i \in 1..Len(batch) : kv'[batch[i]].createdAt = kv[batch[i]].createdAt
  BY <1>1, RecordsKeep
<1>3. QED
  BY <1>2 DEF Descending, KeyOf

\* One worker moves, to a batch in order, and sends a batch in order, if any.
LEMMA OrderedMove ==
  ASSUME Inv, BatchesOrdered, [Next]_vars, NEW w \in Workers, NEW s,
         worker' = [worker EXCEPT ![w] = s],
         s.pc \in {"read", "publish"} => Descending(s.batch)',
         \/ txs' = txs
         \/ \E used \in Seq(Ids) : Descending(used)' /\ txs' = Append(txs, used)
  PROVE  BatchesOrdered'
<1>1. TypeOK /\ WorkersOK /\ TxsOK
  BY DEF Inv
<1>2. \A v \in Workers : worker'[v] = IF v = w THEN s ELSE worker[v]
  BY <1>1 DEF TypeOK
<1>3. ASSUME NEW v \in Workers, worker'[v].pc \in {"read", "publish"},
             NEW batch, batch = worker'[v].batch
      PROVE  Descending(batch)'
  <2>1. CASE v = w
    BY <1>2, <1>3, <2>1
  <2>2. CASE v # w
    <3>1. /\ worker[v].pc \in {"read", "publish"} /\ batch = worker[v].batch
          /\ IsBatch(batch) /\ Descending(batch)
      BY <1>1, <1>2, <1>3, <2>2 DEF WorkersOK, WorkerOK, BatchesOrdered
    <3>2. QED
      BY <3>1, OrderStays
  <2>3. QED
    BY <2>1, <2>2
<1>4. ASSUME NEW t \in 1..Len(txs')
      PROVE  \E batch : batch = txs'[t] /\ Descending(batch)'
  <2>1. CASE t \in 1..Len(txs) /\ txs'[t] = txs[t]
    <3>1. PICK batch : batch = txs[t]
      OBVIOUS
    <3>2. IsBatch(batch) /\ Descending(batch)
      BY <1>1, <2>1, <3>1 DEF TxsOK, BatchesOrdered
    <3>3. QED
      BY <2>1, <3>1, <3>2, OrderStays
  <2>2. CASE \E used \in Seq(Ids) : Descending(used)' /\ txs'[t] = used
    BY <2>2
  <2>3. \/ t \in 1..Len(txs) /\ txs'[t] = txs[t]
        \/ \E used \in Seq(Ids) : Descending(used)' /\ txs'[t] = used
    <3>1. CASE txs' = txs
      BY <3>1
    <3>2. CASE \E used \in Seq(Ids) : Descending(used)' /\ txs' = Append(txs, used)
      <4>1. PICK used \in Seq(Ids) : Descending(used)' /\ txs' = Append(txs, used)
        BY <3>2
      <4>2. /\ Len(txs') = Len(txs) + 1 /\ txs'[Len(txs) + 1] = used
            /\ \A u \in 1..Len(txs) : txs'[u] = txs[u]
        BY <1>1, <4>1, SentStays
      <4>3. t \in 1..Len(txs) \/ t = Len(txs) + 1
        BY <1>1, <4>2 DEF TypeOK
      <4>4. QED
        BY <4>1, <4>2, <4>3
    <3>3. QED
      BY <3>1, <3>2
  <2>4. QED
    BY <2>1, <2>2, <2>3
<1>5. QED
  BY <1>3, <1>4 DEF BatchesOrdered, Descending, KeyOf

\* A tick lists in that order.
LEMMA ListingOrdered ==
  ASSUME Inv, NEW ids \in NewestFirst(pendingIdx, ListLimit)
  PROVE  Descending(ids)
<1>1. IsFiniteSet(pendingIdx) /\ pendingIdx \subseteq Time \X Ids /\ ListLimit \in Nat
  BY PendingIdxFinite, CollectorAssumption DEF Inv, TypeOK
<1>2. PICK keys \in [1..Len(ids) -> pendingIdx] :
        /\ \A i \in 1..Len(ids) : ids[i] = keys[i][2]
        /\ \A i, j \in 1..Len(ids) : i < j => Before(keys[j], keys[i])
  BY <1>1, ListingShape
<1>3. \A k \in pendingIdx : k = KeyOf(k[2])
  BY DEF Inv, IndexesMatchRecords, KeyOf
<1>4. \A i \in 1..Len(ids) : keys[i] = KeyOf(ids[i])
  BY <1>2, <1>3
<1>5. QED
  BY <1>2, <1>4 DEF Descending

\* A list found by passing over some of another is in order if that one is.
LEMMA SelectionOrdered ==
  ASSUME NEW batch \in Seq(Ids), NEW found \in Seq(Ids),
         NEW at \in [1..Len(found) -> 1..Len(batch)],
         \A i \in 1..Len(found) : found[i] = batch[at[i]],
         \A i, j \in 1..Len(found) : i < j => at[i] < at[j]
  PROVE  /\ Descending(batch) => Descending(found)
         /\ Ascending(batch) => Ascending(found)
BY SMTT(30), ZenonT(30) DEF Descending, Ascending

\* The batches stay in order, whatever the workers do.
LEMMA OrderedStep ==
  ASSUME Inv, BatchesOrdered, [Next]_vars
  PROVE  BatchesOrdered'
<1>1. TypeOK /\ WorkersOK
  BY DEF Inv
<1>2. Idle.pc = "idle"
  BY DEF Idle
<1>3. ASSUME NEW batch, NEW tx
      PROVE  Marking(batch, tx).pc \in {"idle", "get"}
  BY DEF Marking, Idle
<1>4. CASE Tick \/ (\E i \in Ids, createdAt \in Time : Post(i, createdAt)) \/ UNCHANGED vars
  <2>1. UNCHANGED <<worker, txs>>
    BY <1>4 DEF Tick, Post, vars
  <2>2. ASSUME NEW w \in Workers
        PROVE  BatchesOrdered'
    <3>1. PICK s : s = worker[w]
      OBVIOUS
    <3>2. worker' = [worker EXCEPT ![w] = s]
      BY <1>1, <2>1, <3>1 DEF TypeOK
    <3>3. s.pc \in {"read", "publish"} => Descending(s.batch) /\ IsBatch(s.batch)
      BY <1>1, <3>1 DEF BatchesOrdered, WorkersOK, WorkerOK
    <3>4. PICK batch : batch = s.batch
      OBVIOUS
    <3>5. s.pc \in {"read", "publish"} => Descending(batch)'
      BY <3>3, <3>4, OrderStays
    <3>6. QED
      BY <2>1, <3>2, <3>4, <3>5, OrderedMove
  <2>3. CASE Workers = {}
    <3>1. ASSUME NEW t \in 1..Len(txs), NEW batch, batch = txs[t]
          PROVE  Descending(batch)'
      BY <3>1, OrderStays DEF Inv, TxsOK, BatchesOrdered
    <3>2. QED
      BY <2>1, <2>3, <3>1 DEF BatchesOrdered, Descending, KeyOf
  <2>4. QED
    BY <2>2, <2>3
<1>5. ASSUME NEW w \in Workers, List(w)
      PROVE  BatchesOrdered'
  <2>1. PICK ids \in NewestFirst(pendingIdx, ListLimit) :
          worker' = [worker EXCEPT ![w] = [Idle EXCEPT !.pc = "read", !.batch = ids]]
    BY <1>5 DEF List
  <2>2. PICK s : s = [Idle EXCEPT !.pc = "read", !.batch = ids]
    OBVIOUS
  <2>3. s.batch = ids
    BY <2>2 DEF Idle
  <2>4. Descending(ids)'
    BY <1>5, <2>1, ListingOrdered DEF List, kvVars, Descending, KeyOf
  <2>5. QED
    BY <1>5, <2>1, <2>2, <2>3, <2>4, OrderedMove DEF List
<1>6. ASSUME NEW w \in Workers, Read(w)
      PROVE  BatchesOrdered'
  <2>1. PICK found \in Present(worker[w].batch) :
          worker' = [worker EXCEPT ![w] =
                       IF found = <<>> \/ key # "set" THEN Idle
                       ELSE [worker[w] EXCEPT !.pc = "publish", !.batch = found]]
    BY <1>6 DEF Read
  <2>2. PICK s : s = IF found = <<>> \/ key # "set" THEN Idle
                     ELSE [worker[w] EXCEPT !.pc = "publish", !.batch = found]
    OBVIOUS
  <2>3. s.pc # "idle" => s.batch = found
    BY <1>1, <1>2, <2>2 DEF TypeOK, WorkerState
  <2>4. worker[w].batch \in Seq(Ids) /\ Descending(worker[w].batch)
    BY <1>1, <1>6 DEF Read, TypeOK, WorkerState, BatchesOrdered
  <2>5. Descending(found)
    <3>1. PICK batch : batch = worker[w].batch
      OBVIOUS
    <3>2. batch \in Seq(Ids) /\ found \in Present(batch) /\ Descending(batch)
      BY <2>1, <2>4, <3>1
    <3>3. found \in Seq(Ids)
      BY <3>2, PresentShape
    <3>4. PICK at \in [1..Len(found) -> 1..Len(batch)] :
            /\ \A i \in 1..Len(found) : found[i] = batch[at[i]]
            /\ \A i, j \in 1..Len(found) : i < j => at[i] < at[j]
      BY <3>2, PresentShape
    <3>5. QED
      BY <3>2, <3>3, <3>4, SelectionOrdered
  <2>6. Descending(found)'
    BY <1>6, <2>5 DEF Read, kvVars, Descending, KeyOf
  <2>7. QED
    BY <1>2, <1>6, <2>1, <2>2, <2>3, <2>6, OrderedMove DEF Read
<1>7. ASSUME NEW w \in Workers, PublishTooLarge(w) \/ PublishRefused(w) \/ Fail(w)
      PROVE  BatchesOrdered'
  BY <1>2, <1>7, OrderedMove DEF PublishTooLarge, PublishRefused, Fail
<1>8. ASSUME NEW w \in Workers, worker[w].pc = "publish"
      PROVE  \E batch \in Seq(Ids) : batch = worker[w].batch /\ Descending(batch)'
  <2>1. PICK batch : batch = worker[w].batch
    OBVIOUS
  <2>2. IsBatch(batch) /\ Descending(batch)
    BY <1>1, <1>8, <2>1 DEF WorkersOK, WorkerOK, BatchesOrdered
  <2>3. QED
    BY <2>1, <2>2, OrderStays DEF IsBatch
<1>9. ASSUME NEW w \in Workers, PublishAccepted(w)
      PROVE  BatchesOrdered'
  <2>1. PICK batch \in Seq(Ids) : batch = worker[w].batch /\ Descending(batch)'
    BY <1>8, <1>9 DEF PublishAccepted
  <2>2. PICK s : s = Marking(batch, Len(txs) + 1)
    OBVIOUS
  <2>3. s.pc \notin {"read", "publish"}
    BY <1>3, <2>2
  <2>4. txs' = Append(txs, batch) /\ worker' = [worker EXCEPT ![w] = s]
    BY <1>9, <2>1, <2>2 DEF PublishAccepted
  <2>5. QED
    BY <2>1, <2>3, <2>4, OrderedMove
<1>10. ASSUME NEW w \in Workers, PublishUnanswered(w)
       PROVE  BatchesOrdered'
  <2>1. PICK batch \in Seq(Ids) : batch = worker[w].batch /\ Descending(batch)'
    BY <1>8, <1>10 DEF PublishUnanswered
  <2>2. txs' = Append(txs, batch) /\ worker' = [worker EXCEPT ![w] = Idle]
    BY <1>10, <2>1 DEF PublishUnanswered
  <2>3. QED
    BY <1>2, <2>1, <2>2, OrderedMove
<1>11. ASSUME NEW w \in Workers, MarkGet(w)
       PROVE  BatchesOrdered'
  <2>1. PICK s : /\ worker' = [worker EXCEPT ![w] = s]
                 /\ \/ s = [worker[w] EXCEPT !.pc = "commit",
                                             !.entry = kv[Head(worker[w].batch)], !.at = now]
                    \/ s = Marking(Tail(worker[w].batch), worker[w].tx)
    BY <1>11 DEF MarkGet
  <2>2. s.pc \notin {"read", "publish"}
    BY <1>1, <1>3, <2>1 DEF TypeOK, WorkerState
  <2>3. QED
    BY <1>11, <2>1, <2>2, OrderedMove DEF MarkGet
<1>12. ASSUME NEW w \in Workers, MarkCommit(w)
       PROVE  BatchesOrdered'
  <2>1. PICK s : s = Marking(Tail(worker[w].batch), worker[w].tx)
    OBVIOUS
  <2>2. s.pc \notin {"read", "publish"}
    BY <1>3, <2>1
  <2>3. QED
    BY <1>12, <2>1, <2>2, OrderedMove DEF MarkCommit
<1>13. QED
  BY <1>4, <1>5, <1>6, <1>7, <1>9, <1>10, <1>11, <1>12 DEF Next, Publish

-----------------------------------------------------------------------------
(* The inductive invariant.                                                *)

ListState ==
  [pc: {"idle", "asked", "listed", "done"}, ids: Seq(Ids), items: Seq(Item)]

\* Nothing has written the record since the page was asked for.
Stable(id) == before[id] > 0 /\ before[id] = kv[id].version

\* With lists long enough, every such record of that status is there.
Complete(l, S) ==
  PageLimit >= Cardinality(Ids) => \A id \in Ids : Stable(id) /\ kv[id].status = l => id \in S

\* What a list of the page has found: records that had its status when it read
\* the index, each once.
ListedOK(l, ids) ==
  /\ Len(ids) <= PageLimit
  /\ \A i, j \in 1..Len(ids) : ids[i] = ids[j] => i = j
  /\ \A i \in 1..Len(ids) :
       /\ kv[ids[i]].status # "absent"
       /\ Stable(ids[i]) => kv[ids[i]].status = l
       /\ l = "bundled" => IsBundled(ids[i])
       /\ l = "pending" => before[ids[i]] <= 1
  /\ Complete(l, Entries(ids))

\* What it shows.
ShownOK(l, items) ==
  /\ Len(items) <= PageLimit
  /\ \A i, j \in 1..Len(items) : items[i].id = items[j].id => i = j
  /\ \A i \in 1..Len(items) :
       /\ Stable(items[i].id) => kv[items[i].id].status = l
       /\ l = "bundled" => items[i].record.status = "bundled"
       /\ l = "pending" /\ items[i].record.status = "bundled" =>
            before[items[i].id] < items[i].record.version
  /\ Complete(l, {items[i].id : i \in 1..Len(items)})

PageStateOK(l, s) ==
  /\ s.pc = "listed" => ListedOK(l, s.ids)
  /\ s.pc = "done" => ShownOK(l, s.items)
  /\ s.pc # "done" => s.items = <<>>

\* What the sidecar has found, and what it holds: bundled records of the
\* transaction, oldest first.
InTx(id) == IsBundled(id) /\ kv[id].bundleTxHash = asked

TxStateOK(s) ==
  /\ s.pc = "listed" => Ascending(s.ids) /\ \A i \in 1..Len(s.ids) : InTx(s.ids[i])
  /\ s.pc # "done" => s.items = <<>>
  /\ \A i \in 1..Len(s.items) : InTx(s.items[i].id) /\ s.items[i].record = kv[s.items[i].id]
  /\ \A i, j \in 1..Len(s.items) :
       i < j => Before(KeyOf(s.items[i].id), KeyOf(s.items[j].id))

ListsTyped ==
  /\ lists \in [Lists -> ListState]
  /\ asked \in 0..Len(txs)
  /\ before \in [Ids -> Nat]

BeforeOK == \A id \in Ids : before[id] <= kv[id].version

ApiInv ==
  /\ Inv
  /\ BatchesOrdered
  /\ ListsTyped
  /\ BeforeOK
  /\ \A l \in PageLists : PageStateOK(l, lists[l])
  /\ TxStateOK(lists["tx"])

-----------------------------------------------------------------------------
(* The listings of the page and of the sidecar.                            *)

\* A list of the page finds records of its status, each once, and all of them
\* when it is long enough.
LEMMA PageListing ==
  ASSUME Inv, NEW l \in PageLists, NEW ids \in IdsOf(l)
  PROVE  /\ ids \in Seq(Ids) /\ Len(ids) <= PageLimit
         /\ \A i \in 1..Len(ids) : kv[ids[i]].status = l
         /\ \A i, j \in 1..Len(ids) : ids[i] = ids[j] => i = j
         /\ PageLimit >= Cardinality(Ids) =>
              \A id \in Ids : kv[id].status = l => \E i \in 1..Len(ids) : ids[i] = id
<1> DEFINE S == {id \in Ids : kv[id].status = l}
           time == [id \in Ids |-> IF l = "pending" THEN kv[id].createdAt ELSE kv[id].bundledAt]
           index == {<<time[id], id>> : id \in S}
           keyOf == [id \in S |-> <<time[id], id>>]
<1>1. ids \in NewestFirst(index, PageLimit)
  <2>1. CASE l = "pending"
    <3>1. index = pendingIdx
      BY <2>1 DEF Inv, IndexesMatchRecords
    <3> HIDE DEF index
    <3>2. QED
      BY <2>1, <3>1 DEF IdsOf
  <2>2. CASE l = "bundled"
    <3>1. index = bundledIdx
      BY <2>2 DEF Inv, IndexesMatchRecords, IsBundled
    <3> HIDE DEF index
    <3>2. QED
      BY <2>2, <3>1 DEF IdsOf
  <2>3. QED
    BY <2>1, <2>2 DEF PageLists
<1>2. IsFiniteSet(S) /\ Cardinality(S) <= Cardinality(Ids)
  BY CollectorAssumption, FS_Subset
<1>3. IsFiniteSet(index) /\ Cardinality(index) <= Cardinality(S)
  <2>1. keyOf \in Surjection(S, index)
    BY DEF Surjection
  <2> HIDE DEF S, index, keyOf
  <2>2. QED
    BY <1>2, <2>1, FS_Surjection
<1>4. index \subseteq Time \X Ids
  <2>1. \A id \in Ids : time[id] \in Time
    BY DEF Inv, TypeOK, Microblob
  <2>2. QED
    BY <2>1
<1>5. \A k \in index : k[2] \in S /\ k = <<time[k[2]], k[2]>>
  OBVIOUS
<1>6. PageLimit \in Nat /\ Cardinality(Ids) \in Nat /\ Cardinality(S) \in Nat
      /\ Cardinality(index) \in Nat
  BY <1>2, <1>3, CollectorAssumption, ApiAssumption, FS_CardinalityType
<1>7. \A id \in S : <<time[id], id>> \in index
  OBVIOUS
<1> HIDE DEF index, time, S
<1>8. ids \in Seq(Ids) /\ Len(ids) <= PageLimit
  BY <1>1, <1>3, <1>4, <1>6, ListingShape
<1>9. PICK keys \in [1..Len(ids) -> index] :
        /\ \A i \in 1..Len(ids) : ids[i] = keys[i][2]
        /\ \A i, j \in 1..Len(ids) : i < j => Before(keys[j], keys[i])
        /\ Cardinality(index) <= PageLimit => \A k \in index : \E i \in 1..Len(ids) : keys[i] = k
  BY <1>1, <1>3, <1>4, <1>6, ListingShape
<1>10. \A i \in 1..Len(ids) : ids[i] \in S /\ keys[i] = <<time[ids[i]], ids[i]>>
  BY <1>5, <1>9
<1>11. ASSUME NEW i \in 1..Len(ids), NEW j \in 1..Len(ids), ids[i] = ids[j], i < j
       PROVE  FALSE
  <2>1. keys[i] = keys[j] /\ Before(keys[j], keys[i])
    BY <1>9, <1>10, <1>11
  <2>2. keys[i] \in Time \X Ids
    BY <1>4, <1>9
  <2>3. Time \subseteq Nat /\ Ids \subseteq Nat
    BY CollectorAssumption DEF Time
  <2>4. keys[i][1] \in Nat /\ keys[i][2] \in Nat
    BY <2>2, <2>3
  <2>5. QED
    BY <2>1, <2>4 DEF Before
<1>12. \A i, j \in 1..Len(ids) : ids[i] = ids[j] => i = j
  BY <1>8, <1>11
<1>13. ASSUME PageLimit >= Cardinality(Ids), NEW id \in S
       PROVE  \E i \in 1..Len(ids) : ids[i] = id
  <2>1. Cardinality(index) <= PageLimit
    BY <1>2, <1>3, <1>6, <1>13
  <2>2. PICK i \in 1..Len(ids) : keys[i] = <<time[id], id>>
    BY <1>7, <1>9, <2>1
  <2>3. QED
    BY <1>9, <2>2
<1>14. QED
  BY <1>8, <1>10, <1>12, <1>13 DEF S

\* The sidecar finds records of the transaction, oldest first.
LEMMA TxListingShape ==
  ASSUME Inv, NEW ids \in TxListing(asked)
  PROVE  /\ ids \in Seq(Ids) /\ Ascending(ids)
         /\ \A i \in 1..Len(ids) : InTx(ids[i])
<1> DEFINE keys == {<<k[2], k[3]>> : k \in {b \in byTx : b[1] = asked}}
<1>1. PICK newest \in NewestFirst(keys, Cardinality(keys)) : ids = Reverse(newest)
  BY DEF TxListing
<1>2. keys \subseteq Time \X Ids /\ \A k \in keys : InTx(k[2]) /\ k = KeyOf(k[2])
  <2>1. \A b \in byTx : /\ b[3] \in Ids /\ IsBundled(b[3])
                        /\ b = <<kv[b[3]].bundleTxHash, kv[b[3]].createdAt, b[3]>>
    BY DEF Inv, IndexesMatchRecords
  <2>2. \A id \in Ids : kv[id].createdAt \in Time
    BY DEF Inv, TypeOK, Microblob
  <2>3. QED
    BY <2>1, <2>2 DEF InTx, KeyOf
<1> HIDE DEF keys
<1>3. IsFiniteSet(Time \X Ids)
  <2>1. IsFiniteSet(Time)
    BY FS_Interval, CollectorAssumption DEF Time
  <2>2. QED
    BY <2>1, FS_Product, CollectorAssumption
<1>4. IsFiniteSet(keys) /\ Cardinality(keys) \in Nat
  BY <1>2, <1>3, FS_Subset, FS_CardinalityType
<1>5. newest \in Seq(Ids) /\ Len(newest) \in Nat
  BY <1>1, <1>2, <1>4, ListingShape
<1>6. PICK ks \in [1..Len(newest) -> keys] :
        /\ \A i \in 1..Len(newest) : newest[i] = ks[i][2]
        /\ \A i, j \in 1..Len(newest) : i < j => Before(ks[j], ks[i])
  BY <1>1, <1>2, <1>4, ListingShape
<1>7. \A i \in 1..Len(newest) : ks[i] = KeyOf(newest[i]) /\ InTx(newest[i])
  BY <1>2, <1>6
<1>8. /\ ids \in Seq(Ids) /\ Len(ids) = Len(newest)
      /\ \A i \in 1..Len(ids) : /\ Len(newest) - i + 1 \in 1..Len(newest)
                                /\ ids[i] = newest[Len(newest) - i + 1]
  <2>1. PICK n \in Nat : n = Len(newest)
    BY <1>5
  <2>2. ids = [i \in 1..n |-> newest[(n - i) + 1]]
    BY <1>1, <2>1 DEF Reverse
  <2>3. \A i \in 1..n : (n - i) + 1 \in 1..n
    BY <2>1
  <2>4. \A i \in 1..n : newest[i] \in Ids
    BY <1>5, <2>1
  <2>5. ids \in Seq(Ids) /\ Len(ids) = n
    BY <2>1, <2>2, <2>3, <2>4
  <2>6. QED
    BY <2>1, <2>2, <2>3, <2>5
<1>9. ASSUME NEW i \in 1..Len(ids), NEW j \in 1..Len(ids), i < j
      PROVE  Before(KeyOf(ids[i]), KeyOf(ids[j]))
  <2>1. Len(newest) - j + 1 < Len(newest) - i + 1
    BY <1>5, <1>8, <1>9
  <2>2. QED
    BY <1>6, <1>7, <1>8, <2>1, ZenonT(30)
<1>10. QED
  BY <1>7, <1>8, <1>9 DEF Ascending

-----------------------------------------------------------------------------
(* The inductive invariant holds.                                          *)

\* What a list holds are ids and items.
LEMMA ListContents ==
  ASSUME NEW s \in ListState
  PROVE  /\ s.ids \in Seq(Ids) /\ s.items \in Seq(Item)
         /\ \A i \in 1..Len(s.ids) : s.ids[i] \in Ids
         /\ \A i \in 1..Len(s.items) : s.items[i] \in Item /\ s.items[i].id \in Ids
<1>1. s.ids \in Seq(Ids) /\ s.items \in Seq(Item)
  BY DEF ListState
<1>2. \A i \in 1..Len(s.items) : s.items[i] \in Item
  BY <1>1
<1>3. \A x \in Item : x.id \in Ids
  BY DEF Item
<1>4. QED
  BY <1>1, <1>2, <1>3

\* A list that has found nothing yet is in order.
LEMMA UnaskedOK ==
  /\ Unasked \in ListState /\ Asked \in ListState
  /\ \A l \in PageLists : PageStateOK(l, Unasked) /\ PageStateOK(l, Asked)
  /\ TxStateOK(Unasked) /\ TxStateOK(Asked)
<1>1. /\ Unasked.pc = "idle" /\ Unasked.ids = <<>> /\ Unasked.items = <<>>
      /\ Asked.pc = "asked" /\ Asked.ids = <<>> /\ Asked.items = <<>>
      /\ Unasked \in ListState /\ Asked \in ListState
  <2>1. Asked = [pc |-> "asked", ids |-> <<>>, items |-> <<>>]
    BY DEF Unasked, Asked
  <2>2. \A pc \in {"idle", "asked"} : [pc |-> pc, ids |-> <<>>, items |-> <<>>] \in ListState
    BY DEF ListState
  <2>3. QED
    BY <2>1, <2>2 DEF Unasked
<1>2. QED
  BY <1>1 DEF PageStateOK, TxStateOK

\* Before any request, over an empty store.
LEMMA ApiInitInv == ApiInit => ApiInv
<1> SUFFICES ASSUME ApiInit PROVE ApiInv
  OBVIOUS
<1>1. Inv
  BY InitInv DEF ApiInit
<1>2. BatchesOrdered
  BY DEF ApiInit, Init, BatchesOrdered, Idle
<1>3. \A l \in Lists : lists[l] = Unasked
  BY DEF ApiInit
<1>4. ListsTyped
  BY UnaskedOK DEF ApiInit, Init, ListsTyped
<1>5. BeforeOK
  BY DEF ApiInit, Init, Missing, BeforeOK
<1>6. QED
  BY <1>1, <1>2, <1>3, <1>4, <1>5, UnaskedOK DEF ApiInv, Lists, PageLists

\* What a step of the collector does to the records a page has been asked for.
LEMMA StableStays ==
  ASSUME ApiInv, [Next]_vars, UNCHANGED before, NEW id \in Ids
  PROVE  /\ before[id] <= kv'[id].version
         /\ Stable(id)' => Stable(id) /\ kv'[id] = kv[id]
<1>1. /\ kv[id].version \in Nat /\ kv'[id].version \in Nat
      /\ kv[id].version <= kv'[id].version
      /\ kv[id].version = kv'[id].version => kv'[id] = kv[id]
  BY RecordsKeep DEF ApiInv
<1>2. before[id] \in Nat /\ before[id] <= kv[id].version
  BY DEF ApiInv, ListsTyped, BeforeOK
<1>3. QED
  BY <1>1, <1>2 DEF Stable

\* A step of the collector leaves the lists of the page in order.
LEMMA PageStateStays ==
  ASSUME ApiInv, [Next]_vars, UNCHANGED before, NEW l \in PageLists,
         NEW s \in ListState, PageStateOK(l, s)
  PROVE  PageStateOK(l, s)'
<1>1. /\ s.ids \in Seq(Ids) /\ s.items \in Seq(Item)
      /\ \A i \in 1..Len(s.ids) : s.ids[i] \in Ids
      /\ \A i \in 1..Len(s.items) : s.items[i].id \in Ids
  BY ListContents
<1>2. \A id \in Ids : Stable(id)' => Stable(id) /\ kv'[id] = kv[id]
  BY StableStays
<1>3. \A id \in Ids : /\ kv[id].status # "absent" => kv'[id].status # "absent"
                      /\ IsBundled(id) => IsBundled(id)'
  BY RecordsKeep DEF ApiInv, IsBundled
<1>4. ASSUME NEW S, Complete(l, S)
      PROVE  Complete(l, S)'
  BY <1>2, <1>4 DEF Complete
<1>5. ASSUME s.pc = "listed"
      PROVE  ListedOK(l, s.ids)'
  <2>1. ListedOK(l, s.ids)
    BY <1>5 DEF PageStateOK
  <2>2. Complete(l, Entries(s.ids))'
    BY <1>4, <2>1 DEF ListedOK
  <2>3. ASSUME NEW i \in 1..Len(s.ids)
        PROVE  /\ kv'[s.ids[i]].status # "absent"
               /\ Stable(s.ids[i])' => kv'[s.ids[i]].status = l
               /\ l = "bundled" => IsBundled(s.ids[i])'
               /\ l = "pending" => before[s.ids[i]] <= 1
    BY <1>1, <1>2, <1>3, <2>1 DEF ListedOK
  <2>4. QED
    BY <2>1, <2>2, <2>3 DEF ListedOK
<1>6. ASSUME s.pc = "done"
      PROVE  ShownOK(l, s.items)'
  <2>1. ShownOK(l, s.items)
    BY <1>6 DEF PageStateOK
  <2>2. Complete(l, {s.items[i].id : i \in 1..Len(s.items)})'
    BY <1>4, <2>1 DEF ShownOK
  <2>3. ASSUME NEW i \in 1..Len(s.items)
        PROVE  Stable(s.items[i].id)' => kv'[s.items[i].id].status = l
    BY <1>1, <1>2, <2>1 DEF ShownOK
  <2>4. QED
    BY <2>1, <2>2, <2>3 DEF ShownOK
<1>7. QED
  BY <1>5, <1>6 DEF PageStateOK

\* And the sidecar.
LEMMA TxStateStays ==
  ASSUME ApiInv, [Next]_vars, UNCHANGED asked, NEW s \in ListState, TxStateOK(s)
  PROVE  TxStateOK(s)'
<1>1. /\ \A i \in 1..Len(s.ids) : s.ids[i] \in Ids
      /\ \A i \in 1..Len(s.items) : s.items[i].id \in Ids
  BY ListContents
<1>2. \A id \in Ids : InTx(id) => InTx(id)' /\ kv'[id] = kv[id]
  BY RecordsKeep DEF ApiInv, InTx, IsBundled
<1>3. ASSUME s.pc = "listed"
      PROVE  Ascending(s.ids)' /\ \A i \in 1..Len(s.ids) : InTx(s.ids[i])'
  <2>1. Ascending(s.ids) /\ \A i \in 1..Len(s.ids) : InTx(s.ids[i])
    BY <1>3 DEF TxStateOK
  <2>2. \A i \in 1..Len(s.ids) : InTx(s.ids[i])' /\ kv'[s.ids[i]] = kv[s.ids[i]]
    BY <1>1, <1>2, <2>1
  <2>3. QED
    BY <2>1, <2>2 DEF Ascending, KeyOf
<1>4. \A i \in 1..Len(s.items) : /\ InTx(s.items[i].id)'
                                 /\ kv'[s.items[i].id] = kv[s.items[i].id]
                                 /\ s.items[i].record = kv'[s.items[i].id]
  BY <1>1, <1>2 DEF TxStateOK
<1>5. \A i, j \in 1..Len(s.items) :
        i < j => Before(KeyOf(s.items[i].id), KeyOf(s.items[j].id))'
  BY <1>4 DEF TxStateOK, KeyOf, Before
<1>6. QED
  BY <1>3, <1>4, <1>5 DEF TxStateOK, KeyOf, Before

\* A step of the collector keeps the invariant.
LEMMA StoreStepInv ==
  ASSUME ApiInv, [Next]_vars, UNCHANGED apiVars
  PROVE  ApiInv'
<1>1. lists' = lists /\ asked' = asked /\ before' = before
  BY DEF apiVars
<1>2. Inv' /\ BatchesOrdered'
  BY NextInv, OrderedStep DEF ApiInv
<1>3. BeforeOK'
  BY <1>1, StableStays DEF BeforeOK
<1>4. ListsTyped'
  <2>1. Len(txs) \in Nat /\ Len(txs') \in Nat /\ Len(txs) <= Len(txs')
    <3>1. txs' = txs \/ \E used \in Seq(Ids) : txs' = Append(txs, used)
      <4>1. ASSUME NEW w \in Workers, worker[w].pc = "publish"
            PROVE  worker[w].batch \in Seq(Ids)
        BY <4>1 DEF ApiInv, Inv, WorkersOK, WorkerOK, IsBatch
      <4>2. QED
        BY <4>1 DEF Next, Publish, Tick, Post, List, Read, PublishAccepted, PublishTooLarge,
                    PublishRefused, PublishUnanswered, MarkGet, MarkCommit, Fail, vars
    <3>2. txs \in Seq(Seq(Ids))
      BY DEF ApiInv, Inv, TypeOK
    <3>3. QED
      BY <3>1, <3>2
  <2>2. QED
    BY <1>1, <2>1 DEF ApiInv, ListsTyped
<1>5. ASSUME NEW l \in PageLists
      PROVE  PageStateOK(l, lists[l])'
  <2>1. PICK s \in ListState : s = lists[l]
    BY DEF ApiInv, ListsTyped, PageLists, Lists
  <2>2. PageStateOK(l, s)'
    BY <1>1, <2>1, PageStateStays DEF ApiInv
  <2>3. QED
    BY <1>1, <2>1, <2>2
<1>6. TxStateOK(lists["tx"])'
  <2>1. PICK s \in ListState : s = lists["tx"]
    BY DEF ApiInv, ListsTyped, Lists
  <2>2. TxStateOK(s)'
    BY <1>1, <2>1, TxStateStays DEF ApiInv
  <2>3. QED
    BY <1>1, <2>1, <2>2
<1>7. QED
  BY <1>2, <1>3, <1>4, <1>5, <1>6 DEF ApiInv

\* A request writes nothing: its own list has to be in order, and the others
\* are.
LEMMA RequestStepInv ==
  ASSUME ApiInv, NEW l \in Lists, NEW s \in ListState, lists' = [lists EXCEPT ![l] = s],
         UNCHANGED <<vars, before>>, asked' \in 0..Len(txs), l # "tx" => asked' = asked,
         l \in PageLists => PageStateOK(l, s), l = "tx" => TxStateOK(s)'
  PROVE  ApiInv'
<1>1. UNCHANGED <<now, key, kv, pendingIdx, bundledIdx, byTx, worker, txs, faults, before>>
  BY DEF vars, kvVars
<1>2. Inv' /\ BatchesOrdered'
  BY NextInv, OrderedStep DEF ApiInv
<1>3. ListsTyped' /\ BeforeOK'
  BY <1>1 DEF ApiInv, ListsTyped, BeforeOK
<1>4. \A k \in Lists : lists'[k] = IF k = l THEN s ELSE lists[k]
  BY DEF ApiInv, ListsTyped
<1>5. ASSUME NEW k, NEW x, PageStateOK(k, x)
      PROVE  PageStateOK(k, x)'
  BY <1>1, <1>5 DEF PageStateOK, ListedOK, ShownOK, Complete, Stable, IsBundled, Entries
<1>6. ASSUME NEW k \in PageLists
      PROVE  PageStateOK(k, lists[k])'
  <2>1. PICK x : x = lists'[k]
    OBVIOUS
  <2>2. PageStateOK(k, x)
    BY <1>4, <2>1 DEF ApiInv, PageLists, Lists
  <2>3. QED
    BY <1>5, <2>1, <2>2
<1>7. TxStateOK(lists["tx"])'
  <2>1. PICK x : x = lists'["tx"]
    OBVIOUS
  <2>2. CASE l = "tx"
    BY <1>4, <2>2 DEF Lists
  <2>3. CASE l # "tx"
    <3>1. x = lists["tx"] /\ TxStateOK(x)
      BY <1>4, <2>1, <2>3 DEF ApiInv, Lists
    <3>2. TxStateOK(x)'
      BY <1>1, <2>3, <3>1, ZenonT(30) DEF TxStateOK, Ascending, InTx, IsBundled, KeyOf
    <3>3. QED
      BY <2>1, <3>2
  <2>4. QED
    BY <2>2, <2>3
<1>8. QED
  BY <1>2, <1>3, <1>6, <1>7 DEF ApiInv

\* Asking for the page keeps the invariant.
LEMMA RequestPageInv ==
  ASSUME ApiInv, RequestPage
  PROVE  ApiInv'
<1>1. /\ UNCHANGED <<now, key, kv, pendingIdx, bundledIdx, byTx, worker, txs, faults, asked>>
      /\ lists' = [l \in Lists |-> IF l \in PageLists THEN Asked ELSE lists[l]]
      /\ before' = [id \in Ids |-> kv[id].version]
  BY DEF RequestPage, vars, kvVars
<1>2. Inv' /\ BatchesOrdered'
  BY NextInv, OrderedStep DEF ApiInv, RequestPage
<1>3. \A id \in Ids : kv[id].version \in Nat
  BY DEF ApiInv, Inv, TypeOK, Microblob
<1>4. ListsTyped' /\ BeforeOK'
  BY <1>1, <1>3, UnaskedOK DEF ApiInv, ListsTyped, BeforeOK
<1>5. ASSUME NEW l \in PageLists
      PROVE  PageStateOK(l, lists[l])'
  <2>1. lists'[l] = Asked
    BY <1>1 DEF PageLists, Lists
  <2>2. Asked.pc = "asked" /\ Asked.items = <<>>
    BY DEF Asked, Unasked
  <2>3. QED
    BY <2>1, <2>2 DEF PageStateOK
<1>6. TxStateOK(lists["tx"])'
  <2>1. lists'["tx"] = lists["tx"] /\ TxStateOK(lists["tx"])
    BY <1>1 DEF ApiInv, PageLists, Lists
  <2>2. PICK x : x = lists["tx"]
    OBVIOUS
  <2>3. TxStateOK(x)'
    BY <1>1, <2>1, <2>2, ZenonT(30) DEF TxStateOK, Ascending, InTx, IsBundled, KeyOf
  <2>4. QED
    BY <2>1, <2>2, <2>3
<1>7. QED
  BY <1>2, <1>4, <1>5, <1>6 DEF ApiInv

\* Asking for a sidecar keeps the invariant.
LEMMA RequestTxInv ==
  ASSUME ApiInv, NEW tx \in 0..Len(txs), RequestTx(tx)
  PROVE  ApiInv'
<1>1. Asked.pc = "asked" /\ Asked.items = <<>>
  BY DEF Asked, Unasked
<1>2. TxStateOK(Asked)'
  BY <1>1 DEF TxStateOK
<1>3. "tx" \in Lists /\ "tx" \notin PageLists
  BY DEF Lists, PageLists
<1>4. QED
  BY <1>2, <1>3, UnaskedOK, RequestStepInv DEF RequestTx

\* Listing the index keeps the invariant.
LEMMA ListIdsInv ==
  ASSUME ApiInv, NEW l \in Lists, ListIds(l)
  PROVE  ApiInv'
<1>1. PICK ids \in IdsOf(l) :
        lists' = [lists EXCEPT ![l] =
                    [lists[l] EXCEPT !.pc = IF ids = <<>> THEN "done" ELSE "listed", !.ids = ids]]
  BY DEF ListIds
<1>2. PICK s : s = [lists[l] EXCEPT !.pc = IF ids = <<>> THEN "done" ELSE "listed", !.ids = ids]
  OBVIOUS
<1>3. lists[l] \in ListState /\ lists[l].pc = "asked"
  BY DEF ApiInv, ListsTyped, ListIds
<1>4. lists[l].items = <<>>
  BY <1>3 DEF ApiInv, PageStateOK, TxStateOK, Lists, PageLists
<1>5. /\ s.pc = (IF ids = <<>> THEN "done" ELSE "listed") /\ s.ids = ids /\ s.items = <<>>
      /\ ids \in Seq(Ids) => s \in ListState
  BY <1>2, <1>3, <1>4 DEF ListState
<1>6. UNCHANGED <<vars, before>> /\ asked' = asked /\ asked' \in 0..Len(txs)
  BY DEF ListIds, ApiInv, ListsTyped
<1>7. CASE l \in PageLists
  <2>1. /\ ids \in Seq(Ids) /\ Len(ids) <= PageLimit
        /\ \A i \in 1..Len(ids) : kv[ids[i]].status = l
        /\ \A i, j \in 1..Len(ids) : ids[i] = ids[j] => i = j
        /\ PageLimit >= Cardinality(Ids) =>
             \A id \in Ids : kv[id].status = l => \E i \in 1..Len(ids) : ids[i] = id
    BY <1>1, <1>7, PageListing DEF ApiInv
  <2>2. ASSUME NEW i \in 1..Len(ids)
        PROVE  /\ kv[ids[i]].status # "absent"
               /\ l = "bundled" => IsBundled(ids[i])
               /\ l = "pending" => before[ids[i]] <= 1
    <3>1. ids[i] \in Ids
      BY <2>1
    <3>2. l = "pending" => kv[ids[i]].version = 1
      BY <2>1, <3>1 DEF ApiInv, Inv, VersionsOK
    <3>3. QED
      BY <1>7, <2>1, <3>1, <3>2 DEF IsBundled, PageLists, ApiInv, BeforeOK
  <2>3. Complete(l, Entries(ids))
    BY <2>1 DEF Complete, Entries
  <2>4. ListedOK(l, ids)
    BY <2>1, <2>2, <2>3 DEF ListedOK
  <2>5. ids = <<>> => ShownOK(l, <<>>)
    <3>1. ASSUME ids = <<>>
          PROVE  Complete(l, {<<>>[i].id : i \in 1..Len(<<>>)})
      BY <2>1, <3>1 DEF Complete
    <3>2. QED
      BY <3>1, ApiAssumption DEF ShownOK
  <2>6. PageStateOK(l, s)
    BY <1>5, <2>4, <2>5 DEF PageStateOK
  <2>7. l # "tx"
    BY <1>7 DEF PageLists
  <2>8. s \in ListState /\ lists' = [lists EXCEPT ![l] = s]
    BY <1>1, <1>2, <1>5, <2>1
  <2>9. l \in PageLists => PageStateOK(l, s)
    BY <2>6
  <2>10. l = "tx" => TxStateOK(s)'
    BY <2>7
  <2>11. l # "tx" => asked' = asked
    BY <1>6
  <2> HIDE DEF PageLists
  <2>12. QED
    BY <1>6, <2>8, <2>9, <2>10, <2>11, RequestStepInv
<1>8. CASE l = "tx"
  <2>1. ids \in Seq(Ids) /\ Ascending(ids) /\ \A i \in 1..Len(ids) : InTx(ids[i])
    BY <1>1, <1>8, TxListingShape DEF IdsOf, ApiInv
  <2>2. TxStateOK(s)
    BY <1>5, <2>1 DEF TxStateOK
  <2>3. TxStateOK(s)'
    BY <1>6, <2>2 DEF vars, kvVars, TxStateOK, Ascending, InTx, IsBundled, KeyOf
  <2>4. l \notin PageLists
    BY <1>8 DEF PageLists
  <2>5. QED
    BY <1>1, <1>2, <1>5, <1>6, <2>1, <2>3, <2>4, RequestStepInv
<1>9. QED
  BY <1>7, <1>8 DEF Lists, PageLists

\* What getMany answers, as items.
LEMMA FoundItems ==
  ASSUME Inv, NEW batch \in Seq(Ids), NEW found \in Present(batch), NEW items,
         items = [i \in DOMAIN found |-> [id |-> found[i], record |-> kv[found[i]]]]
  PROVE  /\ items \in Seq(Item) /\ Len(items) = Len(found) /\ found \in Seq(Ids)
         /\ \A i \in 1..Len(items) : items[i].id = found[i] /\ items[i].record = kv[found[i]]
<1>1. found \in Seq(Ids)
  BY PresentShape
<1>2. Len(found) \in Nat /\ DOMAIN found = 1..Len(found) /\ \A i \in 1..Len(found) : found[i] \in Ids
  BY <1>1
<1>3. \A i \in 1..Len(found) : [id |-> found[i], record |-> kv[found[i]]] \in Item
  BY <1>2 DEF Item, Inv, TypeOK
<1>4. items = [i \in 1..Len(found) |-> [id |-> found[i], record |-> kv[found[i]]]]
  BY <1>2
<1>5. items \in Seq(Item) /\ Len(items) = Len(found)
  BY <1>2, <1>3, <1>4
<1>6. QED
  BY <1>1, <1>4, <1>5

\* The records of a list of the page, as getMany finds them.
LEMMA PageItems ==
  ASSUME ApiInv, NEW l \in PageLists, NEW batch \in Seq(Ids), ListedOK(l, batch),
         NEW found \in Present(batch), NEW items,
         items = [i \in DOMAIN found |-> [id |-> found[i], record |-> kv[found[i]]]]
  PROVE  ShownOK(l, items)
<1>1. /\ items \in Seq(Item) /\ Len(items) = Len(found) /\ found \in Seq(Ids)
      /\ \A i \in 1..Len(items) : items[i].id = found[i] /\ items[i].record = kv[found[i]]
  BY FoundItems DEF ApiInv
<1>2. PICK at \in [1..Len(found) -> 1..Len(batch)] :
        /\ \A i \in 1..Len(found) : found[i] = batch[at[i]]
        /\ \A i, j \in 1..Len(found) : i < j => at[i] < at[j]
        /\ \A k \in 1..Len(batch) :
             kv[batch[k]].status # "absent" => \E i \in 1..Len(found) : at[i] = k
  BY PresentShape
<1>3. Len(found) <= Len(batch) /\ Len(found) \in Nat /\ Len(batch) \in Nat
  BY <1>1, PresentShape
<1>4. Len(items) <= PageLimit
  BY <1>1, <1>3, ApiAssumption DEF ListedOK
<1>5. \A i \in 1..Len(found) : at[i] \in 1..Len(batch) /\ at[i] \in Nat
  BY <1>2, <1>3
<1>6. ASSUME NEW i \in 1..Len(items), NEW j \in 1..Len(items), items[i].id = items[j].id
      PROVE  i = j
  <2>1. batch[at[i]] = batch[at[j]]
    BY <1>1, <1>2, <1>6
  <2>2. at[i] = at[j]
    BY <1>1, <1>5, <2>1 DEF ListedOK
  <2>3. i \in 1..Len(found) /\ j \in 1..Len(found) /\ at[i] \in Nat
    BY <1>1, <1>5
  <2>4. ~(i < j) /\ ~(j < i)
    BY <1>2, <2>2, <2>3
  <2>5. QED
    BY <1>3, <2>3, <2>4
<1>7. ASSUME NEW i \in 1..Len(items)
      PROVE  /\ Stable(items[i].id) => kv[items[i].id].status = l
             /\ l = "bundled" => items[i].record.status = "bundled"
             /\ l = "pending" /\ items[i].record.status = "bundled" =>
                  before[items[i].id] < items[i].record.version
  <2>1. PICK id \in Ids : id = found[i]
    BY <1>1
  <2>2. items[i].id = id /\ items[i].record = kv[id]
    BY <1>1, <2>1
  <2>3. /\ Stable(id) => kv[id].status = l
        /\ l = "bundled" => IsBundled(id)
        /\ l = "pending" => before[id] <= 1
    BY <1>1, <1>2, <1>5, <2>1 DEF ListedOK
  <2>4. kv[id].status = "bundled" => kv[id].version = 2
    BY DEF ApiInv, Inv, VersionsOK
  <2>5. before[id] \in Nat
    BY DEF ApiInv, ListsTyped
  <2>6. QED
    BY <2>2, <2>3, <2>4, <2>5 DEF IsBundled
<1>8. Complete(l, {items[i].id : i \in 1..Len(items)})
  <2> SUFFICES ASSUME PageLimit >= Cardinality(Ids), NEW id \in Ids, Stable(id), kv[id].status = l
               PROVE  \E i \in 1..Len(items) : items[i].id = id
    BY DEF Complete
  <2>1. id \in Entries(batch)
    BY DEF ListedOK, Complete
  <2>2. PICK k \in 1..Len(batch) : batch[k] = id
    BY <2>1 DEF Entries
  <2>3. kv[batch[k]].status # "absent"
    BY <2>2 DEF PageLists
  <2>4. PICK i \in 1..Len(found) : at[i] = k
    BY <1>2, <2>3
  <2>5. QED
    BY <1>1, <1>2, <2>2, <2>4
<1>9. QED
  BY <1>4, <1>6, <1>7, <1>8 DEF ShownOK

\* What a sidecar shows: records of the transaction, in the order of their keys.
SidecarShown(items) ==
  /\ items \in Seq(Item)
  /\ \A i \in 1..Len(items) : InTx(items[i].id) /\ items[i].record = kv[items[i].id]
  /\ \A i, j \in 1..Len(items) : i < j => Before(KeyOf(items[i].id), KeyOf(items[j].id))

\* The records of the sidecar, as getMany finds them, then sorted.
LEMMA TxItems ==
  ASSUME ApiInv, NEW batch \in Seq(Ids), Ascending(batch),
         \A i \in 1..Len(batch) : InTx(batch[i]),
         NEW found \in Present(batch), NEW items,
         items = [i \in DOMAIN found |-> [id |-> found[i], record |-> kv[found[i]]]]
  PROVE  SidecarShown(StableSort(items))
<1>1. /\ items \in Seq(Item) /\ Len(items) = Len(found) /\ found \in Seq(Ids)
      /\ \A i \in 1..Len(items) : items[i].id = found[i] /\ items[i].record = kv[found[i]]
  BY FoundItems DEF ApiInv
<1>2. PICK at \in [1..Len(found) -> 1..Len(batch)] :
        /\ \A i \in 1..Len(found) : found[i] = batch[at[i]]
        /\ \A i, j \in 1..Len(found) : i < j => at[i] < at[j]
  BY PresentShape
<1>3. Ascending(found)
  BY <1>1, <1>2, SelectionOrdered
<1>4. \A i \in 1..Len(found) : InTx(found[i])
  BY <1>2
<1> DEFINE sorted == StableSort(items)
<1>5. sorted \in Seq(Item) /\ Len(sorted) = Len(items)
  BY <1>1, SortShape
<1>6. PICK pos \in [1..Len(items) -> 1..Len(items)] :
        /\ \A p \in 1..Len(items) : StableSort(items)[p] = items[pos[p]]
        /\ \A p, q \in 1..Len(items) : p < q => Earlier(items, pos[p], pos[q])
  BY <1>1, SortShape, Zenon
<1>7. ASSUME NEW p \in 1..Len(items)
      PROVE  /\ pos[p] \in 1..Len(found)
             /\ sorted[p].id = found[pos[p]]
             /\ sorted[p].record = kv[sorted[p].id]
  <2>1. pos[p] \in 1..Len(items) /\ sorted[p] = items[pos[p]]
    BY <1>6
  <2>2. QED
    BY <1>1, <2>1
<1>8. ASSUME NEW i \in 1..Len(found), NEW j \in 1..Len(found), Earlier(items, i, j)
      PROVE  Before(KeyOf(found[i]), KeyOf(found[j]))
  <2>1. /\ items[i].record.createdAt = KeyOf(found[i])[1]
        /\ items[j].record.createdAt = KeyOf(found[j])[1]
    BY <1>1 DEF KeyOf
  <2>2. CASE items[i].record.createdAt < items[j].record.createdAt
    BY <2>1, <2>2 DEF Before
  <2>3. CASE items[i].record.createdAt = items[j].record.createdAt /\ i < j
    BY <1>3, <2>3 DEF Ascending
  <2>4. QED
    BY <1>8, <2>2, <2>3 DEF Earlier
<1>9. ASSUME NEW p \in 1..Len(items), NEW q \in 1..Len(items), p < q
      PROVE  Before(KeyOf(sorted[p].id), KeyOf(sorted[q].id))
  BY <1>6, <1>7, <1>8, <1>9
<1> HIDE DEF sorted
<1>10. SidecarShown(sorted)
  BY <1>4, <1>5, <1>7, <1>9 DEF SidecarShown
<1>11. QED
  BY <1>10 DEF sorted

\* Fetching the records keeps the invariant.
LEMMA GetRecordsInv ==
  ASSUME ApiInv, NEW l \in Lists, GetRecords(l)
  PROVE  ApiInv'
<1>1. PICK batch : batch = lists[l].ids
  OBVIOUS
<1>2. PICK found \in Present(batch) :
        LET items == [i \in DOMAIN found |-> [id |-> found[i], record |-> kv[found[i]]]]
        IN lists' = [lists EXCEPT ![l] =
                       [lists[l] EXCEPT !.pc = "done",
                                        !.items = IF l = "tx" THEN StableSort(items) ELSE items]]
  BY <1>1 DEF GetRecords
<1>3. PICK items : items = [i \in DOMAIN found |-> [id |-> found[i], record |-> kv[found[i]]]]
  OBVIOUS
<1>4. PICK shown : shown = IF l = "tx" THEN StableSort(items) ELSE items
  OBVIOUS
<1>5. PICK s : s = [lists[l] EXCEPT !.pc = "done", !.items = shown]
  OBVIOUS
<1>6. lists' = [lists EXCEPT ![l] = s]
  BY <1>2, <1>3, <1>4, <1>5
<1>7. lists[l] \in ListState /\ lists[l].pc = "listed"
  BY DEF ApiInv, ListsTyped, GetRecords
<1>8. batch \in Seq(Ids)
  BY <1>1, <1>7 DEF ListState
<1>9. /\ s.pc = "done" /\ s.items = shown
      /\ shown \in Seq(Item) => s \in ListState
  BY <1>5, <1>7 DEF ListState
<1>10. UNCHANGED <<vars, before>> /\ asked' = asked /\ asked' \in 0..Len(txs)
  BY DEF GetRecords, ApiInv, ListsTyped
<1>11. CASE l \in PageLists
  <2>1. l # "tx"
    BY <1>11 DEF PageLists
  <2>2. ListedOK(l, batch)
    BY <1>1, <1>7, <1>11 DEF ApiInv, PageStateOK
  <2>3. shown = items
    BY <1>4, <2>1
  <2>4. ShownOK(l, items)
    BY <1>3, <1>8, <1>11, <2>2, PageItems
  <2>5. items \in Seq(Item)
    BY <1>3, <1>8, FoundItems DEF ApiInv
  <2>6. s \in ListState
    BY <1>9, <2>3, <2>5
  <2>7. PageStateOK(l, s)
    BY <1>9, <2>3, <2>4 DEF PageStateOK
  <2> HIDE DEF PageLists
  <2>8. QED
    BY <1>6, <1>10, <2>1, <2>6, <2>7, RequestStepInv
<1>12. CASE l = "tx"
  <2>1. Ascending(batch) /\ \A i \in 1..Len(batch) : InTx(batch[i])
    BY <1>1, <1>7, <1>12 DEF ApiInv, TxStateOK
  <2>2. shown = StableSort(items)
    BY <1>4, <1>12
  <2>3. SidecarShown(shown)
    BY <1>3, <1>8, <2>1, <2>2, TxItems
  <2>4. s \in ListState
    BY <1>9, <2>3 DEF SidecarShown
  <2>5. TxStateOK(s)
    BY <1>9, <2>3 DEF TxStateOK, SidecarShown
  <2>6. TxStateOK(s)'
    BY <1>10, <2>5 DEF vars, kvVars, TxStateOK, Ascending, InTx, IsBundled, KeyOf
  <2>7. l \notin PageLists
    BY <1>12 DEF PageLists
  <2>8. QED
    BY <1>6, <1>10, <2>4, <2>6, <2>7, RequestStepInv
<1>13. QED
  BY <1>11, <1>12 DEF Lists, PageLists

\* So does every step, and one that changes nothing.
LEMMA ApiNextInv == ApiInv /\ [ApiNext]_<<vars, apiVars>> => ApiInv'
<1> SUFFICES ASSUME ApiInv, [ApiNext]_<<vars, apiVars>> PROVE ApiInv'
  OBVIOUS
<1>1. CASE Next /\ UNCHANGED apiVars
  BY <1>1, StoreStepInv
<1>2. CASE UNCHANGED <<vars, apiVars>>
  <2>1. [Next]_vars /\ UNCHANGED apiVars
    BY <1>2
  <2>2. QED
    BY <2>1, StoreStepInv
<1>3. QED
  BY <1>1, <1>2, RequestPageInv, RequestTxInv, ListIdsInv, GetRecordsInv DEF ApiNext

\* The invariant of the requests, over whatever the workers do meanwhile.
THEOREM ApiInvHolds == ApiSpec => []ApiInv
BY ApiInitInv, ApiNextInv, PTL DEF ApiSpec

-----------------------------------------------------------------------------
(* What the answers show.                                                  *)

\* The progress of each list, the transaction asked for and the versions a
\* page was asked at are what they are declared to be.
THEOREM ApiTypeCorrect == ApiSpec => []ApiTypeOK
<1>1. ApiInv => ApiTypeOK
  <2> SUFFICES ASSUME ApiInv PROVE ApiTypeOK
    OBVIOUS
  <2>1. ASSUME NEW l \in Lists
        PROVE  /\ lists[l].pc \in {"idle", "asked", "listed", "done"}
               /\ lists[l].ids \in Seq(Ids)
               /\ \A i \in DOMAIN lists[l].items :
                    lists[l].items[i] \in [id: Ids, record: Microblob]
    <3>1. lists[l] \in ListState
      BY DEF ApiInv, ListsTyped
    <3>2. lists[l].items \in Seq(Item)
      BY <3>1, ListContents
    <3>3. \A i \in DOMAIN lists[l].items : lists[l].items[i] \in Item
      BY <3>2
    <3>4. QED
      BY <3>1, <3>3 DEF ListState, Item
  <2>2. QED
    BY <2>1 DEF ApiTypeOK, ApiInv, ListsTyped
<1>2. QED
  BY <1>1, ApiInvHolds, PTL

\* However many of the two lists the landing page loads are stale by the time
\* they are shown, a record nothing wrote meanwhile is on the page once, in the
\* list of its status (or beyond the end of that list).
THEOREM PageConsistent == ApiSpec => []PageShowsSettledRecordsOnce
<1>1. ApiInv => PageShowsSettledRecordsOnce
  <2> SUFFICES ASSUME ApiInv, PageAnswered, NEW id \in Ids, Stable(id)
               PROVE  /\ Cardinality(Shown(id)) <= 1
                      /\ \A s \in Shown(id) : s[1] = kv[id].status
                      /\ PageLimit >= Cardinality(Ids) => Shown(id) # {}
    BY DEF PageShowsSettledRecordsOnce, Stable
  <2>1. ASSUME NEW l \in PageLists
        PROVE  ShownOK(l, Items(l)) /\ Items(l) \in Seq(Item)
    <3>1. l \in Lists /\ lists[l].pc = "done"
      BY DEF PageAnswered, Answered, Lists, PageLists
    <3>2. lists[l] \in ListState /\ PageStateOK(l, lists[l])
      BY <3>1 DEF ApiInv, ListsTyped
    <3>3. QED
      BY <3>1, <3>2, ListContents DEF PageStateOK, Items
  <2>2. ASSUME NEW s \in Shown(id)
        PROVE  /\ s[1] = kv[id].status /\ s = <<s[1], s[2]>> /\ s[1] \in PageLists
               /\ s[2] \in 1..Len(Items(s[1])) /\ Items(s[1])[s[2]].id = id
    <3>1. /\ s[1] \in PageLists /\ s = <<s[1], s[2]>>
          /\ s[2] \in DOMAIN Items(s[1]) /\ Items(s[1])[s[2]].id = id
      BY DEF Shown
    <3>2. Items(s[1]) \in Seq(Item) /\ ShownOK(s[1], Items(s[1]))
      BY <2>1, <3>1
    <3>3. s[2] \in 1..Len(Items(s[1]))
      BY <3>1, <3>2
    <3>4. QED
      BY <3>1, <3>2, <3>3 DEF ShownOK
  <2>3. ASSUME NEW s \in Shown(id), NEW t \in Shown(id)
        PROVE  s = t
    <3>1. s[1] = t[1]
      BY <2>2
    <3>2. ShownOK(s[1], Items(s[1]))
      BY <2>1, <2>2
    <3>3. s[2] = t[2]
      BY <2>2, <3>1, <3>2 DEF ShownOK
    <3>4. QED
      BY <2>2, <3>1, <3>3
  <2>4. Cardinality(Shown(id)) <= 1
    <3>1. CASE Shown(id) = {}
      BY <3>1, FS_EmptySet
    <3>2. CASE Shown(id) # {}
      <4>1. PICK s : Shown(id) = {s}
        BY <2>3, <3>2
      <4>2. Cardinality({s}) = 1
        BY FS_Singleton
      <4>3. QED
        BY <4>1, <4>2
    <3>3. QED
      BY <3>1, <3>2
  <2>5. ASSUME PageLimit >= Cardinality(Ids)
        PROVE  Shown(id) # {}
    <3>1. kv[id].status \in PageLists
      <4>1. kv[id].status \in {"absent", "pending", "bundled"} /\ before[id] \in Nat
        BY DEF ApiInv, Inv, TypeOK, Microblob, ListsTyped
      <4>2. kv[id].status # "absent"
        BY <4>1 DEF ApiInv, Inv, VersionsOK, Stable
      <4>3. QED
        BY <4>1, <4>2 DEF PageLists
    <3>2. PICK l \in PageLists : l = kv[id].status
      BY <3>1
    <3>3. ShownOK(l, Items(l)) /\ Items(l) \in Seq(Item)
      BY <2>1
    <3>4. PICK i \in 1..Len(Items(l)) : Items(l)[i].id = id
      BY <2>5, <3>2, <3>3 DEF ShownOK, Complete
    <3>5. i \in 1..PageLimit /\ i \in DOMAIN Items(l)
      BY <3>3, ApiAssumption DEF ShownOK
    <3>6. <<l, i>> \in Shown(id)
      BY <3>4, <3>5 DEF Shown
    <3>7. QED
      BY <3>6
  <2>6. QED
    BY <2>2, <2>4, <2>5
<1>2. QED
  BY <1>1, ApiInvHolds, PTL

\* What a list shows in the wrong status was written after the page was asked
\* for, and only the list of pending microblobs can show it.
THEOREM ListsNeverOlderThanRequest == ApiSpec => []ListsStaleOnlyWhileLoading
<1>1. ApiInv => ListsStaleOnlyWhileLoading
  <2> SUFFICES ASSUME ApiInv PROVE ListsStaleOnlyWhileLoading
    OBVIOUS
  <2>1. ASSUME NEW l \in PageLists, NEW i \in DOMAIN Items(l)
        PROVE  /\ l = "bundled" => Items(l)[i].record.status = "bundled"
               /\ l = "pending" /\ Items(l)[i].record.status = "bundled" =>
                    before[Items(l)[i].id] < Items(l)[i].record.version
    <3>1. l \in Lists
      BY DEF Lists, PageLists
    <3>2. lists[l] \in ListState /\ PageStateOK(l, lists[l])
      BY <3>1 DEF ApiInv, ListsTyped
    <3>3. Items(l) \in Seq(Item)
      BY <3>2, ListContents DEF Items
    <3>4. i \in 1..Len(Items(l))
      BY <3>3
    <3>5. lists[l].pc = "done"
      BY <3>2, <3>4 DEF PageStateOK, Items
    <3>6. QED
      BY <3>2, <3>4, <3>5 DEF PageStateOK, ShownOK, Items
  <2>2. QED
    BY <2>1 DEF ListsStaleOnlyWhileLoading, PageLists
<1>2. QED
  BY <1>1, ApiInvHolds, PTL

\* The sidecar of a transaction holds bundled records of that transaction
\* only, oldest first: the entries of its blobs read backwards.
THEOREM SidecarReversed == ApiSpec => []SidecarReversesBatch
<1>1. ApiInv => SidecarReversesBatch
  <2> SUFFICES ASSUME ApiInv, Answered("tx") PROVE SidecarReversesBatch
    BY DEF SidecarReversesBatch
  <2> DEFINE At(i) == CHOOSE p \in DOMAIN txs[asked] : txs[asked][p] = Items("tx")[i].id
  <2>1. /\ Items("tx") \in Seq(Item)
        /\ \A i \in 1..Len(Items("tx")) : Items("tx")[i].id \in Ids
    BY ListContents DEF ApiInv, ListsTyped, Lists, Items
  <2>2. ASSUME NEW i \in 1..Len(Items("tx"))
        PROVE  /\ InTx(Items("tx")[i].id) /\ Items("tx")[i].record = kv[Items("tx")[i].id]
               /\ asked \in 1..Len(txs) /\ Items("tx")[i].id \in Entries(txs[asked])
    <3>1. PICK id \in Ids : id = Items("tx")[i].id
      BY <2>1
    <3>2. InTx(id) /\ Items("tx")[i].record = kv[id]
      BY <3>1 DEF ApiInv, TxStateOK, Items
    <3>3. asked \in DOMAIN txs /\ id \in Entries(txs[asked])
      BY <3>2 DEF ApiInv, Inv, BundledWasPublished, InTx
    <3>4. txs \in Seq(Seq(Ids))
      BY DEF ApiInv, Inv, TypeOK
    <3>5. QED
      BY <3>1, <3>2, <3>3, <3>4
  <2>3. ASSUME NEW i \in 1..Len(Items("tx"))
        PROVE  /\ At(i) \in 1..Len(txs[asked]) /\ txs[asked][At(i)] = Items("tx")[i].id
               /\ At(i) \in Nat
    <3>1. IsBatch(txs[asked])
      BY <2>2 DEF ApiInv, Inv, TxsOK
    <3>2. DOMAIN txs[asked] = 1..Len(txs[asked]) /\ Len(txs[asked]) \in Nat
      BY <3>1 DEF IsBatch
    <3>3. \E p \in DOMAIN txs[asked] : txs[asked][p] = Items("tx")[i].id
      BY <2>2 DEF Entries
    <3>4. QED
      BY <3>2, <3>3
  <2>4. ASSUME NEW i \in 1..Len(Items("tx")), NEW j \in 1..Len(Items("tx")), i < j
        PROVE  At(j) < At(i)
    <3> HIDE DEF At
    <3>1. PICK x \in Ids, y \in Ids : x = Items("tx")[i].id /\ y = Items("tx")[j].id
      BY <2>1
    <3>2. Before(KeyOf(x), KeyOf(y))
      BY <2>4, <3>1 DEF ApiInv, TxStateOK, Items
    <3>3. KeyOf(x)[1] \in Nat /\ KeyOf(y)[1] \in Nat /\ KeyOf(x)[2] \in Nat /\ KeyOf(y)[2] \in Nat
      <4>1. \A id \in Ids : kv[id].createdAt \in Nat /\ id \in Nat
        BY CollectorAssumption DEF ApiInv, Inv, TypeOK, Microblob, Time
      <4>2. QED
        BY <4>1 DEF KeyOf
    <3>4. PICK p \in Nat, q \in Nat : p = At(i) /\ q = At(j)
      BY <2>3
    <3>5. /\ p \in 1..Len(txs[asked]) /\ q \in 1..Len(txs[asked])
          /\ txs[asked][p] = x /\ txs[asked][q] = y
      BY <2>3, <3>1, <3>4
    <3>6. Descending(txs[asked])
      BY <2>2 DEF ApiInv, BatchesOrdered
    <3>7. p < q => Before(KeyOf(y), KeyOf(x))
      BY <3>5, <3>6 DEF Descending
    <3>8. p # q
      BY <3>2, <3>3, <3>5 DEF Before
    <3>9. ~(p < q)
      BY <3>2, <3>3, <3>7 DEF Before
    <3>10. QED
      BY <3>4, <3>8, <3>9
  <2>5. \A i \in 1..Len(Items("tx")) : /\ Items("tx")[i].record.status = "bundled"
                                       /\ Items("tx")[i].record.bundleTxHash = asked
    BY <2>2 DEF InTx, IsBundled
  <2>6. DOMAIN Items("tx") = 1..Len(Items("tx"))
    BY <2>1
  <2>7. QED
    BY <2>2, <2>4, <2>5, <2>6 DEF SidecarReversesBatch
<1>2. QED
  BY <1>1, ApiInvHolds, PTL

-----------------------------------------------------------------------------
(* What becomes of the transactions.                                       *)

\* The collector knows nothing of it: its own invariant is unchanged.
ChainInv == CountInv /\ ChainTypeOK

\* A record that is settled by a transaction which no block will hold.
Lost(id) == IsBundled(id) /\ kv[id].bundleTxHash \in dropped

\* A transaction that was sent stays sent.
LEMMA SentStay ==
  ASSUME CountInv, [Next]_vars
  PROVE  DOMAIN txs \subseteq DOMAIN txs'
<1>1. HoldingInv /\ TypeOK
  BY DEF CountInv, HoldingInv, Inv
<1>2. TxsGrow
  BY <1>1, StepKinds DEF WorkerStep, TxsGrow
<1>3. QED
  BY <1>1, <1>2, SentBefore

LEMMA ChainStep ==
  ASSUME ChainInv, [ChainNext]_<<vars, chainVars>>
  PROVE  [Next]_vars /\ ChainInv'
<1>1. [Next]_vars
  BY DEF ChainNext, Mine, Drop
<1>2. CountInv' /\ DOMAIN txs \subseteq DOMAIN txs'
  BY <1>1, CountNextInv, SentStay DEF ChainInv
<1>3. ChainTypeOK'
  <2>1. CASE UNCHANGED chainVars
    BY <1>2, <2>1 DEF ChainInv, ChainTypeOK, chainVars
  <2>2. CASE \E t \in DOMAIN txs : Mine(t) \/ Drop(t)
    BY <1>2, <2>2 DEF ChainInv, ChainTypeOK, Mine, Drop, Mempool
  <2>3. QED
    BY <2>1, <2>2 DEF ChainNext, chainVars
<1>4. QED
  BY <1>1, <1>2, <1>3 DEF ChainInv

\* With a mempool that may drop transactions beside it the collector keeps its
\* invariants: indexes, publications and counts.
THEOREM ChainInvHolds == ChainSpec => []ChainInv
<1>1. ChainInit => ChainInv
  BY CountInitInv DEF ChainInit, ChainInv, ChainTypeOK
<1>2. ChainInv /\ [ChainNext]_<<vars, chainVars>> => ChainInv'
  BY ChainStep
<1>3. QED
  BY <1>1, <1>2, PTL DEF ChainSpec

\* What is mined and what is dropped was sent by the collector, and no
\* transaction is both.
THEOREM ChainTypeCorrect == ChainSpec => []ChainTypeOK
<1>1. ChainInv => ChainTypeOK
  BY DEF ChainInv
<1>2. QED
  BY <1>1, ChainInvHolds, PTL

\* markBundled is the last word on a record: once a transaction that settles it
\* is dropped no step changes the record any more, and its bundleTxHash names a
\* transaction that no block ever holds.
THEOREM DroppedIsLost ==
  ChainSpec => [][\A id \in Ids : Lost(id) =>
                    Lost(id)' /\ kv'[id] = kv[id] /\ kv'[id].bundleTxHash \notin mined']_<<vars, chainVars>>
<1>1. ChainInv /\ [ChainNext]_<<vars, chainVars>> =>
        [\A id \in Ids : Lost(id) =>
           Lost(id)' /\ kv'[id] = kv[id] /\ kv'[id].bundleTxHash \notin mined']_<<vars, chainVars>>
  <2>1. SUFFICES ASSUME ChainInv, [ChainNext]_<<vars, chainVars>>, NEW id \in Ids, Lost(id)
                 PROVE  Lost(id)' /\ kv'[id] = kv[id] /\ kv'[id].bundleTxHash \notin mined'
    OBVIOUS
  <2>2. [Next]_vars /\ ChainTypeOK' /\ Inv
    BY <2>1, ChainStep DEF ChainInv, CountInv, HoldingInv
  <2>3. kv'[id] = kv[id]
    BY <2>1, <2>2, RecordSteps DEF Lost, IsBundled, Inv, TypeOK
  <2>4. dropped \subseteq dropped'
    BY <2>1 DEF ChainNext, Mine, Drop, chainVars
  <2>5. QED
    BY <2>1, <2>2, <2>3, <2>4 DEF Lost, IsBundled, ChainTypeOK
<1>2. QED
  BY <1>1, ChainInvHolds, PTL DEF ChainSpec
=============================================================================
