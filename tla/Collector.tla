----------------------------- MODULE Collector -----------------------------
(***************************************************************************)
(* The collector's write path: the POST handler that accepts a microblob,  *)
(* the Deno KV records and their secondary indexes, and the cron workers   *)
(* that list pending microblobs, publish them in one blob transaction and  *)
(* mark them bundled, one record at a time.                                *)
(*                                                                         *)
(* Every await of a worker is a step boundary.  Several workers may be     *)
(* running: the cron is registered once per isolate, and isolates overlap. *)
(* A worker may fail at any step (a KV call or the RPC throws, or its      *)
(* process dies): the handler's catch swallows the error and everything    *)
(* the worker held is gone, the records it left pending stay pending.      *)
(***************************************************************************)
EXTENDS Naturals, Sequences, FiniteSets, FiniteSetsExt

CONSTANTS Ids,           \* microblob ids; their order is the order of the UUIDs
          Workers,       \* isolates in which the cron is registered
          ListLimit,     \* how many pending records a tick lists (100)
          Size,          \* Size[id]: what the entry of id takes in the blobs
          Capacity,      \* what MAX_BLOBS_PER_TX blobs hold
          MaxTime,       \* bound: the last value of the clock
          MaxFaults      \* bound: worker failures

ASSUME CollectorAssumption ==
  /\ Ids \subseteq Nat
  /\ IsFiniteSet(Ids)
  /\ IsFiniteSet(Workers)
  /\ ListLimit \in Nat \ {0}
  /\ Size \in [Ids -> Nat]
  /\ Capacity \in Nat
  /\ MaxTime \in Nat
  /\ MaxFaults \in Nat

VARIABLES now,           \* Date.now()
          key,           \* what BUNDLER_PRIVATE_KEY holds
          kv,            \* ["microblobs", "by_id", id]
          pendingIdx,    \* ["microblobs", "by_status", "pending", createdAt, id]
          bundledIdx,    \* ["microblobs", "by_status", "bundled", bundledAt, id]
          byTx,          \* ["microblobs", "by_tx", txHash, createdAt, id]
          worker,        \* where each worker is in processPending
          txs,           \* the entry lists of the transactions accepted, in order
          faults         \* worker failures so far

kvVars == <<kv, pendingIdx, bundledIdx, byTx>>
vars == <<now, key, kvVars, worker, txs, faults>>

Time == 0..MaxTime

-----------------------------------------------------------------------------
(* Records and indexes.                                                    *)

NoHash == 0              \* bundleTxHash: undefined; a hash is a position in txs

\* version is Deno KV's versionstamp of the entry, 0 while there is none.
Microblob ==
  [status: {"absent", "pending", "bundled"}, createdAt: Time, bundledAt: Time,
   bundleTxHash: Nat, version: Nat]

Missing ==
  [status |-> "absent", createdAt |-> 0, bundledAt |-> 0,
   bundleTxHash |-> NoHash, version |-> 0]

\* A slip: the parts of the key are swapped.
PENDING_KEYById(createdAt, id) == <<id, createdAt>>

PENDING_KEY(createdAt, id) == <<createdAt, id>>
BUNDLED_KEY(at, id) == <<at, id>>
BY_TX_KEY(tx, createdAt, id) == <<tx, createdAt, id>>

\* The order of the index keys: by time, then by id.
Before(k, l) == k[1] < l[1] \/ (k[1] = l[1] /\ k[2] < l[2])

\* The ids kv.list(prefix, {limit, reverse: true}) yields for an index: those
\* of its last `limit' keys, last key first.
NewestFirst(index, limit) ==
  LET len == IF Cardinality(index) < limit THEN Cardinality(index) ELSE limit
      IsListing(keys) ==
        /\ \A i, j \in 1..len : i < j => Before(keys[j], keys[i])
        /\ \A k \in index : \/ \E i \in 1..len : keys[i] = k
                            \/ \A i \in 1..len : Before(k, keys[i])
  IN {[i \in 1..len |-> keys[i][2]] :
        keys \in {ks \in [1..len -> index] : IsListing(ks)}}

Entries(batch) == {batch[i] : i \in DOMAIN batch}

-----------------------------------------------------------------------------
(* Workers.                                                                *)

\* batch: the ids listed, then those still to be marked;
\* tx: the hash being recorded; entry and at: the record markBundled has read,
\* and the time it read it.
WorkerState ==
  [pc: {"idle", "read", "publish", "get", "commit"}, batch: Seq(Ids), tx: Nat,
   entry: Microblob, at: Time]

Idle == [pc |-> "idle", batch |-> <<>>, tx |-> NoHash, entry |-> Missing, at |-> 0]

\* A slip: the loop stops before the last record.
MarkingAllButLast(batch, tx) ==
  IF Len(batch) <= 1 THEN Idle
  ELSE [pc |-> "get", batch |-> batch, tx |-> tx, entry |-> Missing, at |-> 0]

\* The worker goes on with the rest of its batch, or is done.
Marking(batch, tx) ==
  IF batch = <<>> THEN Idle
  ELSE [pc |-> "get", batch |-> batch, tx |-> tx, entry |-> Missing, at |-> 0]

TypeOK ==
  /\ now \in Time
  /\ key \in {"unset", "malformed", "set"}
  /\ kv \in [Ids -> Microblob]
  /\ pendingIdx \subseteq Time \X Ids
  /\ bundledIdx \subseteq Time \X Ids
  /\ byTx \subseteq Nat \X Time \X Ids
  /\ worker \in [Workers -> WorkerState]
  /\ txs \in Seq(Seq(Ids))
  /\ faults \in 0..MaxFaults

Init ==
  /\ now = 0
  /\ key \in {"unset", "malformed", "set"}
  /\ kv = [id \in Ids |-> Missing]
  /\ pendingIdx = {}
  /\ bundledIdx = {}
  /\ byTx = {}
  /\ worker = [w \in Workers |-> Idle]
  /\ txs = <<>>
  /\ faults = 0

-----------------------------------------------------------------------------
(* Requests.                                                               *)

Tick ==
  /\ now < MaxTime
  /\ now' = now + 1
  /\ UNCHANGED <<key, kvVars, worker, txs, faults>>

\* putMicroblob: the record and its index key in one atomic commit.
putMicroblob(id, createdAt) ==
  /\ kv' = [kv EXCEPT ![id] = [status |-> "pending", createdAt |-> createdAt,
                               bundledAt |-> 0, bundleTxHash |-> NoHash, version |-> 1]]
  /\ pendingIdx' = pendingIdx \cup {PENDING_KEY(createdAt, id)}
  /\ UNCHANGED <<bundledIdx, byTx>>

\* A submission that passed validation is stored under a fresh id.  createdAt
\* was taken some time before the commit.  A submission that is refused
\* (405, 400, 401) changes nothing.
Post(id, createdAt) ==
  /\ kv[id].status = "absent"
  /\ createdAt <= now
  /\ putMicroblob(id, createdAt)
  /\ UNCHANGED <<now, key, worker, txs, faults>>

-----------------------------------------------------------------------------
(* One tick of a cron worker: processPending.                              *)

\* A slip: a tick waits for a batch as long as the limit.
ListWhenFull(w) ==
  /\ worker[w].pc = "idle"
  /\ Cardinality(pendingIdx) >= ListLimit
  /\ \E ids \in NewestFirst(pendingIdx, ListLimit) :
       worker' = [worker EXCEPT ![w] = [Idle EXCEPT !.pc = "read", !.batch = ids]]
  /\ UNCHANGED <<now, key, kvVars, txs, faults>>

\* listMicroblobs, first half: the ids in the pending index.  A tick that finds
\* none ends at once.
List(w) ==
  /\ worker[w].pc = "idle"
  /\ pendingIdx # {}
  /\ \E ids \in NewestFirst(pendingIdx, ListLimit) :
       worker' = [worker EXCEPT ![w] = [Idle EXCEPT !.pc = "read", !.batch = ids]]
  /\ UNCHANGED <<now, key, kvVars, txs, faults>>

\* The entries of a batch whose record getMany found, in their order.
Present(batch) ==
  LET here == {i \in DOMAIN batch : kv[batch[i]].status # "absent"}
      len == Cardinality(here)
  IN {[i \in 1..len |-> batch[at[i]]] :
        at \in {f \in [1..len -> here] : \A i, j \in 1..len : i < j => f[i] < f[j]}}

\* listMicroblobs, second half: getMany of the records.  Their status is not
\* looked at again; of what is read, the rest of the tick uses the id and the
\* payload, which never changes.  Without a usable key the tick ends here.
Read(w) ==
  /\ worker[w].pc = "read"
  /\ \E found \in Present(worker[w].batch) :
       worker' = [worker EXCEPT ![w] =
                    IF found = <<>> \/ key # "set" THEN Idle
                    ELSE [@ EXCEPT !.pc = "publish", !.batch = found]]
  /\ UNCHANGED <<now, key, kvVars, txs, faults>>

\* The entries fit in MAX_BLOBS_PER_TX blobs, which is also what toBlobs takes.
Fits(batch) == MapThenSumSet(LAMBDA i : Size[batch[i]], DOMAIN batch) <= Capacity

\* A slip: what is pending by now is marked, not what was sent.
PublishAcceptedRelisting(w) ==
  /\ worker[w].pc = "publish"
  /\ Fits(worker[w].batch)
  /\ txs' = Append(txs, worker[w].batch)
  /\ \E ids \in NewestFirst(pendingIdx, ListLimit) :
       worker' = [worker EXCEPT ![w] = Marking(ids, Len(txs) + 1)]
  /\ UNCHANGED <<now, key, kvVars, faults>>

\* sendTransaction takes the transaction and returns its hash, before it is in
\* any block; the worker goes on to markBundled.  The batch was sent as it was
\* listed: publishMicroblobs trims only a batch toBlobs has already refused.
PublishAccepted(w) ==
  /\ worker[w].pc = "publish"
  /\ Fits(worker[w].batch)
  /\ txs' = Append(txs, worker[w].batch)
  /\ worker' = [worker EXCEPT ![w] = Marking(@.batch, Len(txs) + 1)]
  /\ UNCHANGED <<now, key, kvVars, faults>>

\* toBlobs throws on a batch that does not fit, and nothing of it is sent.
PublishTooLarge(w) ==
  /\ worker[w].pc = "publish"
  /\ ~Fits(worker[w].batch)
  /\ worker' = [worker EXCEPT ![w] = Idle]
  /\ UNCHANGED <<now, key, kvVars, txs, faults>>

\* sendTransaction is refused (fee, nonce, balance): it throws.
PublishRefused(w) ==
  /\ worker[w].pc = "publish"
  /\ Fits(worker[w].batch)
  /\ worker' = [worker EXCEPT ![w] = Idle]
  /\ UNCHANGED <<now, key, kvVars, txs, faults>>

\* The transaction is taken but the answer is lost: sendTransaction throws.
PublishUnanswered(w) ==
  /\ worker[w].pc = "publish"
  /\ Fits(worker[w].batch)
  /\ faults < MaxFaults
  /\ txs' = Append(txs, worker[w].batch)
  /\ worker' = [worker EXCEPT ![w] = Idle]
  /\ faults' = faults + 1
  /\ UNCHANGED <<now, key, kvVars>>

\* A slip: the status of the record read is not looked at.
MarkGetAnyStatus(w) ==
  /\ worker[w].pc = "get"
  /\ worker' = [worker EXCEPT ![w] = [@ EXCEPT !.pc = "commit", !.at = now,
                                              !.entry = kv[Head(worker[w].batch)]]]
  /\ UNCHANGED <<now, key, kvVars, txs, faults>>

\* markBundled, kv.get: a record that is missing or no longer pending is passed
\* over.
MarkGet(w) ==
  /\ worker[w].pc = "get"
  /\ LET entry == kv[Head(worker[w].batch)]
     IN worker' = [worker EXCEPT ![w] =
          IF entry.status = "pending"
          THEN [@ EXCEPT !.pc = "commit", !.entry = entry, !.at = now]
          ELSE Marking(Tail(@.batch), @.tx)]
  /\ UNCHANGED <<now, key, kvVars, txs, faults>>

\* A slip: the commit carries no check.
UnchangedUnchecked(id, entry) == TRUE

\* kv.atomic().check(entry): nobody has written the record since it was read.
Unchanged(id, entry) == kv[id].version = entry.version

\* A slip: the pending key is left behind.
commitBundledKeepingPending(id, entry, at, tx) ==
  /\ kv' = [kv EXCEPT ![id] = [status |-> "bundled", createdAt |-> entry.createdAt,
                               bundledAt |-> at, bundleTxHash |-> tx,
                               version |-> entry.version + 1]]
  /\ bundledIdx' = bundledIdx \cup {BUNDLED_KEY(at, id)}
  /\ byTx' = byTx \cup {BY_TX_KEY(tx, entry.createdAt, id)}
  /\ UNCHANGED pendingIdx

\* The record and its three index keys, in one atomic commit.
commitBundled(id, entry, at, tx) ==
  /\ kv' = [kv EXCEPT ![id] = [status |-> "bundled", createdAt |-> entry.createdAt,
                               bundledAt |-> at, bundleTxHash |-> tx,
                               version |-> entry.version + 1]]
  /\ pendingIdx' = pendingIdx \ {PENDING_KEY(entry.createdAt, id)}
  /\ bundledIdx' = bundledIdx \cup {BUNDLED_KEY(at, id)}
  /\ byTx' = byTx \cup {BY_TX_KEY(tx, entry.createdAt, id)}

\* markBundled, commit: when the check fails nothing is written; either way the
\* worker goes on.
MarkCommit(w) ==
  /\ worker[w].pc = "commit"
  /\ LET id == Head(worker[w].batch)
         entry == worker[w].entry
     IN \/ Unchanged(id, entry) /\ commitBundled(id, entry, worker[w].at, worker[w].tx)
        \/ ~Unchanged(id, entry) /\ UNCHANGED kvVars
  /\ worker' = [worker EXCEPT ![w] = Marking(Tail(@.batch), @.tx)]
  /\ UNCHANGED <<now, key, txs, faults>>

\* A call throws, or the process dies, between two steps.
Fail(w) ==
  /\ worker[w].pc # "idle"
  /\ faults < MaxFaults
  /\ worker' = [worker EXCEPT ![w] = Idle]
  /\ faults' = faults + 1
  /\ UNCHANGED <<now, key, kvVars, txs>>

Publish(w) ==
  \/ PublishAccepted(w)
  \/ PublishTooLarge(w)
  \/ PublishRefused(w)
  \/ PublishUnanswered(w)

Next ==
  \/ Tick
  \/ \E id \in Ids, createdAt \in Time : Post(id, createdAt)
  \/ \E w \in Workers : List(w) \/ Read(w) \/ Publish(w) \/ MarkGet(w)
                          \/ MarkCommit(w) \/ Fail(w)

Spec == Init /\ [][Next]_vars

\* The cron keeps firing, a worker that is not killed goes on, and an RPC that
\* is asked again and again takes a transaction in the end.  It is only asked
\* with a batch that fits.
Fairness ==
  \A w \in Workers :
    /\ WF_vars(List(w) \/ Read(w) \/ PublishTooLarge(w) \/ MarkGet(w) \/ MarkCommit(w))
    /\ SF_vars(PublishAccepted(w))

FairSpec == Spec /\ Fairness

-----------------------------------------------------------------------------
(* Properties.                                                             *)

IsBundled(id) == kv[id].status = "bundled"

\* Every secondary index lists exactly the records it should, each once, under
\* the times and the transaction its record holds: a request can find a record
\* through an index only in the state it is in, and none is unreachable.
IndexesMatchRecords ==
  /\ pendingIdx = {<<kv[id].createdAt, id>> : id \in {i \in Ids : kv[i].status = "pending"}}
  /\ bundledIdx = {<<kv[id].bundledAt, id>> : id \in {i \in Ids : IsBundled(i)}}
  /\ byTx = {<<kv[id].bundleTxHash, kv[id].createdAt, id>> : id \in {i \in Ids : IsBundled(i)}}

\* A bundled record names a transaction that was sent and carries its entry,
\* whichever worker marked it and whatever other workers published meanwhile.
BundledWasPublished ==
  \A id \in Ids : IsBundled(id) =>
    kv[id].bundleTxHash \in DOMAIN txs /\ id \in Entries(txs[kv[id].bundleTxHash])

\* No step changes a bundled record: of workers that published the same record,
\* the first to mark it wins and the others leave it alone.
BundledIsFinal == [][\A id \in Ids : IsBundled(id) => kv'[id] = kv[id]]_vars

Publications(id) == {t \in DOMAIN txs : id \in Entries(txs[t])}

\* The operator pays for an entry more than once only through overlapping
\* workers or failures: at most one publication per worker, and one per failure.
PublicationsBounded ==
  \A id \in Ids : Cardinality(Publications(id)) <= Cardinality(Workers) + faults

Finished(t) == \A w \in Workers : worker[w].tx # t

\* A transaction whose worker is through with it, and that still has a pending
\* entry, is accounted for by a failure of its own.
UnsettledNeedsFailure ==
  Cardinality({t \in DOMAIN txs : Finished(t) /\ ~(\A id \in Entries(txs[t]) : IsBundled(id))})
    <= faults

\* What a tick would list does not fit in one transaction.
Jammed == \E ids \in NewestFirst(pendingIdx, ListLimit) : ~Fits(ids)

\* With a usable key, and submissions and failures that end, no microblob stays
\* pending, not one that a worker left when it failed or gave up either; unless
\* what every tick lists is more than fits, for good: nothing is trimmed off it,
\* and only newer submissions that fit can move it down the list.
EventuallyBundled == key = "set" => <>[](pendingIdx = {} \/ Jammed)

\* The collector keeps the promises of MicroblobLedger.
Ledger == INSTANCE MicroblobLedger WITH
  MaxBatch <- ListLimit,
  status <- [id \in Ids |-> kv[id].status],
  settledBy <- [id \in Ids |-> kv[id].bundleTxHash],
  published <- txs

ImplementsLedger == Ledger!Spec
=============================================================================
