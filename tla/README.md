# OpenBlob: specifications, model checking and proofs

TLA+ modules that model OpenBlob as its code stands, TLC configurations that
check them on small instances, and TLAPS proofs of what matters most for every
value of the constants. Paths below are relative to the repository's root.

## The system

Users sign *microblobs* and post them to a **collector**, which stores them,
bundles them into EIP-4844 blob transactions on a cron schedule and serves them
back. An operator then proves in a **zkVM** which entries the blobs held, and
settles with the **OpenBlob contract**, which rotates a state root and pays the
operator from the users' deposits.

| Component | Source | State it keeps | Operations |
| --- | --- | --- | --- |
| Microblob store | `collector/app/lib/kv.server.ts` | records `by_id`, indexes `by_status/pending`, `by_status/bundled`, `by_tx` | `putMicroblob`, `listMicroblobs`, `markBundled`, `listMicroblobsByTx` |
| Submission API | `collector/app/routes/api.microblobs.ts` | none | `POST` validates, then `putMicroblob` |
| Read API, landing page | `api.microblobs.ts`, `api.microblobs.tx.$txHash.ts`, `_index/route.tsx` | none | two-call lists of the store |
| Bundler cron | `collector/app/lib/bundler-cron.server.ts` | a registration flag | `processPending`: list, publish, mark |
| Blob publisher | `collector/app/lib/blob-publisher.server.ts` | cached wallet client | `publishMicroblobs`: encode, send |
| Contract | `src/OpenBlob.sol`, `src/IVerifier.sol` | `openBlobRoot`, `balances`, ether | `deposit`, `proofBlobDA` |
| Guest and common library | `ziskProgram/guest`, `ziskProgram/common` | none | digest, unpacking, RLP, signatures, sum |
| Prover host | `ziskProgram/host` | none | `build_inputs`, prove |
| blob-sync | `ziskProgram/blob-sync/src` | caches of blocks and sidecars during a fetch | `fetch_blobs`, `fetch_blob_data` |
| nowkzg sync | `ziskProgram/blob-sync/nowkzg/src` | files and a manifest per block | `sync_range`, `write_block` |
| Cron schedule | `collector/app/lib/cron.ts` | none | `parseCron`, `nextCronRun` |
| Next bundle timer | `collector/app/components/next-bundle-timer.tsx` | `now`, `nextRunAt` | tick, elapsed callback |

How they interact:

- the API and the cron workers share the KV store and nothing else. A KV call is
  atomic, a handler makes several of them, and the handlers interleave between
  any two;
- a worker calls an RPC node, whose answer can be lost, and whose acceptance of a
  transaction says nothing yet about a block holding it;
- the contract calls the verifier (a pure function) and the account it pays,
  which can call back;
- the host calls blob-sync, which asks an L1 and a beacon node, and hands the
  guest what they said; the guest reads with alloy what the publisher wrote with
  viem;
- the page asks the loader again after each run of the cron, at a moment it
  computes by its own clock.

What is hard here: overlapping workers; failures between publishing and marking;
lists that read an index and the records in two calls; batches that take
more than a transaction holds; transactions that never land; payments that run code
of the one paid; nodes that answer anything; two implementations of one encoding;
two clocks. Every such point is a row of `hazards` in `PROJECT.json`, at its
line.

What makes each component correct:

- store: every index lists exactly the records it should;
- cron and publisher: a record is settled once, with a transaction that carries
  it; an entry is paid for more than once only through overlap or failure; what is
  accepted is bundled in the end, unless what a tick lists never fits;
- read API: a record is shown in its state, or was in that state while the answer
  was being made; the sidecar of a transaction is complete and in a known order;
- contract: ether is conserved, settlements form one chain, each has one event, no
  root is settled against more often than it came about;
- blob-sync: what is returned is what the references stand for, in their order,
  and is what L1 committed to, whatever the nodes answer;
- nowkzg sync: a manifest stands for files that are there, after a crash too;
- publisher and guest: the guest reads what the publisher put in, or nothing;
- prover: a proof is about what L1 committed to, and inputs that are honest are
  proved over;
- schedule and timer: the next run is the first one, and the page shows what each
  run did.

## Modules

| Module | Models | Composed from |
| --- | --- | --- |
| `MicroblobLedger` | what the collector promises: accepted, published, settled once | |
| `Collector` | store, submission, cron workers, publisher | implements `MicroblobLedger` |
| `CollectorApi` | the requests that read the store | `Collector` |
| `CollectorChain` | the fate of the transactions | `Collector` |
| `OpenBlob` | the contract | |
| `BlobSync` | `fetch_blobs` of blob-sync | |
| `DiskSync` | `sync_range` and `write_block` of nowkzg | |
| `Encoding` | blobs and RLP lists, both ways: operators only | |
| `BlobBatch` | a batch through the publisher, into blobs and through the guest | `Encoding` |
| `Prover` | host and guest | `BlobSync`, `Encoding` |
| `CronSchedule` | cron expressions and the search for the next run: operators only | |
| `NextBundleTimer` | the page's countdown, callback and revalidation | `CronSchedule` |
| `CollectorProofs` | theorems on `Collector`, `CollectorApi` and `CollectorChain` | those |
| `ProverProofs` | theorems on `BlobSync` and `Prover` | `Prover`, `EncodingProofs` |
| `TimerProofs` | theorems on `CronSchedule` and `NextBundleTimer` | `NextBundleTimer` |
| `OpenBlobProofs`, `DiskSyncProofs`, `EncodingProofs`, `BlobBatchProofs` | theorems | the module of that name |
| `RecursionFacts` | lemmas on sequences, sums and recursion | |
| `MC...` | instances for TLC | |

### Collector

`kv` is the `by_id` part of the store, with the versionstamp that
`atomic().check` compares as `version`; `pendingIdx`, `bundledIdx` and `byTx`
are the three indexes, as sets of keys. `worker[w]` is where one isolate is in
`processPending`. `txs` is the list of the entry lists of all transactions a node
accepted; a transaction hash is a position in it.

| Action | Code |
| --- | --- |
| `Post` | the `action` of `api.microblobs.ts` up to its commit |
| `List`, `Read` | the two KV calls of `listMicroblobs`; `getPublisher` follows the second |
| `PublishAccepted` | `publishMicroblobs` with a batch that fits |
| `PublishTooLarge`, `PublishRefused`, `PublishUnanswered` | the ways it throws: in `toBlobs`, in `sendTransaction`, after it |
| `MarkGet`, `MarkCommit` | the two KV calls of one round of `markBundled` |
| `Fail` | a throw or a crash between two calls, swallowed by the cron's `catch` |
| `Tick` | the clock |

Every `await` that touches shared state ends an action. `createdAt` is taken
before the commit, so `Post` stores any time up to now. `List` yields what
`kv.list` yields with `reverse: true`: the last keys first. That order is
written as the set of the (one) listing with a given property, so that no
recursion is needed and proofs can use the property directly.

`publishMicroblobs` has a loop that trims a batch whose blobs are too many
(`blob-publisher.server.ts:133-136`). It is never entered: `toBlobs` of viem
(`^2.46.2`, `collector/package.json:21`) has the same limit of six blobs and
throws `BlobSizeTooLargeError` above it, at line 132. So a batch is sent as it was
listed or not at all, and a batch that does not fit fails every tick that lists
it (`PublishTooLarge`). The error for a single payload that is too large (137-139)
is never reached either.

`Workers` has several members because the cron is registered by each isolate
(the comment at `bundler-cron.server.ts:96` is about the parallel ones), and a
restart or a second server overlaps with the first. One process alone does not
overlap with itself; the runs with one worker are about it. `Fail` and
`PublishUnanswered` share the budget `MaxFaults`.

Left out: the content of a microblob (never changed after the commit), the
validation of a submission (a refusal changes nothing), wording, logs, the KZG
computation, the gas parameters. `Size` and `Capacity` stand for the RLP list
and the blobs: sizes add up, which the headers of RLP do up to a few bytes.
`BlobBatch` has the bytes.

### CollectorApi

A request is `asked`, then `listed` (the index was read), then `done` (the
records were read). The landing page asks for two lists at once, which advance
independently (`Promise.all`). `before` is history: the versions when the page
was asked for.

### CollectorChain

A transaction whose hash was returned is in the mempool until a block holds it
or it is dropped. No code in the repository looks at a receipt, so nothing of the
collector reacts to either.

### OpenBlob

A call of `proofBlobDA` runs up to its payment in one action (`proofBlobDA`),
which pushes a frame; the payment returns (`PaymentReturns`: the event) or fails
(`TransferFailed`: everything since the frame was entered is undone, from the
copy the frame saved). Between, the account paid, if it has code, may deposit or
settle again. `settled` is history. Calls that revert before the payment change
nothing and are not actions. The digest is taken to be collision free, so a proof
is the statement it proves, and `Provable` is the set of statements the circuit
proves: a constant, of which nothing is assumed but its type.

The contract leaves the replay of entries to the circuit
(`src/OpenBlob.sol:93-98`), and neither it nor the guest compares `newRoot` with
`prevRoot`. So a statement may leave the root as it is or lead back to an earlier
one, and the instance for TLC has both. `RootsAreUsedUp` is what remains:
each settlement uses up the root it was proven against, so that a proof settles
no more often than that root came about. `ReentryNeedsFreshProof` is what the
comment at 134-136 promises beyond that, and does not hold.

### BlobSync

One call of `fetch_blobs`. Each `await` is the end of an action; the loop over
the references that only computes is a step per reference, and the KZG
verification of all blocks is one.

| Action | Code (`blob-sync/src/lib.rs`) |
| --- | --- |
| `NothingAsked`, `Bootstrap` | no references; `BeaconClient::new` |
| `KnownBlock`, `AnswerBlock`, `AnswerSidecars` | one round of the first loop: the block is in `block_data`; L1 answers; the beacon node answers |
| `RequestFails` | any `?` of the first loop |
| `Walk` | one round of the second loop: filter, match, verify later |
| `Verify` | `verify_batch` per block, then the answer |

A blob, its commitment and the hash of that are one model value: a sidecar's
`blob` names the commitment its bytes really have, and its `kzg_proof` the blob it
was computed for. A sidecar verifies exactly when the three agree, and a batch
when all of its sidecars do. The slot of a block is left out because the answer for it is
arbitrary. Neither node is assumed to be honest or consistent.

### DiskSync

The disk (`files`, `manifest`, by block) outlives the process; everything else is
set by `Start`. Creating a file and filling it are two steps, and so are the two
halves of `fs::write`, so `Die` can come between any two. `Die` also stands for
every `?`: the process ends and the disk stays. A file's name is the hash and the
extension, so a decoded and a raw run write different files under the same
manifest name. `blobs` remembers what the present run was told, for the
properties; the code holds only the current block's.

`FinishedRunIsOnDisk` is as strong as the code allows. It says nothing of a block
that a rerun is told has no blobs: `sync_range` passes over it and the manifest of
an earlier run stays (`nowkzg/src/lib.rs:74`). And while a rerun is in the middle of
a block, or died there, the old manifest lists a file that is being rewritten.

### Encoding and BlobBatch

`Encoding` has the functions of the common library that frame entries and pack
blobs (`unpack_blob`, `pack_blob`, `unpack_blobs`, `encode_entries`,
`decode_entries`), under their names, and what the code uses of the libraries:
`Header::decode` of alloy-rlp and `toBlobs` of viem, with the limit above which
it throws (`ToBlobsTakes`). Bytes are numbers and
sequences of bytes are sequences; the size of a blob and the numbers at which RLP
changes its form (0x80 and 55) are constants. A function that panics is a pair: a
check that is false where the code panics (`Unpacks`, `EntriesDecode`), and the
value.

`BlobBatch` is one batch: `Refuse` and `Send` are `publishMicroblobs`
(`blob-publisher.server.ts:124-144`) when `toBlobs` throws and when it does not,
`Read` is the guest up to its entries. A transaction of someone else starts at `sent`. `toBytes` of viem
is modelled by what it does: a text that looks like hex becomes the bytes it
denotes. One model byte stands for `0x` and one for two digits.

### Prover

`Prover` extends `BlobSync`: while `host` is `fetching`, the steps are those of
`fetch_blobs`. Then:

| Action | Code |
| --- | --- |
| `UseSample` | `build_inputs` without the three variables |
| `BuildInputs(auths)` | `build_inputs` with fetched blobs; the auths are those the host was built with, which its comment (`host/src/main.rs:56-59`) asks to replace |
| `Prove` | the guest's `main`: `Accepts` is its assertions in their order, `Commit` its output |
| `SdkFails` | any `?` on a call of the ZisK client |

A signature is who made it, over what, whether `v` and `s` are in range and
whether a key can be recovered from it at all, which `recover` panics over;
recovered over anything else it yields a stranger. A digest is what it is the
digest of. The fields that are the same in all inputs are left out.

`ProverAssumption` says of the host what its code fixes: it verifies blobs
(`FetchConfig::new` sets `verify_kzg`, `blob-sync/src/lib.rs:46`, and `build_inputs`
does not change it), and the entries of `sample_inputs` are not empty and fit one
blob, as `pack_blob` asserts (`common/src/lib.rs:221`).

### CronSchedule and NextBundleTimer

`CronSchedule` has `parseField`, `parseCron`, `dayMatches` and `nextCronRun`. The
search is the loop of `cron.ts:107-136`, iteration by iteration, with its cap. The
lengths of hours, days, weeks, months and years are constants; an expression is
the sequence of parts of each of its fields. A day field counts as restricted
unless it is the one part `*`: `*/1` holds the same days and is restricted
(`cron.ts:84-85`). `TimerAssumption` says of the default
schedule that it has a run at any time it is asked for, which `0 0 * * *` has.

`NextBundleTimer` is one page. `now` is the state of the component (`Unmounted`
until the client runs), `nextRunAt` its deadline, `initialNextRunAt` the property
from the loader; `timeouts` are the pending `setTimeout`s of
`handleBundleElapsed`; `request` and `answer` are the revalidation.

| Action | Code |
| --- | --- |
| `SetNow` | the mount and the interval, and the effect of the countdown (`Cross`) |
| `Revalidate` | a timeout runs; a newer revalidation gives up the one under way |
| `Read`, `Deliver` | the loader reads; its answer reaches the page, and the effects run |
| `Advance` | the clock of the server; the client's is `skew` ahead |

A tick may come any time late, so runs can be skipped.

## Runs

Passing:

| Run | Question | Instance |
| --- | --- | --- |
| `collector` | Is the store consistent and is each record settled once, whatever the workers do? Does the collector implement the ledger? Is the backlog bundled in the end? | 3 microblobs of which one never fits, 2 workers, list limit 2, capacity 2, 2 times, 1 failure |
| `api` | What can the lists and the sidecar show while a worker writes? | 2 microblobs, 1 worker, 2 times, 1 failure |
| `chain` | Does every accepted microblob land, unless it was dropped or never fits beside the others? | 3 microblobs of which one fits only alone, 1 worker, list limit 2, capacity 2, 1 drop, 1 failure |
| `openblob` | Do ether, root and log agree under nesting and failures? How often is a root settled against? | 3 roots, of which one may stay and one leads back to the first, at most 3 settlements, 2 provers, one with code, nesting 2 deep, ether up to 2, window 1 |
| `prover` | What does a proof say of the chain, which inputs are proved over, and does the host end? Is the answer of blob-sync what the references stand for? | 2 blocks, 4 blobs (a list in one, a list over two, one not canonical), up to 3 references, 6 blocks and 6 lists of sidecars as answers, 9 lists of auths |
| `encoding` | Does the guest read what the publisher wrote, and only that encoding from anyone? | blobs of 2 field elements of 3 payload bytes, at most 2 per transaction; short forms up to 3 bytes; 1 to 3 texts of up to 9 bytes, 47 in all; 117 651 blobs of others |
| `schedule` | Is the next run the first? Does a tick call back for a new run only, and does the page show what each run did? | 2 ticks a minute, 2 minutes an hour, 2 hours a day, 3 days a week, 3 years of 2 months, one of them a leap year; 8 expressions, 7 starts, 3 skews, horizon 7 |
| `disksync` | What is on disk at each moment and after a run? | 2 blocks, 2 blobs (one does not decode), 2 senders, 2 runs |

The bounds are the smallest in which the interesting cases meet: three
microblobs with a list limit of two leave one out of a listing; capacity two
with an entry of size three (or two) refuses every batch that holds it (or that
holds another beside it), until what is listed changes; two workers publish
the same batch and race to mark it; one failure falls between any two steps; two
values of the clock make equal and different creation times; three roots in a
circle, one of which may also stay, allow three settlements, one after another or
nested with a failure in between, and the first proof again; three
references name a block twice with another one between; the answers include
transactions without blobs before others, the same blob in two transactions, and
sidecars that are missing, reordered, doubled or carry another blob's bytes or
proof; two
runs leave one to be interrupted and one to finish over its remains. The
time and failure bounds are guards of the actions (`MaxTime`, `MaxFaults`,
`MaxDrops`, `MaxBlock`, `MaxDeposit`, `MaxEther`, `MaxDepth`, `MaxSettlements`,
`MaxRuns`, `Horizon`).

In `encoding` the forms of RLP meet within a blob or two: single small bytes,
short and long strings, short and long lists, lists that end just before, at and
after the end of a blob, and texts that no transaction holds. A length is one
byte there, so payloads stop where that byte would overflow; in the code a length
has up to eight bytes, encoded and checked in the same way. The blobs of others
hold every payload over seven telling bytes. In `prover` the amounts reach below,
to and above the ceiling (`MaxEther` is 3). In `schedule` the starts lie before
the ends of hours, days, months and years, before and after the leap day; the
expressions are every minute, steps, both day fields at once, the seventh day of
the week, the leap day, a day that never comes, a range that does not parse, and a day of
the month beside `*/1` for the day of the week.
The search is capped at 28 iterations, the minutes of the leap year, as the
code's is. A skew is at most the page's delay: a client whose clock is further
ahead asks before the cron has run, and shows a run only after the next one.

What the safety properties say, beyond types:

- `IndexesMatchRecords`: no reader can reach a record through the wrong index.
- `BundledWasPublished`, `BundledIsFinal`: the hash of a bundled record is that
  of a transaction which carries it, and never changes, though two workers may
  have published it.
- `PublicationsBounded`: an entry is published at most once per worker, and once
  more per failure. This is the cost of publishing before marking.
- `UnsettledNeedsFailure`: with one failure at most one finished transaction has
  an entry that is still pending.
- `EventuallyBundled`, `LandsUnlessDropped`: nothing waits for ever, unless what
  every tick lists does not fit, for good (`Jammed`).
- `PageShowsSettledRecordsOnce`, `ListsStaleOnlyWhileLoading`: what the two-call
  lists still guarantee.
- `SidecarReversesBatch`: the sidecar holds records of its transaction only, in
  exactly the reverse of the order in the blobs.
- `EtherAccounted`, `RootIsChained`, `RootsAreUsedUp`,
  `EventsMatchSettlements`: the contract at every depth of nesting. The first is
  about all the ether; no payment lowers a single balance
  (`src/OpenBlob.sol:31-34`), so the balances add up to more than the ether once
  something was paid.
- `BundlesFollowRefs`, `BlobsAreCommitted`, `OneViewOfABlock`: what `fetch_blobs`
  returns, against nodes that answer anything.
- `ProofIsOfCommittedBatch`: a proof whose signers are known is over what the
  referenced transactions committed to, and over all of the list, from a beacon
  node to the guest's output. `HonestInputsProve` is the converse: what is well
  signed and of one blob per transaction is not refused. Without the part on one
  blob it is `SpanningInputsProve`, which the code violates.
- `GuestReadsBatch`, `ReadAsSigned`: from the signed text to
  the entry the guest sees. `OnlyCanonicalIsRead`: there is one encoding of a list
  of entries, whoever wrote it.
- `NextRunIsFirst`: against all minutes that match, counted one by one.
  `TickFiresNewRun` and `CatchesUp`: a tick calls back for a run once and no run is
  lost on the page. The first is about ticks after one that could compute the next
  run: with a schedule that runs less than once a year, a tick that finds none
  leaves the deadline where it is, and the next one calls back for it again.
- `ManifestCommitsFiles`, `FinishedRunIsOnDisk`, `OnlyVerifiedOnDisk`: the
  manifest is a commit point, reruns repair, nothing unverified is kept.

Fairness. `EventuallyBundled` assumes that the cron keeps firing and that a
worker which is not killed goes on (weak fairness of its steps: `Deno.cron` fires
on schedule and every `await` settles), and that a node which is asked again and
again, with a batch that fits, takes a transaction in the end (strong fairness of
`PublishAccepted`: the code retries on every tick and does nothing more about a
refusal). Nothing is assumed of a batch that does not fit: it is refused on every
tick, and both properties except a pending index whose newest records never fit
together. In the instances that is reached, and so is a batch that did not fit and
does once newer submissions have moved it down the list. It is about a
finite set of microblobs, hence about a backlog after submissions have ended: a
tick takes the newest records, and while newer ones keep coming faster than they
are bundled an old one waits. Failures are bounded for the same reason: a worker
that always dies makes no progress. `LandsUnlessDropped` adds that a block comes
along for a transaction that stays in the mempool. `HostEnds` assumes that a
request of `fetch_blobs` or a call of the ZisK client is answered or fails.
`CatchesUp` assumes that time passes, that timers of the browser run in the end
and that a request of the page is answered unless a newer one replaces it; it is
about runs of the cron a delay before the horizon, where time stands still.

Divergences between documentation and code, each a run that TLC finds violated
and a row of `findings`:

- `sidecar_order`: the sidecar is in the reverse of the order of the blobs;
- `oversize`: a batch that takes more than six blobs is refused as a whole,
  though its first text fits alone and the code means to trim its tail;
- `reentry`: a proof that leaves the root as it is settles again from inside its
  own payment;
- `multi_blob`: the guest refuses the entries of a transaction of several blobs.

Three more are not runs of their own; what holds instead is checked or proved:

- after a failure between publishing and marking, a sidecar misses entries of its
  transaction for good (`api.microblobs.tx.$txHash.ts:4-5`); each such transaction
  costs a failure (`UnsettledNeedsFailure`);
- a record can name a transaction that never reaches a block
  (`kv.server.ts:22`): once it is dropped that is final (`LandsUnlessDropped`, and
  the theorem `DroppedIsLost`);
- the event of a settlement with another one nested in its payment names a root
  that is no longer current (`src/OpenBlob.sol:56`); the settlements and the events
  still match (`EventsMatchSettlements`).

Smaller ones, which the modules follow the code in and which have no run: the
bundled index is keyed by `bundledAt` (`kv.server.ts:101`, against the comment at
9); a tick takes at most 100 microblobs (`bundler-cron.server.ts:52`), not every
pending one (`README.md:21`); the list of pending microblobs can hold one that was
marked between its two KV calls; the contract does not check that `blockNumber`
is one of the last 256 (`src/OpenBlob.sol:102`), it binds the zero hash then;
`fetch_blobs` verifies KZG proofs unless told not to, against its comment
(`blob-sync/src/lib.rs:68`); `nextCronRun` can find a run later than a year and
throws by its count of iterations (`cron.ts:98`); the timer calls back a second
time for a run when an answer brings back a deadline that has passed, and with a
schedule that does not parse on every tick after the first deadline
(`next-bundle-timer.tsx:12`).

What the modules show of the encoding and the proof, and a reader should know:

- a payload that looks like hex is put into the blob as the bytes it denotes, so
  its signature does not recover its signer (`ReadAsSigned`), and the payload `0x`
  is an empty entry, which makes the guest refuse its whole batch
  (`GuestReadsBatch`);
- the guest takes the blobs of all references as one stream with one list at its
  head, where `specs/spec.md` (3.0) has a stream per transaction: the list of a
  second transaction is padding to it;
- the publisher fills up to six blobs, and the guest wants one blob per reference,
  so a transaction of several blobs is never proved over (`multi_blob`, and the
  theorem `OnlySingleBlobsAreProved` for every value of the constants);
- the ether amounts are not part of what is signed, and the guest compares their
  sum neither with `total_ether_paid` nor the new root with the old.

## Proofs

Each theorem holds for every value of the constants that its module's assumption
allows: any number of microblobs, workers, failures, accounts, references, blocks
and runs, blobs and texts of any size. Properties proved of the specifications:

| Module | Theorems |
| --- | --- |
| `CollectorProofs` | of `Collector`: `TypeOK`, `IndexesMatchRecords`, `BundledWasPublished`, `BundledIsFinal`, `UnsettledNeedsFailure`, `PublicationsBounded`, and that it implements `MicroblobLedger`; of `CollectorApi`: `ApiTypeOK`, `PageShowsSettledRecordsOnce`, `ListsStaleOnlyWhileLoading`, `SidecarReversesBatch`; of `CollectorChain`: `ChainTypeOK`, and that a record whose transaction was dropped never changes again |
| `OpenBlobProofs` | `TypeOK`, `RootIsChained`, `EventsMatchSettlements`, `EtherAccounted`, `RootsAreUsedUp` |
| `DiskSyncProofs` | `TypeOK`, `OnlyVerifiedOnDisk`, `FinishedRunIsOnDisk`, `ManifestCommitsFiles` |
| `ProverProofs` | `TypeOK`, `BundlesFollowRefs`, `BlobsAreCommitted`, `OneViewOfABlock`, of `fetch_blobs` by itself and within the prover; `ProverTypeOK`, `ProofIsOfCommittedBatch`, `HonestInputsProve`, and that there is a proof only over transactions of one blob each |
| `EncodingProofs` | blobs and RLP lists there and back, and that there is one encoding |
| `BlobBatchProofs` | `TypeOK`, `GuestReadsBatch`, `OnlyCanonicalIsRead`, `ReadAsSigned` |
| `TimerProofs` | `TypeOK`, `NextRunIsFirst`, `TickFiresNewRun`, and what `nextCronRun` finds for any calendar and expression |
| `RecursionFacts` | what the proofs need of sequences, sums and recursive functions |

No constant is assumed to be more than the assumption of its module says.

### Collector

`IndexesMatchRecords` is not inductive: a commit replaces index keys computed from
the record a worker read earlier, so it must be the record that is there. `Inv`
adds why that is so. A record is written once when it is submitted and once when
it is marked, so its version tells its status (`VersionsOK`); a worker about to
commit holds a record of version 1, and if the version has not moved it holds the
very record (`WorkerOK`). For `BundledWasPublished`, `WorkerOK` says that what a
worker still has to mark is part of the transaction it sent, and `TxsOK` that each
transaction is a batch: accepted entries, none twice, at most `ListLimit`.
`QuietStepInv` covers all steps that write nothing to the store, `PostInv` and
`MarkCommitInv` the two that do. Every step of the collector then maps to a step of
the ledger or to a stutter: `Post` to `Accept`, an accepted transaction to
`Publish`, a commit whose check holds to `Settle`.

The two bounds on publications rest on an accounting, `CountInv`. `MarksInv` says
that a worker names a transaction only while it marks, and that each entry of that
transaction is bundled or still on the worker's batch; `OneHolder` that no two
workers name one transaction. So a worker that leaves off without a fault leaves a
settled transaction, and the finished transactions that are not settled are no more
than the faults (`UnsettledNeedsFailure`). That bounds the publications of an entry
that is pending: each is under way with a worker of its own or finished and not
settled. `SpendingBounded` takes over once the entry is bundled: no worker lists it
any more, so its publications and the workers that have listed it and not sent it
yet stay no more than the workers and the faults.

`CollectorApi` keeps `Inv`, which `ApiInv` extends by what a request has read and
when: no record is older than it was when the page was asked for (`BeforeOK`), and
a list of the page holds keys, then records, that were true then or later
(`PageStateOK`); what the sidecar has found stays bundled in the transaction asked
for, in the order of the keys (`TxStateOK`). For `SidecarReversesBatch`, `BatchesOrdered` says that each transaction lists its
entries from the newest creation time to the oldest, the order of the index; the
sidecar sorts stably by the same time, upwards. `SortShape` and the lemmas after it
prove of `StableSort` that it is a permutation in order.

`CollectorChain` changes nothing of the collector, so `ChainInv` is `CountInv` with
the types. `DroppedIsLost` is what it means that no code looks at a receipt: once a
transaction is dropped, the records it settled keep its hash, which no block will
ever hold. The run `chain` drops a transaction so.

### Contract

A failing payment brings back a saved contract, so the invariant must hold of
every saved one as well: `Sound(c, st, k)` says that c is chained and that its
settlements are announced but for those of the k payments under way, and `Inv` has
it for the contract with all frames and for the contract saved by frame k with the
k - 1 frames below. `RootsAreUsedUp` counts along the
chain: settlement i + 1 is against the root that came about at time i, which is a
bijection between the settlements against a root and the times it came about, but
for the last time (`UsesFollowComings`). `EtherAccounted` compares a sum
over the users with one over the settlements; `AccountedInv` has it of the contract
and of every saved one. A payment adds its settlement and takes the ether in one
step, so the payments under way need no term of their own. The users are finitely
many, as the module assumes.

### Syncing

`DiskSyncInv` is the conjunction of the types, of where a run is in its two loops
(`PlaceInv`), of what the checks have let through and is to be written
(`PayloadInv`), and of three facts on the disk: `OnlyVerifiedOnDisk`; that the files
of the present block before the current one are whole, but for one of the same
hash, which is empty while it is written again (`FilledInv`); and that the blocks
behind this run are on disk (`BehindInv`). At the end no block is left, and
`BehindInv` is `FinishedRunIsOnDisk`. Neither it nor `FilledInv` is inductive
without `PlaceInv`, which says that each block begins at its first file. The disk
survives `Die`, but a new run begins at the first block again, so the theorem needs
nothing of what an earlier run left.

`BlobSyncInv` has the types, the place in the loops (`PlaceInv`), that the bundles
are those of the references passed (`FollowInv`), and that each bundle's commitment
is that of its hash and, where blobs are verified, waits with the bundle's bytes in
the buffer of its block (`CommitInv`), so that the verification at the end is about
the bytes returned. A step of `Prover` is one of `BlobSync` or leaves its state
alone (`FetchesOrNot`), so all four theorems hold within the prover too.

### Prover

`ProverInv` is `BlobSyncInv` with `HostInv`: what `inputs` and `output` hold in each
state of the host. While it is fetching there is nothing; after that there are
inputs, either the sample or those built from a successful fetch and some list of
auths, with the digest computed of their own references; there is an output just
when the guest accepted them, and it is what the guest commits to. The rest is
about the guest on such inputs:

- the data it reads out of the fetched blobs is the data that the transactions
  committed to (`StreamIsCommitted`): the bundles are those of the references in
  their order (`BundlesFollowRefs`), their bytes are committed to
  (`BlobsAreCommitted`), and unpacking goes blob by blob (`MappedParts`);
- unpacking accepts as many blobs as there are references, so each reference has
  one (`OnlySingleBlobsAreProved`): every transaction that is referenced has at least one, and
  their numbers add up to the number of references (`AsManyBlobs`, `OneOfEach`);
- an auth that recovers to a known signer was made over the entry it stands for,
  so with known signers the entries are those signed, and as they decode from the
  stream, their encoding is where the stream starts (`OnlyEncodingsDecode`); sums
  are capped (`SumIsCapped`). This is `ProofIsOfCommittedBatch`;
- conversely the encoding of a list that the blobs begin with decodes to it
  (`EntriesRoundTrip`), so no assertion of the guest fails on honest inputs
  (`HonestAccepted`); the sample inputs never fail one (`SampleAccepted`).

### Encoding

`BlobsRoundTrip`: the blobs that `toBlobs` makes are as many as the data and the
sentinel need, they are raw blobs, `unpack_blobs` accepts them and gives back the
data, the sentinel and zeros. `EntriesRoundTrip`: where the encoding of entries
begins, `decode_entries` gives those entries, whatever follows, and panics just
when one of them is empty. `OnlyEncodingsDecode`: bytes that decode begin with the
encoding of what they decode to. They hold for every number and length of entries,
every size of blobs and every number at which the forms of RLP change.

`BatchInv` of `BlobBatchProofs` says where the blobs come from: from all of the
texts given, which then fit, or from a transaction of someone else. The three
theorems on encodings give the rest. In the model a length is one byte, so `TypeOK` and
`OnlyCanonicalIsRead` use `LengthsAssumption` for the publisher's batches (each
length fits that byte; TLC evaluates it); the other three do not.

### Schedule and timer

`NextCronRunIsFirst` rests on `SkipIsSafe`: from a minute that does not match, the
search goes on to a later one and no minute it leaps over matches. For an hour or a
day that is division: the quotient stays until the next multiple (`SameQuotient`).
For a month, `MonthsAdd` and `StartsGrow` show that each day of the cycle is in one
month (`MonthIs`), and `MonthStays` that a month ends where the next one starts, also
at the end of the cycle. The search is a recursive function; `SearchExists` builds
it from its last iterations, and `SearchIsFirst` goes down from the cap: what is
found from minute t on with n iterations left is the first match, or there is none
for n minutes. Nothing is assumed of the lengths of hours, days, weeks and months
but that they are positive.

`TimerInv` adds three facts to `TypeOK`: an answer under way was read since the page
was loaded (`AnswerInv`); the client's time is one `nextCronRun` was asked for
(`NowInv`); and after a tick that could compute a next run the deadline is later
than that tick (`CountdownInv`). Deadlines called back for are never later than the
last tick, which is part of `TypeOK`, so `TickFiresNewRun` follows. The effect of
the countdown runs after ticks and after answers, and `CrossIs` covers both.

### Recursion

The library's induction theorems take an operator as a parameter, which these
provers cannot instantiate. `RecursionFacts` goes round that: a set of naturals has
a least member (`Least`, from the library's well-foundedness of `<`), so a property,
written as a set, that has no least counterexample has none (`Induct`, `Downward`,
and `SizeInduct` for finite sets). It proves from that what `FlattenSeq` and sums
over sets compute, that recursive functions exist, and their typing. An operator
to be proved about is a CHOOSE of a function there, which is how a recursive
function definition is read; the modules avoid operators of the community modules
that recurse in other ways.

Some leaves name a prover and a time: they need more than the default.

### Model-checked only

- liveness (`EventuallyBundled`, `LandsUnlessDropped`, `HostEnds`, `CatchesUp`):
  the prover handles neither fairness nor ENABLED.

All safety properties that the passing runs check are stated by theorems.

## Plan

Modelled and checked: everything in the table of modules; proved: every invariant
and action property of the passing runs. What a next step could be:

1. the page's merge of a submitted record into its list, which nothing else reads;
2. the binaries under `host/bin`, should they do more than run the guest on the
   sample inputs;
3. liveness, in a prover that handles fairness.

## Not modelled

Signature recovery, hashing and KZG are mathematics taken as given: collision
free, and true or false of their inputs. viem, alloy, k256 and the ZisK SDK are
not in the repository; they are modelled from how their results are used, and
`toBlobs` with the limit at which the version of viem that `collector/package.json`
asks for throws.

The binaries under `host/bin` run the guest on `sample_inputs`, as `UseSample`
does, and otherwise call the SDK. On the page, signing, submitting and showing a
submitted record before the next answer are left out, and so are rendering, HTTP
plumbing and configuration. How many keys `getMany` takes and what `blockhash`
means to a verifier are limits outside the source. The previous version of the
contract and the scripts and tests written for it are not part of the deployed
system.
