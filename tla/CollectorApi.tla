--------------------------- MODULE CollectorApi ----------------------------
(***************************************************************************)
(* The requests that read the collector's store while the workers write    *)
(* it.  Each reads an index, then fetches the records the index named: two *)
(* KV calls, with any number of writes in between.                         *)
(*                                                                         *)
(*   "pending", "bundled"  the two lists the landing page loads at the     *)
(*                         same time; GET /api/microblobs is the first of  *)
(*                         them on its own                                 *)
(*   "tx"                  GET /api/microblobs/tx/:txHash, the sidecar     *)
(***************************************************************************)
EXTENDS Collector, SequencesExt

CONSTANT PageLimit       \* how many records a list of the page holds (50)

ASSUME ApiAssumption == PageLimit \in Nat \ {0}

VARIABLES lists,         \* the progress of each list
          asked,         \* the transaction the sidecar is asked for
          before         \* record versions when the page was asked for

apiVars == <<lists, asked, before>>

Lists == {"pending", "bundled", "tx"}
PageLists == {"pending", "bundled"}

Unasked == [pc |-> "idle", ids |-> <<>>, items |-> <<>>]
Asked == [Unasked EXCEPT !.pc = "asked"]

ApiTypeOK ==
  /\ DOMAIN lists = Lists
  /\ \A l \in Lists :
       /\ lists[l].pc \in {"idle", "asked", "listed", "done"}
       /\ lists[l].ids \in Seq(Ids)
       /\ \A i \in DOMAIN lists[l].items :
            lists[l].items[i] \in [id: Ids, record: Microblob]
  /\ asked \in 0..Len(txs)
  /\ before \in [Ids -> Nat]

ApiInit ==
  /\ Init
  /\ lists = [l \in Lists |-> Unasked]
  /\ asked = NoHash
  /\ before = [id \in Ids |-> 0]

-----------------------------------------------------------------------------

\* A slip: the sidecar in the order of the page.
StableSortDescending(items) ==
  LET before_(i, j) == LET t == items[i].record.createdAt
                           u == items[j].record.createdAt
                       IN u < t \/ (t = u /\ i < j)
  IN [p \in DOMAIN items |->
        items[CHOOSE i \in DOMAIN items :
                Cardinality({j \in DOMAIN items : before_(j, i)}) = p - 1]]

\* Array.prototype.sort by createdAt: equal elements keep their order.
StableSort(items) ==
  LET before_(i, j) == LET t == items[i].record.createdAt
                           u == items[j].record.createdAt
                       IN t < u \/ (t = u /\ i < j)
  IN [p \in DOMAIN items |->
        items[CHOOSE i \in DOMAIN items :
                Cardinality({j \in DOMAIN items : before_(j, i)}) = p - 1]]

\* A slip: the first part of the key is taken for the id.
TxListingTimes(tx) ==
  LET keys == {<<k[3], k[2]>> : k \in {b \in byTx : b[1] = tx}}
  IN {Reverse(ids) : ids \in NewestFirst(keys, Cardinality(keys))}

\* The ids the by_tx prefix of a transaction yields, in key order.
TxListing(tx) ==
  LET keys == {<<k[2], k[3]>> : k \in {b \in byTx : b[1] = tx}}
  IN {Reverse(ids) : ids \in NewestFirst(keys, Cardinality(keys))}

IdsOf(l) ==
  CASE l = "pending" -> NewestFirst(pendingIdx, PageLimit)
    [] l = "bundled" -> NewestFirst(bundledIdx, PageLimit)
    [] l = "tx" -> TxListing(asked)

\* The landing page: both of its lists are asked for at once.
RequestPage ==
  /\ \A l \in PageLists : lists[l].pc \in {"idle", "done"}
  /\ lists' = [l \in Lists |-> IF l \in PageLists THEN Asked ELSE lists[l]]
  /\ before' = [id \in Ids |-> kv[id].version]
  /\ UNCHANGED <<vars, asked>>

\* NoHash stands for any transaction this collector did not send.
RequestTx(tx) ==
  /\ lists["tx"].pc \in {"idle", "done"}
  /\ lists' = [lists EXCEPT !["tx"] = Asked]
  /\ asked' = tx
  /\ UNCHANGED <<vars, before>>

\* kv.list of the index.  An empty index answers at once.
ListIds(l) ==
  /\ lists[l].pc = "asked"
  /\ \E ids \in IdsOf(l) :
       lists' = [lists EXCEPT ![l] =
                   [@ EXCEPT !.pc = IF ids = <<>> THEN "done" ELSE "listed", !.ids = ids]]
  /\ UNCHANGED <<vars, asked, before>>

\* kv.getMany of the records; the sidecar is then sorted.
GetRecords(l) ==
  /\ lists[l].pc = "listed"
  /\ \E ids \in Present(lists[l].ids) :
       LET items == [i \in DOMAIN ids |-> [id |-> ids[i], record |-> kv[ids[i]]]]
       IN lists' = [lists EXCEPT ![l] =
                      [@ EXCEPT !.pc = "done",
                                !.items = IF l = "tx" THEN StableSort(items) ELSE items]]
  /\ UNCHANGED <<vars, asked, before>>

ApiNext ==
  \/ Next /\ UNCHANGED apiVars
  \/ RequestPage
  \/ \E tx \in 0..Len(txs) : RequestTx(tx)
  \/ \E l \in Lists : ListIds(l) \/ GetRecords(l)

ApiSpec == ApiInit /\ [][ApiNext]_<<vars, apiVars>>

-----------------------------------------------------------------------------
(* Properties.                                                             *)

Answered(l) == lists[l].pc = "done"
Items(l) == lists[l].items

PageAnswered == \A l \in PageLists : Answered(l)
Shown(id) == {s \in PageLists \X (1..PageLimit) :
                s[2] \in DOMAIN Items(s[1]) /\ Items(s[1])[s[2]].id = id}

\* A record nothing wrote while the page was loading is on the page at most
\* once, in the list of its status, and exactly once when the lists are long
\* enough for every record.
PageShowsSettledRecordsOnce ==
  PageAnswered => \A id \in Ids :
    (before[id] > 0 /\ before[id] = kv[id].version) =>
      /\ Cardinality(Shown(id)) <= 1
      /\ \A s \in Shown(id) : s[1] = kv[id].status
      /\ PageLimit >= Cardinality(Ids) => Shown(id) # {}

\* What the list of pending microblobs shows as already bundled was bundled
\* while the list was loading: the list is never stale by more than itself.
\* What the list of bundled ones shows is bundled.
ListsStaleOnlyWhileLoading ==
  /\ \A i \in DOMAIN Items("bundled") : Items("bundled")[i].record.status = "bundled"
  /\ \A i \in DOMAIN Items("pending") :
       LET item == Items("pending")[i]
       IN item.record.status = "bundled" => before[item.id] < item.record.version

\* The sidecar of a transaction holds bundled records of that transaction
\* only, and read backwards it follows the order of the entries in the blobs.
SidecarReversesBatch ==
  Answered("tx") =>
    LET items == Items("tx")
        At(i) == CHOOSE p \in DOMAIN txs[asked] : txs[asked][p] = items[i].id
    IN /\ \A i \in DOMAIN items :
            /\ items[i].record.status = "bundled"
            /\ items[i].record.bundleTxHash = asked
            /\ items[i].id \in Entries(txs[asked])
       /\ \A i, j \in DOMAIN items : i < j => At(j) < At(i)

\* The sidecar is in the order in which the bundler listed the entries.
SidecarInBatchOrder ==
  Answered("tx") =>
    LET items == Items("tx")
        At(i) == CHOOSE p \in DOMAIN txs[asked] : txs[asked][p] = items[i].id
    IN \A i, j \in DOMAIN items : i < j => At(i) < At(j)
=============================================================================
