--------------------------- MODULE CollectorChain ---------------------------
(***************************************************************************)
(* The collector together with what becomes of its transactions.  The hash *)
(* is returned when a node takes the transaction into its mempool; whether *)
(* a block ever holds it is decided later (the blob fee cap is fixed), and *)
(* the collector never asks for the receipt.                               *)
(***************************************************************************)
EXTENDS Collector

CONSTANT MaxDrops        \* bound: transactions that leave the mempool unmined

ASSUME ChainAssumption == MaxDrops \in Nat

VARIABLES mined,         \* the transactions in a block
          dropped        \* the transactions no block will hold

chainVars == <<mined, dropped>>

ChainTypeOK ==
  /\ mined \subseteq DOMAIN txs
  /\ dropped \subseteq DOMAIN txs
  /\ mined \cap dropped = {}

ChainInit ==
  /\ Init
  /\ mined = {}
  /\ dropped = {}

\* A slip: what was dropped is still there.
MempoolWithDropped == DOMAIN txs \ mined

Mempool == DOMAIN txs \ (mined \cup dropped)

Mine(t) ==
  /\ t \in Mempool
  /\ mined' = mined \cup {t}
  /\ UNCHANGED <<vars, dropped>>

Drop(t) ==
  /\ t \in Mempool
  /\ Cardinality(dropped) < MaxDrops
  /\ dropped' = dropped \cup {t}
  /\ UNCHANGED <<vars, mined>>

ChainNext ==
  \/ Next /\ UNCHANGED chainVars
  \/ \E t \in DOMAIN txs : Mine(t) \/ Drop(t)

\* A block comes along for every transaction that stays in the mempool.
ChainFairness ==
  /\ \A w \in Workers :
       /\ WF_<<vars, chainVars>>((List(w) \/ Read(w) \/ PublishTooLarge(w) \/ MarkGet(w)
                                   \/ MarkCommit(w)) /\ UNCHANGED chainVars)
       /\ SF_<<vars, chainVars>>(PublishAccepted(w) /\ UNCHANGED chainVars)
  /\ WF_<<vars, chainVars>>(\E t \in DOMAIN txs : Mine(t))

ChainSpec == ChainInit /\ [][ChainNext]_<<vars, chainVars>> /\ ChainFairness

-----------------------------------------------------------------------------
(* Properties.                                                             *)

\* An accepted microblob is in a block in the end, unless a transaction that
\* carried it was dropped, or every tick lists more than fits, for good.
LandsUnlessDropped ==
  \A id \in Ids : (kv[id].status = "pending" /\ key = "set") ~>
    ((\E t \in Publications(id) : t \in mined \cup dropped) \/ []Jammed)
=============================================================================
