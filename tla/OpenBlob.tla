------------------------------ MODULE OpenBlob ------------------------------
(***************************************************************************)
(* The OpenBlob contract: collateral deposits and proofBlobDA, which       *)
(* checks a proof against the current root, rotates the root, pays the     *)
(* caller and emits an event when the payment has returned.                *)
(*                                                                         *)
(* The payment is a call into the prover, which, when it has code, runs    *)
(* before proofBlobDA goes on: it may deposit, settle another proof, or    *)
(* revert, which undoes everything since its own frame was entered.        *)
(*                                                                         *)
(* The digest of the public inputs is taken to be collision free, so a     *)
(* proof is the statement it proves; the verifier accepts the statements   *)
(* of the circuit, Provable.                                               *)
(***************************************************************************)
EXTENDS Integers, Sequences, FiniteSets, FiniteSetsExt

CONSTANTS Provers,       \* accounts that settle
          WithCode,      \* those whose payment runs code of theirs
          Users,         \* beneficiaries of deposits
          Refs,          \* lists of (blockNumber, txIndex), opaque here
          Roots,         \* state roots; the root of no account is 0
          Provable,      \* the statements the circuit proves
          Window,        \* blocks whose hash blockhash() still returns (256)
          MaxBlock,      \* bound: the last block
          MaxDeposit,    \* bound: the largest single deposit
          MaxEther,      \* bound: what the contract holds
          MaxDepth,      \* bound: nested payments
          MaxSettlements \* bound: settlements that stand

NoRoot == 0
NoBlockhash == 0

Statement ==
  [refs: Refs, prevRoot: Roots, newRoot: Roots, totalEtherPaid: Nat,
   blockhash: Nat, sender: Provers]

ASSUME OpenBlobAssumption ==
  /\ WithCode \subseteq Provers
  /\ IsFiniteSet(Users)
  /\ Roots \subseteq Nat /\ NoRoot \in Roots
  /\ Provable \subseteq Statement
  /\ {Window, MaxBlock, MaxDeposit, MaxEther, MaxDepth, MaxSettlements} \subseteq Nat

VARIABLES contract,      \* the contract's storage, its ether and its log
          block,         \* block.number
          stack          \* the payments under way, innermost last

vars == <<contract, block, stack>>

Event == [prover: Provers, newRoot: Roots, totalExtracted: Nat, blockNumber: Nat]

\* settled is history: the statements the root was rotated by.
Contract ==
  [openBlobRoot: Roots, balances: [Users -> Nat], ether: Nat,
   settled: Seq(Statement), events: Seq(Event)]

\* saved: the contract as it was when the frame was entered.
Frame == [statement: Statement, blockNumber: Nat, saved: Contract]

TypeOK ==
  /\ contract \in Contract
  /\ block \in 1..MaxBlock + 1
  /\ stack \in Seq(Frame)

Init ==
  /\ contract = [openBlobRoot |-> NoRoot, balances |-> [u \in Users |-> 0],
                 ether |-> 0, settled |-> <<>>, events |-> <<>>]
  /\ block = 1
  /\ stack = <<>>

Top == stack[Len(stack)]
Pop == SubSeq(stack, 1, Len(stack) - 1)

\* blockhash(n): the hash of block n stands for it; 0 outside the last Window
\* blocks, and for the current one.
Blockhash(n) == IF n < block /\ block <= n + Window THEN n ELSE NoBlockhash

\* Between transactions anyone may call; during a payment the code that runs,
\* that of the one paid and of those it calls.
MayCall(account) ==
  \/ stack = <<>>
  \/ stack # <<>> /\ {Top.statement.sender, account} \subseteq WithCode

-----------------------------------------------------------------------------

NewBlock ==
  /\ stack = <<>>
  /\ block <= MaxBlock
  /\ block' = block + 1
  /\ UNCHANGED <<contract, stack>>

deposit(beneficiary, value) ==
  /\ \/ stack = <<>>
     \/ \E p \in WithCode : MayCall(p)
  /\ contract.ether + value <= MaxEther
  /\ contract' = [contract EXCEPT !.balances[beneficiary] = @ + value,
                                  !.ether = @ + value]
  /\ UNCHANGED <<block, stack>>

\* A slip: the payment is booked whether or not there is ether for it.
proofBlobDAUnfunded(s, blockNumber) ==
  /\ MayCall(s.sender)
  /\ Len(stack) < MaxDepth /\ Len(contract.settled) < MaxSettlements
  /\ s.prevRoot = contract.openBlobRoot
  /\ s.blockhash = Blockhash(blockNumber)
  /\ s \in Provable
  /\ contract' = [contract EXCEPT !.openBlobRoot = s.newRoot,
                                  !.ether = @ - s.totalEtherPaid,
                                  !.settled = Append(@, s)]
  /\ stack' = Append(stack, [statement |-> s, blockNumber |-> blockNumber,
                             saved |-> contract])
  /\ UNCHANGED block

\* A slip: the root is left as it was.
proofBlobDAKeepingRoot(s, blockNumber) ==
  /\ MayCall(s.sender)
  /\ Len(stack) < MaxDepth /\ Len(contract.settled) < MaxSettlements
  /\ s.prevRoot = contract.openBlobRoot
  /\ s.blockhash = Blockhash(blockNumber)
  /\ s \in Provable
  /\ s.totalEtherPaid <= contract.ether
  /\ contract' = [contract EXCEPT !.ether = @ - s.totalEtherPaid,
                                  !.settled = Append(@, s)]
  /\ stack' = Append(stack, [statement |-> s, blockNumber |-> blockNumber,
                             saved |-> contract])
  /\ UNCHANGED block

\* A slip: the proof may be about any root.
proofBlobDAStale(s, blockNumber) ==
  /\ MayCall(s.sender)
  /\ Len(stack) < MaxDepth /\ Len(contract.settled) < MaxSettlements
  /\ s.blockhash = Blockhash(blockNumber)
  /\ s \in Provable
  /\ s.totalEtherPaid <= contract.ether
  /\ contract' = [contract EXCEPT !.openBlobRoot = s.newRoot,
                                  !.ether = @ - s.totalEtherPaid,
                                  !.settled = Append(@, s)]
  /\ stack' = Append(stack, [statement |-> s, blockNumber |-> blockNumber,
                             saved |-> contract])
  /\ UNCHANGED block

\* proofBlobDA up to the payment.  A call with another prevRoot, without a
\* proof, or for more ether than there is, reverts and changes nothing.
proofBlobDA(s, blockNumber) ==
  /\ MayCall(s.sender)
  /\ Len(stack) < MaxDepth /\ Len(contract.settled) < MaxSettlements
  /\ s.prevRoot = contract.openBlobRoot
  /\ s.blockhash = Blockhash(blockNumber)
  /\ s \in Provable
  /\ s.totalEtherPaid <= contract.ether
  /\ contract' = [contract EXCEPT !.openBlobRoot = s.newRoot,
                                  !.ether = @ - s.totalEtherPaid,
                                  !.settled = Append(@, s)]
  /\ stack' = Append(stack, [statement |-> s, blockNumber |-> blockNumber,
                             saved |-> contract])
  /\ UNCHANGED block

\* The payment returns; the event is emitted.
PaymentReturns ==
  /\ stack # <<>>
  /\ contract' = [contract EXCEPT !.events =
       Append(@, [prover |-> Top.statement.sender,
                  newRoot |-> Top.statement.newRoot,
                  totalExtracted |-> Top.statement.totalEtherPaid,
                  blockNumber |-> Top.blockNumber])]
  /\ stack' = Pop
  /\ UNCHANGED block

\* A slip: the failed payment is passed over instead of undoing the call.
TransferFailedUnnoticed ==
  /\ stack # <<>>
  /\ Top.statement.sender \in WithCode
  /\ contract' = [contract EXCEPT !.ether = @ + Top.statement.totalEtherPaid]
  /\ stack' = Pop
  /\ UNCHANGED block

\* The code of the one paid reverts: TransferFailed, and the frame is undone.
TransferFailed ==
  /\ stack # <<>>
  /\ Top.statement.sender \in WithCode
  /\ contract' = Top.saved
  /\ stack' = Pop
  /\ UNCHANGED block

Next ==
  \/ NewBlock
  \/ \E u \in Users, v \in 1..MaxDeposit : deposit(u, v)
  \/ \E s \in Provable, n \in 0..block : proofBlobDA(s, n)
  \/ PaymentReturns
  \/ TransferFailed

Spec == Init /\ [][Next]_vars

-----------------------------------------------------------------------------
(* Properties.                                                             *)

Deposited(c) == MapThenSumSet(LAMBDA u : c.balances[u], Users)
PaidOut(c) == MapThenSumSet(LAMBDA i : c.settled[i].totalEtherPaid, DOMAIN c.settled)

\* The ether held is what was deposited less what the settlements that stand
\* have paid, in the middle of nested and failing payments as well.
EtherAccounted == contract.ether + PaidOut(contract) = Deposited(contract)

\* The settlements that stand form one chain from the empty root to the
\* current one: each was proven against the root the one before it left.
SettlementsChained(c) ==
  LET n == Len(c.settled)
  IN /\ \A i \in 1..n : c.settled[i].prevRoot =
          IF i = 1 THEN NoRoot ELSE c.settled[i - 1].newRoot
     /\ c.openBlobRoot = IF n = 0 THEN NoRoot ELSE c.settled[n].newRoot

RootIsChained == SettlementsChained(contract)

\* A reentrant call would need a fresh proof against the new root: no proof
\* settles from inside its own payment.
ReentryNeedsFreshProof ==
  \A i, j \in DOMAIN stack : stack[i].statement = stack[j].statement => i = j

\* Each settlement uses up the root it was proven against: of the times a root
\* came about, one stands for each settlement against it, and one more while it is
\* the current root.  So a proof, or several against one root, settle no more often
\* than that root came about; nothing else in the contract tells a used proof.
RootsAreUsedUp ==
  LET settled == contract.settled
  IN \A r \in Roots :
       Cardinality({i \in DOMAIN settled : settled[i].prevRoot = r})
         + (IF contract.openBlobRoot = r THEN 1 ELSE 0)
       = Cardinality({i \in DOMAIN settled : settled[i].newRoot = r})
         + (IF r = NoRoot THEN 1 ELSE 0)

\* Every settlement that stands has its one event, or its payment is under way.
EventsMatchSettlements ==
  LET settled == contract.settled
      events == contract.events
  IN /\ Len(settled) = Len(events) + Len(stack)
     /\ {settled[i].newRoot : i \in DOMAIN settled} =
          {events[i].newRoot : i \in DOMAIN events}
            \cup {stack[i].statement.newRoot : i \in DOMAIN stack}
=============================================================================
