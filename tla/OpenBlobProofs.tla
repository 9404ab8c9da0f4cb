--------------------------- MODULE OpenBlobProofs ---------------------------
(***************************************************************************)
(* Proofs about OpenBlob, for any provers, roots, statements and bounds,   *)
(* and any nesting of payments.                                            *)
(***************************************************************************)
EXTENDS OpenBlob, RecursionFacts, SequenceTheorems, TLAPS

-----------------------------------------------------------------------------
(* The inductive invariant.  A failing payment brings back the contract its *)
(* frame saved, so what holds of the contract is kept for every saved one.  *)

NewRoots(c) == {c.settled[i].newRoot : i \in DOMAIN c.settled}
EventRoots(c) == {c.events[i].newRoot : i \in DOMAIN c.events}
\* The roots the first k payments of st are about to announce.
FrameRoots(st, k) == {st[i].statement.newRoot : i \in 1..k}

Announced(c, st, k) ==
  /\ Len(c.settled) = Len(c.events) + k
  /\ NewRoots(c) = EventRoots(c) \cup FrameRoots(st, k)

\* c is well formed while the first k payments of st are under way.
Sound(c, st, k) ==
  /\ c \in Contract
  /\ SettlementsChained(c)
  /\ Announced(c, st, k)

SavedSound(st) == \A k \in 1..Len(st) : Sound(st[k].saved, st, k - 1)

Inv ==
  /\ block \in 1..MaxBlock + 1
  /\ stack \in Seq(Frame)
  /\ Sound(contract, stack, Len(stack))
  /\ SavedSound(stack)

-----------------------------------------------------------------------------
(* The contract and the stack apart from the steps that change them.       *)

\* Only the first k frames matter to what is sound under k payments.
LEMMA SoundPrefix ==
  ASSUME NEW c, NEW st, NEW tt, NEW k \in Nat, Sound(c, st, k),
         \A i \in 1..k : tt[i] = st[i]
  PROVE  Sound(c, tt, k)
<1>1. FrameRoots(st, k) = FrameRoots(tt, k)
  BY DEF FrameRoots
<1>2. QED
  BY <1>1 DEF Sound, Announced

\* What the first n frames saved stays sound when later frames come or go.
LEMMA SavedPrefix ==
  ASSUME NEW st, SavedSound(st), Len(st) \in Nat, NEW tt, NEW n \in 0..Len(st),
         \A i \in 1..n : tt[i] = st[i]
  PROVE  \A k \in 1..n : Sound(tt[k].saved, tt, k - 1)
<1>1. TAKE k \in 1..n
<1>2. k \in Nat /\ k - 1 \in Nat /\ k \in 1..Len(st) /\ tt[k] = st[k]
  OBVIOUS
<1>3. Sound(st[k].saved, st, k - 1)
  BY <1>2 DEF SavedSound
<1>4. \A i \in 1..k - 1 : tt[i] = st[i]
  BY <1>2
<1>5. QED
  BY <1>2, <1>3, <1>4, SoundPrefix

\* A contract that differs in its balances and its ether only.
LEMMA SoundSameHistory ==
  ASSUME NEW c, NEW d \in Contract, NEW st, NEW k \in Nat, Sound(c, st, k),
         d.openBlobRoot = c.openBlobRoot, d.settled = c.settled, d.events = c.events
  PROVE  Sound(d, st, k)
<1>1. NewRoots(d) = NewRoots(c) /\ EventRoots(d) = EventRoots(c)
  BY DEF NewRoots, EventRoots
<1>2. Announced(c, st, k) /\ SettlementsChained(c)
  BY DEF Sound
<1>3. Announced(d, st, k)
  BY <1>1, <1>2 DEF Announced
<1>4. SettlementsChained(d)
  BY <1>2 DEF SettlementsChained
<1>5. QED
  BY <1>3, <1>4 DEF Sound

\* A settlement proven against the current root extends the chain.
LEMMA ChainGrows ==
  ASSUME NEW c \in Contract, NEW d \in Contract, NEW s \in Statement,
         SettlementsChained(c), s.prevRoot = c.openBlobRoot,
         d.openBlobRoot = s.newRoot, d.settled = Append(c.settled, s)
  PROVE  SettlementsChained(d)
<1>1. PICK n : n = Len(c.settled)
  OBVIOUS
<1>2. /\ n \in Nat /\ c.settled \in Seq(Statement)
      /\ Len(d.settled) = n + 1 /\ d.settled[n + 1] = s
      /\ \A i \in 1..n : d.settled[i] = c.settled[i]
  BY <1>1, AppendProperties DEF Contract
<1>3. ASSUME NEW i \in 1..n + 1
      PROVE  d.settled[i].prevRoot = IF i = 1 THEN NoRoot ELSE d.settled[i - 1].newRoot
  <2>1. CASE i \in 1..n
    <3>1. i # 1 => i - 1 \in 1..n
      BY <1>2, <2>1
    <3>2. c.settled[i].prevRoot = IF i = 1 THEN NoRoot ELSE c.settled[i - 1].newRoot
      BY <1>1, <2>1 DEF SettlementsChained
    <3>3. QED
      BY <1>2, <2>1, <3>1, <3>2
  <2>2. CASE i = n + 1
    <3>1. c.openBlobRoot = IF n = 0 THEN NoRoot ELSE c.settled[n].newRoot
      BY <1>1 DEF SettlementsChained
    <3>2. n # 0 => n \in 1..n
      BY <1>2
    <3>3. QED
      BY <1>2, <2>2, <3>1, <3>2
  <2>3. QED
    BY <1>2, <2>1, <2>2
<1>4. QED
  BY <1>2, <1>3 DEF SettlementsChained

\* One more settlement for one more payment.
LEMMA OneMore ==
  ASSUME NEW n, NEW m \in Nat, NEW k \in Nat, n = m + k
  PROVE  n + 1 = m + (k + 1)
OBVIOUS

\* A settlement and its frame are added together.
LEMMA SoundPush ==
  ASSUME NEW c, NEW d \in Contract, NEW s \in Statement, NEW st \in Seq(Frame),
         NEW f \in Frame, f.statement = s, Sound(c, st, Len(st)),
         s.prevRoot = c.openBlobRoot, d.openBlobRoot = s.newRoot,
         d.settled = Append(c.settled, s), d.events = c.events,
         NEW tt, tt = Append(st, f)
  PROVE  Sound(d, tt, Len(tt))
<1>1. PICK n, k : n = Len(c.settled) /\ k = Len(st)
  OBVIOUS
<1>2. c \in Contract
  BY DEF Sound
<1>3. /\ n \in Nat /\ c.settled \in Seq(Statement) /\ DOMAIN c.settled = 1..n
      /\ Len(d.settled) = n + 1 /\ d.settled[n + 1] = s /\ DOMAIN d.settled = 1..n + 1
      /\ \A i \in 1..n : d.settled[i] = c.settled[i]
  BY <1>1, <1>2, AppendProperties DEF Contract
<1>4. /\ k \in Nat /\ Len(tt) = k + 1 /\ tt[k + 1] = f
      /\ \A i \in 1..k : tt[i] = st[i]
  BY <1>1, AppendProperties
<1>5. NewRoots(d) = NewRoots(c) \cup {s.newRoot}
  BY <1>3, SMTT(30) DEF NewRoots
<1>6. FrameRoots(tt, k + 1) = FrameRoots(st, k) \cup {s.newRoot}
  BY <1>4 DEF FrameRoots
<1>7. EventRoots(d) = EventRoots(c)
  BY DEF EventRoots
<1>8. Announced(c, st, k)
  BY <1>1 DEF Sound
<1>9. Len(d.settled) = Len(d.events) + (k + 1)
  <2>1. PICK m \in Nat : m = Len(c.events) /\ m = Len(d.events)
    BY <1>2 DEF Contract
  <2>2. n = m + k
    BY <1>1, <1>8, <2>1 DEF Announced
  <2>3. n + 1 = m + (k + 1)
    BY <2>1, <2>2, <1>4, OneMore
  <2>4. Len(d.settled) = n + 1
    BY <1>3
  <2>5. QED
    BY <2>1, <2>3, <2>4
<1>10. NewRoots(d) = EventRoots(d) \cup FrameRoots(tt, k + 1)
  BY <1>5, <1>6, <1>7, <1>8 DEF Announced
<1>11. SettlementsChained(d)
  BY <1>2, ChainGrows DEF Sound
<1>12. QED
  BY <1>4, <1>9, <1>10, <1>11 DEF Sound, Announced

\* A frame is left and its root announced.
LEMMA SoundReturn ==
  ASSUME NEW c, NEW d \in Contract, NEW e \in Event, NEW st \in Seq(Frame),
         NEW n \in Nat, Len(st) = n + 1, Sound(c, st, n + 1),
         e.newRoot = st[n + 1].statement.newRoot,
         d.openBlobRoot = c.openBlobRoot, d.settled = c.settled,
         d.events = Append(c.events, e),
         NEW tt, \A i \in 1..n : tt[i] = st[i]
  PROVE  Sound(d, tt, n)
<1>1. c \in Contract /\ Announced(c, st, n + 1)
  BY DEF Sound
<1>2. PICK m : m = Len(c.events)
  OBVIOUS
<1>3. /\ m \in Nat /\ c.events \in Seq(Event) /\ DOMAIN c.events = 1..m
      /\ Len(d.events) = m + 1 /\ d.events[m + 1] = e /\ DOMAIN d.events = 1..m + 1
      /\ \A i \in 1..m : d.events[i] = c.events[i]
  BY <1>1, <1>2, AppendProperties DEF Contract
<1>4. EventRoots(d) = EventRoots(c) \cup {e.newRoot}
  BY <1>3 DEF EventRoots
<1>5. FrameRoots(st, n + 1) = FrameRoots(tt, n) \cup {e.newRoot}
  BY DEF FrameRoots
<1>6. NewRoots(d) = NewRoots(c)
  BY DEF NewRoots
<1>7. NewRoots(d) = EventRoots(d) \cup FrameRoots(tt, n)
  BY <1>1, <1>4, <1>5, <1>6 DEF Announced
<1>8. Len(d.settled) = Len(d.events) + n
  <2>1. Len(c.settled) = m + (n + 1)
    BY <1>1, <1>2 DEF Announced
  <2>2. QED
    BY <1>3, <2>1
<1>9. SettlementsChained(d)
  BY DEF Sound, SettlementsChained
<1>10. QED
  BY <1>7, <1>8, <1>9 DEF Sound, Announced

\* A frame is left.
LEMMA PopFrame ==
  ASSUME NEW st \in Seq(Frame), st # <<>>
  PROVE  /\ Len(st) \in Nat \ {0}
         /\ SubSeq(st, 1, Len(st) - 1) \in Seq(Frame)
         /\ Len(SubSeq(st, 1, Len(st) - 1)) = Len(st) - 1
         /\ \A i \in 1..Len(st) - 1 : SubSeq(st, 1, Len(st) - 1)[i] = st[i]
<1>1. Len(st) \in Nat \ {0}
  OBVIOUS
<1>2. PICK n : n = Len(st) - 1
  OBVIOUS
<1>3. n \in Nat /\ n <= Len(st) /\ 1 \in 1..Len(st) + 1 /\ n \in 0..Len(st)
  BY <1>1, <1>2
<1>4. /\ SubSeq(st, 1, n) \in Seq(Frame)
      /\ Len(SubSeq(st, 1, n)) = IF 1 <= n THEN n - 1 + 1 ELSE 0
      /\ \A i \in 1..n - 1 + 1 : SubSeq(st, 1, n)[i] = st[1 + i - 1]
  BY <1>3, SubSeqProperties
<1>5. n - 1 + 1 = n /\ Len(SubSeq(st, 1, n)) = n
  BY <1>3, <1>4
<1>6. ASSUME NEW i \in 1..n
      PROVE  SubSeq(st, 1, n)[i] = st[i]
  <2>1. 1 + i - 1 = i
    BY <1>3
  <2>2. QED
    BY <1>4, <1>5, <2>1
<1>7. QED
  BY <1>1, <1>2, <1>4, <1>5, <1>6

-----------------------------------------------------------------------------
(* Every step keeps the invariant.                                         *)

\* The contract as deployed satisfies the invariant.
LEMMA InitInv == Init => Inv
BY OpenBlobAssumption
   DEF Init, Inv, Sound, SavedSound, Announced, NewRoots, EventRoots, FrameRoots,
       SettlementsChained, Contract, NoRoot, Event, Frame

\* deposit keeps the invariant.
LEMMA DepositInv ==
  ASSUME Inv, NEW u \in Users, NEW v \in 1..MaxDeposit, deposit(u, v)
  PROVE  Inv'
<1>1. PICK c, d, st : c = contract /\ d = contract' /\ st = stack
  OBVIOUS
<1>2. /\ Sound(c, st, Len(st)) /\ SavedSound(st) /\ st \in Seq(Frame) /\ c \in Contract
  BY <1>1 DEF Inv, Sound
<1>3. d = [c EXCEPT !.balances[u] = @ + v, !.ether = @ + v]
  BY <1>1 DEF deposit
<1>4. d.openBlobRoot = c.openBlobRoot /\ d.settled = c.settled /\ d.events = c.events
  BY <1>2, <1>3 DEF Contract
<1>5. d \in Contract
  <2>1. v \in Nat /\ c.ether + v \in Nat /\ c.balances[u] + v \in Nat
    BY <1>2, OpenBlobAssumption DEF Contract
  <2>2. [c.balances EXCEPT ![u] = @ + v] \in [Users -> Nat]
    BY <1>2, <2>1 DEF Contract
  <2>3. QED
    BY <1>2, <1>3, <2>1, <2>2 DEF Contract
<1>6. Sound(d, st, Len(st))
  BY <1>2, <1>4, <1>5, SoundSameHistory
<1>7. stack' = st /\ block' = block
  BY <1>1 DEF deposit
<1>8. QED
  BY <1>1, <1>2, <1>6, <1>7 DEF Inv

\* proofBlobDA, up to its payment, keeps the invariant.
LEMMA ProofInv ==
  ASSUME Inv, NEW s \in Provable, NEW n \in 0..block, proofBlobDA(s, n)
  PROVE  Inv'
<1>1. PICK c, d, st, tt : c = contract /\ d = contract' /\ st = stack /\ tt = stack'
  OBVIOUS
<1>2. PICK f : f = [statement |-> s, blockNumber |-> n, saved |-> c]
  OBVIOUS
<1>3. /\ Sound(c, st, Len(st)) /\ SavedSound(st) /\ st \in Seq(Frame) /\ c \in Contract
      /\ s \in Statement /\ n \in Nat
  BY <1>1, OpenBlobAssumption DEF Inv, Sound
<1>4. f \in Frame /\ f.statement = s /\ f.saved = c
  BY <1>2, <1>3 DEF Frame
<1>5. tt = Append(st, f) /\ block' = block /\ s.prevRoot = c.openBlobRoot
  BY <1>1, <1>2 DEF proofBlobDA
<1>6. d = [c EXCEPT !.openBlobRoot = s.newRoot, !.ether = @ - s.totalEtherPaid,
                    !.settled = Append(@, s)]
  BY <1>1 DEF proofBlobDA
<1>7. /\ d.openBlobRoot = s.newRoot /\ d.settled = Append(c.settled, s)
      /\ d.events = c.events
  BY <1>3, <1>6 DEF Contract
<1>8. d \in Contract
  <2>1. c.ether - s.totalEtherPaid \in Nat
    BY <1>1, <1>3 DEF proofBlobDA, Contract, Statement
  <2>2. s.newRoot \in Roots
    BY <1>3 DEF Statement
  <2>3. Append(c.settled, s) \in Seq(Statement)
    BY <1>3 DEF Contract
  <2>4. QED
    BY <1>3, <1>6, <2>1, <2>2, <2>3 DEF Contract
<1>9. Sound(d, tt, Len(tt))
  BY <1>3, <1>4, <1>5, <1>7, <1>8, SoundPush
<1>10. /\ tt \in Seq(Frame) /\ Len(st) \in Nat /\ Len(tt) = Len(st) + 1
       /\ tt[Len(st) + 1] = f /\ \A i \in 1..Len(st) : tt[i] = st[i]
  BY <1>3, <1>4, <1>5, AppendProperties
<1>11. \A k \in 1..Len(st) : Sound(tt[k].saved, tt, k - 1)
  <2>1. Len(st) \in 0..Len(st)
    BY <1>10
  <2>2. QED
    BY <1>3, <1>10, <2>1, SavedPrefix
<1>12. Sound(tt[Len(st) + 1].saved, tt, Len(st))
  BY <1>3, <1>4, <1>10, SoundPrefix
<1>13. SavedSound(tt)
  BY <1>10, <1>11, <1>12 DEF SavedSound
<1>14. QED
  BY <1>1, <1>5, <1>9, <1>10, <1>13 DEF Inv

\* A payment that returns keeps the invariant.
LEMMA ReturnInv ==
  ASSUME Inv, PaymentReturns
  PROVE  Inv'
<1>1. PICK c, d, st, tt : c = contract /\ d = contract' /\ st = stack /\ tt = stack'
  OBVIOUS
<1>2. /\ Sound(c, st, Len(st)) /\ SavedSound(st) /\ st \in Seq(Frame) /\ c \in Contract
      /\ st # <<>>
  BY <1>1 DEF Inv, Sound, PaymentReturns
<1>3. PICK n : n = Len(st) - 1
  OBVIOUS
<1>4. /\ n \in Nat /\ Len(st) = n + 1 /\ tt \in Seq(Frame) /\ Len(tt) = n
      /\ \A i \in 1..n : tt[i] = st[i]
  BY <1>1, <1>2, <1>3, PopFrame DEF PaymentReturns, Pop
<1>5. PICK f : f = st[n + 1] /\ f \in Frame
  BY <1>2, <1>4
<1>6. PICK e : e = [prover |-> f.statement.sender, newRoot |-> f.statement.newRoot,
                    totalExtracted |-> f.statement.totalEtherPaid,
                    blockNumber |-> f.blockNumber]
  OBVIOUS
<1>7. e \in Event /\ e.newRoot = f.statement.newRoot
  BY <1>5, <1>6 DEF Frame, Statement, Event
<1>8. d = [c EXCEPT !.events = Append(@, e)] /\ block' = block
  BY <1>1, <1>4, <1>5, <1>6 DEF PaymentReturns, Top
<1>9. /\ d.openBlobRoot = c.openBlobRoot /\ d.settled = c.settled
      /\ d.events = Append(c.events, e)
  BY <1>2, <1>8 DEF Contract
<1>10. d \in Contract
  <2>1. Append(c.events, e) \in Seq(Event)
    BY <1>2, <1>7 DEF Contract
  <2>2. QED
    BY <1>2, <1>8, <2>1 DEF Contract
<1>11. Sound(d, tt, n)
  BY <1>2, <1>4, <1>5, <1>7, <1>9, <1>10, SoundReturn
<1>12. SavedSound(tt)
  <2>1. n \in 0..Len(st) /\ Len(st) \in Nat
    BY <1>4
  <2>2. \A k \in 1..n : Sound(tt[k].saved, tt, k - 1)
    BY <1>2, <1>4, <2>1, SavedPrefix
  <2>3. QED
    BY <1>4, <2>2 DEF SavedSound
<1>13. QED
  BY <1>1, <1>4, <1>8, <1>11, <1>12 DEF Inv

\* A payment that fails keeps the invariant: what its frame saved was sound.
LEMMA FailInv ==
  ASSUME Inv, TransferFailed
  PROVE  Inv'
<1>1. PICK d, st, tt : d = contract' /\ st = stack /\ tt = stack'
  OBVIOUS
<1>2. /\ SavedSound(st) /\ st \in Seq(Frame) /\ st # <<>>
  BY <1>1 DEF Inv, TransferFailed
<1>3. PICK n : n = Len(st) - 1
  OBVIOUS
<1>4. /\ n \in Nat /\ Len(st) = n + 1 /\ tt \in Seq(Frame) /\ Len(tt) = n
      /\ \A i \in 1..n : tt[i] = st[i]
  BY <1>1, <1>2, <1>3, PopFrame DEF TransferFailed, Pop
<1>5. d = st[n + 1].saved /\ block' = block
  BY <1>1, <1>4 DEF TransferFailed, Top
<1>6. n + 1 \in 1..Len(st) /\ (n + 1) - 1 = n /\ n \in 0..Len(st) /\ Len(st) \in Nat
  BY <1>4
<1>7. Sound(d, st, n)
  BY <1>2, <1>5, <1>6 DEF SavedSound
<1>8. Sound(d, tt, n)
  BY <1>4, <1>7, SoundPrefix
<1>9. \A k \in 1..n : Sound(tt[k].saved, tt, k - 1)
  BY <1>2, <1>4, <1>6, SavedPrefix
<1>10. SavedSound(tt)
  BY <1>4, <1>9 DEF SavedSound
<1>11. QED
  BY <1>1, <1>4, <1>5, <1>8, <1>10 DEF Inv

\* Every step keeps the invariant.
LEMMA NextInv == Inv /\ [Next]_vars => Inv'
<1> SUFFICES ASSUME Inv, [Next]_vars PROVE Inv'
  OBVIOUS
<1>1. CASE NewBlock
  BY <1>1, OpenBlobAssumption DEF Inv, NewBlock
<1>2. ASSUME NEW u \in Users, NEW v \in 1..MaxDeposit, deposit(u, v) PROVE Inv'
  BY <1>2, DepositInv
<1>3. ASSUME NEW s \in Provable, NEW n \in 0..block, proofBlobDA(s, n) PROVE Inv'
  BY <1>3, ProofInv
<1>4. CASE PaymentReturns
  BY <1>4, ReturnInv
<1>5. CASE TransferFailed
  BY <1>5, FailInv
<1>6. CASE UNCHANGED vars
  BY <1>6 DEF Inv, vars
<1>7. QED
  BY <1>1, <1>2, <1>3, <1>4, <1>5, <1>6 DEF Next

\* The invariant holds of every state of every behaviour.
THEOREM InvHolds == Spec => []Inv
BY InitInv, NextInv, PTL DEF Spec

-----------------------------------------------------------------------------
(* What it implies.                                                        *)

\* The contract, the block number and the payments under way keep their types.
THEOREM TypeCorrect == Spec => []TypeOK
<1>1. Inv => TypeOK
  BY DEF Inv, Sound, TypeOK
<1>2. QED
  BY <1>1, InvHolds, PTL

\* The settlements that stand form one chain from the empty root to the current
\* one, however deep payments nest and wherever they fail.
THEOREM RootChained == Spec => []RootIsChained
<1>1. Inv => RootIsChained
  BY DEF Inv, Sound, RootIsChained
<1>2. QED
  BY <1>1, InvHolds, PTL

\* Every settlement that stands has its one event, or its payment is under way.
THEOREM EventsMatch == Spec => []EventsMatchSettlements
<1>1. ASSUME Inv PROVE EventsMatchSettlements
  <2>1. Announced(contract, stack, Len(stack)) /\ stack \in Seq(Frame)
    BY <1>1 DEF Inv, Sound
  <2>2. DOMAIN stack = 1..Len(stack)
    BY <2>1
  <2>3. Len(contract.settled) = Len(contract.events) + Len(stack)
    BY <2>1 DEF Announced
  <2>4. NewRoots(contract) = EventRoots(contract) \cup FrameRoots(stack, Len(stack))
    BY <2>1 DEF Announced
  <2>5. FrameRoots(stack, Len(stack)) = {stack[i].statement.newRoot : i \in DOMAIN stack}
    BY <2>2 DEF FrameRoots
  <2>6. QED
    BY <2>3, <2>4, <2>5, Zenon DEF NewRoots, EventRoots, EventsMatchSettlements
<1>2. QED
  BY <1>1, InvHolds, PTL

-----------------------------------------------------------------------------
(* How often a root is settled against.                                    *)

\* The settlements against root r, those that led to it, and the times it came
\* about: time 0 is that of the empty root.
Against(c, r) == {i \in DOMAIN c.settled : c.settled[i].prevRoot = r}
LedTo(c, r) == {i \in DOMAIN c.settled : c.settled[i].newRoot = r}
CameAbout(c, r) == LedTo(c, r) \cup IF r = NoRoot THEN {0} ELSE {}

\* A root comes about by settlements, and the empty one once more.
LEMMA ComingsCounted ==
  ASSUME NEW c \in Contract, NEW r
  PROVE  /\ IsFiniteSet(CameAbout(c, r))
         /\ Cardinality(LedTo(c, r)) \in Nat
         /\ Cardinality(CameAbout(c, r)) =
              Cardinality(LedTo(c, r)) + (IF r = NoRoot THEN 1 ELSE 0)
<1>1. PICK n \in Nat : n = Len(c.settled) /\ DOMAIN c.settled = 1..n
  BY DEF Contract
<1>2. IsFiniteSet(1..n) /\ LedTo(c, r) \in SUBSET (1..n)
  BY <1>1, FS_Interval DEF LedTo
<1>3. IsFiniteSet(LedTo(c, r))
  BY <1>2, FS_Subset
<1>4. Cardinality(LedTo(c, r)) \in Nat
  BY <1>3, FS_CardinalityType
<1>5. 0 \notin LedTo(c, r)
  BY <1>2
<1>6. CASE r = NoRoot
  BY <1>3, <1>4, <1>5, <1>6, FS_AddElement DEF CameAbout
<1>7. CASE r # NoRoot
  <2>1. CameAbout(c, r) = LedTo(c, r)
    BY <1>7 DEF CameAbout
  <2>2. QED
    BY <2>1, <1>3, <1>4, <1>7
<1>8. QED
  BY <1>6, <1>7

\* Settlement i + 1 is against the root that came about at time i, and every time
\* but the last is that of such a settlement.
LEMMA UsesFollowComings ==
  ASSUME NEW c \in Contract, SettlementsChained(c), NEW r
  PROVE  ExistsBijection(CameAbout(c, r) \ {Len(c.settled)}, Against(c, r))
<1>1. PICK n \in Nat : n = Len(c.settled) /\ DOMAIN c.settled = 1..n
  BY DEF Contract
<1> DEFINE S == CameAbout(c, r) \ {n}
           f == [i \in S |-> i + 1]
<1>2. S \subseteq 0..(n - 1)
  BY <1>1 DEF CameAbout, LedTo
<1>3. ASSUME NEW i \in 0..(n - 1)
      PROVE  i \in CameAbout(c, r) <=> c.settled[i + 1].prevRoot = r
  <2>1. i + 1 \in 1..n
    BY <1>1
  <2>2. c.settled[i + 1].prevRoot = IF i + 1 = 1 THEN NoRoot ELSE c.settled[i].newRoot
    BY <1>1, <2>1 DEF SettlementsChained
  <2>3. CASE i = 0
    BY <1>1, <2>2, <2>3 DEF CameAbout, LedTo
  <2>4. CASE i # 0
    <3>1. i \in 1..n
      BY <1>1, <2>4
    <3>2. QED
      BY <1>1, <2>2, <2>4, <3>1 DEF CameAbout, LedTo
  <2>5. QED
    BY <2>3, <2>4
<1>4. f \in [S -> Against(c, r)]
  BY <1>1, <1>2, <1>3 DEF Against
<1>5. \A i, j \in S : f[i] = f[j] => i = j
  BY <1>2
<1>6. ASSUME NEW k \in Against(c, r)
      PROVE  \E i \in S : f[i] = k
  <2>1. k \in 1..n /\ c.settled[k].prevRoot = r
    BY <1>1 DEF Against
  <2>2. k - 1 \in 0..(n - 1) /\ (k - 1) + 1 = k
    BY <1>1, <2>1
  <2>3. k - 1 \in S
    BY <1>3, <2>1, <2>2
  <2>4. QED
    BY <2>2, <2>3
<1>7. f \in Bijection(S, Against(c, r))
  BY <1>4, <1>5, <1>6 DEF Bijection, Injection, Surjection, IsInjective
<1>8. QED
  BY <1>1, <1>7 DEF ExistsBijection

\* Whatever the circuit proves, and at any depth of nested and failing payments,
\* each settlement uses up the root it was proven against (prevRoot == currentRoot
\* in proofBlobDA): no root is settled against more often than it came about.
THEOREM RootsUsedUp == Spec => []RootsAreUsedUp
<1>1. ASSUME Inv, NEW r \in Roots
      PROVE  Cardinality(Against(contract, r)) + (IF contract.openBlobRoot = r THEN 1 ELSE 0)
               = Cardinality(LedTo(contract, r)) + (IF r = NoRoot THEN 1 ELSE 0)
  <2>1. PICK c : c = contract /\ c \in Contract /\ SettlementsChained(c)
    BY <1>1 DEF Inv, Sound
  <2>2. PICK n \in Nat : n = Len(c.settled) /\ DOMAIN c.settled = 1..n
    BY <2>1 DEF Contract
  <2>3. n \in CameAbout(c, r) <=> c.openBlobRoot = r
    <3>1. CASE n = 0
      BY <2>1, <2>2, <3>1 DEF SettlementsChained, CameAbout, LedTo
    <3>2. CASE n # 0
      <4>1. n \in 1..n /\ c.openBlobRoot = c.settled[n].newRoot
        BY <2>1, <2>2, <3>2 DEF SettlementsChained
      <4>2. QED
        BY <2>2, <3>2, <4>1 DEF CameAbout, LedTo
    <3>3. QED
      BY <3>1, <3>2
  <2>4. IsFiniteSet(CameAbout(c, r)) /\ Cardinality(LedTo(c, r)) \in Nat
        /\ Cardinality(CameAbout(c, r)) =
             Cardinality(LedTo(c, r)) + (IF r = NoRoot THEN 1 ELSE 0)
    BY <2>1, ComingsCounted
  <2>5. IsFiniteSet(CameAbout(c, r) \ {n})
        /\ Cardinality(CameAbout(c, r) \ {n}) =
             IF n \in CameAbout(c, r) THEN Cardinality(CameAbout(c, r)) - 1
             ELSE Cardinality(CameAbout(c, r))
    BY <2>4, FS_RemoveElement
  <2>6. Cardinality(Against(c, r)) = Cardinality(CameAbout(c, r) \ {n})
    BY <2>1, <2>2, <2>5, UsesFollowComings, FS_Bijection
  <2>7. Cardinality(Against(c, r)) + (IF c.openBlobRoot = r THEN 1 ELSE 0)
          = Cardinality(LedTo(c, r)) + (IF r = NoRoot THEN 1 ELSE 0)
    BY <2>3, <2>4, <2>5, <2>6
  <2>8. QED
    BY <2>1, <2>7
<1>2. Inv => RootsAreUsedUp
  BY <1>1 DEF RootsAreUsedUp, Against, LedTo
<1>3. QED
  BY <1>2, InvHolds, PTL

-----------------------------------------------------------------------------
(* Where the ether is.                                                     *)

\* What each settlement has paid.
Payments(c) == [i \in DOMAIN c.settled |-> c.settled[i].totalEtherPaid]

\* The ether of c is accounted for.
Accounted(c) == c.ether + PaidOut(c) = Deposited(c)

AccountedInv ==
  /\ Accounted(contract)
  /\ \A k \in 1..Len(stack) : Accounted(stack[k].saved)

\* The settlements are a finite sequence of payments.
LEMMA PaymentsTyped ==
  ASSUME NEW c \in Contract
  PROVE  /\ IsFiniteSet(DOMAIN c.settled)
         /\ \A i \in DOMAIN c.settled : Payments(c)[i] \in Nat
<1>1. c.settled \in Seq(Statement)
  BY DEF Contract
<1>2. Len(c.settled) \in Nat /\ DOMAIN c.settled = 1..Len(c.settled)
  BY <1>1
<1>3. ASSUME NEW i \in DOMAIN c.settled
      PROVE  Payments(c)[i] \in Nat
  <2>1. c.settled[i] \in Statement
    BY <1>1
  <2>2. QED
    BY <2>1 DEF Statement, Payments
<1>4. QED
  BY <1>2, <1>3, FS_Interval

\* PaidOut adds them up.
LEMMA PaidOutIsSum ==
  ASSUME NEW c \in Contract
  PROVE  PaidOut(c) = SumOver(Payments(c), DOMAIN c.settled)
<1> DEFINE S == DOMAIN c.settled
           g == CHOOSE iter : iter = [s \in SUBSET S |->
                  IF s = {} THEN 0
                  ELSE c.settled[CHOOSE x \in s : TRUE].totalEtherPaid
                         + iter[s \ {CHOOSE x \in s : TRUE}]]
<1>1. PaidOut(c) = g[S]
  BY DEF PaidOut, MapThenSumSet, MapThenFoldSet
<1>2. PICK h \in [SUBSET S -> Nat] : IsSum(h, Payments(c), S) /\ SumOver(Payments(c), S) = h[S]
  BY PaymentsTyped, SumIsSum
<1>3. \A s \in SUBSET S : s # {} => (CHOOSE x \in s : TRUE) \in S
  OBVIOUS
<1>4. \A x \in S : Payments(c)[x] = c.settled[x].totalEtherPaid
  BY DEF Payments
<1> HIDE DEF S
<1>5. h = [s \in SUBSET S |->
             IF s = {} THEN 0
             ELSE c.settled[CHOOSE x \in s : TRUE].totalEtherPaid
                    + h[s \ {CHOOSE x \in s : TRUE}]]
  BY <1>2, <1>3, <1>4 DEF IsSum
<1>6. g = [s \in SUBSET S |->
             IF s = {} THEN 0
             ELSE c.settled[CHOOSE x \in s : TRUE].totalEtherPaid
                    + g[s \ {CHOOSE x \in s : TRUE}]]
  BY <1>5
<1> HIDE DEF g
<1>7. IsSum(g, Payments(c), S)
  BY <1>3, <1>4, <1>6 DEF IsSum
<1>8. g[S] = h[S]
  <2>1. IsFiniteSet(S)
    BY PaymentsTyped DEF S
  <2>2. \A s \in SUBSET S : g[s] = h[s]
    BY <1>2, <1>7, <2>1, SumUnique
  <2>3. QED
    BY <2>2
<1>9. QED
  BY <1>1, <1>2, <1>8 DEF S

\* A deposit adds to what was deposited.
LEMMA DepositedGrows ==
  ASSUME NEW c \in Contract, NEW d \in Contract, NEW u \in Users, NEW v \in Nat,
         d.balances = [c.balances EXCEPT ![u] = c.balances[u] + v]
  PROVE  Deposited(d) = Deposited(c) + v /\ Deposited(c) \in Nat
<1>1. PICK f, e : f = c.balances /\ e = d.balances
  OBVIOUS
<1>2. /\ f \in [Users -> Nat] /\ e \in [Users -> Nat] /\ IsFiniteSet(Users)
      /\ e = [f EXCEPT ![u] = f[u] + v]
  BY <1>1, OpenBlobAssumption DEF Contract
<1>3. Deposited(c) = SumOver(f, Users) /\ Deposited(d) = SumOver(e, Users)
  BY <1>1 DEF Deposited, SumOver, MapThenSumSet, MapThenFoldSet
<1>4. /\ \A x \in Users : f[x] \in Nat /\ e[x] \in Nat
      /\ e[u] = f[u] + v
      /\ IsFiniteSet(Users \ {u}) /\ \A x \in Users \ {u} : f[x] = e[x]
  BY <1>2, FS_Subset
<1>5. /\ SumOver(f, Users) = f[u] + SumOver(f, Users \ {u})
      /\ SumOver(e, Users) = e[u] + SumOver(e, Users \ {u})
  <2>1. NatOn(f, Users) /\ NatOn(e, Users)
    BY <1>4 DEF NatOn
  <2>2. QED
    BY <1>2, <2>1, SumTake, ZenonT(30)
<1>6. SumOver(f, Users \ {u}) = SumOver(e, Users \ {u}) /\ SumOver(f, Users \ {u}) \in Nat
  <2>1. NatOn(f, Users \ {u}) /\ Agree(f, e, Users \ {u})
    BY <1>4 DEF NatOn, Agree
  <2>2. QED
    BY <1>4, <2>1, SumSame
<1>7. f[u] \in Nat
  BY <1>4
<1>8. QED
  BY <1>3, <1>4, <1>5, <1>6, <1>7

\* A settlement adds its payment to what was paid out.
LEMMA PaidOutGrows ==
  ASSUME NEW c \in Contract, NEW d \in Contract, NEW s \in Statement,
         d.settled = Append(c.settled, s)
  PROVE  PaidOut(d) = PaidOut(c) + s.totalEtherPaid /\ PaidOut(c) \in Nat
<1>1. PICK n : n = Len(c.settled)
  OBVIOUS
<1>2. /\ n \in Nat /\ DOMAIN c.settled = 1..n /\ DOMAIN d.settled = 1..(n + 1)
      /\ d.settled[n + 1] = s
      /\ \A i \in 1..n : d.settled[i] = c.settled[i]
  BY <1>1, AppendProperties DEF Contract
<1>3. PICK f, e : f = Payments(c) /\ e = Payments(d)
  OBVIOUS
<1>4. /\ PaidOut(c) = SumOver(f, 1..n) /\ PaidOut(d) = SumOver(e, 1..(n + 1))
      /\ IsFiniteSet(1..n) /\ IsFiniteSet(1..(n + 1))
      /\ \A i \in 1..n : f[i] \in Nat
      /\ \A i \in 1..(n + 1) : e[i] \in Nat
  BY <1>2, <1>3, PaidOutIsSum, PaymentsTyped
<1>5. e[n + 1] = s.totalEtherPaid /\ n + 1 \in 1..(n + 1) /\ \A i \in 1..n : f[i] = e[i]
  BY <1>2, <1>3 DEF Payments
<1>6. (1..(n + 1)) \ {n + 1} = 1..n
  BY <1>2
<1>7. SumOver(e, 1..(n + 1)) = e[n + 1] + SumOver(e, 1..n)
  <2>1. NatOn(e, 1..(n + 1))
    BY <1>4 DEF NatOn
  <2>2. SumOver(e, 1..(n + 1)) = e[n + 1] + SumOver(e, (1..(n + 1)) \ {n + 1})
    BY <1>4, <1>5, <2>1, SumTake
  <2>3. QED
    BY <1>6, <2>2
<1>8. SumOver(f, 1..n) = SumOver(e, 1..n) /\ SumOver(f, 1..n) \in Nat
  <2>1. NatOn(f, 1..n) /\ Agree(f, e, 1..n)
    BY <1>4, <1>5 DEF NatOn, Agree
  <2>2. QED
    BY <1>4, <2>1, SumSame
<1>9. s.totalEtherPaid \in Nat
  BY DEF Statement
<1>10. e[n + 1] \in Nat
  BY <1>4, <1>5
<1>11. QED
  BY <1>4, <1>5, <1>7, <1>8, <1>9, <1>10

\* Every step accounts for the ether, in the contract and in what is saved.
LEMMA AccountedNext ==
  ASSUME Inv, AccountedInv, [Next]_vars
  PROVE  AccountedInv'
<1>1. PICK c, d, st, tt : c = contract /\ d = contract' /\ st = stack /\ tt = stack'
  OBVIOUS
<1>2. /\ Accounted(c) /\ (\A k \in 1..Len(st) : Accounted(st[k].saved))
      /\ c \in Contract /\ st \in Seq(Frame)
  BY <1>1 DEF Inv, Sound, AccountedInv
<1>3. d \in Contract
  <2>1. Inv'
    BY NextInv
  <2>2. QED
    BY <1>1, <2>1 DEF Inv, Sound
<1>4. SUFFICES Accounted(d) /\ \A k \in 1..Len(tt) : Accounted(tt[k].saved)
  BY <1>1 DEF AccountedInv
<1>5. ASSUME st # <<>>, tt = SubSeq(st, 1, Len(st) - 1)
      PROVE  \A k \in 1..Len(tt) : Accounted(tt[k].saved)
  <2>1. PICK n : n = Len(st) - 1
    OBVIOUS
  <2>2. n \in Nat /\ Len(st) = n + 1 /\ Len(tt) = n /\ \A i \in 1..n : tt[i] = st[i]
    BY <1>2, <1>5, <2>1, PopFrame
  <2>3. QED
    BY <1>2, <2>2
<1>6. c.ether \in Nat /\ d.ether \in Nat
  BY <1>2, <1>3 DEF Contract
<1>7. CASE NewBlock
  BY <1>1, <1>2, <1>7 DEF NewBlock
<1>8. ASSUME NEW u \in Users, NEW v \in 1..MaxDeposit, deposit(u, v)
      PROVE  Accounted(d) /\ tt = st
  <2>1. /\ d.settled = c.settled /\ d.ether = c.ether + v /\ tt = st
        /\ d.balances = [c.balances EXCEPT ![u] = c.balances[u] + v]
    BY <1>1, <1>2, <1>8 DEF deposit, Contract
  <2>2. v \in Nat
    BY OpenBlobAssumption
  <2>3. Deposited(d) = Deposited(c) + v /\ Deposited(c) \in Nat
    BY <1>2, <1>3, <2>1, <2>2, DepositedGrows
  <2>4. PaidOut(d) = PaidOut(c)
    BY <2>1 DEF PaidOut, MapThenSumSet, MapThenFoldSet
  <2>5. PaidOut(c) \in Nat
    <3>1. PaidOut(c) = SumOver(Payments(c), DOMAIN c.settled)
      BY <1>2, PaidOutIsSum
    <3>2. QED
      BY <1>2, <3>1, PaymentsTyped, SumStep
  <2>6. QED
    BY <1>2, <1>6, <2>1, <2>2, <2>3, <2>4, <2>5 DEF Accounted
<1>9. ASSUME NEW s \in Provable, NEW n \in 0..block, proofBlobDA(s, n)
      PROVE  Accounted(d) /\ \A k \in 1..Len(tt) : Accounted(tt[k].saved)
  <2>1. PICK f : f = [statement |-> s, blockNumber |-> n, saved |-> c]
    OBVIOUS
  <2>2. s \in Statement /\ n \in Nat /\ s.totalEtherPaid \in Nat
    BY <1>1, OpenBlobAssumption DEF Inv, Statement
  <2>3. f \in Frame /\ f.saved = c
    BY <1>2, <2>1, <2>2 DEF Frame
  <2>4. tt = Append(st, f)
    BY <1>1, <1>9, <2>1 DEF proofBlobDA
  <2>5. /\ d.ether = c.ether - s.totalEtherPaid /\ d.balances = c.balances
        /\ d.settled = Append(c.settled, s)
    BY <1>1, <1>2, <1>9 DEF proofBlobDA, Contract
  <2>6. PaidOut(d) = PaidOut(c) + s.totalEtherPaid /\ PaidOut(c) \in Nat
    BY <1>2, <1>3, <2>2, <2>5, PaidOutGrows
  <2>7. Deposited(d) = Deposited(c)
    BY <2>5 DEF Deposited, MapThenSumSet, MapThenFoldSet
  <2>8. Accounted(d)
    BY <1>2, <1>6, <2>2, <2>5, <2>6, <2>7 DEF Accounted
  <2>9. /\ Len(st) \in Nat /\ Len(tt) = Len(st) + 1 /\ tt[Len(st) + 1] = f
        /\ \A i \in 1..Len(st) : tt[i] = st[i]
    BY <1>2, <2>3, <2>4, AppendProperties
  <2>10. QED
    BY <1>2, <2>3, <2>8, <2>9
<1>10. CASE PaymentReturns
  <2>1. d.settled = c.settled /\ d.ether = c.ether /\ d.balances = c.balances
    BY <1>1, <1>2, <1>10 DEF PaymentReturns, Contract
  <2>2. PaidOut(d) = PaidOut(c) /\ Deposited(d) = Deposited(c)
    BY <2>1 DEF PaidOut, Deposited, MapThenSumSet, MapThenFoldSet
  <2>3. Accounted(d)
    BY <1>2, <2>1, <2>2 DEF Accounted
  <2>4. QED
    BY <1>1, <1>5, <1>10, <2>3 DEF PaymentReturns, Pop
<1>11. CASE TransferFailed
  <2>1. d = st[Len(st)].saved /\ st # <<>> /\ tt = SubSeq(st, 1, Len(st) - 1)
    BY <1>1, <1>11 DEF TransferFailed, Top, Pop
  <2>2. Len(st) \in 1..Len(st)
    BY <1>2, <2>1, PopFrame
  <2>3. QED
    BY <1>2, <1>5, <2>1, <2>2
<1>12. CASE UNCHANGED vars
  BY <1>1, <1>2, <1>12 DEF vars
<1>13. QED
  BY <1>2, <1>7, <1>8, <1>9, <1>10, <1>11, <1>12 DEF Next

\* At first there is none.
LEMMA AccountedInit == Init => AccountedInv
<1> SUFFICES ASSUME Init PROVE AccountedInv
  OBVIOUS
<1>1. PICK c : c = contract
  OBVIOUS
<1>2. /\ c.ether = 0 /\ c.settled = <<>> /\ c.balances = [u \in Users |-> 0] /\ stack = <<>>
      /\ c \in Contract
  BY <1>1, InitInv DEF Init, Inv, Sound
<1>3. PaidOut(c) = 0
  <2>1. PaidOut(c) = SumOver(Payments(c), {})
    BY <1>2, PaidOutIsSum
  <2>2. QED
    BY <2>1, FS_EmptySet, SumStep
<1>4. Deposited(c) = 0
  <2> DEFINE Zero == {S \in SUBSET Users : SumOver(c.balances, S) = 0}
  <2>1. ASSUME NEW S \in SUBSET Users,
               \A T \in SUBSET Users : Cardinality(T) < Cardinality(S) => T \in Zero
        PROVE  S \in Zero
    <3>1. IsFiniteSet(S) /\ \A u \in S : c.balances[u] = 0 /\ c.balances[u] \in Nat
      BY <1>2, OpenBlobAssumption, FS_Subset
    <3>2. CASE S = {}
      BY <3>1, <3>2, SumStep
    <3>3. CASE S # {}
      <4>1. PICK u \in S : SumOver(c.balances, S) = c.balances[u] + SumOver(c.balances, S \ {u})
        BY <3>1, <3>3, SumStep
      <4>2. Cardinality(S \ {u}) < Cardinality(S)
        BY <3>1, Smaller
      <4>3. S \ {u} \in Zero
        BY <2>1, <4>2
      <4>4. QED
        BY <3>1, <4>1, <4>3
    <3>4. QED
      BY <3>2, <3>3
  <2>2. \A S \in SUBSET Users : S \in Zero
    <3>1. Zero \in SUBSET SUBSET Users
      OBVIOUS
    <3> HIDE DEF Zero
    <3>2. QED
      BY <2>1, <3>1, OpenBlobAssumption, SizeInduct
  <2>3. Deposited(c) = SumOver(c.balances, Users)
    BY DEF Deposited, SumOver, MapThenSumSet, MapThenFoldSet
  <2>4. QED
    BY <2>2, <2>3
<1>5. QED
  BY <1>1, <1>2, <1>3, <1>4 DEF AccountedInv, Accounted

\* The ether held is what was deposited less what the settlements that stand
\* have paid, in the middle of nested and failing payments as well.
THEOREM EtherIsAccounted == Spec => []EtherAccounted
<1>1. AccountedInv => EtherAccounted
  BY DEF AccountedInv, Accounted, EtherAccounted
<1>2. Inv /\ AccountedInv /\ [Next]_vars => AccountedInv'
  BY AccountedNext
<1>3. QED
  BY <1>1, <1>2, AccountedInit, InvHolds, PTL DEF Spec
=============================================================================
