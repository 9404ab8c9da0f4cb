------------------------------- MODULE Prover -------------------------------
(***************************************************************************)
(* The prover: the host fetches the blobs of the referenced transactions   *)
(* (BlobSync), builds the inputs of the guest around them, or takes the    *)
(* sample inputs, and has the guest proved over.  The guest is the program *)
(* of the circuit: it panics, and there is no proof, or commits an output. *)
(*                                                                         *)
(* prev_root, new_root, block_hash and msg_sender are the same in all      *)
(* inputs the host builds, and left out.  Hashes have no collisions: a     *)
(* digest is what it is the digest of.                                     *)
(***************************************************************************)
EXTENDS BlobSync, Encoding

CONSTANTS Content,          \* the raw blob of each commitment
          AuthLists,        \* the entry_auths the host may be built with
          SampleEntries,    \* of sample_inputs, with the amounts
          SampleAmounts,
          SampleRef,
          Signers, Anvil,   \* Anvil is the signer of the sample
          Stranger,         \* whoever a signature of other data recovers
          MaxEther          \* U256::MAX

\* recoverable: r and s are those of a signature, so that a key can be recovered.
EntryAuths == [signer : Signers, data : Seq(Bytes), v : Nat, low_s : BOOLEAN,
               recoverable : BOOLEAN, ether_amount : 0..MaxEther]

ASSUME ProverAssumption ==
  /\ Content \in [Commitments -> [1..BLOB_RAW_BYTES -> Bytes]]
  /\ AuthLists \subseteq Seq(EntryAuths)
  /\ VerifyKzg               \* FetchConfig::new has it on, and the host leaves it
  /\ SampleEntries \in Seq(Seq(Bytes) \ {<<>>})
  \* They are a few letters: they encode to bytes, in one blob.
  /\ encode_entries(SampleEntries) \in Seq(Bytes)
  /\ Len(encode_entries(SampleEntries)) <= BLOB_PAYLOAD_BYTES
  /\ SampleAmounts \in [DOMAIN SampleEntries -> 0..MaxEther]
  /\ SampleRef \in [block : Blocks, tx : Nat]
  /\ MaxEther \in Nat
  /\ Anvil \in Signers /\ Stranger \notin Signers

VARIABLES host,             \* where the host is; BlobSync has the details of "fetching"
          inputs,           \* what it writes for the guest: nothing, or one GuestInputs
          output            \* what the guest commits: nothing, or one Output

proverVars == <<host, inputs, output>>

GuestInputs == [blobs : Seq([block : Blocks, tx : Nat]), total_ether_paid : 0..MaxEther,
                expected_public_inputs_hash : Seq([block : Blocks, tx : Nat]) \X (0..MaxEther),
                blob_data : Seq(Bytes), entry_auths : Seq(EntryAuths)]

Output == [publicInputsHash : Seq([block : Blocks, tx : Nat]) \X (0..MaxEther),
           valid : {TRUE},
           totalEtherAccumulated : 0..MaxEther,
           signersHash : Seq(Signers \cup {Stranger})]

ProverTypeOK ==
  /\ TypeOK
  /\ host \in {"fetching", "proving", "proved", "panicked", "failed"}
  /\ inputs \in Seq(GuestInputs) /\ Len(inputs) = (IF host = "fetching" THEN 0 ELSE 1)
  /\ output \in Seq(Output) /\ Len(output) = (IF host = "proved" THEN 1 ELSE 0)

-----------------------------------------------------------------------------
(* The common library.                                                     *)

\* recover does not panic: v is 27 or 28, s is low, and ecrecover finds a key.
Recovers(auth) == auth.v \in {27, 28} /\ auth.low_s /\ auth.recoverable

recover(auth, data) == IF auth.data = data THEN auth.signer ELSE Stranger

sum_ether(auths) ==
  FoldSeq(LAMBDA auth, acc : Min({acc + auth.ether_amount, MaxEther}), 0, auths)

keccak_signers(signers) == signers

compute_public_inputs_hash(blobs, total_ether_paid) == <<blobs, total_ether_paid>>

sign_eip191(signer, data) ==
  [signer |-> signer, data |-> data, v |-> 27, low_s |-> TRUE, recoverable |-> TRUE,
   ether_amount |-> 0]

sign_entry(signer, data, amount) == [sign_eip191(signer, data) EXCEPT !.ether_amount = amount]

sample_inputs ==
  LET auths == [i \in DOMAIN SampleEntries |->
                  sign_entry(Anvil, SampleEntries[i], SampleAmounts[i])]
      total == sum_ether(auths)
  IN [blobs |-> <<SampleRef>>, total_ether_paid |-> total,
      expected_public_inputs_hash |-> compute_public_inputs_hash(<<SampleRef>>, total),
      blob_data |-> pack_blob(encode_entries(SampleEntries)), entry_auths |-> auths]

-----------------------------------------------------------------------------
(* The host.                                                               *)

\* One of L1_RPC, L1_BEACON_RPC and BLOB_REFS is not set.
UseSample ==
  /\ host = "fetching" /\ pc = "start"
  /\ host' = "proving"
  /\ inputs' = <<sample_inputs>>
  /\ UNCHANGED <<vars, output>>

Fetch ==
  /\ host = "fetching"
  /\ Next
  /\ UNCHANGED proverVars

fetch_blob_data == FlattenSeq([i \in DOMAIN bundles |-> Content[bundles[i].raw]])

\* A slip: the digest stays the sample's.
BuildInputsStale(auths) ==
  /\ host = "fetching" /\ pc = "ok"
  /\ host' = "proving"
  /\ inputs' = <<[sample_inputs EXCEPT !.blobs = refs, !.blob_data = fetch_blob_data,
                                       !.entry_auths = auths]>>
  /\ UNCHANGED <<vars, output>>

\* The sample with the fetched blobs in it and the auths that match them.
BuildInputs(auths) ==
  /\ host = "fetching" /\ pc = "ok"
  /\ host' = "proving"
  /\ inputs' = <<[sample_inputs EXCEPT
       !.blobs = refs, !.blob_data = fetch_blob_data, !.entry_auths = auths,
       !.expected_public_inputs_hash =
          compute_public_inputs_hash(refs, sample_inputs.total_ether_paid)]>>
  /\ UNCHANGED <<vars, output>>

\* A call of the ZisK client fails, on any inputs.
SdkFails ==
  /\ host = "proving"
  /\ host' = "failed"
  /\ UNCHANGED <<vars, inputs, output>>

-----------------------------------------------------------------------------
(* The guest, on the inputs in.                                            *)

StreamOf(in) == unpack_blobs(in.blob_data, Len(in.blobs))

Entries(in) == decode_entries(StreamOf(in))

\* A slip: the entries without an auth are passed over.
AcceptsFewerAuths(in) ==
  /\ compute_public_inputs_hash(in.blobs, in.total_ether_paid) = in.expected_public_inputs_hash
  /\ Unpacks(in.blob_data, Len(in.blobs))
  /\ EntriesDecode(StreamOf(in))
  /\ Len(Entries(in)) >= Len(in.entry_auths)
  /\ \A i \in DOMAIN in.entry_auths : Recovers(in.entry_auths[i])

\* All of its assertions hold.
Accepts(in) ==
  /\ compute_public_inputs_hash(in.blobs, in.total_ether_paid) = in.expected_public_inputs_hash
  /\ Unpacks(in.blob_data, Len(in.blobs))
  /\ EntriesDecode(StreamOf(in))
  /\ Len(Entries(in)) = Len(in.entry_auths)
  /\ \A i \in DOMAIN in.entry_auths : Recovers(in.entry_auths[i])

Commit(in) ==
  [publicInputsHash |-> compute_public_inputs_hash(in.blobs, in.total_ether_paid),
   valid |-> TRUE,
   totalEtherAccumulated |-> sum_ether(in.entry_auths),
   signersHash |-> keccak_signers([i \in DOMAIN in.entry_auths |->
                                     recover(in.entry_auths[i], Entries(in)[i])])]

Prove ==
  /\ host = "proving"
  /\ IF Accepts(inputs[1])
     THEN host' = "proved" /\ output' = <<Commit(inputs[1])>>
     ELSE host' = "panicked" /\ UNCHANGED output
  /\ UNCHANGED <<vars, inputs>>

ProverInit == Init /\ host = "fetching" /\ inputs = <<>> /\ output = <<>>

ProverNext ==
  \/ UseSample \/ Fetch
  \/ \E auths \in AuthLists : BuildInputs(auths)
  \/ SdkFails \/ Prove

\* Requests are answered or fail, and so are the calls of the client.
ProverSpec ==
  ProverInit /\ [][ProverNext]_<<vars, proverVars>> /\ WF_<<vars, proverVars>>(ProverNext)

-----------------------------------------------------------------------------
(* Properties.                                                             *)

Real == pc = "ok"

Auths == inputs[1].entry_auths

DataOf(auths) == [i \in DOMAIN auths |-> auths[i].data]

\* The bytes that L1 says the references stand for.
Committed ==
  FlattenSeq([k \in DOMAIN refs |->
    FlattenSeq([i \in DOMAIN Referenced(refs[k]) |->
      unpack_blob(Content[Referenced(refs[k])[i][4]])])])

\* A proof whose signers are all known is about what is on chain: the stream
\* that the referenced transactions committed to begins with the list of exactly
\* the data these signers signed, in that order, though the blobs came from a
\* beacon node that may answer anything.  Its digest names these transactions,
\* and its total is the sum of the amounts, or the ceiling when that is lower.
ProofIsOfCommittedBatch ==
  Real /\ host = "proved" =>
    LET sum == SumFunction([i \in DOMAIN Auths |-> Auths[i].ether_amount])
    IN /\ Stranger \notin ToSet(output[1].signersHash) =>
            IsPrefix(encode_entries(DataOf(Auths)), Committed)
       /\ output[1].publicInputsHash[1] = refs
       /\ output[1].totalEtherAccumulated = (IF sum < MaxEther THEN sum ELSE MaxEther)

\* The host's inputs are honest: well-formed signatures over the entries that the
\* blobs of the referenced transactions carry.
SignedAsCommitted ==
  /\ refs # <<>>
  /\ \A i \in DOMAIN Auths : Recovers(Auths[i]) /\ Auths[i].data # <<>>
  /\ \A k \in DOMAIN refs : \A i \in DOMAIN Referenced(refs[k]) :
       Canonical(Content[Referenced(refs[k])[i][4]])
  /\ IsPrefix(encode_entries(DataOf(Auths)), Committed)

OneBlobEach == \A k \in DOMAIN refs : Len(Referenced(refs[k])) = 1

\* The converse: honest inputs about transactions of one blob each are proved
\* over, and so is the sample.
HonestInputsProve == host = "panicked" => Real /\ ~(SignedAsCommitted /\ OneBlobEach)

\* The same of transactions of any number of blobs, which specs/spec.md:56-70 has
\* carry one stream of entries, and the guest says it reads (main.rs:7-8).  The
\* code does not keep it: the host fetches all blobs of a transaction, and the
\* guest wants exactly one for each reference.
SpanningInputsProve == host = "panicked" => ~SignedAsCommitted

\* The host comes to an end: with a proof, a panic of the guest or an error.
HostEnds == <>(pc = "err" \/ host \in {"proved", "panicked", "failed"})
=============================================================================
