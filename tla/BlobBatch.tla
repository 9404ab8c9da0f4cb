----------------------------- MODULE BlobBatch -----------------------------
(***************************************************************************)
(* A batch on its way into a transaction and out again: publishMicroblobs  *)
(* encodes the signed texts and sends their blobs, or fails; the guest     *)
(* unpacks the blobs of the transaction and decodes the entries.  What     *)
(* others put into blobs is read as well.                                  *)
(*                                                                         *)
(* publishMicroblobs means to trim the tail of a batch that takes more     *)
(* than MAX_BLOBS_PER_TX blobs.  viem has the same limit, and its toBlobs  *)
(* throws on such a batch: the loop that trims, and the error for a single *)
(* text that is too large, are never reached, and have no action here.     *)
(*                                                                         *)
(* A text is the sequence of its bytes.  One byte stands for "0x" and one  *)
(* for the two digits of a byte.                                           *)
(***************************************************************************)
EXTENDS Encoding

CONSTANTS Batches,          \* the texts a tick may list, with at least one each
          ForeignBlobs,     \* raw blobs of other transactions
          HexMark,          \* the byte that stands for "0x"
          HexDigits,
          MAX_BLOBS_PER_TX  \* the collector's limit, and that of toBlobs

ASSUME BlobBatchAssumption ==
  /\ Batches \subseteq Seq(Seq(Bytes) \ {<<>>}) \ {<<>>}
  /\ ForeignBlobs \subseteq [1..BLOB_RAW_BYTES -> Bytes]
  /\ HexMark \in Bytes
  /\ HexDigits \subseteq Bytes
  /\ MAX_BLOBS_PER_TX \in Nat \ {0}

VARIABLES stage,            \* where the batch is
          microblobs,       \* the texts the publisher was given
          blobs,            \* of the transaction
          entries           \* what the guest decoded

vars == <<stage, microblobs, blobs, entries>>

TypeOK ==
  /\ stage \in {"given", "refused", "sent", "read", "panicked"}
  /\ microblobs \in Batches \cup {<<>>}
  /\ blobs \in Seq([1..BLOB_RAW_BYTES -> Bytes])
  /\ stage \in {"sent", "read", "panicked"} => Len(blobs) \in 1..MAX_BLOBS_PER_TX
  /\ entries \in Seq(Seq(Bytes))

-----------------------------------------------------------------------------
LooksHex(text) == text[1] = HexMark /\ \A i \in 2..Len(text) : text[i] \in HexDigits

\* A slip: whatever begins with 0x is taken as hex.
ToBytesByMark(text) == IF text[1] = HexMark THEN Tail(text) ELSE text

\* toBytes of viem: the bytes a hex text denotes, or else the text's own.
toBytes(text) == IF LooksHex(text) THEN Tail(text) ELSE text

DataOf(texts) == [i \in DOMAIN texts |-> toBytes(texts[i])]

encodeMicroblobsRlp(texts) == encode_entries(DataOf(texts))

\* The lengths fit the one byte that stands for them.
ASSUME LengthsAssumption ==
  \A texts \in Batches : encodeMicroblobsRlp(texts) \in Seq(Bytes)

Init ==
  /\ \/ stage = "given" /\ microblobs \in Batches /\ blobs = <<>>
     \/ stage = "sent" /\ microblobs = <<>> /\ \E blob \in ForeignBlobs : blobs = <<blob>>
  /\ entries = <<>>

\* toBlobs throws.
Refuse ==
  /\ stage = "given"
  /\ ~ToBlobsTakes(encodeMicroblobsRlp(microblobs), MAX_BLOBS_PER_TX)
  /\ stage' = "refused"
  /\ UNCHANGED <<microblobs, blobs, entries>>

Send ==
  /\ stage = "given"
  /\ ToBlobsTakes(encodeMicroblobsRlp(microblobs), MAX_BLOBS_PER_TX)
  /\ stage' = "sent"
  /\ blobs' = toBlobs(encodeMicroblobsRlp(microblobs))
  /\ UNCHANGED <<microblobs, entries>>

Stream == unpack_blobs(FlattenSeq(blobs), Len(blobs))

\* The guest on the blobs of the transaction: their entries, or a panic.
Read ==
  /\ stage = "sent"
  /\ IF Unpacks(FlattenSeq(blobs), Len(blobs)) /\ EntriesDecode(Stream)
     THEN stage' = "read" /\ entries' = decode_entries(Stream)
     ELSE stage' = "panicked" /\ UNCHANGED entries
  /\ UNCHANGED <<microblobs, blobs>>

Next == Refuse \/ Send \/ Read

Spec == Init /\ [][Next]_vars

-----------------------------------------------------------------------------
(* Properties.                                                             *)

\* The publisher gives a batch up only when its first text does not fit alone:
\* of any other it trims the tail, and sends the rest.
OnlyLoneTextRefused ==
  stage = "refused" => ~ToBlobsTakes(encodeMicroblobsRlp(<<microblobs[1]>>), MAX_BLOBS_PER_TX)

\* The guest reads exactly the entries the publisher put in, in their order,
\* though viem and alloy wrote the two sides, and whether they fill a blob or
\* straddle two.  It refuses a batch when one of its entries is empty (the text
\* "0x" makes one), and then refuses all of it.
GuestReadsBatch ==
  microblobs # <<>> =>
    /\ stage = "read" => entries = DataOf(microblobs)
    /\ stage = "panicked" <=> stage \in {"read", "panicked"} /\ <<>> \in ToSet(DataOf(microblobs))

\* Whoever wrote a blob, what the guest decodes from it is what the encoder
\* makes of these entries and padding: there is one encoding of a batch, and
\* anything else is refused (specs/spec.md 4.1).
OnlyCanonicalIsRead ==
  stage = "read" =>
    <<>> \notin ToSet(entries) /\ IsPrefix(encode_entries(entries), Stream)

\* An entry that is read is the text that was signed, so that its signature
\* recovers its signer, unless the text looks like hex; then it never is.
ReadAsSigned ==
  stage = "read" /\ microblobs # <<>> =>
    \A i \in DOMAIN entries : entries[i] = microblobs[i] <=> ~LooksHex(microblobs[i])
=============================================================================
