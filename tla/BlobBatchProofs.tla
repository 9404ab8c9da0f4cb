-------------------------- MODULE BlobBatchProofs --------------------------
(***************************************************************************)
(* Theorems about BlobBatch: the guest reads what was put in, and what is  *)
(* read is in the one form.                                                *)
(*                                                                         *)
(* The invariant says where the blobs come from: from the texts of the     *)
(* batch, or from one transaction of others.  The round trips of           *)
(* EncodingProofs say the rest.                                            *)
(***************************************************************************)
EXTENDS BlobBatch, EncodingProofs

Texts == Seq(Bytes) \ {<<>>}

\* What the guest makes of blobs.
StreamOf(b) == unpack_blobs(FlattenSeq(b), Len(b))

Accepted(b) == Unpacks(FlattenSeq(b), Len(b)) /\ EntriesDecode(StreamOf(b))

Sent == stage \in {"sent", "read", "panicked"}

PublisherInv ==
  /\ microblobs \in Batches
  /\ ~Sent => blobs = <<>>
  /\ Sent => /\ blobs = toBlobs(encodeMicroblobsRlp(microblobs))
             /\ Len(blobs) <= MAX_BLOBS_PER_TX

OthersInv ==
  /\ Sent
  /\ \E blob \in ForeignBlobs : blobs = <<blob>>

BatchInv ==
  /\ stage \in {"given", "refused"} \/ Sent
  /\ microblobs # <<>> => PublisherInv
  /\ microblobs = <<>> => OthersInv
  /\ entries = IF stage = "read" THEN decode_entries(StreamOf(blobs)) ELSE <<>>
  /\ stage = "read" => Accepted(blobs)
  /\ stage = "panicked" => ~Accepted(blobs)

-----------------------------------------------------------------------------
(* Texts and their bytes.                                                  *)

\* The bytes of a text: its own, or, when it looks like hex, one fewer.
LEMMA BytesOf ==
  ASSUME NEW text \in Seq(Bytes), text # <<>>
  PROVE  /\ toBytes(text) \in Seq(Bytes)
         /\ toBytes(text) = text <=> ~LooksHex(text)
<1>1. Len(text) \in Nat /\ Len(text) > 0
  BY EmptySeq
<1>2. Tail(text) \in Seq(Bytes) /\ Len(Tail(text)) = Len(text) - 1
  BY <1>1
<1>3. Tail(text) # text
  <2>1. PICK tail \in Seq(Bytes) : tail = Tail(text) /\ Len(tail) = Len(text) - 1
    BY <1>2, Zenon
  <2>2. Len(tail) = Len(text) - 1
    BY <2>1, Zenon
  <2>3. Len(tail) # Len(text)
    BY <1>1, <2>2
  <2>4. QED
    BY <2>1, <2>3, Zenon
<1>4. CASE LooksHex(text)
  <2>1. toBytes(text) = Tail(text)
    BY <1>4 DEF toBytes
  <2>2. QED
    BY <1>2, <1>3, <1>4, <2>1
<1>5. CASE ~LooksHex(text)
  <2>1. toBytes(text) = text
    BY <1>5 DEF toBytes
  <2>2. QED
    BY <1>1, <1>5, <2>1
<1>6. QED
  BY <1>4, <1>5

\* The data of a list of texts.
LEMMA DataIs ==
  ASSUME NEW texts \in Seq(Texts)
  PROVE  /\ DataOf(texts) \in Seq(Seq(Bytes)) /\ Len(DataOf(texts)) = Len(texts)
         /\ DOMAIN DataOf(texts) = 1..Len(texts)
         /\ \A i \in 1..Len(texts) : DataOf(texts)[i] = toBytes(texts[i]) /\ texts[i] \in Texts
<1>1. PICK n \in Nat : n = Len(texts) /\ DOMAIN texts = 1..n
  OBVIOUS
<1>2. ASSUME NEW i \in 1..n
      PROVE  texts[i] \in Texts /\ toBytes(texts[i]) \in Seq(Bytes)
  <2>1. texts[i] \in Texts
    BY <1>1
  <2>2. texts[i] \in Seq(Bytes) /\ texts[i] # <<>>
    BY <2>1 DEF Texts
  <2>3. QED
    BY <2>1, <2>2, BytesOf
<1>3. PICK data : data = [i \in 1..n |-> toBytes(texts[i])] /\ data = DataOf(texts)
  BY <1>1 DEF DataOf
<1>4. data \in [1..n -> Seq(Bytes)]
  BY <1>2, <1>3
<1>5. data \in Seq(Seq(Bytes)) /\ Len(data) = n /\ DOMAIN data = 1..n
  BY <1>4
<1>6. QED
  BY <1>1, <1>2, <1>3, <1>5

\* The texts are bytes, and bytes are numbers.
LEMMA BytesAreNumbers ==
  Bytes \subseteq Nat /\ 0 \in Bytes /\ Single \in Bytes
BY EncodingAssumption DEF Bytes, ListBase

\* The data as lists of numbers.
LEMMA DataNumbers ==
  ASSUME NEW texts \in Seq(Texts)
  PROVE  DataOf(texts) \in Seq(Seq(Nat))
<1>1. Seq(Bytes) \subseteq Seq(Nat)
  BY BytesAreNumbers, Widened
<1>2. DataOf(texts) \in Seq(Seq(Bytes))
  BY DataIs
<1>3. QED
  BY <1>1, <1>2, Widened

\* The encoding of lists of numbers is one.
LEMMA EncodingIs ==
  ASSUME NEW es \in Seq(Seq(Nat))
  PROVE  encode_entries(es) \in Seq(Nat)
<1>1. PICK payload : payload = UpTo(EncodedEach(es), Len(es))
  OBVIOUS
<1>2. payload \in Seq(Nat)
  BY <1>1, ItemsRoundTrip
<1>3. PICK head : head = encode_header(TRUE, Len(payload))
  OBVIOUS
<1>4. head \in Seq(Nat)
  <2>1. Len(payload) \in Nat
    BY <1>2
  <2>2. QED
    BY <1>3, <2>1, WrittenHead
<1>5. head \o payload \in Seq(Nat)
  BY <1>2, <1>4
<1>6. encode_entries(es) = head \o payload
  <2>1. DOMAIN es = 1..Len(es)
    OBVIOUS
  <2>2. QED
    BY <1>1, <1>3, <2>1, ListPayload
<1>7. QED
  BY <1>5, <1>6

-----------------------------------------------------------------------------
(* Blobs of texts, and blobs of others.                                    *)

\* toBlobs takes just the lists whose blobs are not too many: once it returns,
\* there is nothing to trim.
LEMMA Measure ==
  ASSUME NEW texts \in Seq(Texts)
  PROVE  /\ Len(toBlobs(encodeMicroblobsRlp(texts))) \in Nat \ {0}
         /\ Len(toBlobs(encodeMicroblobsRlp(texts))) <= MAX_BLOBS_PER_TX
              <=> ToBlobsTakes(encodeMicroblobsRlp(texts), MAX_BLOBS_PER_TX)
<1>1. PICK data \in Seq(Nat) : data = encodeMicroblobsRlp(texts)
  BY DataNumbers, EncodingIs DEF encodeMicroblobsRlp
<1>2. PICK p \in Nat : p = BLOB_PAYLOAD_BYTES /\ p > 0
  BY Sizes
<1>3. PICK len \in Nat : len = Len(data)
  OBVIOUS
<1>4. PICK q \in Nat : q = len \div p /\ q * p <= len /\ len < (q + 1) * p
  BY <1>2, Quotient
<1>5. Len(toBlobs(data)) = q + 1
  <2>1. 0 \in Nat /\ Single \in Nat
    BY EncodingAssumption
  <2>2. Len(toBlobs(data)) = Len(data) \div BLOB_PAYLOAD_BYTES + 1
    BY <2>1, BlobsRoundTrip
  <2>3. QED
    BY <1>2, <1>3, <1>4, <2>2
<1>6. PICK max \in Nat : max = MAX_BLOBS_PER_TX
  BY BlobBatchAssumption
<1>7. q + 1 <= max => len < max * p
  <2>1. SUFFICES ASSUME q + 1 <= max
                 PROVE  len < max * p
    OBVIOUS
  <2>2. PICK d \in Nat : max = (q + 1) + d
    <3>1. max = (q + 1) + (max - (q + 1)) /\ max - (q + 1) \in Nat
      BY <2>1
    <3>2. QED
      BY <3>1
  <2>3. max * p = (q + 1) * p + d * p /\ d * p \in Nat /\ (q + 1) * p \in Nat
    BY <2>2
  <2>4. QED
    BY <1>4, <2>3
<1>8. len < max * p => q + 1 <= max
  <2>1. SUFFICES ASSUME max <= q
                 PROVE  max * p <= len
    OBVIOUS
  <2>2. PICK d \in Nat : q = max + d
    <3>1. q = max + (q - max) /\ q - max \in Nat
      BY <2>1
    <3>2. QED
      BY <3>1
  <2>3. q * p = max * p + d * p /\ d * p \in Nat /\ max * p \in Nat
    BY <2>2
  <2>4. QED
    BY <1>4, <2>3
<1>9. QED
  BY <1>1, <1>2, <1>3, <1>5, <1>6, <1>7, <1>8 DEF ToBlobsTakes

\* What the guest makes of the blobs of a list of texts: their data, in order,
\* unless one of them is empty.
LEMMA TextsRead ==
  ASSUME NEW texts \in Seq(Texts), NEW b, b = toBlobs(encodeMicroblobsRlp(texts))
  PROVE  /\ Accepted(b) <=> NoneEmpty(DataOf(texts))
         /\ decode_entries(StreamOf(b)) = DataOf(texts)
<1>1. PICK es \in Seq(Seq(Nat)) : es = DataOf(texts)
  BY DataNumbers
<1>2. PICK data \in Seq(Nat) : data = encode_entries(es)
  BY EncodingIs
<1>3. b = toBlobs(data)
  BY <1>1, <1>2 DEF encodeMicroblobsRlp
<1>4. /\ Carries(toBlobs(data), StreamFor(data))
      /\ StreamFor(data) \in Seq(Nat) /\ IsStart(data, StreamFor(data))
  <2>1. 0 \in Nat /\ Single \in Nat
    BY EncodingAssumption
  <2>2. QED
    BY <2>1, BlobsRoundTrip
<1>5. PICK s \in Seq(Nat) : s = StreamFor(data)
  BY <1>4
<1>6. Unpacks(FlattenSeq(b), Len(b)) /\ StreamOf(b) = s
  BY <1>3, <1>4, <1>5 DEF Carries, StreamOf
<1>7. IsStart(encode_entries(es), s)
  BY <1>2, <1>4, <1>5
<1>8. (EntriesDecode(s) <=> NoneEmpty(es)) /\ decode_entries(s) = es
  BY <1>7, EntriesRoundTrip
<1>9. QED
  BY <1>1, <1>6, <1>8 DEF Accepted

\* From raw blobs of bytes the guest unpacks a stream of bytes.
LEMMA StreamTyped ==
  ASSUME NEW b \in Seq(Seq(Bytes)), \A j \in 1..Len(b) : Len(b[j]) = BLOB_RAW_BYTES
  PROVE  StreamOf(b) \in Seq(Bytes)
<1>1. PICK n \in Nat : n = Len(b) /\ DOMAIN b = 1..n
  OBVIOUS
<1>2. PartsOf(b, n, Bytes) /\ Even(b, n, BLOB_RAW_BYTES)
  BY <1>1 DEF PartsOf, Even
<1>3. FlattenSeq(b) = UpTo(b, n)
  <2>1. b = [k \in 1..n |-> b[k]]
    BY <1>1
  <2>2. QED
    BY <2>1 DEF UpTo
<1>4. StreamOf(b) = FlattenSeq([j \in 1..n |-> unpack_blob(b[j])])
  <2>1. unpack_blobs(UpTo(b, n), n) = FlattenSeq([j \in 1..n |-> unpack_blob(b[j])])
    BY <1>2, UnpackedAll
  <2>2. QED
    BY <1>1, <1>3, <2>1 DEF StreamOf
<1>5. PICK parts : parts = [j \in 1..n |-> unpack_blob(b[j])]
  OBVIOUS
<1>6. \A j \in 1..n : unpack_blob(b[j]) \in Seq(Bytes)
  <2>1. ASSUME NEW j \in 1..n
        PROVE  unpack_blob(b[j]) \in Seq(Bytes)
    <3>1. PICK blob \in Seq(Bytes) : blob = b[j] /\ Len(blob) = BLOB_RAW_BYTES
      BY <1>1
    <3>2. unpack_blob(blob) \in Seq(Bytes)
      BY <3>1, Unpacked
    <3>3. QED
      BY <3>1, <3>2
  <2>2. QED
    BY <2>1
<1>7. parts \in Seq(Seq(Bytes))
  BY <1>5, <1>6
<1>8. QED
  BY <1>4, <1>5, <1>7, FlattenTyped

\* The blobs of a list of texts are raw blobs of bytes when its encoding is bytes.
LEMMA BlobsTyped ==
  ASSUME NEW data \in Seq(Bytes)
  PROVE  toBlobs(data) \in Seq([1..BLOB_RAW_BYTES -> Bytes])
<1>1. PICK n \in Nat : n = Len(data) \div BLOB_PAYLOAD_BYTES + 1
  <2>1. PICK p \in Nat : p = BLOB_PAYLOAD_BYTES /\ p > 0
    BY Sizes
  <2>2. Len(data) \div p \in Nat
    BY <2>1, Quotient
  <2>3. QED
    BY <2>1, <2>2
<1>2. PICK b : b = toBlobs(data)
  OBVIOUS
<1>3. Len(b) = n /\ \A j \in 1..Len(b) : b[j] \in Seq(Bytes) /\ Len(b[j]) = BLOB_RAW_BYTES
  BY <1>1, <1>2, BytesAreNumbers, BlobsRoundTrip
<1>4. \E f : b = [j \in 1..n |-> f[j]]
  <2>1. PICK p \in Nat : p = BLOB_PAYLOAD_BYTES
    BY Sizes
  <2>2. PICK f : f = [j \in 1..n |-> pack_blob(Slice(StreamFor(data), (j - 1) * BLOB_PAYLOAD_BYTES,
                                                   BLOB_PAYLOAD_BYTES))]
    OBVIOUS
  <2>3. b = f
    BY <1>1, <1>2, <2>2, Zenon DEF toBlobs, StreamFor
  <2>4. f = [j \in 1..n |-> f[j]]
    BY <2>2
  <2>5. QED
    BY <2>3, <2>4
<1>5. \A j \in 1..n : b[j] \in [1..BLOB_RAW_BYTES -> Bytes]
  BY <1>3
<1>6. b \in [1..n -> [1..BLOB_RAW_BYTES -> Bytes]]
  BY <1>4, <1>5
<1>7. QED
  BY <1>2, <1>6

-----------------------------------------------------------------------------
(* The invariant.                                                          *)

\* A batch is a list of at least one text.
LEMMA BatchIs ==
  ASSUME NEW texts \in Batches
  PROVE  texts \in Seq(Texts) /\ texts # <<>> /\ Len(texts) \in Nat \ {0}
<1>1. texts \in Seq(Texts) /\ texts # <<>>
  BY BlobBatchAssumption DEF Texts
<1>2. QED
  BY <1>1, EmptySeq

\* Initially the batch is what a tick lists, or a transaction of others.
LEMMA InitHolds ==
  Init => BatchInv
<1> SUFFICES ASSUME Init
             PROVE  BatchInv
  OBVIOUS
<1>1. CASE stage = "given" /\ microblobs \in Batches /\ blobs = <<>>
  <2>1. microblobs # <<>> /\ entries = <<>>
    BY <1>1, BatchIs DEF Init
  <2>2. PublisherInv
    BY <1>1 DEF PublisherInv, Sent
  <2>3. QED
    BY <1>1, <2>1, <2>2 DEF BatchInv, Sent
<1>2. CASE stage = "sent" /\ microblobs = <<>> /\ \E blob \in ForeignBlobs : blobs = <<blob>>
  BY <1>2 DEF Init, BatchInv, OthersInv, Sent
<1>3. QED
  BY <1>1, <1>2 DEF Init

\* While the batch is at the publisher, it is of texts a tick listed.
LEMMA AtPublisher ==
  ASSUME BatchInv, ~Sent \/ microblobs # <<>>
  PROVE  PublisherInv /\ microblobs # <<>> /\ microblobs \in Seq(Texts)
<1>1. PublisherInv /\ microblobs # <<>>
  BY DEF BatchInv, OthersInv, Sent
<1>2. QED
  BY <1>1, BatchIs DEF PublisherInv

\* Refusing and sending leave the texts of the batch alone; what is sent is not
\* too many blobs.
LEMMA PublisherStep ==
  ASSUME BatchInv, Refuse \/ Send
  PROVE  BatchInv'
<1>1. stage = "given" /\ microblobs' = microblobs /\ entries' = entries /\ entries = <<>>
  BY DEF Refuse, Send, BatchInv
<1>2. PublisherInv /\ microblobs # <<>> /\ microblobs \in Seq(Texts)
  BY <1>1, AtPublisher DEF Sent
<1>3. CASE Refuse
  <2>1. stage' = "refused" /\ blobs' = blobs /\ ~Sent /\ ~Sent'
    BY <1>1, <1>3 DEF Refuse, Sent
  <2>2. PublisherInv'
    BY <1>1, <1>2, <2>1 DEF PublisherInv
  <2>3. QED
    BY <1>1, <1>2, <2>1, <2>2 DEF BatchInv
<1>4. CASE Send
  <2>1. stage' = "sent" /\ Sent' /\ blobs' = toBlobs(encodeMicroblobsRlp(microblobs))
    BY <1>4 DEF Send, Sent
  <2>2. Len(toBlobs(encodeMicroblobsRlp(microblobs))) <= MAX_BLOBS_PER_TX
    BY <1>2, <1>4, Measure DEF Send
  <2>3. PublisherInv'
    BY <1>1, <1>2, <2>1, <2>2 DEF PublisherInv
  <2>4. QED
    BY <1>1, <1>2, <2>1, <2>3 DEF BatchInv
<1>5. QED
  BY <1>3, <1>4

\* Reading changes what is decoded, and nothing else.
LEMMA ReadStep ==
  ASSUME BatchInv, Read
  PROVE  BatchInv'
<1>0. /\ stage = "sent" /\ microblobs' = microblobs /\ blobs' = blobs
      /\ IF Accepted(blobs) THEN stage' = "read" /\ entries' = decode_entries(StreamOf(blobs))
                            ELSE stage' = "panicked" /\ entries' = entries
  <2>1. StreamOf(blobs) = Stream
    BY DEF StreamOf, Stream
  <2>2. Accepted(blobs) <=> Unpacks(FlattenSeq(blobs), Len(blobs)) /\ EntriesDecode(Stream)
    BY <2>1, Zenon DEF Accepted
  <2>3. stage = "sent" /\ microblobs' = microblobs /\ blobs' = blobs
    BY DEF Read
  <2>4. ASSUME Accepted(blobs)
        PROVE  stage' = "read" /\ entries' = decode_entries(Stream)
    BY <2>2, <2>4, Zenon DEF Read
  <2>5. ASSUME ~Accepted(blobs)
        PROVE  stage' = "panicked" /\ entries' = entries
    BY <2>2, <2>5, Zenon DEF Read
  <2>6. QED
    BY <2>1, <2>3, <2>4, <2>5
<1>1. /\ stage = "sent" /\ microblobs' = microblobs /\ blobs' = blobs
      /\ entries = <<>>
  BY <1>0 DEF BatchInv
<1>2. CASE Accepted(blobs)
  <2>1. stage' = "read" /\ entries' = decode_entries(StreamOf(blobs))
    BY <1>0, <1>2
  <2>2. microblobs # <<>> => PublisherInv'
    BY <1>1, <2>1 DEF BatchInv, PublisherInv, Sent
  <2>3. microblobs = <<>> => OthersInv'
    BY <1>1, <2>1 DEF BatchInv, OthersInv, Sent
  <2>4. QED
    BY <1>1, <1>2, <2>1, <2>2, <2>3 DEF BatchInv, Sent
<1>3. CASE ~Accepted(blobs)
  <2>1. stage' = "panicked" /\ entries' = <<>>
    BY <1>0, <1>1, <1>3
  <2>2. microblobs # <<>> => PublisherInv'
    BY <1>1, <2>1 DEF BatchInv, PublisherInv, Sent
  <2>3. microblobs = <<>> => OthersInv'
    BY <1>1, <2>1 DEF BatchInv, OthersInv, Sent
  <2>4. QED
    BY <1>1, <1>3, <2>1, <2>2, <2>3 DEF BatchInv, Sent
<1>4. QED
  BY <1>2, <1>3

\* The invariant of the batch holds.
LEMMA BatchInvHolds == Spec => []BatchInv
<1>1. Init => BatchInv
  BY InitHolds
<1>2. ASSUME BatchInv, [Next]_vars
      PROVE  BatchInv'
  <2>1. CASE UNCHANGED vars
    <3>1. /\ stage' = stage /\ microblobs' = microblobs /\ blobs' = blobs
          /\ entries' = entries
      BY <2>1 DEF vars
    <3>2. PublisherInv' <=> PublisherInv
      BY <3>1 DEF PublisherInv, Sent
    <3>3. OthersInv' <=> OthersInv
      BY <3>1 DEF OthersInv, Sent
    <3>4. QED
      BY <1>2, <3>1, <3>2, <3>3 DEF BatchInv, Sent
  <2>2. CASE Refuse \/ Send
    BY <1>2, <2>2, PublisherStep
  <2>3. CASE Read
    BY <1>2, <2>3, ReadStep
  <2>4. QED
    BY <1>2, <2>1, <2>2, <2>3 DEF Next
<1>3. QED
  BY <1>1, <1>2, PTL DEF Spec

-----------------------------------------------------------------------------
(* The properties.                                                         *)

\* The data of a list of texts has an empty entry where it says so.
LEMMA EmptyEntry ==
  ASSUME NEW texts \in Seq(Texts)
  PROVE  <<>> \in ToSet(DataOf(texts)) <=> ~NoneEmpty(DataOf(texts))
BY DEF ToSet, NoneEmpty

\* The guest reads the entries that were put in, in their order, and panics just
\* when one of them is empty (alloy-rlp's decoder on what viem's encoder wrote).
THEOREM BatchesAreRead == Spec => []GuestReadsBatch
<1>1. ASSUME BatchInv
      PROVE  GuestReadsBatch
  <2> SUFFICES ASSUME microblobs # <<>>
               PROVE  /\ stage = "read" => entries = DataOf(microblobs)
                      /\ stage = "panicked" <=>
                           stage \in {"read", "panicked"} /\ <<>> \in ToSet(DataOf(microblobs))
    BY DEF GuestReadsBatch
  <2>1. PublisherInv /\ microblobs \in Seq(Texts)
    BY <1>1, AtPublisher
  <2>2. CASE stage \in {"read", "panicked"}
    <3>1. blobs = toBlobs(encodeMicroblobsRlp(microblobs))
      BY <2>1, <2>2 DEF PublisherInv, Sent
    <3>2. /\ Accepted(blobs) <=> NoneEmpty(DataOf(microblobs))
          /\ decode_entries(StreamOf(blobs)) = DataOf(microblobs)
      BY <2>1, <3>1, TextsRead
    <3>3. stage = "read" => entries = DataOf(microblobs) /\ Accepted(blobs)
      BY <1>1, <3>2 DEF BatchInv
    <3>4. stage = "panicked" => ~Accepted(blobs)
      BY <1>1 DEF BatchInv
    <3>5. <<>> \in ToSet(DataOf(microblobs)) <=> ~NoneEmpty(DataOf(microblobs))
      BY <2>1, EmptyEntry
    <3>6. QED
      BY <2>2, <3>2, <3>3, <3>4, <3>5
  <2>3. CASE stage \notin {"read", "panicked"}
    BY <2>3
  <2>4. QED
    BY <2>2, <2>3
<1>2. QED
  BY <1>1, BatchInvHolds, PTL

\* An entry that is read is the text that was signed, unless it looks like hex
\* (toBytes of viem): its signer is recovered from other bytes then.
THEOREM SignedTextIsRead == Spec => []ReadAsSigned
<1>1. ASSUME BatchInv
      PROVE  ReadAsSigned
  <2> SUFFICES ASSUME stage = "read", microblobs # <<>>, NEW i \in DOMAIN entries
               PROVE  entries[i] = microblobs[i] <=> ~LooksHex(microblobs[i])
    BY DEF ReadAsSigned
  <2>1. PublisherInv /\ microblobs \in Seq(Texts)
    BY <1>1, AtPublisher
  <2>2. blobs = toBlobs(encodeMicroblobsRlp(microblobs)) /\ entries = decode_entries(StreamOf(blobs))
    BY <1>1, <2>1 DEF PublisherInv, BatchInv, Sent
  <2>3. entries = DataOf(microblobs)
    BY <2>1, <2>2, TextsRead
  <2>4. i \in 1..Len(microblobs) /\ entries[i] = toBytes(microblobs[i]) /\ microblobs[i] \in Texts
    BY <2>1, <2>3, DataIs
  <2>5. microblobs[i] \in Seq(Bytes) /\ microblobs[i] # <<>>
    BY <2>4 DEF Texts
  <2>6. toBytes(microblobs[i]) = microblobs[i] <=> ~LooksHex(microblobs[i])
    BY <2>5, BytesOf
  <2>7. QED
    BY <2>4, <2>6
<1>2. QED
  BY <1>1, BatchInvHolds, PTL

\* The blobs are raw blobs of bytes, and those of a transaction are as many as
\* one may carry.
LEMMA BlobsKnown ==
  ASSUME BatchInv
  PROVE  /\ blobs \in Seq([1..BLOB_RAW_BYTES -> Bytes])
         /\ stage \in {"sent", "read", "panicked"} => Len(blobs) \in 1..MAX_BLOBS_PER_TX
<1>0. MAX_BLOBS_PER_TX \in Nat \ {0}
  BY BlobBatchAssumption
<1>1. CASE microblobs = <<>>
  <2>1. PICK blob \in ForeignBlobs : blobs = <<blob>>
    BY <1>1 DEF BatchInv, OthersInv, Sent
  <2>2. blob \in [1..BLOB_RAW_BYTES -> Bytes]
    BY BlobBatchAssumption
  <2>3. PICK R : R = [1..BLOB_RAW_BYTES -> Bytes]
    OBVIOUS
  <2>4. <<blob>> \in Seq(R) /\ Len(<<blob>>) = 1
    BY <2>2, <2>3
  <2>5. QED
    BY <1>0, <2>1, <2>3, <2>4
<1>2. CASE microblobs # <<>> /\ ~Sent
  <2>1. blobs = <<>>
    BY <1>2 DEF BatchInv, PublisherInv
  <2>2. QED
    BY <1>2, <2>1 DEF Sent
<1>3. CASE microblobs # <<>> /\ Sent
  <2>1. PublisherInv /\ microblobs \in Seq(Texts)
    BY <1>3, AtPublisher
  <2>2. blobs = toBlobs(encodeMicroblobsRlp(microblobs)) /\ microblobs \in Batches
    BY <1>3, <2>1 DEF PublisherInv
  <2>3. encodeMicroblobsRlp(microblobs) \in Seq(Bytes)
    BY <2>2, LengthsAssumption, Zenon
  <2>4. blobs \in Seq([1..BLOB_RAW_BYTES -> Bytes])
    BY <2>2, <2>3, BlobsTyped, Zenon
  <2>5. Len(blobs) \in Nat \ {0}
    BY <2>1, <2>2, Measure, Zenon
  <2>6. Len(blobs) <= MAX_BLOBS_PER_TX
    BY <1>3, <2>1 DEF PublisherInv
  <2>7. Len(blobs) \in 1..MAX_BLOBS_PER_TX
    BY <1>0, <2>5, <2>6
  <2>8. QED
    BY <2>4, <2>7
<1>4. QED
  BY <1>1, <1>2, <1>3

\* The guest unpacks bytes.
LEMMA StreamKnown ==
  ASSUME BatchInv
  PROVE  StreamOf(blobs) \in Seq(Bytes)
<1>1. PICK b : b = blobs
  OBVIOUS
<1>2. b \in Seq([1..BLOB_RAW_BYTES -> Bytes])
  BY <1>1, BlobsKnown
<1>3. PICK n \in Nat : n = BLOB_RAW_BYTES
  BY Sizes
<1>4. ASSUME NEW blob \in [1..n -> Bytes]
      PROVE  blob \in Seq(Bytes) /\ Len(blob) = n
  BY <1>4
<1>5. \A j \in 1..Len(b) : b[j] \in [1..n -> Bytes]
  BY <1>2, <1>3
<1>6. \A j \in 1..Len(b) : b[j] \in Seq(Bytes) /\ Len(b[j]) = n
  BY <1>4, <1>5
<1>7. b \in Seq(Seq(Bytes))
  BY <1>2, <1>6
<1>8. StreamOf(b) \in Seq(Bytes)
  BY <1>3, <1>6, <1>7, StreamTyped
<1>9. QED
  BY <1>1, <1>8

\* Whoever wrote the blobs, what is read from them is canonical (the checks of
\* alloy-rlp's headers).
THEOREM CanonicalOnly == Spec => []OnlyCanonicalIsRead
<1>1. ASSUME BatchInv
      PROVE  OnlyCanonicalIsRead
  <2> SUFFICES ASSUME stage = "read"
               PROVE  <<>> \notin ToSet(entries) /\ IsPrefix(encode_entries(entries), Stream)
    BY DEF OnlyCanonicalIsRead
  <2>1. PICK s \in Seq(Bytes) : s = StreamOf(blobs) /\ s = Stream
    BY <1>1, StreamKnown DEF StreamOf, Stream
  <2>2. EntriesDecode(s) /\ entries = decode_entries(s)
    BY <1>1, <2>1 DEF BatchInv, Accepted
  <2>3. NoneEmpty(entries) /\ IsPrefix(encode_entries(entries), s)
    BY <2>2, OnlyEncodingsDecode
  <2>4. <<>> \notin ToSet(entries)
    BY <2>3 DEF NoneEmpty, ToSet
  <2>5. QED
    BY <2>1, <2>3, <2>4
<1>2. QED
  BY <1>1, BatchInvHolds, PTL

\* The variables of the batch stay in their types: the blobs are raw blobs, and
\* a transaction has no more of them than it may.
THEOREM TypeCorrect == Spec => []TypeOK
<1>1. ASSUME BatchInv
      PROVE  TypeOK
  <2>1. /\ stage \in {"given", "refused", "sent", "read", "panicked"}
        /\ microblobs \in Batches \cup {<<>>}
    BY <1>1 DEF BatchInv, PublisherInv, Sent
  <2>2. entries \in Seq(Seq(Bytes))
    <3>1. CASE stage = "read"
      <4>1. PICK s \in Seq(Bytes) : s = StreamOf(blobs)
        BY <1>1, StreamKnown
      <4>2. EntriesDecode(s) /\ entries = decode_entries(s)
        BY <1>1, <3>1, <4>1 DEF BatchInv, Accepted
      <4>3. QED
        BY <4>2, OnlyEncodingsDecode
    <3>2. CASE stage # "read"
      <4>1. entries = <<>>
        BY <1>1, <3>2 DEF BatchInv
      <4>2. QED
        BY <4>1
    <3>3. QED
      BY <3>1, <3>2
  <2>3. QED
    BY <1>1, <2>1, <2>2, BlobsKnown DEF TypeOK
<1>2. QED
  BY <1>1, BatchInvHolds, PTL
=============================================================================
