--------------------------- MODULE EncodingProofs ---------------------------
(***************************************************************************)
(* Proofs about Encoding: what the publisher packs and encodes, the guest  *)
(* unpacks and decodes, for blobs of any size and entries of any length,   *)
(* and nothing but an encoding is decoded.                                 *)
(***************************************************************************)
EXTENDS Encoding, RecursionFacts

-----------------------------------------------------------------------------
(* Sizes.                                                                  *)

\* A blob has room for its payload and one byte more per field element.
LEMMA Sizes ==
  /\ FIELD_ELEMENTS_PER_BLOB \in Nat /\ USABLE_BYTES_PER_FIELD \in Nat
  /\ FIELD_ELEMENTS_PER_BLOB > 0 /\ USABLE_BYTES_PER_FIELD > 0
  /\ BYTES_PER_FIELD_ELEMENT \in Nat /\ BYTES_PER_FIELD_ELEMENT = USABLE_BYTES_PER_FIELD + 1
  /\ BLOB_RAW_BYTES \in Nat /\ BLOB_RAW_BYTES = FIELD_ELEMENTS_PER_BLOB * BYTES_PER_FIELD_ELEMENT
  /\ BLOB_PAYLOAD_BYTES \in Nat
  /\ BLOB_PAYLOAD_BYTES = FIELD_ELEMENTS_PER_BLOB * USABLE_BYTES_PER_FIELD
  /\ BLOB_RAW_BYTES > 0 /\ BLOB_PAYLOAD_BYTES > 0
<1>1. PICK f \in Nat, u \in Nat : f = FIELD_ELEMENTS_PER_BLOB /\ u = USABLE_BYTES_PER_FIELD
                                  /\ f > 0 /\ u > 0
  BY EncodingAssumption
<1>2. f * u \in Nat /\ f * (u + 1) \in Nat /\ f * u > 0 /\ f * (u + 1) > 0
  <2>1. f - 1 \in Nat /\ (f - 1) * u \in Nat /\ f * u = (f - 1) * u + u
    BY <1>1
  <2>2. f * (u + 1) = f * u + f
    OBVIOUS
  <2>3. QED
    BY <1>1, <2>1, <2>2
<1>3. QED
  BY <1>1, <1>2 DEF BLOB_RAW_BYTES, BLOB_PAYLOAD_BYTES, BYTES_PER_FIELD_ELEMENT

\* n bytes from position i on.
LEMMA SliceIs ==
  ASSUME NEW T, NEW s \in Seq(T), NEW i \in Nat, NEW n \in Nat, i + n <= Len(s)
  PROVE  /\ Slice(s, i, n) \in Seq(T) /\ Len(Slice(s, i, n)) = n
         /\ \A j \in 1..n : Slice(s, i, n)[j] = s[i + j]
<1>1. PICK b \in Nat : b = i + n /\ i <= b /\ b <= Len(s) /\ b - i = n
  OBVIOUS
<1>2. /\ SubSeq(s, i + 1, b) \in Seq(T) /\ Len(SubSeq(s, i + 1, b)) = b - i
      /\ \A j \in 1..(b - i) : SubSeq(s, i + 1, b)[j] = s[i + j]
  BY <1>1, SliceOf, SMTT(30)
<1>3. Slice(s, i, n) = SubSeq(s, i + 1, b)
  BY <1>1 DEF Slice
<1>4. QED
  BY <1>1, <1>2, <1>3

\* Part k of even ones is within.
LEMMA Within ==
  ASSUME NEW n \in Nat, NEW len \in Nat, NEW k \in 1..n
  PROVE  /\ (k - 1) * len \in Nat /\ (k - 1) * len + len = k * len
         /\ (k - 1) * len + len <= n * len
<1>1. PICK d \in Nat : n = k + d
  <2>1. n = k + (n - k) /\ n - k \in Nat
    OBVIOUS
  <2>2. QED
    BY <2>1
<1>2. n * len = k * len + d * len /\ d * len \in Nat /\ k * len \in Nat
  BY <1>1
<1>3. (k - 1) * len \in Nat /\ (k - 1) * len + len = k * len
  OBVIOUS
<1>4. QED
  BY <1>2, <1>3

-----------------------------------------------------------------------------
(* One blob.                                                               *)

\* The payload of a blob, padded.
Padded(payload) == payload \o Zeros(BLOB_PAYLOAD_BYTES - Len(payload))

\* It fills the blob.
LEMMA PaddedIs ==
  ASSUME NEW T, 0 \in T, NEW payload \in Seq(T), Len(payload) <= BLOB_PAYLOAD_BYTES
  PROVE  Padded(payload) \in Seq(T) /\ Len(Padded(payload)) = BLOB_PAYLOAD_BYTES
<1>1. BLOB_PAYLOAD_BYTES \in Nat
  BY Sizes
<1>2. PICK n \in Nat : n = BLOB_PAYLOAD_BYTES - Len(payload)
  BY <1>1
<1>3. Zeros(n) \in Seq(T) /\ Len(Zeros(n)) = n
  BY DEF Zeros
<1>4. PICK zeros \in Seq(T) : zeros = Zeros(n) /\ Len(zeros) = n
  BY <1>3
<1>5. PICK all : all = payload \o zeros
  OBVIOUS
<1>6. all \in Seq(T) /\ Len(all) = Len(payload) + Len(zeros) /\ Len(payload) \in Nat
  BY <1>5, Joined
<1>7. QED
  BY <1>1, <1>2, <1>3, <1>4, <1>5, <1>6 DEF Padded

\* A field element with its bytes of the padded payload.
Field(padded, i) == <<0>> \o Slice(padded, (i - 1) * USABLE_BYTES_PER_FIELD, USABLE_BYTES_PER_FIELD)

\* It is a zero and these bytes.
LEMMA FieldIs ==
  ASSUME NEW T, 0 \in T, NEW padded \in Seq(T), Len(padded) = BLOB_PAYLOAD_BYTES,
         NEW i \in 1..FIELD_ELEMENTS_PER_BLOB,
         NEW slice, slice = Slice(padded, (i - 1) * USABLE_BYTES_PER_FIELD, USABLE_BYTES_PER_FIELD)
  PROVE  /\ slice \in Seq(T) /\ Len(slice) = USABLE_BYTES_PER_FIELD
         /\ Field(padded, i) \in Seq(T) /\ Len(Field(padded, i)) = BYTES_PER_FIELD_ELEMENT
         /\ Field(padded, i)[1] = 0
         /\ \A j \in 1..USABLE_BYTES_PER_FIELD : Field(padded, i)[1 + j] = slice[j]
<1>1. PICK a \in Nat, u \in Nat :
        a = (i - 1) * USABLE_BYTES_PER_FIELD /\ u = USABLE_BYTES_PER_FIELD /\ a + u <= Len(padded)
  BY Within, Sizes
<1>2. slice \in Seq(T) /\ Len(slice) = USABLE_BYTES_PER_FIELD
  <2>1. slice = Slice(padded, a, u)
    BY <1>1
  <2>2. Slice(padded, a, u) \in Seq(T) /\ Len(Slice(padded, a, u)) = u
    BY <1>1, SliceIs
  <2>3. QED
    BY <1>1, <2>1, <2>2
<1>3. <<0>> \in Seq(T) /\ Len(<<0>>) = 1 /\ <<0>>[1] = 0
  OBVIOUS
<1>4. PICK zero \in Seq(T) : zero = <<0>> /\ Len(zero) = 1 /\ zero[1] = 0
  BY <1>3
<1>5. PICK all : all = zero \o slice
  OBVIOUS
<1>6. /\ all \in Seq(T) /\ Len(all) = 1 + Len(slice)
      /\ \A k \in 1..1 : all[k] = zero[k]
      /\ \A j \in 1..Len(slice) : all[1 + j] = slice[j]
  BY <1>2, <1>4, <1>5, Joined
<1>7. 1 \in 1..1
  OBVIOUS
<1>8. all = Field(padded, i)
  BY <1>4, <1>5 DEF Field
<1>9. u + 1 = BYTES_PER_FIELD_ELEMENT
  BY <1>1, Sizes
<1>10. QED
  BY <1>1, <1>2, <1>4, <1>6, <1>7, <1>8, <1>9

\* What is packed into a blob can be unpacked, with zeros behind it.
LEMMA Packed ==
  ASSUME NEW T, 0 \in T, NEW payload \in Seq(T), Len(payload) <= BLOB_PAYLOAD_BYTES
  PROVE  /\ pack_blob(payload) \in Seq(T) /\ Len(pack_blob(payload)) = BLOB_RAW_BYTES
         /\ Canonical(pack_blob(payload))
         /\ unpack_blob(pack_blob(payload)) = Padded(payload)
<1>1. PICK N \in Nat, U \in Nat, B \in Nat :
        /\ N = FIELD_ELEMENTS_PER_BLOB /\ U = USABLE_BYTES_PER_FIELD
        /\ B = BYTES_PER_FIELD_ELEMENT /\ B = U + 1 /\ U > 0
        /\ BLOB_RAW_BYTES = N * B /\ BLOB_PAYLOAD_BYTES = N * U
  BY Sizes
<1>2. PICK padded \in Seq(T) : padded = Padded(payload) /\ Len(padded) = BLOB_PAYLOAD_BYTES
  BY PaddedIs
<1>3. PICK f : f = [i \in 1..N |-> Field(padded, i)]
  OBVIOUS
<1>4. PICK g : g = [i \in 1..N |-> Slice(padded, (i - 1) * U, U)]
  OBVIOUS
<1>5. ASSUME NEW i \in 1..N
      PROVE  /\ g[i] \in Seq(T) /\ Len(g[i]) = U /\ f[i] \in Seq(T) /\ Len(f[i]) = B
             /\ f[i][1] = 0 /\ \A j \in 1..U : f[i][1 + j] = g[i][j]
  <2>1. PICK slice : slice = Slice(padded, (i - 1) * U, U)
    OBVIOUS
  <2>2. g[i] = slice /\ f[i] = Field(padded, i)
    BY <1>3, <1>4, <2>1
  <2>3. QED
    BY <1>1, <1>2, <2>1, <2>2, FieldIs
<1>6. PICK blob : blob = pack_blob(payload)
  OBVIOUS
<1>7. blob = UpTo(f, N)
  <2>1. [k \in 1..N |-> f[k]] = f
    BY <1>3
  <2>2. pack_blob(payload) = FlattenSeq([i \in 1..N |-> Field(padded, i)])
    BY <1>1, <1>2 DEF pack_blob, Padded, Field
  <2>3. QED
    BY <1>3, <1>6, <2>1, <2>2 DEF UpTo
<1>8. PartsOf(f, N, T) /\ Even(f, N, B)
  BY <1>5 DEF PartsOf, Even
<1>9. /\ blob \in Seq(T) /\ Len(blob) = N * B
      /\ \A i \in 1..N : IsPlacedEvenly(f, N, B, i)
  BY <1>7, <1>8, EvenParts
<1>10. ASSUME NEW i \in 1..N
      PROVE  \A j \in 1..B : blob[(i - 1) * B + j] = f[i][j]
  BY <1>7, <1>9 DEF IsPlacedEvenly
<1>11. Canonical(blob)
  <2>1. ASSUME NEW i \in 0..(N - 1)
        PROVE  blob[i * B + 1] = 0
    <3>1. PICK k \in 1..N : k - 1 = i
      <4>1. i + 1 \in 1..N /\ (i + 1) - 1 = i
        OBVIOUS
      <4>2. QED
        BY <4>1
    <3>2. blob[(k - 1) * B + 1] = f[k][1]
      <4>1. 1 \in 1..B
        BY <1>1
      <4>2. QED
        BY <1>10, <4>1
    <3>3. QED
      BY <1>5, <3>1, <3>2
  <2>2. QED
    BY <1>1, <2>1 DEF Canonical
<1>12. ASSUME NEW i \in 1..N
       PROVE  Slice(blob, (i - 1) * B + 1, U) = g[i]
  <2>1. PICK a \in Nat : a = (i - 1) * B /\ a + B <= Len(blob)
    BY <1>9, Within
  <2>2. PICK slice : slice = Slice(blob, a + 1, U)
    OBVIOUS
  <2>3. /\ slice \in Seq(T) /\ Len(slice) = U /\ \A j \in 1..U : slice[j] = blob[(a + 1) + j]
    <3>1. PICK b \in Nat : b = a + 1 /\ b + U <= Len(blob)
      BY <1>1, <1>9, <2>1
    <3>2. PICK s \in Seq(T) : s = blob /\ b + U <= Len(s)
      BY <1>9, <3>1
    <3>3. /\ Slice(s, b, U) \in Seq(T) /\ Len(Slice(s, b, U)) = U
          /\ \A j \in 1..U : Slice(s, b, U)[j] = s[b + j]
      BY <3>2, SliceIs, SMTT(60)
    <3>4. QED
      BY <2>2, <3>1, <3>2, <3>3
  <2>4. ASSUME NEW j \in 1..U
        PROVE  slice[j] = g[i][j]
    <3>1. 1 + j \in 1..B /\ a + (1 + j) = (a + 1) + j
      BY <1>1
    <3>2. blob[a + (1 + j)] = f[i][1 + j]
      BY <1>10, <2>1, <3>1
    <3>3. QED
      BY <1>5, <2>3, <3>1, <3>2
  <2>5. PICK h \in Seq(T) : h = g[i] /\ Len(h) = U
    BY <1>5
  <2>6. slice = h
    BY <2>3, <2>4, <2>5, SeqEqual
  <2>7. QED
    BY <2>1, <2>2, <2>5, <2>6
<1>13. unpack_blob(blob) = UpTo(g, N)
  <2>1. [i \in 1..N |-> Slice(blob, (i - 1) * B + 1, U)] = [i \in 1..N |-> g[i]]
    BY <1>12
  <2>2. QED
    BY <1>1, <2>1 DEF unpack_blob, UpTo
<1>14. UpTo(g, N) = padded
  <2>1. AreChunks(g, N, padded, U)
    BY <1>1, <1>2, <1>4 DEF AreChunks, Slice
  <2>2. QED
    BY <2>1, Chunks
<1>15. QED
  BY <1>1, <1>2, <1>6, <1>9, <1>11, <1>13, <1>14

-----------------------------------------------------------------------------
(* Many blobs.                                                             *)

\* Division with remainder.
LEMMA Quotient ==
  ASSUME NEW a \in Nat, NEW b \in Nat, b > 0
  PROVE  /\ a \div b \in Nat /\ (a \div b) * b <= a
         /\ a < (a \div b + 1) * b
  OBVIOUS

\* Blobs end to end are cut where they meet.
LEMMA RawBlobIs ==
  ASSUME NEW T, NEW f, NEW n \in Nat, PartsOf(f, n, T), Even(f, n, BLOB_RAW_BYTES),
         NEW data, data = UpTo(f, n)
  PROVE  /\ data \in Seq(T) /\ Len(data) = BLOB_RAW_BYTES * n
         /\ \A j \in 1..n : RawBlob(data, j) = f[j]
<1>1. PICK raw \in Nat : raw = BLOB_RAW_BYTES
  BY Sizes
<1>2. Even(f, n, raw)
  BY <1>1
<1>3. /\ data \in Seq(T) /\ Len(data) = n * raw
      /\ \A i \in 1..n : IsPlacedEvenly(f, n, raw, i)
  BY <1>2, EvenParts
<1>4. ASSUME NEW j \in 1..n
      PROVE  RawBlob(data, j) = f[j]
  <2>1. PICK a \in Nat : a = (j - 1) * raw /\ a + raw <= Len(data)
    BY <1>3, Within
  <2>2. Slice(data, a, raw) \in Seq(T) /\ Len(Slice(data, a, raw)) = raw
        /\ \A k \in 1..raw : Slice(data, a, raw)[k] = data[a + k]
    <3>1. data \in Seq(T) /\ a + raw <= Len(data)
      BY <1>3, <2>1
    <3>2. QED
      BY <3>1, SliceIs
  <2>3. PICK blob \in Seq(T) : blob = Slice(data, a, raw)
    BY <2>2
  <2>4. PICK part \in Seq(T) : part = f[j] /\ Len(part) = raw
    BY <1>2 DEF PartsOf, Even
  <2>5. \A k \in 1..raw : data[a + k] = part[k]
    BY <1>3, <2>1, <2>4 DEF IsPlacedEvenly
  <2>6. blob = part
    <3>1. Len(blob) = Len(part) /\ \A k \in 1..Len(blob) : blob[k] = part[k]
      BY <2>2, <2>3, <2>4, <2>5
    <3>2. QED
      BY <3>1, SeqEqual
  <2>7. QED
    BY <1>1, <2>1, <2>3, <2>4, <2>6 DEF RawBlob
<1>5. QED
  BY <1>1, <1>3, <1>4

\* What is unpacked from a blob.
LEMMA Unpacked ==
  ASSUME NEW T, NEW blob \in Seq(T), Len(blob) = BLOB_RAW_BYTES
  PROVE  unpack_blob(blob) \in Seq(T) /\ Len(unpack_blob(blob)) = BLOB_PAYLOAD_BYTES
<1>1. PICK N \in Nat, U \in Nat, B \in Nat :
        /\ N = FIELD_ELEMENTS_PER_BLOB /\ U = USABLE_BYTES_PER_FIELD
        /\ B = BYTES_PER_FIELD_ELEMENT /\ B = U + 1
        /\ BLOB_RAW_BYTES = N * B /\ BLOB_PAYLOAD_BYTES = N * U
  BY Sizes
<1>2. PICK f : f = [i \in 1..N |-> Slice(blob, (i - 1) * B + 1, U)]
  OBVIOUS
<1>3. ASSUME NEW i \in 1..N
      PROVE  f[i] \in Seq(T) /\ Len(f[i]) = U
  <2>1. PICK a \in Nat : a = (i - 1) * B /\ a + B <= Len(blob)
    BY <1>1, Within
  <2>2. PICK c \in Nat : c = a + 1 /\ c + U <= Len(blob)
    BY <1>1, <2>1
  <2>3. Slice(blob, c, U) \in Seq(T) /\ Len(Slice(blob, c, U)) = U
    BY <2>2, SliceIs
  <2>4. f[i] = Slice(blob, c, U)
    BY <1>2, <2>1, <2>2
  <2>5. QED
    BY <2>3, <2>4
<1>4. PartsOf(f, N, T) /\ Even(f, N, U)
  BY <1>3 DEF PartsOf, Even
<1>5. UpTo(f, N) \in Seq(T) /\ Len(UpTo(f, N)) = N * U
  BY <1>4, EvenParts
<1>6. unpack_blob(blob) = UpTo(f, N)
  <2>1. [i \in 1..N |-> Slice(blob, (i - 1) * B + 1, U)] = [i \in 1..N |-> f[i]]
    BY <1>2
  <2>2. QED
    BY <1>1, <2>1 DEF unpack_blob, UpTo
<1>7. QED
  BY <1>1, <1>5, <1>6

\* What n blobs stand for, each canonical, is what they stand for one by one.
LEMMA UnpackedAll ==
  ASSUME NEW T, NEW f, NEW n \in Nat, PartsOf(f, n, T), Even(f, n, BLOB_RAW_BYTES)
  PROVE  /\ unpack_blobs(UpTo(f, n), n) = FlattenSeq([j \in 1..n |-> unpack_blob(f[j])])
         /\ (\A j \in 1..n : Canonical(f[j])) <=> Unpacks(UpTo(f, n), n)
<1>1. PICK data : data = UpTo(f, n)
  OBVIOUS
<1>2. Len(data) = BLOB_RAW_BYTES * n /\ \A j \in 1..n : RawBlob(data, j) = f[j]
  BY <1>1, RawBlobIs
<1>3. [j \in 1..n |-> unpack_blob(RawBlob(data, j))] = [j \in 1..n |-> unpack_blob(f[j])]
  BY <1>2
<1>4. unpack_blobs(data, n) = FlattenSeq([j \in 1..n |-> unpack_blob(f[j])])
  BY <1>3 DEF unpack_blobs
<1>5. (\A j \in 1..n : Canonical(f[j])) <=> Unpacks(data, n)
  BY <1>2 DEF Unpacks
<1>6. QED
  BY <1>1, <1>4, <1>5

\* The stream toBlobs cuts: the data, the sentinel and zeros.
StreamFor(data) ==
  data \o <<Single>>
    \o Zeros((Len(data) \div BLOB_PAYLOAD_BYTES + 1) * BLOB_PAYLOAD_BYTES - Len(data) - 1)

\* It fills its blobs and begins with the data.
LEMMA StreamForIs ==
  ASSUME NEW T, 0 \in T, Single \in T, NEW data \in Seq(T)
  PROVE  \E n \in Nat : \E stream \in Seq(T) :
           /\ n = Len(data) \div BLOB_PAYLOAD_BYTES + 1 /\ stream = StreamFor(data)
           /\ Len(stream) = n * BLOB_PAYLOAD_BYTES /\ IsStart(data, stream)
           /\ Len(data) < n * BLOB_PAYLOAD_BYTES /\ (n - 1) * BLOB_PAYLOAD_BYTES <= Len(data)
<1>1. PICK p \in Nat : p = BLOB_PAYLOAD_BYTES /\ p > 0
  BY Sizes
<1>2. PICK len \in Nat : len = Len(data)
  OBVIOUS
<1>3. PICK n \in Nat, room \in Nat :
        n = len \div p + 1 /\ room = n * p /\ len < room /\ (n - 1) * p <= len
  <2>1. PICK q \in Nat : q = len \div p /\ q * p <= len /\ len < (q + 1) * p
    BY <1>1, Quotient
  <2>2. q + 1 \in Nat /\ (q + 1) * p \in Nat /\ (q + 1) - 1 = q
    OBVIOUS
  <2>3. QED
    BY <2>1, <2>2
<1>4. PICK zeros \in Seq(T) : zeros = Zeros(room - len - 1) /\ Len(zeros) = room - len - 1
  <2>1. room - len - 1 \in Nat
    BY <1>3
  <2>2. PICK z \in Nat : z = room - len - 1
    BY <2>1
  <2>3. Zeros(z) \in Seq(T) /\ Len(Zeros(z)) = z
    BY DEF Zeros
  <2>4. QED
    BY <2>2, <2>3
<1>5. PICK sentinel \in Seq(T) : sentinel = <<Single>> /\ Len(sentinel) = 1
  <2>1. <<Single>> \in Seq(T) /\ Len(<<Single>>) = 1
    OBVIOUS
  <2>2. QED
    BY <2>1
<1>6. PICK head : head = data \o sentinel
  OBVIOUS
<1>7. /\ head \in Seq(T) /\ Len(head) = len + 1
      /\ \A k \in 1..len : head[k] = data[k]
  <2>1. /\ head \in Seq(T) /\ Len(head) = Len(data) + Len(sentinel)
        /\ \A k \in 1..Len(data) : head[k] = data[k]
    BY <1>6, Joined
  <2>2. QED
    BY <1>2, <1>5, <2>1
<1>8. PICK front \in Seq(T) : front = head
  BY <1>7
<1>9. PICK stream : stream = front \o zeros
  OBVIOUS
<1>10. /\ stream \in Seq(T) /\ Len(stream) = Len(front) + Len(zeros)
       /\ \A k \in 1..Len(front) : stream[k] = front[k]
  BY <1>9, Joined
<1>11. Len(stream) = room /\ \A k \in 1..len : stream[k] = data[k]
  <2>1. Len(front) = len + 1 /\ Len(zeros) = room - len - 1
    BY <1>4, <1>7, <1>8
  <2>2. Len(stream) = room
    BY <1>10, <2>1
  <2>3. ASSUME NEW k \in 1..len
        PROVE  stream[k] = data[k]
    <3>1. k \in 1..(len + 1)
      OBVIOUS
    <3>2. stream[k] = front[k]
      BY <1>10, <2>1, <3>1
    <3>3. QED
      BY <1>7, <1>8, <3>2
  <2>4. QED
    BY <2>2, <2>3
<1>12. IsStart(data, stream)
  BY <1>2, <1>3, <1>11 DEF IsStart, Agree
<1>13. stream = StreamFor(data)
  BY <1>1, <1>2, <1>3, <1>4, <1>5, <1>6, <1>8, <1>9 DEF StreamFor
<1>14. /\ n = Len(data) \div BLOB_PAYLOAD_BYTES + 1 /\ Len(stream) = n * BLOB_PAYLOAD_BYTES
       /\ Len(data) < n * BLOB_PAYLOAD_BYTES /\ (n - 1) * BLOB_PAYLOAD_BYTES <= Len(data)
  BY <1>1, <1>2, <1>3, <1>11
<1>15. stream \in Seq(T)
  BY <1>10
<1>16. \E total \in Seq(T) :
         /\ n = Len(data) \div BLOB_PAYLOAD_BYTES + 1 /\ total = StreamFor(data)
         /\ Len(total) = n * BLOB_PAYLOAD_BYTES /\ IsStart(data, total)
         /\ Len(data) < n * BLOB_PAYLOAD_BYTES /\ (n - 1) * BLOB_PAYLOAD_BYTES <= Len(data)
  BY <1>12, <1>13, <1>14, <1>15, Zenon
<1>17. QED
  BY <1>16, Zenon

\* A full payload is not padded.
LEMMA PaddedFull ==
  ASSUME NEW T, NEW payload \in Seq(T), Len(payload) = BLOB_PAYLOAD_BYTES
  PROVE  Padded(payload) = payload
<1>1. BLOB_PAYLOAD_BYTES - Len(payload) = 0
  OBVIOUS
<1>2. Zeros(0) = <<>>
  BY DEF Zeros
<1>3. payload \o <<>> = payload
  OBVIOUS
<1>4. QED
  BY <1>1, <1>2, <1>3 DEF Padded

\* What others read of these blobs: the stream they were cut from.
Carries(blobs, stream) ==
  /\ Unpacks(FlattenSeq(blobs), Len(blobs))
  /\ unpack_blobs(FlattenSeq(blobs), Len(blobs)) = stream

\* The blobs toBlobs makes are raw blobs, one for every BLOB_PAYLOAD_BYTES of
\* the data and one for what is over and the sentinel, and unpack_blobs of the
\* guest gives the data back, with the sentinel and zeros behind.
THEOREM BlobsRoundTrip ==
  ASSUME NEW T, 0 \in T, Single \in T, NEW data \in Seq(T)
  PROVE  /\ Len(toBlobs(data)) = Len(data) \div BLOB_PAYLOAD_BYTES + 1
         /\ \A j \in 1..Len(toBlobs(data)) :
              toBlobs(data)[j] \in Seq(T) /\ Len(toBlobs(data)[j]) = BLOB_RAW_BYTES
         /\ Carries(toBlobs(data), StreamFor(data))
         /\ StreamFor(data) \in Seq(T) /\ IsStart(data, StreamFor(data))
<1>1. PICK n \in Nat, stream \in Seq(T) :
        /\ n = Len(data) \div BLOB_PAYLOAD_BYTES + 1 /\ stream = StreamFor(data)
        /\ Len(stream) = n * BLOB_PAYLOAD_BYTES /\ IsStart(data, stream)
  BY StreamForIs
<1>2. PICK p \in Nat : p = BLOB_PAYLOAD_BYTES
  BY Sizes
<1>3. PICK g : g = [j \in 1..n |-> Slice(stream, (j - 1) * p, p)]
  OBVIOUS
<1>4. PICK f : f = [j \in 1..n |-> pack_blob(g[j])]
  OBVIOUS
<1>5. ASSUME NEW j \in 1..n
      PROVE  g[j] \in Seq(T) /\ Len(g[j]) = p
  <2>1. PICK a \in Nat : a = (j - 1) * p /\ a + p <= n * p
    BY Within
  <2>2. a + p <= Len(stream)
    BY <1>1, <1>2, <2>1
  <2>3. Slice(stream, a, p) \in Seq(T) /\ Len(Slice(stream, a, p)) = p
    BY <2>2, SliceIs
  <2>4. QED
    BY <1>3, <2>1, <2>3
<1>6. ASSUME NEW j \in 1..n
      PROVE  /\ f[j] \in Seq(T) /\ Len(f[j]) = BLOB_RAW_BYTES /\ Canonical(f[j])
             /\ unpack_blob(f[j]) = g[j]
  <2>1. PICK slice \in Seq(T) : slice = g[j] /\ Len(slice) = BLOB_PAYLOAD_BYTES
    BY <1>2, <1>5
  <2>2. Len(slice) <= BLOB_PAYLOAD_BYTES
    BY <2>1, Sizes
  <2>3. /\ pack_blob(slice) \in Seq(T) /\ Len(pack_blob(slice)) = BLOB_RAW_BYTES
        /\ Canonical(pack_blob(slice)) /\ unpack_blob(pack_blob(slice)) = Padded(slice)
    BY <2>2, Packed
  <2>4. Padded(slice) = slice
    BY <2>1, PaddedFull
  <2>5. f[j] = pack_blob(slice)
    BY <1>4, <2>1
  <2>6. QED
    BY <2>1, <2>3, <2>4, <2>5
<1>7. toBlobs(data) = f
  <2>1. toBlobs(data) = [j \in 1..n |-> pack_blob(Slice(stream, (j - 1) * p, p))]
    BY <1>1, <1>2 DEF toBlobs, StreamFor
  <2>2. QED
    BY <1>3, <1>4, <2>1
<1>8. Len(f) = n
  BY <1>4
<1>9. FlattenSeq(f) = UpTo(f, n)
  <2>1. [k \in 1..n |-> f[k]] = f
    BY <1>4
  <2>2. QED
    BY <2>1 DEF UpTo
<1>10. PartsOf(f, n, T) /\ Even(f, n, BLOB_RAW_BYTES)
  BY <1>6 DEF PartsOf, Even
<1>11. /\ unpack_blobs(UpTo(f, n), n) = FlattenSeq([j \in 1..n |-> unpack_blob(f[j])])
       /\ (\A j \in 1..n : Canonical(f[j])) <=> Unpacks(UpTo(f, n), n)
  BY <1>10, UnpackedAll
<1>12. FlattenSeq([j \in 1..n |-> unpack_blob(f[j])]) = UpTo(g, n)
  <2>1. [j \in 1..n |-> unpack_blob(f[j])] = [j \in 1..n |-> g[j]]
    BY <1>6
  <2>2. QED
    BY <2>1 DEF UpTo
<1>13. UpTo(g, n) = stream
  <2>1. AreChunks(g, n, stream, p)
    BY <1>1, <1>2, <1>3 DEF AreChunks, Slice
  <2>2. QED
    BY <2>1, Chunks
<1>14. Carries(f, stream)
  BY <1>6, <1>8, <1>9, <1>11, <1>12, <1>13 DEF Carries
<1>15. QED
  BY <1>1, <1>6, <1>7, <1>8, <1>14

-----------------------------------------------------------------------------
(* Heads.                                                                  *)

\* Where the codes of a kind of item begin.
Base(list) == IF list THEN ListBase ELSE Single

\* What a head announces, form by form: a byte that is its own encoding, a
\* short form and a long one.
LEMMA HeaderForms ==
  ASSUME NEW s \in Seq(Nat), s # <<>>
  PROVE  /\ s[1] < Single => Header(s) = [list |-> FALSE, start |-> 0, size |-> 1]
         /\ \A list \in BOOLEAN, size \in 0..Short :
              s[1] = Base(list) + size => Header(s) = [list |-> list, start |-> 1, size |-> size]
         /\ \A list \in BOOLEAN :
              s[1] = Base(list) + Short + 1
                => Header(s) = [list |-> list, start |-> 2, size |-> IF Len(s) > 1 THEN s[2] ELSE 0]
<1>1. s[1] \in Nat /\ Single \in Nat /\ Short \in Nat
  BY EncodingAssumption
<1>2. ListBase = Single + Short + 2
  BY DEF ListBase
<1>3. s[1] < Single => Header(s) = [list |-> FALSE, start |-> 0, size |-> 1]
  BY <1>1, <1>2 DEF Header
<1>4. ASSUME NEW list \in BOOLEAN, NEW size \in 0..Short, s[1] = Base(list) + size
      PROVE  Header(s) = [list |-> list, start |-> 1, size |-> size]
  BY <1>1, <1>2, <1>4 DEF Header, Base
<1>5. ASSUME NEW list \in BOOLEAN, s[1] = Base(list) + Short + 1
      PROVE  Header(s) = [list |-> list, start |-> 2, size |-> IF Len(s) > 1 THEN s[2] ELSE 0]
  <2>1. (s[1] >= ListBase) = list /\ s[1] - (IF list THEN ListBase ELSE Single) = Short + 1
    BY <1>1, <1>2, <1>5 DEF Base
  <2>2. ~(Short + 1 < 0) /\ ~(Short + 1 \in 0..Short)
    BY <1>1
  <2>3. QED
    BY <2>1, <2>2 DEF Header
<1>6. QED
  BY <1>3, <1>4, <1>5

\* In bytes there are no other forms.
LEMMA HeaderCases ==
  ASSUME NEW s \in Seq(Bytes), s # <<>>
  PROVE  \/ s[1] < Single
         \/ \E list \in BOOLEAN, size \in 0..Short : s[1] = Base(list) + size
         \/ \E list \in BOOLEAN : s[1] = Base(list) + Short + 1
<1>1. s[1] \in Bytes /\ Single \in Nat /\ Short \in Nat
  BY EncodingAssumption
<1>2. s[1] \in Nat /\ s[1] <= Single + Short + 2 + Short + 1
  BY <1>1 DEF Bytes, ListBase
<1>3. CASE s[1] < Single
  BY <1>3
<1>4. CASE s[1] \in Single..(Single + Short)
  <2>1. s[1] - Single \in 0..Short /\ s[1] = Base(FALSE) + (s[1] - Single)
    BY <1>1, <1>4 DEF Base
  <2>2. QED
    BY <2>1
<1>5. CASE s[1] = Single + Short + 1
  <2>1. s[1] = Base(FALSE) + Short + 1
    BY <1>5 DEF Base
  <2>2. QED
    BY <2>1
<1>6. CASE s[1] \in ListBase..(ListBase + Short)
  <2>1. s[1] - ListBase \in 0..Short /\ s[1] = Base(TRUE) + (s[1] - ListBase)
    BY <1>1, <1>6 DEF Base, ListBase
  <2>2. QED
    BY <2>1
<1>7. CASE s[1] = ListBase + Short + 1
  <2>1. s[1] = Base(TRUE) + Short + 1
    BY <1>7 DEF Base
  <2>2. QED
    BY <2>1
<1>8. QED
  BY <1>1, <1>2, <1>3, <1>4, <1>5, <1>6, <1>7 DEF ListBase

\* The head that is written, in the short form or the long one.
LEMMA WrittenHead ==
  ASSUME NEW list, NEW size \in Nat, NEW head, head = encode_header(list, size)
  PROVE  /\ head \in Seq(Nat) /\ head[1] \in Nat
         /\ size <= Short => Len(head) = 1 /\ head[1] = Base(list) + size
         /\ size > Short => Len(head) = 2 /\ head[1] = Base(list) + Short + 1 /\ head[2] = size
<1>1. Base(list) \in Nat /\ Short \in Nat
  BY EncodingAssumption DEF Base, ListBase
<1>2. encode_header(list, size) =
        IF size <= Short THEN <<Base(list) + size>> ELSE <<Base(list) + Short + 1, size>>
  BY DEF encode_header, Base
<1>3. CASE size <= Short
  <2>1. head = <<Base(list) + size>> /\ Base(list) + size \in Nat
    BY <1>1, <1>2, <1>3
  <2>2. QED
    BY <1>1, <1>3, <2>1
<1>4. CASE size > Short
  <2>1. head = <<Base(list) + Short + 1, size>> /\ Base(list) + Short + 1 \in Nat
    BY <1>1, <1>2, <1>4
  <2>2. QED
    BY <1>1, <1>4, <2>1
<1>5. QED
  BY <1>1, <1>3, <1>4

\* s starts with an item of this width, and this is its body.
StartsWith(s, list, width, body) ==
  /\ s # <<>> /\ HeaderDecodes(s) /\ Header(s).list = list
  /\ Header(s).start + Header(s).size = width /\ Item(s) = body

\* A head that is written is read.
LEMMA HeadRoundTrip ==
  ASSUME NEW list \in BOOLEAN, NEW body \in Seq(Nat), ~list /\ Len(body) = 1 => body[1] >= Single,
         NEW s \in Seq(Nat), NEW item, item = encode_header(list, Len(body)) \o body, IsStart(item, s)
  PROVE  /\ item \in Seq(Nat) /\ Len(item) > Len(body)
         /\ StartsWith(s, list, Len(item), body)
<1>1. PICK size \in Nat : size = Len(body)
  OBVIOUS
<1>2. PICK head \in Seq(Nat) :
        /\ head = encode_header(list, size) /\ head[1] \in Nat
        /\ size <= Short => Len(head) = 1 /\ head[1] = Base(list) + size
        /\ size > Short => Len(head) = 2 /\ head[1] = Base(list) + Short + 1 /\ head[2] = size
  <2>1. PICK head : head = encode_header(list, size)
    OBVIOUS
  <2>2. /\ head \in Seq(Nat) /\ head[1] \in Nat
        /\ size <= Short => Len(head) = 1 /\ head[1] = Base(list) + size
        /\ size > Short => Len(head) = 2 /\ head[1] = Base(list) + Short + 1 /\ head[2] = size
    BY <2>1, WrittenHead
  <2>3. QED
    BY <2>1, <2>2
<1>3. PICK n \in {1, 2} : n = Len(head) /\ (size <= Short <=> n = 1)
  BY <1>2, EncodingAssumption
<1>4. /\ item \in Seq(Nat) /\ Len(item) = n + size
      /\ \A k \in 1..n : item[k] = head[k]
      /\ \A j \in 1..size : item[n + j] = body[j]
  <2>1. item = head \o body
    BY <1>1, <1>2
  <2>2. /\ item \in Seq(Nat) /\ Len(item) = Len(head) + Len(body)
        /\ \A k \in 1..Len(head) : item[k] = head[k]
        /\ \A j \in 1..Len(body) : item[Len(head) + j] = body[j]
    BY <2>1, Joined
  <2>3. QED
    BY <1>1, <1>3, <2>2
<1>5. /\ Len(item) <= Len(s) /\ \A k \in 1..Len(item) : s[k] = item[k]
  BY DEF IsStart, Agree
<1>6. /\ s # <<>> /\ n + size <= Len(s)
      /\ \A k \in 1..n : s[k] = head[k]
      /\ \A j \in 1..size : s[n + j] = body[j]
  <2>1. \A k \in 1..n : k \in 1..(n + size)
    OBVIOUS
  <2>2. \A j \in 1..size : n + j \in 1..(n + size)
    OBVIOUS
  <2>3. n + size <= Len(s) /\ s # <<>>
    BY <1>4, <1>5
  <2>4. ASSUME NEW k \in 1..n
        PROVE  s[k] = head[k]
    BY <1>4, <1>5, <2>1
  <2>5. ASSUME NEW j \in 1..size
        PROVE  s[n + j] = body[j]
    BY <1>4, <1>5, <2>2
  <2>6. QED
    BY <2>3, <2>4, <2>5
<1>7. Header(s) = [list |-> list, start |-> n, size |-> size]
  <2>1. CASE n = 1
    <3>1. size \in 0..Short /\ s[1] = Base(list) + size
      BY <1>2, <1>3, <1>6, <2>1, EncodingAssumption
    <3>2. QED
      BY <1>6, <2>1, <3>1, HeaderForms
  <2>2. CASE n = 2
    <3>1. size > Short
      BY <1>3, <2>2, EncodingAssumption
    <3>2. s[1] = head[1] /\ s[2] = head[2]
      <4>1. 1 \in 1..n /\ 2 \in 1..n
        BY <2>2
      <4>2. QED
        BY <1>6, <4>1
    <3>3. Len(s) > 1
      BY <1>6, <2>2
    <3>4. s[1] = Base(list) + Short + 1 /\ s[2] = size
      BY <1>2, <3>1, <3>2
    <3>5. Header(s) = [list |-> list, start |-> 2, size |-> IF Len(s) > 1 THEN s[2] ELSE 0]
      BY <1>6, <3>4, HeaderForms
    <3>6. QED
      BY <2>2, <3>3, <3>4, <3>5
  <2>3. QED
    BY <2>1, <2>2
<1>8. Item(s) = body
  <2>1. PICK m \in Nat : m = n
    OBVIOUS
  <2>2. /\ Slice(s, m, size) \in Seq(Nat) /\ Len(Slice(s, m, size)) = size
        /\ \A j \in 1..size : Slice(s, m, size)[j] = s[m + j]
    <3>1. m + size <= Len(s)
      BY <1>6, <2>1
    <3>2. QED
      BY <3>1, SliceIs, SMTT(30)
  <2>3. PICK slice \in Seq(Nat) : slice = Slice(s, m, size)
    BY <2>2
  <2>4. Len(slice) = Len(body) /\ \A j \in 1..Len(slice) : slice[j] = body[j]
    BY <1>1, <1>6, <2>1, <2>2, <2>3
  <2>5. slice = body
    BY <2>4, SeqEqual
  <2>6. Header(s).start = m /\ Header(s).size = size
    BY <1>7, <2>1
  <2>7. QED
    BY <2>3, <2>5, <2>6 DEF Item
<1>9. HeaderDecodes(s)
  <2>1. n = 2 => size > Short
    BY <1>3, EncodingAssumption
  <2>2. n = 1 /\ size = 1 /\ ~list => s[2] >= Single
    BY <1>1, <1>6
  <2>3. QED
    BY <1>6, <1>7, <2>1, <2>2 DEF HeaderDecodes
<1>10. QED
  BY <1>1, <1>4, <1>6, <1>7, <1>8, <1>9 DEF StartsWith

\* s starts with this entry.
StartsWithEntry(s, width, e) == StartsWith(s, FALSE, width, e)

\* An entry that is written is read.
LEMMA EntryRoundTrip ==
  ASSUME NEW e \in Seq(Nat), NEW s \in Seq(Nat), NEW item, item = encode_string(e), IsStart(item, s)
  PROVE  item \in Seq(Nat) /\ StartsWithEntry(s, Len(item), e)
<1>1. CASE Len(e) = 1 /\ e[1] < Single
  <2>1. item = e
    BY <1>1 DEF encode_string
  <2>2. 1 \in 1..Len(e) /\ Len(e) <= Len(s) /\ \A k \in 1..Len(e) : e[k] = s[k]
    <3>1. IsStart(e, s)
      BY <2>1
    <3>2. QED
      BY <1>1, <3>1 DEF IsStart, Agree
  <2>3. Len(s) >= 1 /\ s # <<>> /\ s[1] = e[1]
    BY <1>1, <2>2
  <2>4. Header(s) = [list |-> FALSE, start |-> 0, size |-> 1]
    BY <1>1, <2>3, HeaderForms
  <2>5. HeaderDecodes(s)
    BY <2>3, <2>4 DEF HeaderDecodes
  <2>6. /\ Slice(s, 0, 1) \in Seq(Nat) /\ Len(Slice(s, 0, 1)) = 1
        /\ \A j \in 1..1 : Slice(s, 0, 1)[j] = s[0 + j]
    <3>1. 0 \in Nat /\ 1 \in Nat /\ 0 + 1 <= Len(s)
      BY <2>3
    <3>2. QED
      BY <3>1, SliceIs
  <2>7. PICK slice \in Seq(Nat) : slice = Slice(s, 0, 1) /\ Len(slice) = 1 /\ slice[1] = s[1]
    BY <2>6
  <2>8. slice = e
    <3>1. Len(slice) = Len(e) /\ \A j \in 1..Len(slice) : slice[j] = e[j]
      BY <1>1, <2>3, <2>7
    <3>2. QED
      BY <3>1, SeqEqual
  <2>9. QED
    BY <1>1, <2>1, <2>3, <2>4, <2>5, <2>7, <2>8 DEF StartsWithEntry, StartsWith, Item
<1>2. CASE ~(Len(e) = 1 /\ e[1] < Single)
  <2>1. item = encode_header(FALSE, Len(e)) \o e
    BY <1>2 DEF encode_string
  <2>2. ASSUME Len(e) = 1
        PROVE  e[1] >= Single
    <3>1. Single \in Nat
      BY EncodingAssumption
    <3>2. 1 \in 1..Len(e)
      BY <2>2
    <3>3. e[1] \in Nat
      BY <3>2, ElementOfSeq
    <3>4. QED
      BY <1>2, <2>2, <3>1, <3>3
  <2>3. QED
    BY <2>1, <2>2, HeadRoundTrip DEF StartsWithEntry
<1>3. QED
  BY <1>1, <1>2

\* A sequence over a set is one over a larger set.
LEMMA Widened ==
  ASSUME NEW T, NEW U, T \subseteq U, NEW s \in Seq(T)
  PROVE  s \in Seq(U)
<1>1. s \in [1..Len(s) -> U] /\ Len(s) \in Nat
  OBVIOUS
<1>2. QED
  BY <1>1

\* A head that decodes announces an item that is there.
LEMMA ItemIsThere ==
  ASSUME NEW T, T \subseteq Nat, NEW s \in Seq(T), HeaderDecodes(s)
  PROVE  \E start \in Nat, size \in Nat :
           /\ start = Header(s).start /\ size = Header(s).size
           /\ start + size > 0 /\ start + size <= Len(s) /\ s # <<>>
           /\ Item(s) \in Seq(T) /\ Len(Item(s)) = size
           /\ Item(s) = Slice(s, start, size)
<1>1. s # <<>> /\ Header(s).start + Header(s).size <= Len(s)
  BY DEF HeaderDecodes
<1>2. s[1] \in Nat /\ (Len(s) > 1 => s[2] \in Nat)
  <2>1. s \in Seq(Nat)
    BY Widened
  <2>2. Len(s) # 0
    BY <1>1
  <2>3. QED
    BY <2>1, <2>2
<1>3. PICK start \in Nat, size \in Nat :
        start = Header(s).start /\ size = Header(s).size /\ start + size > 0
  <2>1. Single \in Nat /\ Short \in Nat
    BY EncodingAssumption
  <2>2. PICK code \in Int : code = s[1] - (IF s[1] >= ListBase THEN ListBase ELSE Single)
    BY <1>2, <2>1 DEF ListBase
  <2>3. Header(s) = CASE code < 0 -> [list |-> FALSE, start |-> 0, size |-> 1]
                      [] code \in 0..Short -> [list |-> s[1] >= ListBase, start |-> 1, size |-> code]
                      [] OTHER -> [list |-> s[1] >= ListBase, start |-> 2,
                                   size |-> IF Len(s) > 1 THEN s[2] ELSE 0]
    BY <2>2 DEF Header
  <2>4. CASE code < 0
    <3>1. Header(s) = [list |-> FALSE, start |-> 0, size |-> 1]
      BY <2>3, <2>4
    <3>2. Header(s).start = 0 /\ Header(s).size = 1
      BY <3>1
    <3>3. QED
      BY <3>2
  <2>5. CASE code \in 0..Short
    <3>1. Header(s) = [list |-> s[1] >= ListBase, start |-> 1, size |-> code]
      BY <2>1, <2>3, <2>5
    <3>2. Header(s).start = 1 /\ Header(s).size = code
      BY <3>1
    <3>3. QED
      BY <2>1, <2>5, <3>2
  <2>6. CASE ~(code < 0) /\ ~(code \in 0..Short)
    <3>1. Header(s) = [list |-> s[1] >= ListBase, start |-> 2,
                       size |-> IF Len(s) > 1 THEN s[2] ELSE 0]
      BY <2>3, <2>6
    <3>2. Header(s).start = 2 /\ Header(s).size = IF Len(s) > 1 THEN s[2] ELSE 0
      BY <3>1
    <3>3. Header(s).size \in Nat
      BY <1>2, <3>2
    <3>4. QED
      BY <3>2, <3>3
  <2>7. QED
    BY <2>4, <2>5, <2>6
<1>4. Slice(s, start, size) \in Seq(T) /\ Len(Slice(s, start, size)) = size
  <2>1. start + size <= Len(s)
    BY <1>1, <1>3
  <2>2. QED
    BY <2>1, SliceIs
<1>5. Item(s) = Slice(s, start, size)
  BY <1>3 DEF Item
<1>6. QED
  BY <1>1, <1>3, <1>4, <1>5

\* A head whose bytes are those that are written for its size is written so.
LEMMA HeadIsFront ==
  ASSUME NEW list, NEW s \in Seq(Nat), NEW size \in Nat, NEW start \in {1, 2}, start <= Len(s),
         start = 1 => size <= Short /\ s[1] = Base(list) + size,
         start = 2 => size > Short /\ s[1] = Base(list) + Short + 1 /\ s[2] = size
  PROVE  encode_header(list, size) = SubSeq(s, 1, start)
<1>1. PICK head : head = encode_header(list, size)
  OBVIOUS
<1>2. /\ head \in Seq(Nat) /\ head[1] \in Nat
      /\ size <= Short => Len(head) = 1 /\ head[1] = Base(list) + size
      /\ size > Short => Len(head) = 2 /\ head[1] = Base(list) + Short + 1 /\ head[2] = size
  BY <1>1, WrittenHead
<1>3. /\ SubSeq(s, 0 + 1, start) \in Seq(Nat) /\ Len(SubSeq(s, 0 + 1, start)) = start - 0
      /\ \A j \in 1..(start - 0) : SubSeq(s, 0 + 1, start)[j] = s[0 + j]
  <2>1. 0 \in Nat /\ start \in Nat /\ 0 <= start
    OBVIOUS
  <2>2. QED
    BY <2>1, SliceOf
<1>4. PICK front \in Seq(Nat) : front = SubSeq(s, 1, start)
  <2>1. SubSeq(s, 1, start) \in Seq(Nat)
    BY <1>3
  <2>2. QED
    BY <2>1
<1>5. Len(front) = start /\ \A j \in 1..start : front[j] = s[j]
  BY <1>3, <1>4
<1>6. Len(head) = Len(front) /\ \A j \in 1..Len(head) : head[j] = front[j]
  <2>1. CASE start = 1
    <3>1. Len(head) = 1 /\ head[1] = s[1]
      BY <1>2, <2>1
    <3>2. QED
      BY <1>5, <2>1, <3>1
  <2>2. CASE start = 2
    <3>1. Len(head) = 2 /\ head[1] = s[1] /\ head[2] = s[2]
      BY <1>2, <2>2
    <3>2. QED
      BY <1>5, <2>2, <3>1
  <2>3. QED
    BY <2>1, <2>2
<1>7. head = front
  BY <1>2, <1>6, SeqEqual
<1>8. QED
  BY <1>1, <1>4, <1>7

\* What the encoder makes of an item.
Encoded(list, body) == IF list THEN encode_header(TRUE, Len(body)) \o body ELSE encode_string(body)

\* The form of a head that decodes is the one the encoder writes: a length is
\* never in the long form when the short one does, and a byte that is its own
\* encoding has no head.
LEMMA OnlyShortest ==
  ASSUME NEW s \in Seq(Bytes), HeaderDecodes(s)
  PROVE  Encoded(Header(s).list, Item(s)) = SubSeq(s, 1, Header(s).start + Header(s).size)
<1>1. Bytes \subseteq Nat /\ Short \in Nat /\ Single \in Nat
  BY EncodingAssumption DEF Bytes
<1>2. PICK start \in Nat, size \in Nat :
        /\ start = Header(s).start /\ size = Header(s).size
        /\ start + size > 0 /\ start + size <= Len(s) /\ s # <<>>
        /\ Item(s) \in Seq(Bytes) /\ Len(Item(s)) = size
        /\ Item(s) = Slice(s, start, size)
  BY <1>1, ItemIsThere
<1>3. PICK body \in Seq(Bytes) : body = Item(s) /\ Len(body) = size
  BY <1>2
<1>4. body = SubSeq(s, start + 1, start + size)
  BY <1>2, <1>3 DEF Slice
<1>5. s \in Seq(Nat)
  BY <1>1, Widened
<1>6. PICK rest \in Nat : rest = start + size
  OBVIOUS
<1>7. \A j \in 1..size : body[j] = s[start + j]
  <2>1. start + size <= Len(s)
    BY <1>2
  <2>2. \A j \in 1..size : Slice(s, start, size)[j] = s[start + j]
    BY <2>1, SliceIs
  <2>3. QED
    BY <1>2, <1>3, <2>2
<1>8. CASE s[1] < Single
  <2>1. Header(s) = [list |-> FALSE, start |-> 0, size |-> 1]
    BY <1>2, <1>5, <1>8, HeaderForms
  <2>2. ~Header(s).list /\ start = 0 /\ size = 1
    BY <1>2, <2>1
  <2>3. body[1] = s[1]
    <3>1. 1 \in 1..size /\ start + 1 = 1
      BY <2>2
    <3>2. QED
      BY <1>7, <3>1
  <2>4. encode_string(body) = body
    BY <1>3, <1>8, <2>2, <2>3 DEF encode_string
  <2>5. body = SubSeq(s, 1, 1)
    BY <1>4, <2>2
  <2>6. QED
    BY <1>2, <1>3, <2>2, <2>4, <2>5 DEF Encoded
<1>9. ASSUME NEW list \in BOOLEAN, start \in {1, 2}, Header(s).list = list,
             encode_header(list, size) = SubSeq(s, 1, start),
             ~list => ~(size = 1 /\ body[1] < Single)
      PROVE  Encoded(Header(s).list, Item(s)) = SubSeq(s, 1, Header(s).start + Header(s).size)
  <2>1. SubSeq(s, 0 + 1, start) \o SubSeq(s, start + 1, rest) = SubSeq(s, 0 + 1, rest)
    <3>1. 0 \in Nat /\ 0 <= start /\ start <= rest /\ rest <= Len(s)
      BY <1>2, <1>6
    <3>2. QED
      BY <3>1, SlicesJoin
  <2>2. encode_header(list, size) \o body = SubSeq(s, 1, rest)
    BY <1>4, <1>6, <1>9, <2>1
  <2>3. Encoded(list, body) = encode_header(list, size) \o body
    <3>1. CASE list
      BY <1>3, <3>1 DEF Encoded
    <3>2. CASE ~list
      BY <1>3, <1>9, <3>2 DEF Encoded, encode_string
    <3>3. QED
      BY <3>1, <3>2
  <2>4. QED
    BY <1>2, <1>3, <1>6, <1>9, <2>2, <2>3
<1>10. ASSUME NEW list \in BOOLEAN, NEW code \in 0..Short, s[1] = Base(list) + code
       PROVE  Encoded(Header(s).list, Item(s)) = SubSeq(s, 1, Header(s).start + Header(s).size)
  <2>1. Header(s) = [list |-> list, start |-> 1, size |-> code]
    BY <1>2, <1>5, <1>10, HeaderForms
  <2>2. Header(s).list = list /\ start = 1 /\ size = code
    BY <1>2, <2>1
  <2>3. encode_header(list, size) = SubSeq(s, 1, start)
    <3>1. start \in {1, 2} /\ start <= Len(s) /\ size <= Short /\ s[1] = Base(list) + size
      BY <1>1, <1>2, <1>10, <2>2
    <3>2. QED
      BY <1>5, <2>2, <3>1, HeadIsFront
  <2>4. ~list => ~(size = 1 /\ body[1] < Single)
    <3>1. SUFFICES ASSUME ~list, size = 1 PROVE ~(body[1] < Single)
      OBVIOUS
    <3>2. s[2] >= Single
      BY <1>2, <2>2, <3>1 DEF HeaderDecodes
    <3>3. body[1] = s[2]
      <4>1. 1 \in 1..size /\ start + 1 = 2
        BY <2>2, <3>1
      <4>2. QED
        BY <1>7, <4>1
    <3>4. s[2] \in Nat
      BY <1>2, <1>5, <2>2, <3>1
    <3>5. QED
      BY <1>1, <3>2, <3>3, <3>4
  <2>5. QED
    BY <1>9, <2>2, <2>3, <2>4
<1>11. ASSUME NEW list \in BOOLEAN, s[1] = Base(list) + Short + 1
       PROVE  Encoded(Header(s).list, Item(s)) = SubSeq(s, 1, Header(s).start + Header(s).size)
  <2>1. Header(s) = [list |-> list, start |-> 2, size |-> IF Len(s) > 1 THEN s[2] ELSE 0]
    BY <1>2, <1>5, <1>11, HeaderForms
  <2>2. Header(s).list = list /\ start = 2 /\ size = IF Len(s) > 1 THEN s[2] ELSE 0
    BY <1>2, <2>1
  <2>3. size > Short
    BY <1>2, <2>2 DEF HeaderDecodes
  <2>4. encode_header(list, size) = SubSeq(s, 1, start)
    <3>1. start \in {1, 2} /\ start <= Len(s) /\ s[2] = size
      BY <1>2, <2>2
    <3>2. QED
      BY <1>5, <1>11, <2>2, <2>3, <3>1, HeadIsFront
  <2>5. size # 1
    BY <1>1, <2>3, EncodingAssumption
  <2>6. QED
    BY <1>9, <2>2, <2>4, <2>5
<1>12. QED
  BY <1>2, <1>8, <1>10, <1>11, HeaderCases

-----------------------------------------------------------------------------
(* The items of a payload.                                                 *)

\* What is left of the payload from position i on.
Rest(payload, i) == SubSeq(payload, i + 1, Len(payload))

\* The items from position i on, given those from later ones on.
ItemsFrom(f, payload, i) ==
  IF Rest(payload, i) = <<>> THEN [ok |-> TRUE, items |-> <<>>]
  ELSE IF ~HeaderDecodes(Rest(payload, i)) \/ Header(Rest(payload, i)).list
       THEN [ok |-> FALSE, items |-> <<>>]
  ELSE [ok |-> f[i + Header(Rest(payload, i)).start + Header(Rest(payload, i)).size].ok,
        items |-> <<Item(Rest(payload, i))>>
                    \o f[i + Header(Rest(payload, i)).start + Header(Rest(payload, i)).size].items]

\* f gives them for every position.
IsItems(f, payload) == f = [i \in 0..Len(payload) |-> ItemsFrom(f, payload, i)]

\* What reading a payload may give.
ReadSoFar(T) == [ok : BOOLEAN, items : Seq(Seq(T))]

\* What is left.
LEMMA RestIs ==
  ASSUME NEW T, NEW payload \in Seq(T), NEW i \in 0..Len(payload)
  PROVE  /\ Rest(payload, i) \in Seq(T) /\ Len(Rest(payload, i)) = Len(payload) - i
         /\ \A j \in 1..(Len(payload) - i) : Rest(payload, i)[j] = payload[i + j]
<1>1. PICK n \in Nat : n = Len(payload) /\ i \in Nat /\ i <= n
  OBVIOUS
<1>2. /\ SubSeq(payload, i + 1, n) \in Seq(T) /\ Len(SubSeq(payload, i + 1, n)) = n - i
      /\ \A j \in 1..(n - i) : SubSeq(payload, i + 1, n)[j] = payload[i + j]
  BY <1>1, SliceOf
<1>3. QED
  BY <1>1, <1>2 DEF Rest

\* Where an item was read, the next position is a later one of the payload.
LEMMA NextPosition ==
  ASSUME NEW T, T \subseteq Nat, NEW payload \in Seq(T), NEW i \in 0..Len(payload),
         HeaderDecodes(Rest(payload, i))
  PROVE  \E next \in (i + 1)..Len(payload) :
           /\ next = i + Header(Rest(payload, i)).start + Header(Rest(payload, i)).size
           /\ Item(Rest(payload, i)) \in Seq(T)
<1>1. PICK s \in Seq(T) : s = Rest(payload, i) /\ Len(s) = Len(payload) - i
  <2>1. Rest(payload, i) \in Seq(T) /\ Len(Rest(payload, i)) = Len(payload) - i
    BY RestIs
  <2>2. QED
    BY <2>1
<1>2. PICK start \in Nat, size \in Nat :
        /\ start = Header(s).start /\ size = Header(s).size
        /\ start + size > 0 /\ start + size <= Len(s)
        /\ Item(s) \in Seq(T)
  <2>1. HeaderDecodes(s)
    BY <1>1
  <2>2. QED
    BY <2>1, ItemIsThere
<1>3. PICK next \in (i + 1)..Len(payload) : next = i + start + size
  <2>1. PICK n \in Nat : n = Len(payload)
    OBVIOUS
  <2>2. start + size > 0 /\ start + size <= n - i
    BY <1>1, <1>2, <2>1
  <2>3. i + start + size \in (i + 1)..n
    BY <2>1, <2>2
  <2>4. QED
    BY <2>1, <2>3
<1>4. /\ next = i + Header(Rest(payload, i)).start + Header(Rest(payload, i)).size
      /\ Item(Rest(payload, i)) \in Seq(T)
  BY <1>1, <1>2, <1>3
<1>5. QED
  BY <1>4

\* Only later positions matter, and what they give has the type it should.
LEMMA ItemsFromLater ==
  ASSUME NEW T, T \subseteq Nat, NEW payload \in Seq(T), NEW i \in 0..Len(payload), NEW f,
         \A j \in (i + 1)..Len(payload) : f[j] \in ReadSoFar(T)
  PROVE  /\ ItemsFrom(f, payload, i) \in ReadSoFar(T)
         /\ \A g : Agree(f, g, (i + 1)..Len(payload)) => ItemsFrom(f, payload, i) = ItemsFrom(g, payload, i)
<1>1. CASE Rest(payload, i) = <<>>
  <2>1. PICK none : none = [ok |-> TRUE, items |-> <<>>]
    OBVIOUS
  <2>2. \A g : ItemsFrom(g, payload, i) = none
    BY <1>1, <2>1 DEF ItemsFrom
  <2>3. <<>> \in Seq(Seq(T))
    OBVIOUS
  <2>4. none \in ReadSoFar(T)
    BY <2>1, <2>3 DEF ReadSoFar
  <2>5. QED
    BY <2>2, <2>4
<1>2. CASE Rest(payload, i) # <<>> /\ (~HeaderDecodes(Rest(payload, i)) \/ Header(Rest(payload, i)).list)
  <2>1. PICK none : none = [ok |-> FALSE, items |-> <<>>]
    OBVIOUS
  <2>2. \A g : ItemsFrom(g, payload, i) = none
    BY <1>2, <2>1 DEF ItemsFrom
  <2>3. <<>> \in Seq(Seq(T))
    OBVIOUS
  <2>4. none \in ReadSoFar(T)
    BY <2>1, <2>3 DEF ReadSoFar
  <2>5. QED
    BY <2>2, <2>4
<1>3. CASE /\ Rest(payload, i) # <<>>
           /\ ~(~HeaderDecodes(Rest(payload, i)) \/ Header(Rest(payload, i)).list)
  <2>1. PICK next \in (i + 1)..Len(payload), item \in Seq(T) :
          /\ next = i + Header(Rest(payload, i)).start + Header(Rest(payload, i)).size
          /\ item = Item(Rest(payload, i))
    BY <1>3, NextPosition
  <2>2. \A g : ItemsFrom(g, payload, i) = [ok |-> g[next].ok, items |-> <<item>> \o g[next].items]
    BY <1>3, <2>1 DEF ItemsFrom
  <2>3. PICK items \in Seq(Seq(T)) : items = f[next].items /\ f[next].ok \in BOOLEAN
    BY DEF ReadSoFar
  <2>4. <<item>> \in Seq(Seq(T))
    OBVIOUS
  <2>5. PICK first \in Seq(Seq(T)) : first = <<item>>
    BY <2>4
  <2>6. first \o items \in Seq(Seq(T))
    OBVIOUS
  <2>7. ItemsFrom(f, payload, i) = [ok |-> f[next].ok, items |-> first \o items]
    BY <2>2, <2>3, <2>5
  <2>8. ItemsFrom(f, payload, i) \in ReadSoFar(T)
    BY <2>3, <2>6, <2>7 DEF ReadSoFar
  <2>9. ASSUME NEW g, Agree(f, g, (i + 1)..Len(payload))
        PROVE  ItemsFrom(f, payload, i) = ItemsFrom(g, payload, i)
    <3>1. f[next] = g[next]
      BY <2>9 DEF Agree
    <3>2. QED
      BY <2>2, <3>1
  <2>10. QED
    BY <2>8, <2>9
<1>4. QED
  BY <1>1, <1>2, <1>3

\* There is such a function.
LEMMA ItemsExist ==
  ASSUME NEW T, T \subseteq Nat, NEW payload \in Seq(T)
  PROVE  \E f \in [0..Len(payload) -> ReadSoFar(T)] : IsItems(f, payload)
<1> DEFINE n == Len(payload)
           Good(g, m) == \A i \in 0..n : i > n - m => g[i] = ItemsFrom(g, payload, i)
           S == {m \in Nat : \E g \in [0..n -> ReadSoFar(T)] : Good(g, m)}
<1>1. n \in Nat
  OBVIOUS
<1>2. 0 \in S
  <2>1. PICK none : none = [ok |-> TRUE, items |-> <<>>]
    OBVIOUS
  <2>2. <<>> \in Seq(Seq(T))
    OBVIOUS
  <2>3. none \in ReadSoFar(T)
    BY <2>1, <2>2 DEF ReadSoFar
  <2>4. PICK g \in [0..n -> ReadSoFar(T)] : g = [i \in 0..n |-> none]
    BY <2>3
  <2>5. Good(g, 0)
    BY <1>1
  <2>6. QED
    BY <2>5
<1>3. ASSUME NEW m \in Nat, m \in S
      PROVE  m + 1 \in S
  <2>1. PICK g \in [0..n -> ReadSoFar(T)] : Good(g, m)
    BY <1>3
  <2>2. CASE n - m \notin 0..n
    <3>1. Good(g, m + 1)
      <4>1. \A i \in 0..n : i > n - (m + 1) => i > n - m
        BY <1>1, <2>2
      <4>2. QED
        BY <2>1, <4>1
    <3>2. QED
      BY <3>1
  <2>3. CASE n - m \in 0..n
    <3>1. PICK k \in 0..n : k = n - m
      BY <2>3
    <3>2. \A j \in (k + 1)..n : g[j] \in ReadSoFar(T)
      BY <1>1
    <3>3. PICK new \in ReadSoFar(T) : new = ItemsFrom(g, payload, k)
      <4>1. ItemsFrom(g, payload, k) \in ReadSoFar(T)
        BY <3>2, ItemsFromLater
      <4>2. QED
        BY <4>1
    <3>4. PICK h \in [0..n -> ReadSoFar(T)] : h = [g EXCEPT ![k] = new]
      OBVIOUS
    <3>5. h[k] = new /\ \A j \in 0..n : j # k => h[j] = g[j]
      BY <3>4
    <3>6. ASSUME NEW i \in 0..n, i > n - (m + 1)
          PROVE  h[i] = ItemsFrom(h, payload, i)
      <4>1. i >= k
        BY <1>1, <3>1, <3>6
      <4>2. Agree(g, h, (i + 1)..n)
        BY <1>1, <3>5, <4>1 DEF Agree
      <4>3. \A j \in (i + 1)..n : g[j] \in ReadSoFar(T)
        BY <1>1
      <4>4. ItemsFrom(g, payload, i) = ItemsFrom(h, payload, i)
        <5>1. \A e : Agree(g, e, (i + 1)..Len(payload))
                      => ItemsFrom(g, payload, i) = ItemsFrom(e, payload, i)
          BY <4>3, ItemsFromLater
        <5>2. Agree(g, h, (i + 1)..Len(payload))
          BY <4>2
        <5>3. QED
          BY <5>1, <5>2, Zenon
      <4>5. CASE i = k
        BY <3>3, <3>5, <4>4, <4>5
      <4>6. CASE i # k
        <5>1. i > n - m
          BY <1>1, <3>1, <4>1, <4>6
        <5>2. g[i] = ItemsFrom(g, payload, i)
          BY <2>1, <5>1
        <5>3. QED
          BY <3>5, <4>4, <4>6, <5>2
      <4>7. QED
        BY <4>5, <4>6
    <3>7. Good(h, m + 1)
      BY <3>6
    <3>8. QED
      BY <3>7
  <2>4. QED
    BY <2>2, <2>3
<1>4. n + 1 \in S
  <2> HIDE DEF S
  <2>1. n + 1 \in Nat
    BY <1>1
  <2>2. QED
    BY <1>2, <1>3, <2>1, Induct
<1>5. PICK g \in [0..n -> ReadSoFar(T)] : Good(g, n + 1)
  BY <1>4
<1>6. \A i \in 0..n : g[i] = ItemsFrom(g, payload, i)
  BY <1>1, <1>5
<1>7. g = [i \in 0..n |-> ItemsFrom(g, payload, i)]
  BY <1>6
<1>8. QED
  BY <1>5, <1>7 DEF IsItems

\* Items is its value at the head.
LEMMA ItemsIs ==
  ASSUME NEW T, T \subseteq Nat, NEW payload \in Seq(T)
  PROVE  \E f \in [0..Len(payload) -> ReadSoFar(T)] : IsItems(f, payload) /\ Items(payload) = f[0]
<1> DEFINE f == CHOOSE from : from = [i \in 0..Len(payload) |-> ItemsFrom(from, payload, i)]
           S == {i \in 0..Len(payload) : f[i] \in ReadSoFar(T)}
<1>1. Items(payload) = f[0]
  BY DEF Items, ItemsFrom, Rest
<1>2. IsItems(f, payload)
  BY ItemsExist DEF IsItems
<1> HIDE DEF f
<1>3. \A i \in 0..Len(payload) : f[i] = ItemsFrom(f, payload, i)
  BY <1>2 DEF IsItems
<1>4. ASSUME NEW i \in 0..Len(payload), \A j \in (i + 1)..Len(payload) : j \in S
      PROVE  i \in S
  <2>1. \A j \in (i + 1)..Len(payload) : f[j] \in ReadSoFar(T)
    BY <1>4
  <2>2. ItemsFrom(f, payload, i) \in ReadSoFar(T)
    BY <2>1, ItemsFromLater
  <2>3. QED
    BY <1>3, <2>2
<1>5. \A i \in 0..Len(payload) : i \in S
  <2> HIDE DEF S
  <2>1. Len(payload) \in Nat
    OBVIOUS
  <2>2. QED
    BY <1>4, <2>1, Downward
<1>6. f \in [0..Len(payload) -> ReadSoFar(T)]
  BY <1>2, <1>5 DEF IsItems
<1>7. QED
  BY <1>1, <1>2, <1>6

\* An entry was read at position i, and the rest after it.
Reads(f, payload, i, width, e) ==
  ItemsFrom(f, payload, i) = [ok |-> f[i + width].ok, items |-> <<e>> \o f[i + width].items]

\* Where an entry begins, it is read and the rest after it.
LEMMA ItemsFromEntry ==
  ASSUME NEW payload \in Seq(Nat), NEW i \in 0..Len(payload), NEW width \in Nat, NEW e,
         StartsWithEntry(Rest(payload, i), width, e), NEW f
  PROVE  Reads(f, payload, i, width, e)
<1>1. PICK s \in Seq(Nat) : s = Rest(payload, i)
  <2>1. Rest(payload, i) \in Seq(Nat)
    BY RestIs
  <2>2. QED
    BY <2>1
<1>2. /\ s # <<>> /\ HeaderDecodes(s) /\ Header(s).list = FALSE
      /\ Header(s).start + Header(s).size = width /\ Item(s) = e
  BY <1>1 DEF StartsWithEntry, StartsWith
<1>3. PICK start \in Nat, size \in Nat : start = Header(s).start /\ size = Header(s).size
  BY <1>2, ItemIsThere
<1>4. i + Header(s).start + Header(s).size = i + width
  <2>1. start + size = width
    BY <1>2, <1>3
  <2>2. i + start + size = i + width
    BY <2>1
  <2>3. QED
    BY <1>3, <2>2
<1>5. ItemsFrom(f, payload, i) =
        [ok |-> f[i + Header(s).start + Header(s).size].ok,
         items |-> <<Item(s)>> \o f[i + Header(s).start + Header(s).size].items]
  BY <1>1, <1>2 DEF ItemsFrom
<1>6. QED
  BY <1>2, <1>4, <1>5 DEF Reads

\* An encoded string is a sequence of numbers.
LEMMA EncodedString ==
  ASSUME NEW e \in Seq(Nat)
  PROVE  encode_string(e) \in Seq(Nat)
<1>1. CASE Len(e) = 1 /\ e[1] < Single
  BY <1>1 DEF encode_string
<1>2. CASE ~(Len(e) = 1 /\ e[1] < Single)
  <2>1. PICK head : head = encode_header(FALSE, Len(e))
    OBVIOUS
  <2>2. head \in Seq(Nat)
    <3>1. Len(e) \in Nat
      OBVIOUS
    <3>2. QED
      BY <2>1, <3>1, WrittenHead
  <2>3. head \o e \in Seq(Nat)
    BY <2>2
  <2>4. QED
    BY <1>2, <2>1, <2>3 DEF encode_string
<1>3. QED
  BY <1>1, <1>2

\* A sequence is its next element and the rest.
LEMMA Cut ==
  ASSUME NEW T, NEW s \in Seq(T), NEW k \in Nat, k < Len(s)
  PROVE  SubSeq(s, k + 1, Len(s)) = <<s[k + 1]>> \o SubSeq(s, (k + 1) + 1, Len(s))
<1>1. PICK n \in Nat : n = Len(s) /\ k + 1 <= n
  OBVIOUS
<1>2. SubSeq(s, k + 1, k + 1) \o SubSeq(s, (k + 1) + 1, n) = SubSeq(s, k + 1, n)
  <2>1. k + 1 \in Nat /\ k <= k + 1 /\ k + 1 <= n
    BY <1>1
  <2>2. QED
    BY <1>1, <2>1, SlicesJoin
<1>3. SubSeq(s, k + 1, k + 1) = <<s[k + 1]>>
  <2>1. /\ SubSeq(s, k + 1, k + 1) \in Seq(T) /\ Len(SubSeq(s, k + 1, k + 1)) = (k + 1) - k
        /\ \A j \in 1..((k + 1) - k) : SubSeq(s, k + 1, k + 1)[j] = s[k + j]
    <3>1. k + 1 \in Nat /\ k <= k + 1 /\ k + 1 <= Len(s)
      BY <1>1
    <3>2. QED
      BY <3>1, SliceOf
  <2>2. PICK one \in Seq(T) : one = SubSeq(s, k + 1, k + 1)
    BY <2>1
  <2>3. Len(one) = 1 /\ one[1] = s[k + 1]
    BY <2>1, <2>2
  <2>4. one = <<s[k + 1]>>
    BY <2>3
  <2>5. QED
    BY <2>2, <2>4
<1>4. QED
  BY <1>1, <1>2, <1>3

\* Every entry, encoded.
EncodedEach(entries) == [k \in 1..Len(entries) |-> encode_string(entries[k])]

\* The entries that were written are read.
LEMMA ItemsRoundTrip ==
  ASSUME NEW entries \in Seq(Seq(Nat)), NEW payload,
         payload = UpTo(EncodedEach(entries), Len(entries))
  PROVE  payload \in Seq(Nat) /\ Items(payload) = [ok |-> TRUE, items |-> entries]
<1>0. PICK enc : enc = EncodedEach(entries)
  OBVIOUS
<1>1. PICK n \in Nat : n = Len(entries) /\ enc = EncodedEach(entries)
  BY <1>0
<1>2. ASSUME NEW k \in 1..n
      PROVE  entries[k] \in Seq(Nat) /\ enc[k] = encode_string(entries[k]) /\ enc[k] \in Seq(Nat)
  <2>1. PICK e \in Seq(Nat) : e = entries[k]
    BY <1>1
  <2>2. enc[k] = encode_string(e)
    BY <1>1, <2>1 DEF EncodedEach
  <2>3. QED
    BY <2>1, <2>2, EncodedString
<1>3. PartsOf(enc, n, Nat)
  BY <1>2 DEF PartsOf
<1>4. payload = UpTo(enc, n) /\ payload \in Seq(Nat)
  <2>1. payload = UpTo(enc, n)
    BY <1>1
  <2>2. n \in 0..n
    OBVIOUS
  <2>3. QED
    BY <1>3, <2>1, <2>2, UpToStart
<1>5. PICK f \in [0..Len(payload) -> ReadSoFar(Nat)] : IsItems(f, payload) /\ Items(payload) = f[0]
  BY <1>4, ItemsIs
<1>6. \A i \in 0..Len(payload) : f[i] = ItemsFrom(f, payload, i)
  BY <1>5 DEF IsItems
<1> DEFINE S == {k \in 0..n : f[Len(UpTo(enc, k))] = [ok |-> TRUE, items |-> SubSeq(entries, k + 1, n)]}
<1>7. n \in S
  <2>1. PICK l \in Nat : l = Len(payload)
    BY <1>4
  <2>2. Rest(payload, l) = <<>>
    <3>1. payload \in Seq(Nat) /\ l \in 0..Len(payload)
      BY <1>4, <2>1
    <3>2. Rest(payload, l) \in Seq(Nat) /\ Len(Rest(payload, l)) = Len(payload) - l
      BY <3>1, RestIs
    <3>3. QED
      BY <2>1, <3>2
  <2>3. f[l] = [ok |-> TRUE, items |-> <<>>]
    <3>1. l \in 0..Len(payload)
      BY <2>1
    <3>2. f[l] = ItemsFrom(f, payload, l)
      BY <1>6, <3>1
    <3>3. QED
      BY <2>2, <3>2 DEF ItemsFrom
  <2>4. SubSeq(entries, n + 1, n) = <<>>
    BY <1>1
  <2>5. l = Len(UpTo(enc, n))
    BY <1>4, <2>1
  <2>6. f[Len(UpTo(enc, n))] = [ok |-> TRUE, items |-> SubSeq(entries, n + 1, n)]
    BY <2>3, <2>4, <2>5
  <2>7. n \in 0..n
    OBVIOUS
  <2>8. QED
    BY <2>6, <2>7
<1>8. ASSUME NEW k \in 0..n, k # n, k + 1 \in S
      PROVE  k \in S
  <2>1. PICK next \in 1..n : next = k + 1 /\ next - 1 = k
    BY <1>8
  <2>2. IsPlaced(enc, n, next)
    BY <1>3, UpToAt
  <2>3. PICK e \in Seq(Nat), item \in Seq(Nat) : e = entries[next] /\ item = enc[next] /\ item = encode_string(e)
    BY <1>2
  <2>4. PICK i \in 0..Len(payload) :
          /\ i = Len(UpTo(enc, k)) /\ i + Len(item) = Len(UpTo(enc, next))
          /\ i + Len(item) <= Len(payload)
          /\ \A j \in 1..Len(item) : payload[i + j] = item[j]
    <3>1. /\ Len(UpTo(enc, k)) \in Nat
          /\ Len(UpTo(enc, next)) = Len(UpTo(enc, k)) + Len(item)
          /\ Len(UpTo(enc, next)) <= Len(payload)
          /\ \A j \in 1..Len(item) : payload[Len(UpTo(enc, k)) + j] = item[j]
      BY <1>4, <2>1, <2>2, <2>3 DEF IsPlaced
    <3>2. PICK i \in Nat : i = Len(UpTo(enc, k))
      BY <3>1
    <3>3. i \in 0..Len(payload)
      BY <1>4, <3>1, <3>2
    <3>4. QED
      BY <3>1, <3>2, <3>3
  <2>5. PICK s \in Seq(Nat) : s = Rest(payload, i) /\ IsStart(item, s)
    <3>1. /\ Rest(payload, i) \in Seq(Nat) /\ Len(Rest(payload, i)) = Len(payload) - i
          /\ \A j \in 1..(Len(payload) - i) : Rest(payload, i)[j] = payload[i + j]
      BY <1>4, RestIs
    <3>2. PICK s \in Seq(Nat) : s = Rest(payload, i)
      BY <3>1
    <3>3. Len(item) <= Len(s) /\ Len(item) \in Nat /\ Len(s) \in Nat
      BY <1>4, <2>4, <3>1, <3>2
    <3>4. ASSUME NEW j \in 1..Len(item)
          PROVE  item[j] = s[j]
      <4>1. j \in 1..(Len(payload) - i)
        BY <1>4, <3>1, <3>2, <3>3
      <4>2. QED
        BY <2>4, <3>1, <3>2, <4>1
    <3>5. IsStart(item, s)
      BY <3>3, <3>4 DEF IsStart, Agree
    <3>6. QED
      BY <3>2, <3>5
  <2>6. StartsWithEntry(s, Len(item), e)
    BY <2>3, <2>5, EntryRoundTrip
  <2>7. PICK width \in Nat : width = Len(item)
    OBVIOUS
  <2>8. ItemsFrom(f, payload, i) = [ok |-> f[i + width].ok, items |-> <<e>> \o f[i + width].items]
    <3>1. payload \in Seq(Nat)
      BY <1>4
    <3>2. StartsWithEntry(Rest(payload, i), width, e)
      BY <2>5, <2>6, <2>7
    <3>3. Reads(f, payload, i, width, e)
      BY <3>1, <3>2, ItemsFromEntry
    <3>4. QED
      BY <3>3 DEF Reads
  <2>9. f[i + width] = [ok |-> TRUE, items |-> SubSeq(entries, next + 1, n)]
    <3>1. next \in S
      BY <1>8, <2>1
    <3>2. f[Len(UpTo(enc, next))] = [ok |-> TRUE, items |-> SubSeq(entries, next + 1, n)]
      BY <3>1
    <3>3. QED
      BY <2>4, <2>7, <3>2
  <2>10. f[i] = [ok |-> TRUE, items |-> <<e>> \o SubSeq(entries, next + 1, n)]
    <3>1. f[i] = ItemsFrom(f, payload, i)
      BY <1>6
    <3>2. /\ f[i + width].ok = TRUE
          /\ f[i + width].items = SubSeq(entries, next + 1, n)
      BY <2>9
    <3>3. QED
      BY <2>8, <3>1, <3>2
  <2>11. <<e>> \o SubSeq(entries, next + 1, n) = SubSeq(entries, k + 1, n)
    <3>1. k \in Nat /\ k < Len(entries)
      BY <1>1, <2>1
    <3>2. SubSeq(entries, k + 1, Len(entries)) = <<entries[k + 1]>> \o SubSeq(entries, (k + 1) + 1, Len(entries))
      BY <3>1, Cut
    <3>3. QED
      BY <1>1, <2>1, <2>3, <3>2
  <2>12. QED
    BY <2>4, <2>10, <2>11
<1>9. 0 \in S
  <2> HIDE DEF S
  <2>1. ASSUME NEW k \in 0..n, \A j \in (k + 1)..n : j \in S
        PROVE  k \in S
    <3>1. CASE k = n
      BY <1>7, <3>1
    <3>2. CASE k # n
      <4>1. k + 1 \in (k + 1)..n
        BY <3>2
      <4>2. QED
        BY <1>8, <2>1, <3>2, <4>1
    <3>3. QED
      BY <3>1, <3>2
  <2>2. \A k \in 0..n : k \in S
    BY <2>1, Downward
  <2>3. QED
    BY <2>2
<1>10. f[0] = [ok |-> TRUE, items |-> SubSeq(entries, 1, n)]
  <2>1. UpTo(enc, 0) = <<>> /\ Len(<<>>) = 0
    BY UpToNone
  <2>2. f[Len(UpTo(enc, 0))] = [ok |-> TRUE, items |-> SubSeq(entries, 0 + 1, n)]
    BY <1>9
  <2>3. QED
    BY <2>1, <2>2
<1>11. SubSeq(entries, 1, n) = entries
  BY <1>1
<1>12. QED
  BY <1>4, <1>5, <1>10, <1>11

\* The payload of the list: the entries, encoded, one after the other.
LEMMA ListPayload ==
  ASSUME NEW entries, DOMAIN entries = 1..Len(entries)
  PROVE  encode_entries(entries) =
           encode_header(TRUE, Len(UpTo(EncodedEach(entries), Len(entries))))
             \o UpTo(EncodedEach(entries), Len(entries))
<1>1. PICK enc : enc = EncodedEach(entries)
  OBVIOUS
<1>2. [k \in 1..Len(entries) |-> enc[k]] = [i \in DOMAIN entries |-> encode_string(entries[i])]
  BY <1>1 DEF EncodedEach
<1>3. UpTo(enc, Len(entries)) = FlattenSeq([i \in DOMAIN entries |-> encode_string(entries[i])])
  BY <1>2 DEF UpTo
<1>4. QED
  BY <1>1, <1>3 DEF encode_entries

\* No entry is empty.
NoneEmpty(entries) == \A i \in DOMAIN entries : entries[i] # <<>>

\* Where the encoding of entries begins, decode_entries gives these entries,
\* whatever follows; only when one of them is empty it panics.
THEOREM EntriesRoundTrip ==
  ASSUME NEW entries \in Seq(Seq(Nat)), NEW s \in Seq(Nat), IsStart(encode_entries(entries), s)
  PROVE  /\ EntriesDecode(s) <=> NoneEmpty(entries)
         /\ decode_entries(s) = entries
<1>1. PICK payload : payload = UpTo(EncodedEach(entries), Len(entries))
  OBVIOUS
<1>2. payload \in Seq(Nat) /\ Items(payload) = [ok |-> TRUE, items |-> entries]
  BY <1>1, ItemsRoundTrip
<1>3. PICK body \in Seq(Nat) : body = payload
  BY <1>2
<1>4. encode_entries(entries) = encode_header(TRUE, Len(body)) \o body
  <2>1. DOMAIN entries = 1..Len(entries)
    OBVIOUS
  <2>2. QED
    BY <1>1, <1>3, <2>1, ListPayload
<1>5. PICK item : item = encode_header(TRUE, Len(body)) \o body /\ IsStart(item, s)
  BY <1>4
<1>6. StartsWith(s, TRUE, Len(item), body)
  <2>1. ~TRUE /\ Len(body) = 1 => body[1] >= Single
    OBVIOUS
  <2>2. QED
    BY <1>5, <2>1, HeadRoundTrip
<1>7. HeaderDecodes(s) /\ Header(s).list /\ Item(s) = body
  BY <1>6 DEF StartsWith
<1>8. Items(Item(s)).ok /\ Items(Item(s)).items = entries
  BY <1>2, <1>3, <1>7
<1>9. decode_entries(s) = entries
  BY <1>8 DEF decode_entries
<1>10. EntriesDecode(s) <=> NoneEmpty(entries)
  BY <1>7, <1>8 DEF EntriesDecode, NoneEmpty
<1>11. QED
  BY <1>9, <1>10

\* What is left at a position is what lies before a later one and what is left
\* there.
LEMMA RestSplits ==
  ASSUME NEW T, NEW payload \in Seq(T), NEW i \in Nat, NEW width \in Nat, i + width <= Len(payload)
  PROVE  Rest(payload, i) = SubSeq(Rest(payload, i), 1, width) \o Rest(payload, i + width)
<1>1. PICK n \in Nat : n = Len(payload) /\ i + width <= n
  OBVIOUS
<1>2. PICK next \in 0..n : next = i + width
  BY <1>1
<1>3. i \in 0..Len(payload) /\ next \in 0..Len(payload)
  BY <1>1, <1>2
<1>4. /\ Rest(payload, i) \in Seq(T) /\ Len(Rest(payload, i)) = n - i
      /\ \A j \in 1..(n - i) : Rest(payload, i)[j] = payload[i + j]
  BY <1>1, <1>3, RestIs
<1>5. /\ Rest(payload, next) \in Seq(T) /\ Len(Rest(payload, next)) = n - next
      /\ \A j \in 1..(n - next) : Rest(payload, next)[j] = payload[next + j]
  BY <1>1, <1>3, RestIs
<1>6. PICK s \in Seq(T) : s = Rest(payload, i)
  BY <1>4
<1>7. PICK t \in Seq(T) : t = Rest(payload, next)
  BY <1>5
<1>8. PICK m \in Nat : m = n - i /\ width <= m /\ m = Len(s)
  BY <1>1, <1>4, <1>6
<1>9. SubSeq(s, 0 + 1, width) \o SubSeq(s, width + 1, m) = SubSeq(s, 0 + 1, m)
  <2>1. 0 \in Nat /\ 0 <= width /\ m <= Len(s)
    BY <1>8
  <2>2. QED
    BY <1>8, <2>1, SlicesJoin, SMTT(30)
<1>10. SubSeq(s, 1, m) = s
  BY <1>8
<1>11. SubSeq(s, width + 1, m) = t
  <2>1. /\ SubSeq(s, width + 1, m) \in Seq(T) /\ Len(SubSeq(s, width + 1, m)) = m - width
        /\ \A j \in 1..(m - width) : SubSeq(s, width + 1, m)[j] = s[width + j]
    <3>1. m <= Len(s)
      BY <1>8
    <3>2. QED
      BY <1>8, <3>1, SliceOf
  <2>2. PICK u \in Seq(T) : u = SubSeq(s, width + 1, m)
    BY <2>1
  <2>3. Len(u) = Len(t) /\ Len(u) = n - next
    <3>1. Len(u) = m - width /\ Len(t) = n - next
      BY <1>5, <1>7, <2>1, <2>2
    <3>2. m - width = n - next
      BY <1>2, <1>8
    <3>3. QED
      BY <3>1, <3>2
  <2>4. ASSUME NEW j \in 1..Len(u)
        PROVE  u[j] = t[j]
    <3>1. j \in 1..(m - width) /\ j \in 1..(n - next) /\ width + j \in 1..(n - i)
      BY <1>2, <1>8, <2>3
    <3>2. u[j] = s[width + j] /\ s[width + j] = payload[i + (width + j)]
      BY <1>4, <1>6, <2>1, <2>2, <3>1
    <3>3. t[j] = payload[next + j]
      BY <1>5, <1>7, <3>1
    <3>4. i + (width + j) = next + j
      BY <1>2
    <3>5. QED
      BY <3>2, <3>3, <3>4
  <2>5. u = t
    BY <2>3, <2>4, SeqEqual
  <2>6. QED
    BY <2>2, <2>5
<1>12. SubSeq(s, 1, width) \o t = s
  <2>1. 0 + 1 = 1
    OBVIOUS
  <2>2. SubSeq(s, 1, width) \o SubSeq(s, width + 1, m) = SubSeq(s, 1, m)
    BY <1>9, <2>1
  <2>3. QED
    BY <1>10, <1>11, <2>2, Zenon
<1>13. QED
  BY <1>2, <1>6, <1>7, <1>12

\* One entry in front of others.
LEMMA EncodedCons ==
  ASSUME NEW e \in Seq(Nat), NEW rest \in Seq(Seq(Nat)), NEW all, all = <<e>> \o rest
  PROVE  UpTo(EncodedEach(all), Len(all))
           = encode_string(e) \o UpTo(EncodedEach(rest), Len(rest))
<1>1. PICK m \in Nat : m = Len(rest)
  OBVIOUS
<1>2. Len(all) = m + 1 /\ all[1] = e /\ \A k \in 1..m : all[k + 1] = rest[k]
  BY <1>1
<1>3. PICK enc, tail : enc = EncodedEach(all) /\ tail = EncodedEach(rest)
  OBVIOUS
<1>4. ASSUME NEW k \in 1..m
      PROVE  enc[k + 1] = tail[k] /\ tail[k] \in Seq(Nat)
  <2>1. k + 1 \in 1..(m + 1) /\ all[k + 1] = rest[k]
    BY <1>2
  <2>2. enc[k + 1] = encode_string(rest[k]) /\ tail[k] = encode_string(rest[k])
    BY <1>1, <1>2, <1>3, <2>1 DEF EncodedEach
  <2>3. PICK r \in Seq(Nat) : r = rest[k]
    BY <1>1
  <2>4. QED
    BY <2>2, <2>3, EncodedString
<1>5. enc[1] = encode_string(e) /\ enc[1] \in Seq(Nat)
  <2>1. 1 \in 1..(m + 1)
    OBVIOUS
  <2>2. QED
    BY <1>2, <1>3, <2>1, EncodedString DEF EncodedEach
<1>6. PartsOf(enc, m + 1, Nat)
  <2>1. ASSUME NEW k \in 1..(m + 1)
        PROVE  enc[k] \in Seq(Nat)
    <3>1. CASE k = 1
      BY <1>5, <3>1
    <3>2. CASE k # 1
      <4>1. PICK j \in 1..m : k = j + 1
        <5>1. k - 1 \in 1..m /\ k = (k - 1) + 1
          BY <3>2
        <5>2. QED
          BY <5>1
      <4>2. QED
        BY <1>4, <4>1
    <3>3. QED
      BY <3>1, <3>2
  <2>2. QED
    BY <2>1 DEF PartsOf
<1>7. UpTo(enc, m + 1) = enc[1] \o UpTo(tail, m)
  <2>1. \A k \in 1..m : tail[k] = enc[k + 1]
    BY <1>4
  <2>2. QED
    BY <1>6, <2>1, UpToCons
<1>8. QED
  BY <1>1, <1>2, <1>3, <1>5, <1>7

\* Items that are read from bytes were written so: encoded again, they are the
\* payload.
LEMMA ItemsAreCanonical ==
  ASSUME NEW payload \in Seq(Bytes), Items(payload).ok
  PROVE  /\ Items(payload).items \in Seq(Seq(Bytes))
         /\ UpTo(EncodedEach(Items(payload).items), Len(Items(payload).items)) = payload
<1>1. Bytes \subseteq Nat
  BY EncodingAssumption DEF Bytes
<1>2. PICK f \in [0..Len(payload) -> ReadSoFar(Bytes)] : IsItems(f, payload) /\ Items(payload) = f[0]
  BY <1>1, ItemsIs
<1>3. \A i \in 0..Len(payload) : f[i] = ItemsFrom(f, payload, i) /\ f[i] \in ReadSoFar(Bytes)
  BY <1>2 DEF IsItems
<1> DEFINE Back(i) == UpTo(EncodedEach(f[i].items), Len(f[i].items))
           S == {i \in 0..Len(payload) : f[i].ok => Back(i) = Rest(payload, i)}
<1>4. ASSUME NEW i \in 0..Len(payload), \A j \in (i + 1)..Len(payload) : j \in S, f[i].ok
      PROVE  Back(i) = Rest(payload, i)
  <2>1. f[i] = ItemsFrom(f, payload, i) /\ f[i].ok
    BY <1>3, <1>4
  <2>2. CASE Rest(payload, i) = <<>>
    <3>1. f[i].items = <<>>
      <4>1. f[i] = [ok |-> TRUE, items |-> <<>>]
        BY <2>1, <2>2 DEF ItemsFrom
      <4>2. QED
        BY <4>1
    <3>2. Back(i) = UpTo(EncodedEach(<<>>), 0)
      BY <3>1
    <3>3. QED
      BY <2>2, <3>2, UpToNone
  <2>3. CASE Rest(payload, i) # <<>>
    <3>1. HeaderDecodes(Rest(payload, i)) /\ ~Header(Rest(payload, i)).list
      <4>1. SUFFICES ASSUME ~HeaderDecodes(Rest(payload, i)) \/ Header(Rest(payload, i)).list
                     PROVE  FALSE
        OBVIOUS
      <4>2. f[i] = [ok |-> FALSE, items |-> <<>>]
        BY <2>1, <2>3, <4>1 DEF ItemsFrom
      <4>3. QED
        BY <2>1, <4>2
    <3>2. PICK next \in (i + 1)..Len(payload), item \in Seq(Bytes) :
            /\ next = i + Header(Rest(payload, i)).start + Header(Rest(payload, i)).size
            /\ item = Item(Rest(payload, i))
      BY <1>1, <3>1, NextPosition
    <3>3. f[i] = [ok |-> f[next].ok, items |-> <<item>> \o f[next].items]
      BY <2>1, <2>3, <3>1, <3>2 DEF ItemsFrom
    <3>4. f[next].ok /\ next \in 0..Len(payload)
      BY <1>4, <3>3
    <3>5. Back(next) = Rest(payload, next)
      <4>1. next \in S
        BY <1>4
      <4>2. QED
        BY <3>4, <4>1
    <3>6. PICK rest \in Seq(Seq(Nat)) : rest = f[next].items
      <4>1. f[next].items \in Seq(Seq(Bytes))
        BY <1>3, <3>4 DEF ReadSoFar
      <4>2. Seq(Bytes) \subseteq Seq(Nat)
        BY <1>1, Widened
      <4>3. f[next].items \in Seq(Seq(Nat))
        BY <4>1, <4>2, Widened
      <4>4. QED
        BY <4>3
    <3>7. PICK e \in Seq(Nat) : e = item
      BY <1>1, Widened
    <3>8. PICK all : all = <<e>> \o rest
      OBVIOUS
    <3>9. UpTo(EncodedEach(all), Len(all)) = encode_string(e) \o UpTo(EncodedEach(rest), Len(rest))
      BY <3>8, EncodedCons
    <3>10. Back(i) = encode_string(item) \o Rest(payload, next)
      <4>1. f[i].items = all
        BY <3>3, <3>6, <3>7, <3>8, SMTT(30)
      <4>2. Back(i) = UpTo(EncodedEach(all), Len(all))
        BY <4>1
      <4>3. UpTo(EncodedEach(rest), Len(rest)) = Rest(payload, next)
        BY <3>5, <3>6
      <4>4. QED
        BY <3>7, <3>9, <4>2, <4>3
    <3>11. PICK s \in Seq(Bytes) : s = Rest(payload, i) /\ Len(s) = Len(payload) - i
      <4>1. Rest(payload, i) \in Seq(Bytes) /\ Len(Rest(payload, i)) = Len(payload) - i
        BY RestIs
      <4>2. QED
        BY <4>1
    <3>12. PICK width \in Nat : width = Header(s).start + Header(s).size /\ next = i + width
      <4>1. HeaderDecodes(s)
        BY <3>1, <3>11
      <4>2. PICK start \in Nat, size \in Nat : start = Header(s).start /\ size = Header(s).size
        BY <1>1, <4>1, ItemIsThere
      <4>3. start + size \in Nat /\ i + start + size = i + (start + size)
        OBVIOUS
      <4>4. next = i + start + size
        BY <3>2, <3>11, <4>2
      <4>5. QED
        BY <4>2, <4>3, <4>4
    <3>13. encode_string(item) = SubSeq(s, 1, width)
      <4>1. Encoded(Header(s).list, Item(s)) = SubSeq(s, 1, Header(s).start + Header(s).size)
        BY <3>1, <3>11, OnlyShortest
      <4>2. ~Header(s).list /\ item = Item(s)
        BY <3>1, <3>2, <3>11
      <4>3. QED
        BY <3>12, <4>1, <4>2 DEF Encoded
    <3>14. Rest(payload, i) = SubSeq(Rest(payload, i), 1, width) \o Rest(payload, i + width)
      <4>1. i \in Nat /\ i + width <= Len(payload)
        BY <3>4, <3>12
      <4>2. QED
        BY <4>1, RestSplits
    <3>15. QED
      BY <3>10, <3>11, <3>12, <3>13, <3>14
  <2>4. QED
    BY <2>2, <2>3
<1>5. \A i \in 0..Len(payload) : i \in S
  <2>1. ASSUME NEW i \in 0..Len(payload), \A j \in (i + 1)..Len(payload) : j \in S
        PROVE  i \in S
    BY <1>4, <2>1
  <2> HIDE DEF S
  <2>2. Len(payload) \in Nat
    OBVIOUS
  <2>3. QED
    BY <2>1, <2>2, Downward
<1>6. 0 \in 0..Len(payload) /\ f[0].ok
  BY <1>2
<1>7. Back(0) = Rest(payload, 0)
  BY <1>5, <1>6
<1>8. Rest(payload, 0) = payload
  BY DEF Rest
<1>9. f[0].items \in Seq(Seq(Bytes))
  BY <1>3, <1>6 DEF ReadSoFar
<1>10. QED
  BY <1>2, <1>7, <1>8, <1>9

\* Whatever bytes they come from, entries that decode_entries gives are such
\* that their encoding is where these bytes begin: there is no other form of
\* them, and what follows is ignored.
THEOREM OnlyEncodingsDecode ==
  ASSUME NEW s \in Seq(Bytes), EntriesDecode(s)
  PROVE  /\ decode_entries(s) \in Seq(Seq(Bytes)) /\ NoneEmpty(decode_entries(s))
         /\ IsPrefix(encode_entries(decode_entries(s)), s)
<1>1. Bytes \subseteq Nat
  BY EncodingAssumption DEF Bytes
<1>2. HeaderDecodes(s) /\ Header(s).list /\ Items(Item(s)).ok
  BY DEF EntriesDecode
<1>3. PICK entries : entries = Items(Item(s)).items /\ entries = decode_entries(s)
  BY DEF decode_entries
<1>4. NoneEmpty(entries)
  BY <1>3 DEF EntriesDecode, NoneEmpty
<1>5. PICK start \in Nat, size \in Nat :
        /\ start = Header(s).start /\ size = Header(s).size /\ start + size <= Len(s)
        /\ Item(s) \in Seq(Bytes)
  BY <1>1, <1>2, ItemIsThere
<1>6. PICK body \in Seq(Bytes) : body = Item(s)
  BY <1>5
<1>7. /\ entries \in Seq(Seq(Bytes))
      /\ UpTo(EncodedEach(entries), Len(entries)) = body
  BY <1>2, <1>3, <1>6, ItemsAreCanonical
<1>8. encode_entries(entries) = encode_header(TRUE, Len(body)) \o body
  <2>1. DOMAIN entries = 1..Len(entries)
    BY <1>7
  <2>2. QED
    BY <1>7, <2>1, ListPayload
<1>9. PICK width \in Nat : width = start + size /\ width <= Len(s)
  BY <1>5
<1>10. encode_entries(entries) = SubSeq(s, 1, width)
  <2>1. Encoded(Header(s).list, Item(s)) = SubSeq(s, 1, Header(s).start + Header(s).size)
    BY <1>2, OnlyShortest
  <2>2. QED
    BY <1>2, <1>5, <1>6, <1>8, <1>9, <2>1 DEF Encoded
<1>11. IsPrefix(SubSeq(s, 1, width), s)
  <2>1. PICK front : front = SubSeq(s, 1, width)
    OBVIOUS
  <2>2. Len(front) = width /\ front \in Seq(Bytes)
    BY <1>9, <2>1
  <2>3. SubSeq(front, 1, width) = front
    BY <2>2
  <2>4. QED
    BY <1>9, <2>1, <2>2, <2>3 DEF IsPrefix
<1>12. QED
  BY <1>3, <1>4, <1>7, <1>10, <1>11
=============================================================================
