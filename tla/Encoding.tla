------------------------------ MODULE Encoding ------------------------------
(***************************************************************************)
(* The encoding that publisher and prover share: entries framed as an RLP  *)
(* list of byte strings, and blobs of field elements whose high byte is    *)
(* zero.  Bytes are numbers; the numbers at which the encoding changes its *)
(* form are parameters, so that small instances meet every form.  Lengths  *)
(* above the short ones take one more byte here, in the code up to eight.  *)
(*                                                                         *)
(* Where the code panics or throws, a check named for it is false; what an *)
(* operator yields for refused input is not used.                          *)
(***************************************************************************)
EXTENDS Integers, Sequences, SequencesExt

CONSTANTS FIELD_ELEMENTS_PER_BLOB,
          USABLE_BYTES_PER_FIELD,
          Single,                    \* 0x80: bytes below are their own encoding
          Short                      \* 55: the length of the longest short form

ASSUME EncodingAssumption ==
  /\ FIELD_ELEMENTS_PER_BLOB \in Nat \ {0}
  /\ USABLE_BYTES_PER_FIELD \in Nat \ {0}
  /\ Single \in Nat \ {0}
  /\ Short \in Nat \ {0}

\* 0xc0: here the lists begin.
ListBase == Single + Short + 2

Bytes == 0 .. (ListBase + Short + 1)

BYTES_PER_FIELD_ELEMENT == USABLE_BYTES_PER_FIELD + 1

BLOB_RAW_BYTES == FIELD_ELEMENTS_PER_BLOB * BYTES_PER_FIELD_ELEMENT

BLOB_PAYLOAD_BYTES == FIELD_ELEMENTS_PER_BLOB * USABLE_BYTES_PER_FIELD

-----------------------------------------------------------------------------
(* Blobs.                                                                  *)

\* The bytes from position i on (counted from 0), n of them.
Slice(s, i, n) == SubSeq(s, i + 1, i + n)

Zeros(n) == [i \in 1..n |-> 0]

Canonical(blob) ==
  \A i \in 0..(FIELD_ELEMENTS_PER_BLOB - 1) : blob[i * BYTES_PER_FIELD_ELEMENT + 1] = 0

unpack_blob(blob) ==
  FlattenSeq([i \in 1..FIELD_ELEMENTS_PER_BLOB |->
    Slice(blob, (i - 1) * BYTES_PER_FIELD_ELEMENT + 1, USABLE_BYTES_PER_FIELD)])

pack_blob(payload) ==
  LET padded == payload \o Zeros(BLOB_PAYLOAD_BYTES - Len(payload))
  IN FlattenSeq([i \in 1..FIELD_ELEMENTS_PER_BLOB |->
       <<0>> \o Slice(padded, (i - 1) * USABLE_BYTES_PER_FIELD, USABLE_BYTES_PER_FIELD)])

\* Blob j (counted from 1) of their concatenation.
RawBlob(blob_data, j) == Slice(blob_data, (j - 1) * BLOB_RAW_BYTES, BLOB_RAW_BYTES)

\* unpack_blobs does not panic.
Unpacks(blob_data, n) ==
  /\ Len(blob_data) = BLOB_RAW_BYTES * n
  /\ \A j \in 1..n : Canonical(RawBlob(blob_data, j))

unpack_blobs(blob_data, n) == FlattenSeq([j \in 1..n |-> unpack_blob(RawBlob(blob_data, j))])

\* A slip: no room is left for the sentinel.
ToBlobsTakesFull(data, limit) == Len(data) <= limit * BLOB_PAYLOAD_BYTES

\* toBlobs of viem does not throw: the data and a sentinel fit in as many blobs
\* as a transaction may hold, blobsPerTransaction.
ToBlobsTakes(data, limit) == Len(data) < limit * BLOB_PAYLOAD_BYTES

\* toBlobs of viem: the data and a sentinel, then zeros; data that fills its
\* blobs exactly takes one more for the sentinel.
toBlobs(data) ==
  LET n == Len(data) \div BLOB_PAYLOAD_BYTES + 1
      stream == data \o <<Single>> \o Zeros(n * BLOB_PAYLOAD_BYTES - Len(data) - 1)
  IN [j \in 1..n |-> pack_blob(Slice(stream, (j - 1) * BLOB_PAYLOAD_BYTES, BLOB_PAYLOAD_BYTES))]

-----------------------------------------------------------------------------
(* RLP.                                                                    *)

encode_header(list, length) ==
  LET base == IF list THEN ListBase ELSE Single
  IN IF length <= Short THEN <<base + length>> ELSE <<base + Short + 1, length>>

\* A slip: every string gets a header, one small byte too.
EncodeStringPlain(e) == encode_header(FALSE, Len(e)) \o e

encode_string(e) ==
  IF Len(e) = 1 /\ e[1] < Single THEN e ELSE encode_header(FALSE, Len(e)) \o e

encode_entries(entries) ==
  LET payload == FlattenSeq([i \in DOMAIN entries |-> encode_string(entries[i])])
  IN encode_header(TRUE, Len(payload)) \o payload

\* What the head of s announces: an item of `size` bytes after `start` others.
Header(s) ==
  LET list == s[1] >= ListBase
      code == s[1] - (IF list THEN ListBase ELSE Single)
  IN CASE code < 0 -> [list |-> FALSE, start |-> 0, size |-> 1]
       [] code \in 0..Short -> [list |-> list, start |-> 1, size |-> code]
       [] OTHER -> [list |-> list, start |-> 2, size |-> IF Len(s) > 1 THEN s[2] ELSE 0]

\* A slip: a length may be written in the long form though it is short.
HeaderDecodesLoosely(s) == s # <<>> /\ Header(s).start + Header(s).size <= Len(s)

\* Header::decode of alloy-rlp returns no error: the item is there, and in the
\* shortest form.
HeaderDecodes(s) ==
  /\ s # <<>>
  /\ LET h == Header(s)
     IN /\ h.start + h.size <= Len(s)
        /\ h.start = 2 => h.size > Short
        /\ h.start = 1 /\ h.size = 1 /\ ~h.list => s[2] >= Single

Item(s) == Slice(s, Header(s).start, Header(s).size)

\* The items of a list's payload: `ok` is false when one does not decode as a
\* byte string.
Items(payload) ==
  LET from[i \in 0..Len(payload)] ==
        LET s == SubSeq(payload, i + 1, Len(payload))
        IN IF s = <<>> THEN [ok |-> TRUE, items |-> <<>>]
           ELSE IF ~HeaderDecodes(s) \/ Header(s).list THEN [ok |-> FALSE, items |-> <<>>]
           ELSE LET rest == from[i + Header(s).start + Header(s).size]
                IN [ok |-> rest.ok, items |-> <<Item(s)>> \o rest.items]
  IN from[0]

\* decode_entries does not panic.
EntriesDecode(s) ==
  /\ HeaderDecodes(s)
  /\ Header(s).list
  /\ Items(Item(s)).ok
  /\ \A i \in DOMAIN Items(Item(s)).items : Items(Item(s)).items[i] # <<>>

\* What follows the list is padding.
decode_entries(s) == Items(Item(s)).items
=============================================================================
