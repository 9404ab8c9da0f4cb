---------------------------- MODULE MCBlobBatch ----------------------------
(* Instances of BlobBatch for model checking. *)
EXTENDS BlobBatch

\* With Single = 2, Short = 3 and lists from 7: texts of every length up to
\* what no transaction holds, beginning with a small byte, a byte that needs a
\* header, a byte that looks like a header, or 0x, and 0x before what is no digit.
SomeTexts ==
  {<<b>> \o [i \in 1..n |-> 2] : b \in {0, 1, 2, 7, 10}, n \in 0..8}
    \cup {<<10, 7>>, <<10, 2, 7>>}

\* The length that a list of these texts has without its header.
PayloadLength(texts) == Len(FlattenSeq([i \in DOMAIN texts |-> encode_string(texts[i])]))

\* One to three texts, up to the longest list that has a header here.
SomeBatches ==
  {texts \in UNION {[1..k -> SomeTexts] : k \in 1..2}
             \cup [1..3 -> {t \in SomeTexts : Len(t) \in {1, 2, 3}}] :
     PayloadLength(texts) \in Bytes}

\* Blobs of two elements: every payload over a few telling bytes, and one
\* element or the other not canonical.
SomeForeignBlobs ==
  {pack_blob(p) : p \in [1..6 -> {0, 2, 3, 6, 8, 9, 11}]}
    \cup {<<h, 8, 0, 0, 1 - h, 0, 0, 0>> : h \in 0..1}
=============================================================================
