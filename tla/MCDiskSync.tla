----------------------------- MODULE MCDiskSync -----------------------------
(* Instances of DiskSync for model checking. *)
EXTENDS DiskSync

CONSTANTS c1, c2, s1, s2

\* No blobs, one blob, two blobs of two senders, of which one has a blob of its own.
SomeTxLists ==
  LET tx(s, hashes) == [from |-> s, hashes |-> hashes]
  IN {<<tx(s1, <<>>)>>, <<tx(s1, <<c1>>), tx(s2, <<c1, c2>>)>>}

\* Complete, incomplete, with another blob's bytes, and with another's proof.
SomeSidecarLists ==
  LET s(c, b, p) == [commitment |-> c, blob |-> b, kzg_proof |-> p]
      honest(c) == s(c, c, c)
  IN {<<>>, <<honest(c2), honest(c1)>>, <<honest(c1), s(c2, c1, c1)>>,
      <<honest(c2), s(c1, c1, c2)>>}
=============================================================================
