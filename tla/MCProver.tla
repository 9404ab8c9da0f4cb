------------------------------ MODULE MCProver ------------------------------
(* Instances of Prover for model checking. *)
EXTENDS Prover

CONSTANTS whole, front, back, foreign

\* Up to three references: a block twice, a transaction twice, two blocks.
SomeRefLists ==
  {<<>>} \cup {<<[block |-> 1, tx |-> t]>> : t \in 0..1}
    \cup {<<[block |-> 1, tx |-> t], [block |-> b, tx |-> u]>> : t \in 0..1, b \in 1..2, u \in 0..1}
    \cup {<<[block |-> 1, tx |-> 1], [block |-> 2, tx |-> 0], [block |-> 1, tx |-> 0]>>}

\* A block without blobs, one or two transactions, transactions without blobs,
\* with two blobs, with the same blob, with one that is not canonical.
SomeTxLists ==
  {<< <<>> >>, << <<whole>> >>, << <<>>, <<front, back>> >>, << <<back, front>>, <<front>> >>,
   << <<front>>, <<back>> >>, << <<whole>>, <<foreign>> >>}

\* Complete and incomplete, in either order, honest, with another's blob or proof.
SomeSidecarLists ==
  LET s(c, b, p) == [commitment |-> c, blob |-> b, kzg_proof |-> p]
      honest(c) == s(c, c, c)
  IN {<<>>, <<honest(whole)>>, <<s(whole, whole, front)>>,
      <<honest(back), honest(whole), honest(front), honest(foreign)>>,
      <<honest(front), s(back, front, back), honest(whole)>>,
      <<s(whole, back, back), s(front, whole, front), honest(whole), honest(back)>>}

\* With Single = 2, Short = 3, lists from 7 and blobs of 6 bytes.
Two == << <<3, 4>>, <<1>> >>
TwoAmounts == <<2, 1>>
FirstTx == [block |-> 1, tx |-> 0]
Straddling == << <<5, 5, 5>>, <<6, 6, 6>> >>

SomeContent ==
  (whole :> pack_blob(encode_entries(Two)))
    @@ (front :> pack_blob(SubSeq(encode_entries(Straddling), 1, 6)))
    @@ (back :> pack_blob(SubSeq(encode_entries(Straddling), 7, 10)))
    @@ (foreign :> <<1, 7, 0, 0, 0, 0, 0, 0>>)

SignedBy(signer, entries, amount) == [i \in DOMAIN entries |-> sign_entry(signer, entries[i], amount)]

\* Matching auths with amounts below, at and above the ceiling of 3; too many,
\* in the wrong order, with a v, an s or an r that is refused.
SomeAuthLists ==
  {<<>>, SignedBy(1, Two, 1), Reverse(SignedBy(1, Two, 1)), SignedBy(2, Straddling, 2),
   SignedBy(1, Two, 0) \o SignedBy(2, << <<1>> >>, 3), SignedBy(1, << <<3, 4>> >>, 3),
   <<[sign_eip191(1, <<3, 4>>) EXCEPT !.v = 0], sign_eip191(2, <<1>>)>>,
   <<sign_eip191(1, <<3, 4>>), [sign_eip191(2, <<1>>) EXCEPT !.recoverable = FALSE]>>,
   <<sign_eip191(1, <<5, 5, 5>>), [sign_eip191(2, <<6, 6, 6>>) EXCEPT !.low_s = FALSE]>>}
=============================================================================
