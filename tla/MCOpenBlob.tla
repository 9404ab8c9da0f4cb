----------------------------- MODULE MCOpenBlob -----------------------------
(* Instances of OpenBlob for model checking. *)
EXTENDS OpenBlob

\* Statements that lead on, stay, and lead back, bind a blockhash of the first
\* two blocks or none, and pay at most MaxDeposit.
MCProvable ==
  {s \in [refs: Refs, prevRoot: Roots, newRoot: Roots, totalEtherPaid: 0..MaxDeposit,
          blockhash: {NoBlockhash, 1}, sender: Provers] :
     <<s.prevRoot, s.newRoot>> \in {<<0, 1>>, <<1, 1>>, <<1, 2>>, <<2, 0>>}}
=============================================================================
