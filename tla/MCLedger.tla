------------------------------ MODULE MCLedger ------------------------------
(***************************************************************************)
(* Instances of Ledger for TLC.                                            *)
(***************************************************************************)
EXTENDS Ledger, TLC

CONSTANTS t1, t2, bad, now

MCTx == {t1, t2, bad}
MCTime == {now}
MCValid == {t1, t2}

\* What a peer of the same genesis may send: the next two blocks of a chain
\* of its own, and the second block of another one, whose first is unknown.
Genesis == << NewBlock(<< >>, now, << >>) >>
Peer1 == Append(Genesis, NewBlock(Genesis, now, << t1 >>))
Peer2 == Append(Peer1, NewBlock(Peer1, now, << t2 >>))
Other1 == Append(Genesis, NewBlock(Genesis, now, << t2 >>))
Other2 == Append(Other1, NewBlock(Other1, now, << t1, t2 >>))
MCOffered == {Peer2[2], Peer2[3], Other2[3]}

FromToolbox == {NoFile}
=============================================================================
