----------------------------- MODULE MCBalance -----------------------------
(***************************************************************************)
(* Instances of Balance for TLC: a masternode m and a wallet w1 whose file *)
(* has the masternode's chain up to a block with a transaction.            *)
(***************************************************************************)
EXTENDS Balance, TLC

CONSTANTS m, w1, t1, now

MCTx == {t1}
MCTime == {now}
MCNode == {m, w1}
MCMasters == {m}
MCDials == {<< w1, m >>, << m, w1 >>}

Genesis == << NewBlock(<< >>, now, << >>) >>
Two == Append(Genesis, NewBlock(Genesis, now, << t1 >>))
Three == Append(Two, NewBlock(Two, now, << t1 >>))
MCStartFile == [n \in Node |-> IF n = m THEN Three ELSE Two]
=============================================================================
