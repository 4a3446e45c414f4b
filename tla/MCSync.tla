------------------------------- MODULE MCSync -------------------------------
(***************************************************************************)
(* Instances of Sync for TLC: one masternode m and one or two wallets.     *)
(***************************************************************************)
EXTENDS Sync, TLC

CONSTANTS m, w1, w2, t1, now

MCTx == {t1}
MCTime == {now}
MCMasters == {m}

OneWallet == {m, w1}
TwoWallets == {m, w1, w2}

\* Wallets dial the masternode, the masternode may dial a wallet; or a
\* wallet dials the other, too, having read its address in a peer list.
DialMaster == {<< w, m >> : w \in Node \ {m}}
DialBoth == {<< w1, m >>, << m, w1 >>}
DialAll == DialMaster \union {<< w2, w1 >>}

\* Chain files: the masternode's has two blocks, the wallets' have only the
\* genesis block, or the same two, or nothing.
Genesis == << NewBlock(<< >>, now, << >>) >>
Two == Append(Genesis, NewBlock(Genesis, now, << t1 >>))
BehindFile == [n \in Node |-> IF n = m THEN Two ELSE Genesis]
MixedFile == [n \in Node |-> IF n = w1 THEN Genesis ELSE Two]
EmptyFile == [n \in Node |-> IF n = m THEN Genesis ELSE << >>]
=============================================================================
