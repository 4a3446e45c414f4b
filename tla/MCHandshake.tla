----------------------------- MODULE MCHandshake -----------------------------
(***************************************************************************)
(* Instances of Handshake for TLC: a masternode m and wallets w1, w2.      *)
(***************************************************************************)
EXTENDS Handshake, TLC

CONSTANTS m, w1, w2

OneWallet == {m, w1}
TwoWallets == {m, w1, w2}

Way(p, r, n, l) == [peers |-> p, reads |-> r, noise |-> n, leaves |-> l]

\* Both wallets are started with --peer=m.
Star == {Way(<< << w1, m >>, << w2, m >> >>, 1, 0, 0)}
\* w1 is started with --peer=m and m with --peer=w2, in either order, so that
\* w1 learns of w2; one of the three may end.
Line == {Way(<< << w1, m >>, << m, w2 >> >>, 1, 0, 1),
         Way(<< << m, w2 >>, << w1, m >> >>, 1, 0, 1)}
\* One wallet, with broadcasts among the messages and reads of two at once.
Noisy == {Way(<< << w1, m >> >>, 2, 2, 1)}
\* Two nodes are started with each other's address.
Cross == {Way(<< << w1, m >>, << m, w1 >> >>, 1, 0, 0)}
\* One wallet, and either may end.
Leaving == {Way(<< << w1, m >> >>, 1, 0, 1)}

Usual == Star \union Line \union Noisy \union Cross
=============================================================================
