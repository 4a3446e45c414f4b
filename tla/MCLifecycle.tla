---------------------------- MODULE MCLifecycle ----------------------------
(***************************************************************************)
(* Instances of Lifecycle for TLC.                                         *)
(***************************************************************************)
EXTENDS Lifecycle

CONSTANTS n1, n2, n3

Three == {n1, n2, n3}

Network(d, b, f) == [dials |-> d, blocks |-> b, fails |-> f]

\* One process dials the other, and blocks are made; each dials the other;
\* two processes dial the first one.
One == {Network({<< n2, n1 >>}, 2, 1)}
Cross == {Network({<< n1, n2 >>, << n2, n1 >>}, 1, 1)}
Star == {Network({<< n2, n1 >>, << n3, n1 >>}, 0, 0)}
Usual == One \union Cross \union Star

\* Each process dials those that were there before it.
Chain == {Network({<< n2, n1 >>, << n3, n1 >>, << n3, n2 >>}, 0, 0)}
\* An accept4 fails while two processes dial the first one.
Failing == {Network({<< n2, n1 >>, << n3, n1 >>}, 0, 1)}
=============================================================================
