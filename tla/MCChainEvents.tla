---------------------------- MODULE MCChainEvents ----------------------------
(***************************************************************************)
(* Instances of ChainEvents for TLC: the chain an application keeps, and   *)
(* one that is loaded and moved into it.                                   *)
(***************************************************************************)
EXTENDS ChainEvents, TLC

CONSTANTS kept, loaded, c1, c2

Chains == {kept, loaded}
Callbacks == {c1, c2}

Bounds(c, e, n) == [callbacks |-> c, events |-> e, lives |-> n]

\* One callback, two events and two objects, one of them moved; two callbacks
\* and one event; two callbacks of one object and two events.
Small == {Bounds({c1}, 2, 2), Bounds(Callbacks, 1, 2), Bounds(Callbacks, 2, 1)}
=============================================================================
