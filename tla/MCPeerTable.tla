----------------------------- MODULE MCPeerTable -----------------------------
(***************************************************************************)
(* Instances of PeerTable for TLC.                                         *)
(***************************************************************************)
EXTENDS PeerTable, TLC

CONSTANTS a, b, d

Peers == {a, b, d}

Process(c, s, l, n) == [callers |-> c, callees |-> s, limit |-> l, says |-> n]

\* Two peers call and a third one is called; two peers call, and speak after
\* they have answered; two peers call a process that takes one; the process
\* calls a peer that tells it of another one.
Both == {Process({a, b}, {d}, 2, 1)}
Server == {Process({a, b}, {}, 2, 2)}
Full == {Process({a, b}, {}, 1, 1)}
Told == {Process({}, {b, d}, 2, 2)}
Usual == Both \union Server \union Full \union Told

\* The same with room for all.
Roomy == {Process({a, b}, {d}, 3, 1)}
=============================================================================
