-------------------------- MODULE ReplicatedLedger --------------------------
(***************************************************************************)
(* What the network promises: one log that only grows, written by the      *)
(* masternode, and replicas that copy it block by block from the place     *)
(* they have reached.  A replica may disappear with its process and come   *)
(* back shorter, but never holds anything that is not in the log.          *)
(*                                                                         *)
(* The promise ends when the log itself is damaged: when the masternode    *)
(* goes down with blocks it has not saved.                                 *)
(***************************************************************************)
EXTENDS SequencesExt

CONSTANTS
    Replica,
    Entry

VARIABLES
    log,      \* the masternode's chain, or its file while it is off
    replica,  \* the chain each other process holds, empty while it is off
    damaged   \* the log has lost blocks

vars == << log, replica, damaged >>

Init ==
    /\ log \in Seq(Entry) /\ log # << >>
    /\ replica = [r \in Replica |-> << >>]
    /\ damaged = FALSE

\* The masternode creates a block.
Extend ==
    /\ Len(log') = Len(log) + 1 /\ IsPrefix(log, log')
    /\ UNCHANGED replica

\* A replica takes the next block.
Copy(r) ==
    /\ Len(replica[r]) < Len(log)
    /\ replica' = [replica EXCEPT ![r] = Append(@, log[Len(@) + 1])]
    /\ UNCHANGED log

\* A process ends.
Drop(r) ==
    /\ replica' = [replica EXCEPT ![r] = << >>]
    /\ UNCHANGED log

\* A process starts from what it had saved.
Restore(r) ==
    /\ replica[r] = << >>
    /\ \E k \in 0..Len(log) :
            replica' = [replica EXCEPT ![r] = SubSeq(log, 1, k)]
    /\ UNCHANGED log

Step == Extend \/ \E r \in Replica : Copy(r) \/ Drop(r) \/ Restore(r)

\* Once the log is damaged, nothing is promised.
Next ==
    \/ ~damaged /\ ~damaged' /\ Step
    \/ damaged'

Spec == Init /\ [][Next]_vars
=============================================================================
