------------------------------- MODULE Chain -------------------------------
(***************************************************************************)
(* Blocks and chains of blocks: the pure part of src/chain/block.cpp and   *)
(* src/chain/blockchain.cpp, shared by every module that holds a chain.    *)
(*                                                                         *)
(* The digest of a block is modelled by the thing it digests, the previous *)
(* digest followed by the block's own content: two digests are equal       *)
(* exactly when the digested histories are, which is what the program      *)
(* relies on sha256 for.  The text of a block is abstracted to the         *)
(* transactions Blockchain::parseTransactions finds in it; free text, such *)
(* as a genesis text, holds none.                                          *)
(***************************************************************************)
EXTENDS Integers, Sequences

CONSTANTS
    Tx,      \* transactions
    Time,    \* values std::time may return
    MinTx    \* Blockchain::MIN_TX_PER_BLOCK

ASSUME MinTxAssumption == MinTx \in Nat \ {0}

\* The digest of a genesis block's missing predecessor: the empty string.
NoHash == << >>

Content == [idx : Nat, time : Time, data : Seq(Tx)]
Digest == Seq(Content)
Block == [idx : Nat, time : Time, data : Seq(Tx), prev : Digest, hash : Digest]

\* Block::_calculateHash: idx, previous hash, time and data.
CalculateHash(b) ==
    Append(b.prev, [idx |-> b.idx, time |-> b.time, data |-> b.data])

\* The block that follows b on a chain must name b's digest.
LastHash(c) == IF c = << >> THEN NoHash ELSE c[Len(c)].hash

\* Blockchain::getLastBlockID: an empty chain answers 0, as a genesis does.
LastBlockID(c) == IF c = << >> THEN 0 ELSE c[Len(c)].idx

\* Faulty variant of NewBlock: the digest is computed before the previous
\* digest is set.
NewBlockEarlyHash(c, t, d) ==
    LET b == [idx  |-> IF c = << >> THEN 0 ELSE LastBlockID(c) + 1,
              time |-> t, data |-> d, prev |-> NoHash, hash |-> NoHash]
    IN  [b EXCEPT !.hash = CalculateHash(b), !.prev = LastHash(c)]

\* The block Blockchain::createBlock appends to c.
NewBlock(c, t, d) ==
    LET b == [idx  |-> IF c = << >> THEN 0 ELSE LastBlockID(c) + 1,
              time |-> t, data |-> d, prev |-> LastHash(c), hash |-> NoHash]
    IN  [b EXCEPT !.hash = CalculateHash(b)]

\* Every block carries its own digest and names its predecessor's.
Linked(c) ==
    \A i \in 1..Len(c) :
        /\ c[i].hash = CalculateHash(c[i])
        /\ c[i].prev = IF i = 1 THEN NoHash ELSE c[i-1].hash

\* Faulty variant of Verify: predecessors are not compared.
VerifyDigests(c) == \A i \in 1..Len(c) : c[i].hash = CalculateHash(c[i])

\* Blockchain::verify; FALSE stands for throwing InconsistentChain.
\* A chain of one block is never looked at.
Verify(c) == Len(c) = 1 \/ Linked(c)

\* The early return of Blockchain::addBlock.
Known(c, b) == c # << >> /\ b.idx <= LastBlockID(c)

\* Block::unserialize of Block::serialize: a block with index 0 comes back
\* without a previous hash, whatever it had.
Reparse(b) == [b EXCEPT !.prev = IF b.idx > 0 THEN @ ELSE NoHash]

\* Faulty variant of Reloaded: the last line of the file is not read.
ReloadedButLast(f) == [i \in 1..(Len(f) - 1) |-> Reparse(f[i])]

\* What Blockchain::load reads from a file that holds the blocks of f.
Reloaded(f) == [i \in 1..Len(f) |-> Reparse(f[i])]

\* Faulty variant of BlocksFrom: the guard is off by two.
BlocksFromLate(c, from) ==
    IF Len(c) <= from + 1 THEN << >> ELSE SubSeq(c, from + 1, Len(c))

\* MasterNode::_sendBlocks and Wallet::_sendBlocks: the blocks at positions
\* from, from + 1, ... counted from 0; none when the chain is shorter.
BlocksFrom(c, from) ==
    IF Len(c) < from THEN << >> ELSE SubSeq(c, from + 1, Len(c))

-----------------------------------------------------------------------------
(***************************************************************************)
(* The transaction buffer, oldest transaction first.                       *)
(***************************************************************************)

\* Iterations of "for (i = 0; i < size; ++i) pop" over a buffer of n: the
\* size shrinks while i grows, so the loop stops half way.
Drained(n) ==
    CHOOSE k \in 0..n : k >= n - k /\ \A j \in 0..(k-1) : j < n - j

Taken(buf) == SubSeq(buf, 1, Drained(Len(buf)))

\* Faulty variant of Left: the whole buffer is cleared after the loop.
LeftNothing(buf) == << >>

Left(buf) == SubSeq(buf, Drained(Len(buf)) + 1, Len(buf))

\* Faulty variant of BlockDue: one transaction too late.
BlockDueLate(buf, force) == Len(buf) > MinTx \/ force

\* When Blockchain::_createTransactionBlock makes a block.
BlockDue(buf, force) == Len(buf) = MinTx \/ force

\* Faulty variant of Requested: transactions are pushed and popped at the
\* same end of the buffer.
RequestedLifo(c, buf, tx, force, t) ==
    LET full == << tx >> \o buf
        b == NewBlock(c, t, Taken(full))
    IN  IF BlockDue(full, force)
        THEN [chain |-> Append(c, b), buf |-> Left(full), made |-> << b >>]
        ELSE [chain |-> c, buf |-> full, made |-> << >>]

\* What Blockchain::requestTransaction makes of chain c and buffer buf: the
\* new chain and buffer, and the created block in a sequence, or none.
Requested(c, buf, tx, force, t) ==
    LET full == Append(buf, tx)
        b == NewBlock(c, t, Taken(full))
    IN  IF BlockDue(full, force)
        THEN [chain |-> Append(c, b), buf |-> Left(full), made |-> << b >>]
        ELSE [chain |-> c, buf |-> full, made |-> << >>]

\* What Blockchain::save does before it writes: the oldest buffered
\* transaction is taken out and requested again, as the newest and by force.
Flushed(c, buf, t) ==
    IF buf = << >>
    THEN [chain |-> c, buf |-> buf, made |-> << >>]
    ELSE Requested(c, Tail(buf), Head(buf), TRUE, t)
=============================================================================
