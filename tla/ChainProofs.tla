---------------------------- MODULE ChainProofs ----------------------------
(***************************************************************************)
(* Lemmas about the operators of module Chain, for every value of its      *)
(* constants.                                                              *)
(***************************************************************************)
EXTENDS Chain, SequenceFacts

\* The drain loop takes at least one transaction of a buffer that has one,
\* and never more than there are (blockchain.cpp:160-165).
LEMMA DrainedBounds ==
    ASSUME NEW n \in Nat
    PROVE  /\ Drained(n) \in 0..n
           /\ n > 0 => Drained(n) > 0
<1> DEFINE P(k) == k >= n - k /\ \A j \in 0..(k-1) : j < n - j
<1>1. PICK k \in 0..n : P(k)
  <2>1. CASE \E i \in 0..n : n = 2 * i
    <3>1. PICK i \in 0..n : n = 2 * i
      BY <2>1
    <3>2. P(i)
      BY <3>1
    <3> QED BY <3>2
  <2>2. CASE \E i \in 0..n : n = 2 * i + 1
    <3>1. PICK i \in 0..n : n = 2 * i + 1
      BY <2>2
    <3>2. i + 1 \in 0..n /\ P(i + 1)
      BY <3>1
    <3> QED BY <3>2
  <2>3. (\E i \in 0..n : n = 2 * i) \/ (\E i \in 0..n : n = 2 * i + 1)
    <3>1. n = 2 * (n \div 2) \/ n = 2 * (n \div 2) + 1
      OBVIOUS
    <3>2. n \div 2 \in 0..n
      OBVIOUS
    <3> QED BY <3>1, <3>2
  <2> QED BY <2>1, <2>2, <2>3
<1>2. Drained(n) \in 0..n /\ P(Drained(n))
  BY <1>1 DEF Drained
<1> QED BY <1>2

\* The buffer is cut in two, the older part goes into the block.
LEMMA SplitBuffer ==
    ASSUME NEW buf \in Seq(Tx)
    PROVE  /\ Taken(buf) \in Seq(Tx)
           /\ Left(buf) \in Seq(Tx)
           /\ Len(Left(buf)) <= Len(buf)
           /\ buf # << >> => Len(Left(buf)) < Len(buf)
<1> DEFINE n == Len(buf)
<1>1. n \in Nat /\ (buf # << >> => n > 0)
  OBVIOUS
<1>2. Drained(n) \in 0..n /\ (n > 0 => Drained(n) > 0)
  BY <1>1, DrainedBounds
<1> QED BY <1>1, <1>2 DEF Taken, Left

\* The block createBlock makes is a block, with a natural index and digests.
LEMMA NewBlockType ==
    ASSUME NEW c \in Seq(Block), NEW t \in Time, NEW d \in Seq(Tx)
    PROVE  NewBlock(c, t, d) \in Block
<1>0. c # << >> => c[Len(c)] \in Block
  OBVIOUS
<1>1. LastHash(c) \in Digest
  <2>1. CASE c = << >>
    BY <2>1 DEF LastHash, NoHash, Digest
  <2>2. CASE c # << >>
    BY <2>2, <1>0 DEF LastHash, Block
  <2> QED BY <2>1, <2>2
<1>2. LastBlockID(c) \in Nat
  <2>1. CASE c = << >>
    BY <2>1 DEF LastBlockID
  <2>2. CASE c # << >>
    BY <2>2, <1>0 DEF LastBlockID, Block
  <2> QED BY <2>1, <2>2
<1> DEFINE i == IF c = << >> THEN 0 ELSE LastBlockID(c) + 1
           x == [idx |-> i, time |-> t, data |-> d]
           h == Append(LastHash(c), x)
<1>3. i \in Nat /\ x \in Content
  BY <1>2 DEF Content
<1>4. h \in Digest
  BY <1>1, <1>3 DEF Digest
<1>5. NewBlock(c, t, d) = [idx |-> i, time |-> t, data |-> d,
                           prev |-> LastHash(c), hash |-> h]
  <2> DEFINE b == [idx |-> i, time |-> t, data |-> d,
                   prev |-> LastHash(c), hash |-> NoHash]
  <2>1. CalculateHash(b) = h
    BY DEF CalculateHash
  <2>2. NewBlock(c, t, d) = [b EXCEPT !.hash = CalculateHash(b)]
    BY DEF NewBlock
  <2> HIDE DEF i, h
  <2>3. [b EXCEPT !.hash = h] = [idx |-> i, time |-> t, data |-> d,
                                 prev |-> LastHash(c), hash |-> h]
    OBVIOUS
  <2> QED BY <2>1, <2>2, <2>3
<1> HIDE DEF i, h
<1> QED BY <1>1, <1>3, <1>4, <1>5 DEF Block

\* createBlock keeps a chain linked, though it does not verify it.
LEMMA NewBlockLinks ==
    ASSUME NEW c \in Seq(Block), NEW t \in Time, NEW d \in Seq(Tx), Linked(c)
    PROVE  Linked(Append(c, NewBlock(c, t, d)))
<1> DEFINE b == NewBlock(c, t, d)
           l == Append(c, b)
<1>1. b.hash = CalculateHash(b) /\ b.prev = LastHash(c)
  BY DEF NewBlock, CalculateHash
<1>2. Len(l) = Len(c) + 1 /\ l[Len(c) + 1] = b /\ \A i \in 1..Len(c) : l[i] = c[i]
  BY NewBlockType
<1>3. b.prev = IF Len(c) + 1 = 1 THEN NoHash ELSE c[Len(c)].hash
  BY <1>1 DEF LastHash
<1> HIDE DEF b, l
<1>4. ASSUME NEW i \in 1..Len(l)
      PROVE  /\ l[i].hash = CalculateHash(l[i])
             /\ l[i].prev = IF i = 1 THEN NoHash ELSE l[i-1].hash
  <2>1. CASE i = Len(c) + 1
    BY <2>1, <1>1, <1>2, <1>3
  <2>2. CASE i \in 1..Len(c)
    BY <2>2, <1>2 DEF Linked
  <2> QED BY <2>1, <2>2, <1>2
<1> QED BY <1>4 DEF Linked, b, l

\* Types and sizes of what requestTransaction makes.
LEMMA RequestedType ==
    ASSUME NEW c \in Seq(Block), NEW buf \in Seq(Tx), NEW tx \in Tx,
           NEW force \in BOOLEAN, NEW t \in Time
    PROVE  LET r == Requested(c, buf, tx, force, t)
           IN  /\ r.chain \in Seq(Block) /\ r.buf \in Seq(Tx)
               /\ r.made \in Seq(Block)
               /\ Len(r.chain) >= Len(c)
               /\ IsPrefix(c, r.chain)
               /\ Len(buf) < MinTx => Len(r.buf) < MinTx
               /\ Linked(c) => Linked(r.chain)
<1> DEFINE full == Append(buf, tx)
           b == NewBlock(c, t, Taken(full))
<1>1. full \in Seq(Tx) /\ full # << >> /\ Len(full) = Len(buf) + 1
  OBVIOUS
<1>2. /\ Taken(full) \in Seq(Tx) /\ Left(full) \in Seq(Tx)
      /\ Len(Left(full)) < Len(full)
  BY <1>1, SplitBuffer
<1>3. b \in Block
  BY <1>2, NewBlockType
<1>4. Linked(c) => Linked(Append(c, b))
  BY <1>2, NewBlockLinks
<1>5. Len(buf) \in Nat /\ Len(Left(full)) \in Nat /\ MinTx \in Nat
  BY <1>2, MinTxAssumption
<1>6. IsPrefix(c, c) /\ IsPrefix(c, Append(c, b))
  BY <1>3 DEF IsPrefix
<1> HIDE DEF b
<1>7. CASE BlockDue(full, force)
  <2>1. Requested(c, buf, tx, force, t)
          = [chain |-> Append(c, b), buf |-> Left(full), made |-> << b >>]
    BY <1>7 DEF Requested, b
  <2> QED BY <2>1, <1>1, <1>2, <1>3, <1>4, <1>5, <1>6
<1>8. CASE ~BlockDue(full, force)
  <2>1. Requested(c, buf, tx, force, t)
          = [chain |-> c, buf |-> full, made |-> << >>]
    BY <1>8 DEF Requested
  <2>2. Len(full) # MinTx
    BY <1>8 DEF BlockDue
  <2> QED BY <2>1, <2>2, <1>1, <1>5, <1>6
<1> QED BY <1>7, <1>8

\* save's forced block keeps types, prefix, bound and links as well.
LEMMA FlushedType ==
    ASSUME NEW c \in Seq(Block), NEW buf \in Seq(Tx), NEW t \in Time
    PROVE  LET r == Flushed(c, buf, t)
           IN  /\ r.chain \in Seq(Block) /\ r.buf \in Seq(Tx)
               /\ r.made \in Seq(Block)
               /\ Len(r.chain) >= Len(c)
               /\ IsPrefix(c, r.chain)
               /\ Len(buf) < MinTx => Len(r.buf) < MinTx
               /\ Linked(c) => Linked(r.chain)
<1>1. CASE buf = << >>
  <2>1. Flushed(c, buf, t) = [chain |-> c, buf |-> buf, made |-> << >>]
    BY <1>1 DEF Flushed
  <2>2. IsPrefix(c, c)
    BY DEF IsPrefix
  <2> QED BY <2>1, <2>2
<1>2. CASE buf # << >>
  <2>1. Flushed(c, buf, t) = Requested(c, Tail(buf), Head(buf), TRUE, t)
    BY <1>2 DEF Flushed
  <2>2. /\ Tail(buf) \in Seq(Tx) /\ Head(buf) \in Tx
        /\ Len(Tail(buf)) = Len(buf) - 1 /\ Len(buf) \in Nat
    BY <1>2
  <2>3. Len(buf) < MinTx => Len(Tail(buf)) < MinTx
    BY <2>2, MinTxAssumption
  <2> QED BY <2>1, <2>2, <2>3, RequestedType
<1> QED BY <1>1, <1>2

(***************************************************************************)
(* Chains that start with a genesis block, and reading them back.          *)
(***************************************************************************)

\* A chain with a first block that has no predecessor and its own digest.
Rooted(c) ==
    /\ Len(c) >= 1
    /\ c[1].hash = CalculateHash(c[1])
    /\ c[1].prev = NoHash

\* What Reparse leaves alone.
Readable(c) == \A i \in 1..Len(c) : c[i].idx = 0 => c[i].prev = NoHash

\* A block that goes through its text is a block, and the same one unless it
\* has index 0 and a predecessor (block.cpp:71-73).
LEMMA ReparseType ==
    ASSUME NEW b \in Block
    PROVE  /\ Reparse(b) \in Block
           /\ (b.idx = 0 => b.prev = NoHash) => Reparse(b) = b
           /\ b.idx # 0 => Reparse(b) = b
           /\ Reparse(b).idx = 0 => Reparse(b).prev = NoHash
<1>1. /\ b = [idx |-> b.idx, time |-> b.time, data |-> b.data,
              prev |-> b.prev, hash |-> b.hash]
      /\ b.idx \in Nat /\ b.prev \in Digest /\ NoHash \in Digest
      /\ b.time \in Time /\ b.data \in Seq(Tx) /\ b.hash \in Digest
  BY DEF Block, NoHash, Digest
<1>2. Reparse(b) = [idx |-> b.idx, time |-> b.time, data |-> b.data,
                    prev |-> IF b.idx > 0 THEN b.prev ELSE NoHash,
                    hash |-> b.hash]
  BY <1>1 DEF Reparse
<1> QED BY <1>1, <1>2 DEF Block

\* load reads a chain of the same length, the same one if it is readable.
LEMMA ReloadedType ==
    ASSUME NEW f \in Seq(Block)
    PROVE  /\ Reloaded(f) \in Seq(Block) /\ Len(Reloaded(f)) = Len(f)
           /\ Readable(Reloaded(f))
           /\ Readable(f) => Reloaded(f) = f
<1>1. \A i \in 1..Len(f) : f[i] \in Block
  OBVIOUS
<1>2. Reloaded(f) \in Seq(Block) /\ Len(Reloaded(f)) = Len(f)
  BY <1>1, ReparseType DEF Reloaded
<1>3. \A i \in 1..Len(f) : Reloaded(f)[i] = Reparse(f[i])
  BY DEF Reloaded
<1>4. Readable(Reloaded(f))
  BY <1>1, <1>2, <1>3, ReparseType DEF Readable
<1>5. ASSUME Readable(f) PROVE Reloaded(f) = f
  <2>1. \A i \in 1..Len(f) : Reloaded(f)[i] = f[i]
    BY <1>1, <1>3, <1>5, ReparseType DEF Readable
  <2> QED BY <2>1, <1>2
<1> QED BY <1>2, <1>4, <1>5

\* A rooted file that passes verify is read back exactly as it was written,
\* and is linked: the exemption of one-block chains does no harm to it.
LEMMA RootedReload ==
    ASSUME NEW f \in Seq(Block), Rooted(f), Verify(Reloaded(f))
    PROVE  Reloaded(f) = f /\ Linked(f) /\ Readable(f)
<1> DEFINE g == Reloaded(f)
<1>1. g \in Seq(Block) /\ Len(g) = Len(f) /\ Len(f) \in Nat /\ Len(f) >= 1
  BY ReloadedType DEF Rooted
<1>2. \A i \in 1..Len(f) : f[i] \in Block /\ g[i] = Reparse(f[i])
  BY DEF Reloaded
<1>3. g[1] = f[1]
  BY <1>1, <1>2, ReparseType DEF Rooted
<1>4. Linked(g)
  <2>1. CASE Len(g) = 1
    BY <2>1, <1>1, <1>3 DEF Linked, Rooted
  <2>2. CASE Len(g) # 1
    BY <2>2 DEF Verify
  <2> QED BY <2>1, <2>2
<1>5. ASSUME NEW i \in 1..Len(f) PROVE g[i] = f[i]
  <2>1. CASE i = 1
    BY <2>1, <1>3
  <2>2. CASE i # 1
    <3>1. i - 1 \in 1..Len(g) /\ i \in 1..Len(g) /\ g[i-1] \in Block
      BY <2>2, <1>1
    <3>2. g[i].prev = g[i-1].hash /\ g[i-1].hash = CalculateHash(g[i-1])
      BY <2>2, <3>1, <1>4 DEF Linked
    <3>3. g[i-1].prev \in Seq(Content) /\ g[i-1].idx \in Nat
          /\ g[i-1].time \in Time /\ g[i-1].data \in Seq(Tx)
      BY <3>1 DEF Block, Digest
    <3>4. [idx |-> g[i-1].idx, time |-> g[i-1].time, data |-> g[i-1].data]
            \in Content
      BY <3>3 DEF Content
    <3>5. CalculateHash(g[i-1]) # NoHash
      BY <3>3, <3>4 DEF CalculateHash, NoHash
    <3>6. f[i].idx # 0
      <4>1. f[i].idx = 0 => g[i].prev = NoHash
        BY <1>2, ReparseType DEF Reparse, Block
      <4> QED BY <4>1, <3>2, <3>5
    <3> QED BY <3>6, <1>2, ReparseType
  <2> QED BY <2>1, <2>2
<1>6. g = f
  BY <1>1, <1>5
<1> QED BY <1>4, <1>6, ReloadedType

\* A new block can be read back.
LEMMA NewBlockReadable ==
    ASSUME NEW c \in Seq(Block), NEW t \in Time, NEW d \in Seq(Tx)
    PROVE  NewBlock(c, t, d).idx = 0 => NewBlock(c, t, d).prev = NoHash
<1>1. LastBlockID(c) \in Nat
  <2>1. c # << >> => c[Len(c)] \in Block
    OBVIOUS
  <2> QED BY <2>1 DEF LastBlockID, Block
<1>2. /\ NewBlock(c, t, d).idx = IF c = << >> THEN 0 ELSE LastBlockID(c) + 1
      /\ NewBlock(c, t, d).prev = LastHash(c)
  BY DEF NewBlock
<1> QED BY <1>1, <1>2 DEF LastHash

\* requestTransaction and save keep a chain readable and rooted.
LEMMA RequestedReadable ==
    ASSUME NEW c \in Seq(Block), NEW buf \in Seq(Tx), NEW tx \in Tx,
           NEW force \in BOOLEAN, NEW t \in Time, Readable(c)
    PROVE  Readable(Requested(c, buf, tx, force, t).chain)
<1> DEFINE full == Append(buf, tx)
           b == NewBlock(c, t, Taken(full))
<1>a. full \in Seq(Tx)
  OBVIOUS
<1> HIDE DEF full
<1>0. Taken(full) \in Seq(Tx)
  BY <1>a, SplitBuffer
<1>1. b \in Block /\ (b.idx = 0 => b.prev = NoHash)
  BY <1>0, NewBlockType, NewBlockReadable
<1> HIDE DEF b
<1>2. Readable(Append(c, b))
  BY <1>1 DEF Readable
<1>3. Requested(c, buf, tx, force, t).chain \in {c, Append(c, b)}
  BY DEF Requested, b, full
<1> QED BY <1>2, <1>3

\* The block that save forces keeps a chain readable.
LEMMA FlushedReadable ==
    ASSUME NEW c \in Seq(Block), NEW buf \in Seq(Tx), NEW t \in Time, Readable(c)
    PROVE  Readable(Flushed(c, buf, t).chain)
<1>1. CASE buf = << >>
  BY <1>1 DEF Flushed
<1>2. CASE buf # << >>
  <2>1. Tail(buf) \in Seq(Tx) /\ Head(buf) \in Tx
    BY <1>2
  <2>2. Flushed(c, buf, t) = Requested(c, Tail(buf), Head(buf), TRUE, t)
    BY <1>2 DEF Flushed
  <2> QED BY <2>1, <2>2, RequestedReadable
<1> QED BY <1>1, <1>2

\* What extends a rooted chain is rooted; what is linked is rooted.
LEMMA RootedGrows ==
    ASSUME NEW c \in Seq(Block), NEW d \in Seq(Block), IsPrefix(c, d), Rooted(c)
    PROVE  Rooted(d)
<1>1. Len(c) <= Len(d) /\ \A i \in 1..Len(c) : c[i] = d[i]
  BY PrefixFacts
<1>2. Len(c) \in Nat /\ Len(d) \in Nat /\ Len(c) >= 1 /\ 1 \in 1..Len(c)
  BY DEF Rooted
<1>3. d[1] = c[1] /\ Len(d) >= 1
  BY <1>1, <1>2
<1> QED BY <1>3 DEF Rooted

\* The genesis block createBlock makes of an empty chain.
LEMMA GenesisBlock ==
    ASSUME NEW t \in Time
    PROVE  LET g == << NewBlock(<< >>, t, << >>) >>
           IN  /\ g \in Seq(Block) /\ Len(g) = 1
               /\ Rooted(g) /\ Linked(g) /\ Readable(g)
<1> DEFINE b == NewBlock(<< >>, t, << >>)
<1>1. << >> \in Seq(Block) /\ << >> \in Seq(Tx)
  OBVIOUS
<1>2. b \in Block /\ (b.idx = 0 => b.prev = NoHash)
  BY <1>1, NewBlockType, NewBlockReadable
<1>3. b.prev = NoHash /\ b.hash = CalculateHash(b)
  BY DEF NewBlock, CalculateHash, LastHash
<1> HIDE DEF b
<1>4. << b >> \in Seq(Block) /\ Len(<< b >>) = 1 /\ << b >>[1] = b
  BY <1>2
<1>5. Rooted(<< b >>) /\ Linked(<< b >>) /\ Readable(<< b >>)
  BY <1>2, <1>3, <1>4 DEF Rooted, Linked, Readable
<1> QED BY <1>4, <1>5 DEF b

-----------------------------------------------------------------------------
(***************************************************************************)
(* The digests of a chain, followed from its first block: the least place  *)
(* at which they were wrong cannot exist.                                  *)
(***************************************************************************)

\* The digest of the i-th block of a linked chain holds i contents.
LEMMA DigestLengths ==
    ASSUME NEW c \in Seq(Block), Linked(c)
    PROVE  \A i \in 1..Len(c) : Len(c[i].hash) = i
<1> DEFINE Wrong == {i \in 1..Len(c) : Len(c[i].hash) # i}
<1>1. SUFFICES ASSUME Wrong # {} PROVE FALSE
  OBVIOUS
<1>2. PICK m \in Wrong : \A n \in Wrong : m <= n
  <2>1. Wrong \in SUBSET Nat
    OBVIOUS
  <2> HIDE DEF Wrong
  <2> QED BY <1>1, <2>1, LeastNatural
<1>3. m \in 1..Len(c) /\ Len(c[m].hash) # m /\ c[m] \in Block
  OBVIOUS
<1>4. /\ c[m].hash = CalculateHash(c[m])
      /\ c[m].prev = IF m = 1 THEN NoHash ELSE c[m-1].hash
  BY <1>3 DEF Linked
<1>5. /\ c[m].prev \in Seq(Content)
      /\ [idx |-> c[m].idx, time |-> c[m].time, data |-> c[m].data] \in Content
  BY <1>3 DEF Block, Digest, Content
<1>6. Len(c[m].hash) = Len(c[m].prev) + 1
  BY <1>4, <1>5 DEF CalculateHash
<1>7. CASE m = 1
  BY <1>3, <1>4, <1>6, <1>7 DEF NoHash
<1>8. CASE m # 1
  <2>1. m - 1 \in 1..Len(c) /\ ~(m <= m - 1)
    BY <1>3, <1>8
  <2>2. Len(c[m-1].hash) = m - 1
    BY <1>2, <2>1
  <2> QED BY <1>3, <1>4, <1>6, <1>8, <2>2
<1> QED BY <1>7, <1>8

\* A block of a linked chain d fits behind a prefix of d, that is not empty,
\* in one place only: its own.  This is what verify relies on.
LEMMA OnlyTheNextFits ==
    ASSUME NEW c \in Seq(Block), NEW d \in Seq(Block), Linked(d),
           IsPrefix(c, d), c # << >>,
           NEW j \in 1..Len(d), Linked(Append(c, d[j]))
    PROVE  /\ j = Len(c) + 1
           /\ IsPrefix(Append(c, d[j]), d)
<1> DEFINE l == Append(c, d[j])
           k == Len(c)
<1>1. /\ k \in Nat /\ k >= 1 /\ k <= Len(d) /\ d[j] \in Block
      /\ \A i \in 1..k : c[i] = d[i]
  BY PrefixFacts
<1>2. /\ l \in Seq(Block) /\ Len(l) = k + 1 /\ l[k + 1] = d[j]
      /\ \A i \in 1..k : l[i] = c[i]
  BY <1>1
<1>3. l[k + 1].prev = l[k].hash
  <2>1. k + 1 \in 1..Len(l) /\ k + 1 # 1 /\ (k + 1) - 1 = k
    BY <1>1, <1>2
  <2> HIDE DEF l, k
  <2>2. Linked(l)
    BY DEF l
  <2> QED BY <2>1, <2>2 DEF Linked
<1>4. d[j].prev = d[k].hash
  BY <1>1, <1>2, <1>3
<1>5. Len(d[k].hash) = k /\ Len(d[j].hash) = j
  BY <1>1, DigestLengths
<1>6. Len(d[j].hash) = Len(d[j].prev) + 1
  <2>1. d[j].hash = CalculateHash(d[j])
    BY DEF Linked
  <2>2. /\ d[j].prev \in Seq(Content)
        /\ [idx |-> d[j].idx, time |-> d[j].time, data |-> d[j].data] \in Content
    BY <1>1 DEF Block, Digest, Content
  <2> QED BY <2>1, <2>2 DEF CalculateHash
<1>7. j = k + 1
  BY <1>4, <1>5, <1>6, <1>1
<1>8. IsPrefix(l, d)
  <2>1. Len(l) <= Len(d) /\ \A i \in 1..Len(l) : l[i] = d[i]
    BY <1>1, <1>2, <1>7
  <2> HIDE DEF l
  <2> QED BY <1>2, <2>1, PrefixFacts
<1> QED BY <1>7, <1>8

\* requestTransaction makes no block, or one, which it appends: the chain is
\* otherwise left alone (blockchain.cpp:150-175).
LEMMA RequestedMakes ==
    ASSUME NEW c \in Seq(Block), NEW buf \in Seq(Tx), NEW tx \in Tx,
           NEW force \in BOOLEAN, NEW t \in Time
    PROVE  LET r == Requested(c, buf, tx, force, t)
           IN  \/ r.chain = c /\ r.made = << >>
               \/ \E b \in Block : r.chain = Append(c, b) /\ r.made = << b >>
<1> DEFINE full == Append(buf, tx)
           b == NewBlock(c, t, Taken(full))
<1>0. full \in Seq(Tx)
  OBVIOUS
<1>1. Taken(full) \in Seq(Tx)
  BY <1>0, SplitBuffer
<1>2. b \in Block
  BY <1>1, NewBlockType
<1>3. CASE BlockDue(full, force)
  <2>1. Requested(c, buf, tx, force, t)
          = [chain |-> Append(c, b), buf |-> Left(full), made |-> << b >>]
    BY <1>3 DEF Requested
  <2> HIDE DEF b, full
  <2> QED BY <1>2, <2>1
<1>4. CASE ~BlockDue(full, force)
  BY <1>4 DEF Requested
<1> QED BY <1>3, <1>4

\* save's forced request makes at most one block as well, and leaves an
\* empty buffer and its chain alone.
LEMMA FlushedMakes ==
    ASSUME NEW c \in Seq(Block), NEW buf \in Seq(Tx), NEW t \in Time
    PROVE  LET r == Flushed(c, buf, t)
           IN  /\ \/ r.chain = c /\ r.made = << >>
                  \/ \E b \in Block : r.chain = Append(c, b) /\ r.made = << b >>
               /\ buf = << >> => r = [chain |-> c, buf |-> << >>, made |-> << >>]
<1>1. CASE buf = << >>
  BY <1>1 DEF Flushed
<1>2. CASE buf # << >>
  <2>1. Flushed(c, buf, t) = Requested(c, Tail(buf), Head(buf), TRUE, t)
    BY <1>2 DEF Flushed
  <2>2. Tail(buf) \in Seq(Tx) /\ Head(buf) \in Tx
    BY <1>2
  <2>3. LET r == Requested(c, Tail(buf), Head(buf), TRUE, t)
        IN  \/ r.chain = c /\ r.made = << >>
            \/ \E b \in Block : r.chain = Append(c, b) /\ r.made = << b >>
    BY <2>2, RequestedMakes
  <2> QED BY <1>2, <2>1, <2>3
<1> QED BY <1>1, <1>2

\* A block takes the first transactions of the buffer; with what is left, they
\* are the buffer with the new transaction, in order.
LEMMA RequestedRecords ==
    ASSUME NEW c \in Seq(Block), NEW buf \in Seq(Tx), NEW tx \in Tx,
           NEW force \in BOOLEAN, NEW t \in Time
    PROVE  LET r == Requested(c, buf, tx, force, t)
           IN  \/ r.made = << >> /\ r.buf = Append(buf, tx)
               \/ \E b \in Block : /\ r.made = << b >> /\ b.data \in Seq(Tx) /\ r.buf \in Seq(Tx)
                                   /\ b.data \o r.buf = Append(buf, tx)
<1> DEFINE full == Append(buf, tx)
           b == NewBlock(c, t, Taken(full))
           r == Requested(c, buf, tx, force, t)
<1>1. full \in Seq(Tx)
  OBVIOUS
<1>2. Taken(full) \in Seq(Tx) /\ Left(full) \in Seq(Tx)
  <2> HIDE DEF full
  <2> QED BY <1>1, SplitBuffer
<1>3. b \in Block /\ b.data = Taken(full)
  <2> HIDE DEF full
  <2> QED BY <1>2, NewBlockType DEF NewBlock
<1>4. Taken(full) \o Left(full) = full
  <2> HIDE DEF full
  <2>1. PICK n \in Nat : n = Len(full)
    BY <1>1
  <2>2. Drained(n) \in 0..n
    BY DrainedBounds
  <2>3. PICK k \in 0..n : k = Drained(n)
    BY <2>2
  <2>4. SubSeq(full, 1, k) \o SubSeq(full, k + 1, n) = full
    BY <1>1, <2>1, PartsJoin
  <2> QED BY <2>1, <2>3, <2>4 DEF Taken, Left
<1>5. CASE BlockDue(full, force)
  <2>1. r.made = << b >> /\ r.buf = Left(full)
    BY <1>5 DEF Requested
  <2> HIDE DEF r, b, full
  <2> QED BY <1>2, <1>3, <1>4, <2>1 DEF r, full
<1>6. CASE ~BlockDue(full, force)
  BY <1>6 DEF Requested
<1> QED BY <1>5, <1>6
=============================================================================
