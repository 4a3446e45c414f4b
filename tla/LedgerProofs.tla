---------------------------- MODULE LedgerProofs ----------------------------
(***************************************************************************)
(* Theorems about module Ledger, for every value of its constants.         *)
(***************************************************************************)
EXTENDS Ledger, ChainProofs, FiniteSetTheorems

-----------------------------------------------------------------------------
(***************************************************************************)
(* Types and the bound of the buffer.                                      *)
(***************************************************************************)

\* The empty sequence has the type of the chain, the buffer and the queue.
LEMMA EmptySeq ==
    /\ << >> \in Seq(Block) /\ << >> \in Seq(Tx)
    /\ << >> \in Seq(TxEvent \union BlockEvent)
<1>1. \A S : << >> \in Seq(S)
  OBVIOUS
<1> QED BY <1>1, Zenon

\* An empty buffer is below the bound, MIN_TX_PER_BLOCK being positive.
LEMMA EmptyBuffer == txBuffer' = << >> => BufferBelowMin'
<1>1. Len(<< >>) < MinTx
  BY MinTxAssumption
<1> QED BY <1>1, Zenon DEF BufferBelowMin

\* The events requestTransaction queues are events.
LEMMA EventTypes ==
    ASSUME NEW s \in Seq(Block), NEW e \in Seq(TxEvent \union BlockEvent), NEW tx \in Tx
    PROVE  /\ e \o << [name |-> "NEW_TRANSACTION", tx |-> tx] >> \o BlockEvents(s)
                \in Seq(TxEvent \union BlockEvent)
<1> DEFINE E == TxEvent \union BlockEvent
           x == [name |-> "NEW_TRANSACTION", tx |-> tx]
<1>1. x \in E
  BY DEF TxEvent
<1>2. \A i \in 1..Len(s) : [name |-> "NEW_BLOCK", blk |-> s[i]] \in E
  BY DEF BlockEvent
<1>3. BlockEvents(s) \in Seq(E)
  BY <1>2 DEF BlockEvents
<1> HIDE DEF E, x
<1>4. << x >> \in Seq(E)
  BY <1>1
<1>5. e \o << x >> \in Seq(E)
  BY <1>4 DEF E
<1>6. (e \o << x >>) \o BlockEvents(s) \in Seq(E)
  BY <1>3, <1>5
<1> QED BY <1>6 DEF E, x

\* A process that has not started has the types and an empty buffer.
LEMMA InitTypeOK == Init => TypeOK /\ BufferBelowMin
<1> SUFFICES ASSUME Init PROVE TypeOK /\ BufferBelowMin
  OBVIOUS
<1>1. TypeOK
  BY LedgerAssumption, EmptySeq DEF Init, TypeOK
<1>2. BufferBelowMin
  BY MinTxAssumption DEF Init, BufferBelowMin
<1> QED BY <1>1, <1>2

\* One step of any thread keeps the types and the bound of the buffer.
LEMMA NextTypeOK ==
    TypeOK /\ BufferBelowMin /\ [Next]_vars => TypeOK' /\ BufferBelowMin'
<1> SUFFICES ASSUME TypeOK, BufferBelowMin, [Next]_vars
             PROVE  TypeOK' /\ BufferBelowMin'
  OBVIOUS
<1>1. ASSUME NEW t \in Time, NEW s \in {<< >>} \union {<< tx >> : tx \in Tx},
             ToolboxInit(t, s)
      PROVE  TypeOK' /\ BufferBelowMin'
  <2> DEFINE genesis == << NewBlock(<< >>, t, << >>) >>
  <2>1. genesis \in Seq(Block)
    <3>1. NewBlock(<< >>, t, << >>) \in Block
      BY EmptySeq, NewBlockType
    <3> QED BY <3>1
  <2> HIDE DEF genesis
  <2>2. file' \in Seq(Block)
    <3>1. CASE s = << >>
      BY <1>1, <3>1, <2>1 DEF ToolboxInit, genesis
    <3>2. CASE s # << >>
      <4>1. s[1] \in Tx
        BY <3>2
      <4>2. Requested(genesis, << >>, s[1], TRUE, t).chain \in Seq(Block)
        BY <4>1, <2>1, EmptySeq, RequestedType
      <4> QED BY <1>1, <3>2, <4>2 DEF ToolboxInit, genesis
    <3> QED BY <3>1, <3>2
  <2> QED BY <1>1, <2>2 DEF ToolboxInit, TypeOK, BufferBelowMin
<1>2. CASE Load
  <2>1. Reloaded(file) \in Seq(Block)
    BY <1>2, ReloadedType DEF Load, TypeOK
  <2>2. TypeOK'
    <3>1. /\ main' = "waiting" /\ adding' = FALSE /\ file' = file
          /\ chain' \in Seq(Block)
          /\ txBuffer' = << >> /\ events' = << >> /\ accepted' = << >>
          /\ created' = << >> /\ announced' = << >>
      BY <1>2, <2>1 DEF Load
    <3>2. runs' \in Nat
      BY <1>2 DEF Load, TypeOK
    <3> QED BY <3>1, <3>2, EmptySeq DEF TypeOK
  <2>3. BufferBelowMin'
    BY <1>2, EmptyBuffer DEF Load
  <2> QED BY <2>2, <2>3
<1>3. ASSUME NEW tx \in Tx, NEW t \in Time, RequestTransaction(tx, t)
      PROVE  TypeOK' /\ BufferBelowMin'
  <2> DEFINE r == Requested(chain, txBuffer, tx, FALSE, t)
  <2>1. /\ r.chain \in Seq(Block) /\ r.buf \in Seq(Tx) /\ r.made \in Seq(Block)
        /\ Len(r.buf) < MinTx
    BY RequestedType DEF TypeOK, BufferBelowMin
  <2>2. /\ chain' = r.chain /\ txBuffer' = r.buf
        /\ events' = events \o << [name |-> "NEW_TRANSACTION", tx |-> tx] >>
                            \o BlockEvents(r.made)
        /\ accepted' = Append(accepted, tx) /\ created' = created \o r.made
        /\ UNCHANGED << main, adding, file, announced, runs >>
    BY <1>3 DEF RequestTransaction
  <2> HIDE DEF r
  <2>3. events' \in Seq(TxEvent \union BlockEvent)
    BY <2>1, <2>2, EventTypes DEF TypeOK
  <2>4. created' \in Seq(Block) /\ accepted' \in Seq(Tx)
    BY <2>1, <2>2 DEF TypeOK
  <2>5. TypeOK'
    BY <2>1, <2>2, <2>3, <2>4 DEF TypeOK
  <2>6. BufferBelowMin'
    BY <2>1, <2>2 DEF BufferBelowMin
  <2> QED BY <2>5, <2>6
<1>4. ASSUME NEW b \in Offered, PushBlock(b)
      PROVE  TypeOK' /\ BufferBelowMin'
  <2>1. b \in Block
    BY LedgerAssumption
  <2> QED BY <1>4, <2>1 DEF PushBlock, TypeOK, BufferBelowMin
<1>5. ASSUME Gone PROVE TypeOK' /\ BufferBelowMin'
  <2>1. TypeOK'
    BY <1>5, EmptySeq DEF Gone, TypeOK
  <2>2. BufferBelowMin'
    BY <1>5, EmptyBuffer DEF Gone
  <2> QED BY <2>1, <2>2
<1>6. CASE VerifyBlock
  BY <1>6, <1>5 DEF VerifyBlock, TypeOK, BufferBelowMin
<1>7. CASE Dispatch
  <2>1. /\ Tail(events) \in Seq(TxEvent \union BlockEvent)
        /\ Head(events) \in TxEvent \union BlockEvent
    BY <1>7 DEF Dispatch, TypeOK
  <2>2. Head(events).name = "NEW_BLOCK" => Head(events).blk \in Block
    BY <2>1 DEF TxEvent, BlockEvent
  <2> QED BY <1>7, <2>1, <2>2 DEF Dispatch, TypeOK, BufferBelowMin
<1>8. ASSUME NEW t \in Time, Save(t)
      PROVE  TypeOK' /\ BufferBelowMin'
  <2> DEFINE r == Flushed(chain, txBuffer, t)
  <2>1. /\ r.chain \in Seq(Block) /\ r.buf \in Seq(Tx) /\ r.made \in Seq(Block)
        /\ Len(r.buf) < MinTx
    BY FlushedType DEF TypeOK, BufferBelowMin
  <2>2. /\ chain' = r.chain /\ txBuffer' = r.buf /\ file' = r.chain
        /\ events' = IF txBuffer = << >> THEN events
                     ELSE events \o << [name |-> "NEW_TRANSACTION",
                                        tx |-> Head(txBuffer)] >>
                                 \o BlockEvents(r.made)
        /\ created' = created \o r.made /\ main' = "saved"
        /\ UNCHANGED << adding, accepted, announced, runs >>
    BY <1>8 DEF Save
  <2> HIDE DEF r
  <2>3. events' \in Seq(TxEvent \union BlockEvent)
    <3>1. txBuffer # << >> => Head(txBuffer) \in Tx
      BY DEF TypeOK
    <3> QED BY <3>1, <2>1, <2>2, EventTypes DEF TypeOK
  <2>4. created' \in Seq(Block) /\ accepted' \in Seq(Tx)
    BY <2>1, <2>2 DEF TypeOK
  <2>5. TypeOK'
    BY <2>1, <2>2, <2>3, <2>4 DEF TypeOK
  <2>6. BufferBelowMin'
    BY <2>1, <2>2 DEF BufferBelowMin
  <2> QED BY <2>5, <2>6
<1>9. CASE Stop
  BY <1>9, <1>5 DEF Stop
<1>10. CASE Crash
  BY <1>10, <1>5 DEF Crash
<1>11. CASE UNCHANGED vars
  BY <1>11 DEF vars, TypeOK, BufferBelowMin
<1> QED
  BY <1>1, <1>2, <1>3, <1>4, <1>6, <1>7, <1>8, <1>9, <1>10, <1>11 DEF Next

\* The variables keep their types: blocks stay blocks with natural indices,
\* also through a file that is read back (blockchain.cpp:34-61, 201-216).
THEOREM TypeCorrect == Spec => []TypeOK
<1>1. Init => TypeOK /\ BufferBelowMin
  BY InitTypeOK
<1>2. TypeOK /\ BufferBelowMin /\ [Next]_vars => (TypeOK /\ BufferBelowMin)'
  BY NextTypeOK
<1> QED BY <1>1, <1>2, PTL DEF Spec

\* Between two calls the buffer is shorter than MIN_TX_PER_BLOCK, so that
\* the next transaction meets the test for equality (blockchain.cpp:157).
THEOREM BufferBound == Spec => []BufferBelowMin
<1>1. Init => TypeOK /\ BufferBelowMin
  BY InitTypeOK
<1>2. TypeOK /\ BufferBelowMin /\ [Next]_vars => (TypeOK /\ BufferBelowMin)'
  BY NextTypeOK
<1> QED BY <1>1, <1>2, PTL DEF Spec

-----------------------------------------------------------------------------
(***************************************************************************)
(* The chain and its file.  The program never checks that a chain begins   *)
(* with a genesis block, so what follows is about chain files that do.     *)
(***************************************************************************)

GenesisStart == \A f \in StartFiles : f = NoFile \/ Rooted(f)

\* The file is part of the chain in memory, the chain is rooted and reads
\* back as it is, and it is linked except between addBlock's push and its
\* verify, when it has a second block and so is not exempt from verify.
FileInv == file # NoFile => Rooted(file)
ChainInv ==
    Up => /\ file # NoFile /\ IsPrefix(file, chain)
          /\ Rooted(chain) /\ Readable(chain)
AddInv == adding => Up /\ Len(chain) >= 2
IInv == FileInv /\ ChainInv /\ AddInv /\ ChainLinked

\* The inductive invariant holds at first, given a good file or none.
LEMMA InitIInv == GenesisStart /\ Init => IInv
  BY DEF GenesisStart, Init, IInv, FileInv, ChainInv, AddInv, ChainLinked, Up

\* Toolbox::_initBlockchain writes a good file.
LEMMA ToolboxFile ==
    ASSUME NEW t \in Time, NEW s \in {<< >>} \union {<< tx >> : tx \in Tx},
           ToolboxInit(t, s)
    PROVE  /\ file' \in Seq(Block)
           /\ Rooted(file') /\ Linked(file') /\ Readable(file')
<1> DEFINE genesis == << NewBlock(<< >>, t, << >>) >>
<1>1. /\ genesis \in Seq(Block) /\ Len(genesis) = 1
      /\ Rooted(genesis) /\ Linked(genesis) /\ Readable(genesis)
  BY GenesisBlock
<1> HIDE DEF genesis
<1>2. CASE s = << >>
  <2>1. file' = genesis
    BY <1>2 DEF ToolboxInit, genesis
  <2> QED BY <2>1, <1>1
<1>3. CASE s # << >>
  <2>1. s[1] \in Tx
    BY <1>3
  <2> DEFINE r == Requested(genesis, << >>, s[1], TRUE, t)
  <2>2. file' = r.chain
    BY <1>3 DEF ToolboxInit, genesis
  <2>3. r.chain \in Seq(Block) /\ IsPrefix(genesis, r.chain) /\ Linked(r.chain)
    BY <2>1, <1>1, EmptySeq, RequestedType
  <2>4. Readable(r.chain)
    BY <2>1, <1>1, EmptySeq, RequestedReadable
  <2> HIDE DEF r
  <2>5. Rooted(r.chain)
    BY <2>3, <1>1, RootedGrows
  <2> QED BY <2>2, <2>3, <2>4, <2>5
<1> QED BY <1>2, <1>3

\* What requestTransaction and save make of a good chain.
LEMMA GoodExtension ==
    ASSUME NEW d \in Seq(Block), TypeOK, ChainInv, Up, IsPrefix(chain, d)
    PROVE  IsPrefix(file, d) /\ Rooted(d)
<1>1. /\ file \in Seq(Block) /\ chain \in Seq(Block)
      /\ IsPrefix(file, chain) /\ Rooted(chain)
  BY DEF TypeOK, ChainInv
<1>2. IsPrefix(file, d)
  BY <1>1, PrefixFacts
<1>3. Rooted(d)
  BY <1>1, RootedGrows
<1> QED BY <1>2, <1>3

\* One step of any thread keeps the inductive invariant.
LEMMA NextIInv ==
    TypeOK /\ TypeOK' /\ BufferBelowMin /\ IInv /\ [Next]_vars => IInv'
<1> SUFFICES ASSUME TypeOK, TypeOK', BufferBelowMin, IInv, [Next]_vars
             PROVE  IInv'
  OBVIOUS
<1> USE DEF IInv
<1>1. ASSUME NEW t \in Time, NEW s \in {<< >>} \union {<< tx >> : tx \in Tx},
             ToolboxInit(t, s)
      PROVE  IInv'
  <2>1. Rooted(file')
    BY <1>1, ToolboxFile
  <2> QED BY <1>1, <2>1 DEF ToolboxInit, FileInv, ChainInv, AddInv, ChainLinked, Up
<1>2. CASE Load
  <2>1. file \in Seq(Block) /\ Rooted(file) /\ Verify(Reloaded(file))
    BY <1>2 DEF Load, TypeOK, FileInv
  <2>2. chain' = file /\ Linked(file) /\ Readable(file)
    BY <1>2, <2>1, RootedReload DEF Load
  <2>3. IsPrefix(file, file)
    BY <2>1, PrefixFacts
  <2>4. file' = file /\ file # NoFile /\ adding' = FALSE
    BY <1>2 DEF Load
  <2> QED BY <2>1, <2>2, <2>3, <2>4 DEF FileInv, ChainInv, AddInv, ChainLinked
<1>3. ASSUME NEW tx \in Tx, NEW t \in Time, RequestTransaction(tx, t)
      PROVE  IInv'
  <2> DEFINE r == Requested(chain, txBuffer, tx, FALSE, t)
  <2>1. /\ Up /\ ~adding /\ chain' = r.chain
        /\ main' = main /\ adding' = adding /\ file' = file
    BY <1>3 DEF RequestTransaction
  <2>2. Linked(chain) /\ Readable(chain) /\ chain \in Seq(Block) /\ txBuffer \in Seq(Tx)
    BY <2>1 DEF ChainLinked, ChainInv, TypeOK
  <2>3. r.chain \in Seq(Block) /\ IsPrefix(chain, r.chain) /\ Linked(r.chain)
    BY <2>2, RequestedType
  <2>4. Readable(r.chain)
    BY <2>2, RequestedReadable
  <2> HIDE DEF r
  <2>5. IsPrefix(file, r.chain) /\ Rooted(r.chain)
    BY <2>1, <2>3, GoodExtension
  <2> QED BY <2>1, <2>3, <2>4, <2>5 DEF FileInv, ChainInv, AddInv, ChainLinked, Up
<1>4. ASSUME NEW b \in Offered, PushBlock(b)
      PROVE  IInv'
  <2>1. /\ Up /\ ~Known(chain, b) /\ chain' = Append(chain, b) /\ adding' = TRUE
        /\ main' = main /\ file' = file
    BY <1>4 DEF PushBlock
  <2>2. b \in Block /\ chain \in Seq(Block) /\ Readable(chain) /\ Len(chain) >= 1
    BY <2>1, LedgerAssumption DEF TypeOK, ChainInv, Rooted
  <2>3. chain # << >> /\ chain[Len(chain)] \in Block
    BY <2>2
  <2>4. LastBlockID(chain) \in Nat
    BY <2>3 DEF LastBlockID, Block
  <2>5. b.idx > 0
    BY <2>1, <2>2, <2>3, <2>4 DEF Known, Block
  <2>6. /\ Append(chain, b) \in Seq(Block) /\ Len(Append(chain, b)) = Len(chain) + 1
        /\ \A i \in 1..Len(chain) : Append(chain, b)[i] = chain[i]
        /\ Append(chain, b)[Len(chain) + 1] = b
    BY <2>2
  <2>7. Readable(Append(chain, b))
    BY <2>2, <2>5, <2>6 DEF Readable
  <2>8. IsPrefix(chain, chain) /\ IsPrefix(chain, Append(chain, b))
    BY <2>2, PrefixFacts
  <2>9. IsPrefix(file, Append(chain, b)) /\ Rooted(Append(chain, b))
    BY <2>1, <2>6, <2>8, GoodExtension
  <2>10. Len(chain') >= 2
    BY <2>1, <2>2, <2>6
  <2> QED
    BY <2>1, <2>7, <2>9, <2>10 DEF FileInv, ChainInv, AddInv, ChainLinked, Up
<1>5. ASSUME Gone PROVE IInv'
  BY <1>5 DEF Gone, FileInv, ChainInv, AddInv, ChainLinked, Up
<1>6. CASE VerifyBlock
  <2>1. CASE Gone
    BY <2>1, <1>5
  <2>2. CASE /\ adding /\ Verify(chain) /\ adding' = FALSE
             /\ UNCHANGED << main, chain, txBuffer, events, file,
                             accepted, created, announced, runs >>
    <3>1. Linked(chain)
      BY <2>2 DEF Verify, AddInv
    <3> QED BY <2>2, <3>1 DEF FileInv, ChainInv, AddInv, ChainLinked, Up
  <2> QED BY <1>6, <2>1, <2>2 DEF VerifyBlock
<1>7. CASE Dispatch
  BY <1>7 DEF Dispatch, FileInv, ChainInv, AddInv, ChainLinked, Up
<1>8. ASSUME NEW t \in Time, Save(t)
      PROVE  IInv'
  <2> DEFINE r == Flushed(chain, txBuffer, t)
  <2>1. /\ main = "waiting" /\ main' = "saved" /\ chain' = r.chain
        /\ file' = r.chain /\ adding' = adding
    BY <1>8 DEF Save
  <2>2. Up /\ Up' /\ Readable(chain) /\ chain \in Seq(Block) /\ txBuffer \in Seq(Tx)
    BY <2>1 DEF Up, ChainInv, TypeOK
  <2>3. /\ r.chain \in Seq(Block) /\ IsPrefix(chain, r.chain)
        /\ Len(chain) <= Len(r.chain) /\ (Linked(chain) => Linked(r.chain))
    BY <2>2, FlushedType
  <2>4. Readable(r.chain)
    BY <2>2, FlushedReadable
  <2> HIDE DEF r
  <2>5. Rooted(r.chain) /\ IsPrefix(r.chain, r.chain)
    BY <2>2, <2>3, GoodExtension, PrefixFacts
  <2>6. r.chain # NoFile
    BY <2>3, LedgerAssumption
  <2>7. FileInv' /\ ChainInv' /\ ChainLinked'
    BY <2>1, <2>2, <2>3, <2>4, <2>5, <2>6 DEF FileInv, ChainInv, ChainLinked
  <2>8. AddInv'
    <3>1. Len(chain) \in Nat /\ Len(r.chain) \in Nat
      BY <2>2, <2>3
    <3> QED BY <3>1, <2>1, <2>2, <2>3 DEF AddInv
  <2> QED BY <2>7, <2>8
<1>9. CASE Stop
  BY <1>9, <1>5 DEF Stop
<1>10. CASE Crash
  BY <1>10, <1>5 DEF Crash
<1>11. CASE UNCHANGED vars
  BY <1>11 DEF vars, FileInv, ChainInv, AddInv, ChainLinked, Up
<1> QED
  BY <1>1, <1>2, <1>3, <1>4, <1>6, <1>7, <1>8, <1>9, <1>10, <1>11 DEF Next

\* The inductive invariant, with the types it needs.
LEMMA Inductive == GenesisStart => (Spec => [](TypeOK /\ BufferBelowMin /\ IInv))
<1>1. GenesisStart /\ Init => TypeOK /\ BufferBelowMin /\ IInv
  BY InitTypeOK, InitIInv
<1>2. TypeOK /\ BufferBelowMin /\ IInv /\ [Next]_vars
        => (TypeOK /\ BufferBelowMin /\ IInv)'
  BY NextTypeOK, NextIInv
<1> QED BY <1>1, <1>2, PTL DEF Spec

\* A chain that began with a genesis block is linked whenever no addBlock is
\* under way, whatever blocks peers send and whichever way the threads
\* interleave (blockchain.cpp:34-79).
THEOREM ChainAlwaysLinked == GenesisStart => (Spec => []ChainLinked)
<1>1. IInv => ChainLinked
  BY DEF IInv
<1> QED BY <1>1, Inductive, PTL

\* No save loses or changes a block that an earlier save has written, also
\* across crashes and restarts (blockchain.cpp:114-137, 201-216).
THEOREM FileIsAppendOnly == GenesisStart => (Spec => FileOnlyGrows)
<1>1. ASSUME TypeOK, TypeOK', IInv, [Next]_vars, file # NoFile
      PROVE  IsPrefix(file, file')
  <2>1. file \in Seq(Block) /\ IsPrefix(file, file)
    BY <1>1, PrefixFacts DEF TypeOK
  <2>2. ASSUME NEW t \in Time, Save(t) PROVE IsPrefix(file, file')
    <3>1. Up /\ chain \in Seq(Block) /\ txBuffer \in Seq(Tx)
      BY <1>1, <2>2 DEF Save, Up, TypeOK
    <3>2. file' = Flushed(chain, txBuffer, t).chain
      BY <2>2 DEF Save
    <3>3. file' \in Seq(Block) /\ IsPrefix(chain, file')
      BY <3>1, <3>2, FlushedType
    <3> QED BY <1>1, <3>1, <3>3, GoodExtension DEF IInv
  <2>3. file' = file \/ \E t \in Time : Save(t)
    BY <1>1 DEF Next, vars, ToolboxInit, Load, RequestTransaction, PushBlock,
                VerifyBlock, Dispatch, Stop, Crash, Gone
  <2> QED BY <2>1, <2>2, <2>3
<1>2. TypeOK /\ TypeOK' /\ IInv /\ [Next]_vars
        => [file # NoFile => IsPrefix(file, file')]_vars
  BY <1>1
<1> QED BY <1>2, Inductive, PTL DEF Spec, FileOnlyGrows

\* A save that does not overlap an addBlock writes a file that the next run
\* loads (blockchain.cpp:114-137, 63-79).
THEOREM SavesLoad == GenesisStart => (Spec => SavedFileLoads)
<1>1. ASSUME TypeOK, IInv, [Next]_vars, file' # file, ~adding
      PROVE  Verify(Reloaded(file'))
  <2>1. ASSUME NEW f \in Seq(Block), Linked(f), Readable(f)
        PROVE  Verify(Reloaded(f))
    BY <2>1, ReloadedType DEF Verify
  <2>2. ASSUME NEW t \in Time, Save(t) PROVE Verify(Reloaded(file'))
    <3>1. /\ chain \in Seq(Block) /\ txBuffer \in Seq(Tx)
          /\ Linked(chain) /\ Readable(chain)
      BY <1>1, <2>2 DEF Save, Up, TypeOK, IInv, ChainInv, ChainLinked
    <3>2. file' = Flushed(chain, txBuffer, t).chain
      BY <2>2 DEF Save
    <3>3. file' \in Seq(Block) /\ Linked(file') /\ Readable(file')
      BY <3>1, <3>2, FlushedType, FlushedReadable
    <3> QED BY <2>1, <3>3
  <2>3. ASSUME NEW t \in Time, NEW s \in {<< >>} \union {<< tx >> : tx \in Tx},
               ToolboxInit(t, s)
        PROVE  Verify(Reloaded(file'))
    BY <2>1, <2>3, ToolboxFile
  <2>4. \/ \E t \in Time : Save(t)
        \/ \E t \in Time, s \in {<< >>} \union {<< tx >> : tx \in Tx} : ToolboxInit(t, s)
    BY <1>1 DEF Next, vars, Load, RequestTransaction, PushBlock,
                VerifyBlock, Dispatch, Stop, Crash, Gone
  <2> QED BY <2>2, <2>3, <2>4
<1>2. TypeOK /\ IInv /\ [Next]_vars
        => [file' # file /\ ~adding => Verify(Reloaded(file'))]_vars
  BY <1>1
<1> QED BY <1>2, Inductive, PTL DEF Spec, SavedFileLoads

-----------------------------------------------------------------------------
(***************************************************************************)
(* Transactions and blocks in order.                                       *)
(***************************************************************************)
LEMMA DataEmpty == Data(<< >>) = << >>
<1>1. Len(<< >>) = 0 /\ [i \in 1..0 |-> << >>[i].data] = << >>
  OBVIOUS
<1> QED BY <1>1, FlattenEmpty DEF Data

\* The data of a chain with one block more.
LEMMA DataAppend ==
    ASSUME NEW c \in Seq(Block), NEW b \in Block
    PROVE  Data(c) \in Seq(Tx) /\ Data(Append(c, b)) = Data(c) \o b.data
<1> DEFINE T == Seq(Tx)
           s == [i \in 1..Len(c) |-> c[i].data]
           l == Append(c, b)
<1>1. /\ Len(l) = Len(c) + 1 /\ l[Len(c) + 1] = b /\ \A i \in 1..Len(c) : l[i] = c[i]
      /\ Len(c) \in Nat
  OBVIOUS
<1>2. b.data \in T /\ \A i \in 1..Len(c) : c[i].data \in T
  <2>1. \A x \in Block : x.data \in T
    BY DEF Block
  <2> HIDE DEF T
  <2>2. \A i \in 1..Len(c) : c[i] \in Block
    OBVIOUS
  <2> QED BY <2>1, <2>2
<1> HIDE DEF T
<1>3. s \in Seq(T) /\ Len(s) = Len(c)
  BY <1>1, <1>2
<1> HIDE DEF l
<1>4. [i \in 1..Len(l) |-> l[i].data] = Append(s, b.data)
  BY <1>1, <1>2, <1>3
<1> HIDE DEF s
<1>5. FlattenSeq(s) \in Seq(Tx) /\ FlattenSeq(Append(s, b.data)) = FlattenSeq(s) \o b.data
  BY <1>2, <1>3, FlattenType, FlattenAppend DEF T
<1> QED BY <1>4, <1>5 DEF Data, l, s

\* One step keeps the transactions in order.
LEMMA NextTxInOrder == TypeOK /\ TxInOrder /\ [Next]_vars => TxInOrder'
<1> SUFFICES ASSUME TypeOK, TxInOrder, [Next]_vars, main' = "waiting"
             PROVE  accepted' = Data(created') \o txBuffer'
  BY DEF TxInOrder
<1>1. CASE Load
  <2>1. accepted' = << >> /\ created' = << >> /\ txBuffer' = << >>
    BY <1>1 DEF Load
  <2> QED BY <2>1, DataEmpty
<1>2. ASSUME NEW tx \in Tx, NEW t \in Time, RequestTransaction(tx, t)
      PROVE  accepted' = Data(created') \o txBuffer'
  <2> DEFINE r == Requested(chain, txBuffer, tx, FALSE, t)
  <2>1. /\ main = "waiting" /\ txBuffer' = r.buf
        /\ accepted' = Append(accepted, tx) /\ created' = created \o r.made
    BY <1>2 DEF RequestTransaction
  <2>2. /\ chain \in Seq(Block) /\ txBuffer \in Seq(Tx) /\ created \in Seq(Block)
        /\ accepted = Data(created) \o txBuffer
    BY <2>1 DEF TypeOK, TxInOrder
  <2>3. \/ r.made = << >> /\ r.buf = Append(txBuffer, tx)
        \/ \E b \in Block : /\ r.made = << b >> /\ b.data \in Seq(Tx) /\ r.buf \in Seq(Tx)
                            /\ b.data \o r.buf = Append(txBuffer, tx)
    BY <2>2, RequestedRecords
  <2> HIDE DEF r
  <2>4. Data(created) \in Seq(Tx)
    <3>0. << >> \in Seq(Tx)
      OBVIOUS
    <3>1. CASE created = << >>
      BY <3>0, <3>1, DataEmpty
    <3>2. CASE created # << >>
      <4>1. PICK b \in Block : b = created[1]
        BY <2>2, <3>2
      <4> QED BY <2>2, DataAppend
    <3> QED BY <3>1, <3>2
  <2>5. Data(created) \o Append(txBuffer, tx) = Append(accepted, tx)
    BY <2>2, <2>4, AppendConcat
  <2>6. CASE r.made = << >> /\ r.buf = Append(txBuffer, tx)
    <3>1. created' = created
      BY <2>1, <2>2, <2>6
    <3> QED BY <2>1, <2>5, <2>6, <3>1
  <2>7. ASSUME NEW b \in Block, r.made = << b >>, b.data \in Seq(Tx), r.buf \in Seq(Tx),
               b.data \o r.buf = Append(txBuffer, tx)
        PROVE  accepted' = Data(created') \o txBuffer'
    <3>1. created' = Append(created, b)
      BY <2>1, <2>2, <2>7
    <3>2. Data(created') = Data(created) \o b.data
      BY <2>2, <3>1, DataAppend
    <3>3. (Data(created) \o b.data) \o r.buf = Data(created) \o (b.data \o r.buf)
      <4>1. \A x, y, z \in Seq(Tx) : Cat(Cat(x, y), z) = Cat(x, Cat(y, z))
        BY ConcatAssociative DEF Cat
      <4>2. Cat(Cat(Data(created), b.data), r.buf) = Cat(Data(created), Cat(b.data, r.buf))
        BY <2>4, <2>7, <4>1
      <4> QED BY <4>2 DEF Cat
    <3> QED BY <2>1, <2>5, <2>7, <3>2, <3>3
  <2> QED BY <2>3, <2>6, <2>7
<1>3. ASSUME UNCHANGED << main, txBuffer, accepted, created >>
      PROVE  accepted' = Data(created') \o txBuffer'
  BY <1>3 DEF TxInOrder
<1>4. CASE \/ \E t \in Time, s \in {<< >>} \union {<< tx >> : tx \in Tx} : ToolboxInit(t, s)
           \/ \E b \in Offered : PushBlock(b)
           \/ Dispatch \/ UNCHANGED vars
  BY <1>3, <1>4 DEF ToolboxInit, PushBlock, Dispatch, vars
<1>5. CASE VerifyBlock
  BY <1>3, <1>5 DEF VerifyBlock, Gone
<1>6. CASE (\E t \in Time : Save(t)) \/ Stop \/ Crash
  BY <1>6 DEF Save, Stop, Crash, Gone
<1> QED BY <1>1, <1>2, <1>4, <1>5, <1>6 DEF Next

\* Blocks record transactions in the order in which requestTransaction accepted
\* them (blockchain.cpp:143-169), through the drain loop that stops half way,
\* for every MIN_TX_PER_BLOCK and every number of requests, until save takes
\* the oldest one to the end (blockchain.cpp:121-126).
THEOREM RecordsInOrder == Spec => []TxInOrder
<1>1. Init => TypeOK /\ BufferBelowMin /\ TxInOrder
  BY InitTypeOK DEF Init, TxInOrder
<1>2. TypeOK /\ BufferBelowMin /\ TxInOrder /\ [Next]_vars
        => (TypeOK /\ BufferBelowMin /\ TxInOrder)'
  BY NextTypeOK, NextTxInOrder
<1> QED BY <1>1, <1>2, PTL DEF Spec

-----------------------------------------------------------------------------
(***************************************************************************)
(* What the callbacks are told.                                            *)
(***************************************************************************)
Event == TxEvent \union BlockEvent

\* The block of one event, or none.
Shown(e) == IF e.name = "NEW_BLOCK" THEN << e.blk >> ELSE << >>

LEMMA ShownFacts ==
    /\ \A e \in Event : Shown(e) \in Seq(Block)
    /\ \A tx \in Tx : [name |-> "NEW_TRANSACTION", tx |-> tx] \in Event
    /\ \A tx \in Tx : Shown([name |-> "NEW_TRANSACTION", tx |-> tx]) = << >>
    /\ \A b \in Block : [name |-> "NEW_BLOCK", blk |-> b] \in Event
    /\ \A b \in Block : Shown([name |-> "NEW_BLOCK", blk |-> b]) = << b >>
<1>1. \A e \in Event : e.name = "NEW_BLOCK" => e.blk \in Block
  BY DEF Event, TxEvent, BlockEvent
<1>2. << >> \in Seq(Block) /\ \A b \in Block : << b >> \in Seq(Block)
  OBVIOUS
<1>3. \A e \in Event : Shown(e) \in Seq(Block)
  BY <1>1, <1>2, Zenon DEF Shown
<1>4. /\ \A tx \in Tx : [name |-> "NEW_TRANSACTION", tx |-> tx] \in Event
      /\ \A b \in Block : [name |-> "NEW_BLOCK", blk |-> b] \in Event
  BY DEF Event, TxEvent, BlockEvent
<1>5. /\ \A tx \in Tx : Shown([name |-> "NEW_TRANSACTION", tx |-> tx]) = << >>
      /\ \A b \in Block : Shown([name |-> "NEW_BLOCK", blk |-> b]) = << b >>
  BY DEF Shown
<1> QED BY <1>3, <1>4, <1>5

\* The blocks of a queue that gets one event more.
LEMMA BlocksOfAppend ==
    ASSUME NEW q \in Seq(Event), NEW e \in Event
    PROVE  BlocksOf(q) \in Seq(Block) /\ BlocksOf(Append(q, e)) = BlocksOf(q) \o Shown(e)
<1> DEFINE T == Seq(Block)
           s == [i \in 1..Len(q) |-> Shown(q[i])]
           l == Append(q, e)
<1>1. /\ Len(l) = Len(q) + 1 /\ l[Len(q) + 1] = e /\ \A i \in 1..Len(q) : l[i] = q[i]
      /\ Len(q) \in Nat
  OBVIOUS
<1>2. Shown(e) \in T /\ \A i \in 1..Len(q) : Shown(q[i]) \in T
  <2> HIDE DEF T
  <2>1. \A i \in 1..Len(q) : q[i] \in Event
    OBVIOUS
  <2>2. \A x \in Event : Shown(x) \in T
    BY ShownFacts DEF T
  <2> QED BY <2>1, <2>2
<1> HIDE DEF T
<1>3. s \in Seq(T) /\ Len(s) = Len(q)
  BY <1>1, <1>2
<1> HIDE DEF l
<1>4. [i \in 1..Len(l) |-> Shown(l[i])] = Append(s, Shown(e))
  BY <1>1, <1>2, <1>3
<1>5. BlocksOf(q) = FlattenSeq(s) /\ BlocksOf(l) = FlattenSeq([i \in 1..Len(l) |-> Shown(l[i])])
  BY DEF BlocksOf, Shown
<1> HIDE DEF s
<1>6. FlattenSeq(s) \in Seq(Block) /\ FlattenSeq(Append(s, Shown(e))) = FlattenSeq(s) \o Shown(e)
  BY <1>2, <1>3, FlattenType, FlattenAppend DEF T
<1> QED BY <1>4, <1>5, <1>6 DEF l

\* The blocks of a queue that loses its oldest event.
LEMMA BlocksOfTail ==
    ASSUME NEW q \in Seq(Event), q # << >>
    PROVE  /\ Head(q) \in Event /\ BlocksOf(Tail(q)) \in Seq(Block)
           /\ BlocksOf(q) = Shown(Head(q)) \o BlocksOf(Tail(q))
<1> DEFINE T == Seq(Block)
           s == [i \in 1..Len(Tail(q)) |-> Shown(Tail(q)[i])]
           h == Shown(Head(q))
           u == [i \in 1..Len(q) |-> Shown(q[i])]
<1>1. /\ Tail(q) \in Seq(Event) /\ Head(q) \in Event /\ Head(q) = q[1]
      /\ Len(q) \in Nat /\ Len(q) = Len(Tail(q)) + 1
      /\ \A i \in 1..Len(Tail(q)) : Tail(q)[i] = q[i + 1] /\ Tail(q)[i] \in Event
  OBVIOUS
<1>2. h \in T /\ \A i \in 1..Len(Tail(q)) : Shown(Tail(q)[i]) \in T
  <2> HIDE DEF T
  <2>1. \A x \in Event : Shown(x) \in T
    BY ShownFacts DEF T
  <2> QED BY <1>1, <2>1
<1> HIDE DEF T
<1>3. s \in Seq(T) /\ Len(s) = Len(Tail(q)) /\ << h >> \in Seq(T)
  BY <1>1, <1>2
<1>4. u = << h >> \o s
  <2>1. << h >> \o s \in Seq(T) /\ Len(<< h >> \o s) = Len(q)
    BY <1>1, <1>3
  <2>2. ASSUME NEW i \in 1..Len(q) PROVE (<< h >> \o s)[i] = Shown(q[i])
    <3>1. CASE i = 1
      BY <1>1, <1>3, <3>1
    <3>2. CASE i # 1
      <4>1. PICK j \in 1..Len(Tail(q)) : i = j + 1
        <5>1. i - 1 \in 1..Len(Tail(q)) /\ i = (i - 1) + 1
          BY <1>1, <3>2
        <5> QED BY <5>1
      <4>2. (<< h >> \o s)[j + 1] = s[j]
        BY <1>3
      <4>3. s[j] = Shown(q[j + 1])
        BY <1>1
      <4> QED BY <4>1, <4>2, <4>3
    <3> QED BY <3>1, <3>2
  <2> QED BY <2>1, <2>2
<1>5. BlocksOf(q) = FlattenSeq(u) /\ BlocksOf(Tail(q)) = FlattenSeq(s)
  BY DEF BlocksOf, Shown
<1> HIDE DEF s, u, h
<1>6. FlattenSeq(<< h >> \o s) = FlattenSeq(<< h >>) \o FlattenSeq(s)
  BY <1>2, <1>3, FlattenConcat DEF T
<1>7. FlattenSeq(<< h >>) = h /\ FlattenSeq(s) \in Seq(Block)
  <2>1. << >> \in Seq(Seq(Block)) /\ h \in Seq(Block)
    BY <1>2 DEF T
  <2>2. FlattenSeq(Append(<< >>, h)) = FlattenSeq(<< >>) \o h
    BY <2>1, FlattenAppend
  <2>3. Append(<< >>, h) = << h >>
    OBVIOUS
  <2>4. << >> \o h = h
    BY <2>1
  <2> QED BY <1>3, <2>2, <2>3, <2>4, FlattenEmpty, FlattenType DEF T
<1> QED BY <1>1, <1>4, <1>5, <1>6, <1>7 DEF h
\* An empty queue holds no block.
LEMMA BlocksOfNone == BlocksOf(<< >>) = << >>
<1>1. Len(<< >>) = 0
  OBVIOUS
<1>2. [i \in 1..0 |-> IF << >>[i].name = "NEW_BLOCK" THEN << << >>[i].blk >> ELSE << >>]
        = << >>
  OBVIOUS
<1> QED BY <1>1, <1>2, FlattenEmpty DEF BlocksOf

\* The blocks of a queue that gets the events of one requestTransaction.
LEMMA BlocksOfRequest ==
    ASSUME NEW q \in Seq(Event), NEW tx \in Tx, NEW made,
           made = << >> \/ \E b \in Block : made = << b >>
    PROVE  BlocksOf(q \o << [name |-> "NEW_TRANSACTION", tx |-> tx] >> \o BlockEvents(made))
             = BlocksOf(q) \o made
<1> DEFINE e == [name |-> "NEW_TRANSACTION", tx |-> tx]
<1>1. e \in Event /\ Shown(e) = << >>
  BY ShownFacts
<1> HIDE DEF e
<1>2. PICK p \in Seq(Event) : p = q \o << e >>
  <2>1. Append(q, e) = q \o << e >> /\ Append(q, e) \in Seq(Event)
    BY <1>1, AppendIsConcat, AppendFacts
  <2> QED BY <2>1
<1>3. BlocksOf(p) = BlocksOf(q) /\ BlocksOf(q) \in Seq(Block)
  <2>1. p = Append(q, e)
    BY <1>1, <1>2, AppendIsConcat
  <2>2. BlocksOf(q) \in Seq(Block) /\ BlocksOf(p) = BlocksOf(q) \o << >>
    BY <1>1, <2>1, BlocksOfAppend
  <2>3. \A x \in Seq(Block) : x \o << >> = x
    OBVIOUS
  <2> QED BY <2>2, <2>3
<1>4. CASE made = << >>
  <2>1. BlockEvents(made) = << >>
    BY <1>4 DEF BlockEvents
  <2>2. p \o << >> = p
    OBVIOUS
  <2>3. \A x \in Seq(Block) : x \o << >> = x
    OBVIOUS
  <2> QED BY <1>2, <1>3, <1>4, <2>1, <2>2, <2>3 DEF e
<1>5. ASSUME NEW b \in Block, made = << b >>
      PROVE  BlocksOf(p \o BlockEvents(made)) = BlocksOf(q) \o made
  <2> DEFINE f == [name |-> "NEW_BLOCK", blk |-> b]
  <2>1. f \in Event /\ Shown(f) = << b >>
    BY ShownFacts
  <2>2. BlockEvents(made) = << f >>
    <3>1. BlockEvents(<< b >>) = << f >>
      BY DEF BlockEvents
    <3> QED BY <1>5, <3>1
  <2> HIDE DEF f
  <2>3. p \o << f >> = Append(p, f)
    BY <2>1, AppendIsConcat
  <2>4. BlocksOf(Append(p, f)) = BlocksOf(p) \o << b >>
    BY <2>1, BlocksOfAppend
  <2> QED BY <1>3, <1>5, <2>2, <2>3, <2>4
<1> QED BY <1>2, <1>4, <1>5 DEF e

\* One step keeps what is announced and what is queued together.
LEMMA NextAnnouncedInOrder == TypeOK /\ AnnouncedInOrder /\ [Next]_vars => AnnouncedInOrder'
<1> SUFFICES ASSUME TypeOK, AnnouncedInOrder, [Next]_vars
             PROVE  created' = announced' \o BlocksOf(events')
  BY DEF AnnouncedInOrder
<1>1. /\ events \in Seq(Event) /\ announced \in Seq(Block) /\ created \in Seq(Block)
      /\ created = announced \o BlocksOf(events)
  BY DEF TypeOK, Event, AnnouncedInOrder
<1>2. BlocksOf(events) \in Seq(Block)
  <2>1. CASE events = << >>
    <3>1. BlocksOf(<< >>) = << >>
      BY BlocksOfNone
    <3>2. << >> \in Seq(Block)
      OBVIOUS
    <3> QED BY <2>1, <3>1, <3>2
  <2>2. CASE events # << >>
    <3>1. Head(events) \in Event
      BY <1>1, <2>2
    <3> QED BY <1>1, <3>1, BlocksOfAppend
  <2> QED BY <2>1, <2>2
<1>3. ASSUME UNCHANGED << events, announced, created >>
      PROVE  created' = announced' \o BlocksOf(events')
  BY <1>1, <1>3
<1>4. CASE Load \/ Gone
  <2>1. created' = << >> /\ announced' = << >> /\ events' = << >>
    BY <1>4 DEF Load, Gone
  <2>2. BlocksOf(<< >>) = << >>
    BY BlocksOfNone
  <2>3. << >> = << >> \o << >>
    OBVIOUS
  <2> QED BY <2>1, <2>2, <2>3
<1>5. ASSUME NEW tx \in Tx, NEW made, made = << >> \/ \E b \in Block : made = << b >>,
             announced' = announced, created' = created \o made,
             events' = events \o << [name |-> "NEW_TRANSACTION", tx |-> tx] >>
                              \o BlockEvents(made)
      PROVE  created' = announced' \o BlocksOf(events')
  <2>1. BlocksOf(events') = BlocksOf(events) \o made
    BY <1>1, <1>5, BlocksOfRequest
  <2>2. made \in Seq(Block)
    <3>1. << >> \in Seq(Block) /\ \A b \in Block : << b >> \in Seq(Block)
      OBVIOUS
    <3> QED BY <1>5, <3>1
  <2>3. \A x, y, z \in Seq(Block) : Cat(Cat(x, y), z) = Cat(x, Cat(y, z))
    BY ConcatAssociative DEF Cat
  <2>4. Cat(Cat(announced, BlocksOf(events)), made) = Cat(announced, Cat(BlocksOf(events), made))
    BY <1>1, <1>2, <2>2, <2>3
  <2> QED BY <1>1, <1>5, <2>1, <2>4 DEF Cat
<1>6. ASSUME NEW tx \in Tx, NEW t \in Time, RequestTransaction(tx, t)
      PROVE  created' = announced' \o BlocksOf(events')
  <2> DEFINE r == Requested(chain, txBuffer, tx, FALSE, t)
  <2>1. chain \in Seq(Block) /\ txBuffer \in Seq(Tx)
    BY DEF TypeOK
  <2>2. r.made = << >> \/ \E b \in Block : r.made = << b >>
    BY <2>1, RequestedMakes
  <2>3. /\ announced' = announced /\ created' = created \o r.made
        /\ events' = events \o << [name |-> "NEW_TRANSACTION", tx |-> tx] >>
                            \o BlockEvents(r.made)
    BY <1>6 DEF RequestTransaction
  <2> HIDE DEF r
  <2> QED BY <1>5, <2>2, <2>3
<1>7. ASSUME NEW t \in Time, Save(t)
      PROVE  created' = announced' \o BlocksOf(events')
  <2> DEFINE r == Flushed(chain, txBuffer, t)
  <2>1. chain \in Seq(Block) /\ txBuffer \in Seq(Tx)
    BY DEF TypeOK
  <2>2. r.made = << >> \/ \E b \in Block : r.made = << b >>
    BY <2>1, FlushedMakes
  <2>3. /\ announced' = announced /\ created' = created \o r.made
        /\ events' = IF txBuffer = << >> THEN events
                     ELSE events \o << [name |-> "NEW_TRANSACTION",
                                        tx |-> Head(txBuffer)] >>
                                 \o BlockEvents(r.made)
    BY <1>7 DEF Save
  <2>4. txBuffer = << >> => r.made = << >>
    BY DEF Flushed
  <2> HIDE DEF r
  <2>5. CASE txBuffer = << >>
    <3>0. \A x \in Seq(Block) : x \o << >> = x
      OBVIOUS
    <3>1. created' = created
      BY <1>1, <2>3, <2>4, <2>5, <3>0
    <3> QED BY <1>3, <2>3, <2>5, <3>1
  <2>6. CASE txBuffer # << >>
    <3>1. PICK tx \in Tx : tx = Head(txBuffer)
      BY <2>1, <2>6
    <3>2. events' = events \o << [name |-> "NEW_TRANSACTION", tx |-> tx] >>
                           \o BlockEvents(r.made)
      BY <2>3, <2>6, <3>1
    <3> QED BY <1>5, <2>2, <2>3, <3>2
  <2> QED BY <2>5, <2>6
<1>8. CASE Dispatch
  <2>1. /\ events # << >> /\ events' = Tail(events) /\ created' = created
        /\ announced' = IF Head(events).name = "NEW_BLOCK"
                        THEN Append(announced, Head(events).blk) ELSE announced
    BY <1>8 DEF Dispatch
  <2>2. PICK h \in Event : h = Head(events)
    BY <1>1, <2>1, BlocksOfTail
  <2>3. PICK rest \in Seq(Block) : rest = BlocksOf(Tail(events))
    BY <1>1, <2>1, BlocksOfTail
  <2>4. BlocksOf(events) = Shown(h) \o rest
    BY <1>1, <2>1, <2>2, <2>3, BlocksOfTail
  <2>5. CASE h.name = "NEW_BLOCK"
    <3>1. h.blk \in Block /\ Shown(h) = << h.blk >>
      BY <2>5 DEF Event, TxEvent, BlockEvent, Shown
    <3>2. PICK b \in Block : b = h.blk
      BY <3>1
    <3>3. announced \o (<< b >> \o rest) = Append(announced, b) \o rest
      <4>1. << b >> \in Seq(Block) /\ Append(announced, b) = announced \o << b >>
        BY <1>1, AppendIsConcat
      <4>2. (announced \o << b >>) \o rest = announced \o (<< b >> \o rest)
        BY <1>1, <4>1, ConcatAssociative
      <4> QED BY <4>1, <4>2
    <3> QED BY <1>1, <2>1, <2>2, <2>3, <2>4, <2>5, <3>1, <3>2, <3>3
  <2>6. CASE h.name # "NEW_BLOCK"
    <3>1. Shown(h) = << >> /\ << >> \o rest = rest
      BY <2>6 DEF Shown
    <3> QED BY <1>1, <2>1, <2>2, <2>3, <2>4, <2>6, <3>1
  <2> QED BY <2>5, <2>6
<1>9. CASE \/ \E t \in Time, s \in {<< >>} \union {<< tx >> : tx \in Tx} : ToolboxInit(t, s)
           \/ \E b \in Offered : PushBlock(b)
           \/ UNCHANGED vars
  BY <1>3, <1>9 DEF ToolboxInit, PushBlock, vars
<1>10. CASE VerifyBlock
  BY <1>3, <1>4, <1>10 DEF VerifyBlock
<1>11. CASE Stop \/ Crash
  BY <1>4, <1>11 DEF Stop, Crash
<1> QED BY <1>4, <1>6, <1>7, <1>8, <1>9, <1>10, <1>11 DEF Next

\* The callbacks are told of every created block exactly once, in the order in
\* which blocks are created, and nothing is lost between the queue and the
\* dispatcher thread: for every number of requests, blocks and runs, also when
\* save creates the last block (chainevent.cpp:107-122, blockchain.cpp:114-137).
THEOREM BlocksAnnouncedInOrder == Spec => []AnnouncedInOrder
<1>1. Init => AnnouncedInOrder
  <2> SUFFICES ASSUME Init PROVE AnnouncedInOrder
    OBVIOUS
  <2>1. BlocksOf(<< >>) = << >>
    BY BlocksOfNone
  <2>2. << >> = << >> \o << >>
    OBVIOUS
  <2> QED BY <2>1, <2>2 DEF Init, AnnouncedInOrder
<1>2. Init => TypeOK /\ BufferBelowMin /\ AnnouncedInOrder
  BY <1>1, InitTypeOK
<1>3. TypeOK /\ BufferBelowMin /\ AnnouncedInOrder /\ [Next]_vars
        => (TypeOK /\ BufferBelowMin /\ AnnouncedInOrder)'
  BY NextTypeOK, NextAnnouncedInOrder
<1> QED BY <1>2, <1>3, PTL DEF Spec

-----------------------------------------------------------------------------
(***************************************************************************)
(* Counting transactions.                                                  *)
(***************************************************************************)

\* What is mapped one to one has the same size.
LEMMA SameSize ==
    ASSUME NEW S, NEW T, IsFiniteSet(S), NEW f \in [S -> T],
           \A x, y \in S : f[x] = f[y] => x = y,
           \A z \in T : \E x \in S : f[x] = z
    PROVE  IsFiniteSet(T) /\ Cardinality(T) = Cardinality(S)
<1>1. f \in Injection(S, T)
  BY DEF Injection, IsInjective
<1>2. f \in Surjection(S, T)
  BY DEF Surjection
<1> QED BY <1>1, <1>2, FS_Surjection

\* What is in one of two sets, and never in both.
LEMMA SumOfSizes ==
    ASSUME NEW S, NEW T, IsFiniteSet(S), IsFiniteSet(T), \A x \in S : x \notin T
    PROVE  /\ IsFiniteSet(S \union T)
           /\ Cardinality(S \union T) = Cardinality(S) + Cardinality(T)
<1>1. S \intersect T = {}
  OBVIOUS
<1>2. Cardinality(S \intersect T) = 0
  BY <1>1, FS_EmptySet
<1>3. Cardinality(S) \in Nat /\ Cardinality(T) \in Nat
  BY FS_CardinalityType
<1>4. /\ IsFiniteSet(S \union T)
      /\ Cardinality(S \union T) = Cardinality(S) + Cardinality(T) - Cardinality(S \intersect T)
  BY FS_Union
<1> QED BY <1>2, <1>3, <1>4

\* Where transaction x stands in s; Count is the size of it.
At(s, x) == {i \in 1..Len(s) : s[i] = x}

LEMMA AtFacts ==
    ASSUME NEW s \in Seq(Tx), NEW x
    PROVE  IsFiniteSet(At(s, x)) /\ Count(s, x) = Cardinality(At(s, x)) /\ Count(s, x) \in Nat
<1>1. Len(s) \in Int /\ 1 \in Int
  OBVIOUS
<1>2. IsFiniteSet(1..Len(s))
  BY <1>1, FS_Interval
<1>3. At(s, x) \in SUBSET (1..Len(s))
  BY DEF At
<1>4. IsFiniteSet(At(s, x))
  BY <1>2, <1>3, FS_Subset
<1> QED BY <1>4, FS_CardinalityType DEF Count, At

\* What stands in two sequences, one after the other.
LEMMA CountConcat ==
    ASSUME NEW a \in Seq(Tx), NEW b \in Seq(Tx), NEW x
    PROVE  Count(a \o b, x) = Count(a, x) + Count(b, x)
<1>1. PICK n \in Nat, m \in Nat : n = Len(a) /\ m = Len(b)
  OBVIOUS
<1>2. PICK l \in Seq(Tx) : l = a \o b
  BY ConcatFacts
<1>3. /\ Len(l) = n + m
      /\ \A i \in 1..n : l[i] = a[i]
      /\ \A i \in 1..m : l[n + i] = b[i]
  BY <1>1, <1>2
<1> DEFINE B == At(b, x)
           S == {n + i : i \in B}
           f == [i \in B |-> n + i]
<1>4. IsFiniteSet(At(a, x)) /\ IsFiniteSet(B)
  BY AtFacts
<1>5. B \subseteq 1..m
  BY <1>1 DEF At
<1>6. IsFiniteSet(S) /\ Cardinality(S) = Cardinality(B)
  <2> HIDE DEF B
  <2>1. f \in [B -> S]
    OBVIOUS
  <2>2. \A i, j \in B : f[i] = f[j] => i = j
    BY <1>5
  <2>3. \A z \in S : \E i \in B : f[i] = z
    OBVIOUS
  <2> HIDE DEF S, f
  <2> QED BY <1>4, <2>1, <2>2, <2>3, SameSize
<1>7. At(l, x) = At(a, x) \union S
  <2>1. ASSUME NEW i \in 1..(n + m)
        PROVE  l[i] = x <=> i \in At(a, x) \union S
    <3>1. CASE i <= n
      <4>1. i \notin S
        BY <1>5, <3>1
      <4>2. i \in 1..n
        BY <3>1
      <4> QED BY <1>1, <1>3, <4>1, <4>2 DEF At
    <3>2. CASE ~(i <= n)
      <4>1. PICK j \in 1..m : i = n + j
        <5>1. i - n \in 1..m /\ i = n + (i - n)
          BY <3>2
        <5> QED BY <5>1
      <4>2. i \notin At(a, x)
        BY <1>1, <3>2 DEF At
      <4>3. l[i] = b[j] /\ (b[j] = x <=> j \in B)
        BY <1>1, <1>3, <4>1 DEF At
      <4>4. i \in S <=> j \in B
        <5> HIDE DEF B
        <5> QED BY <1>5, <4>1
      <4> QED BY <4>2, <4>3, <4>4
    <3> QED BY <3>1, <3>2
  <2>2. At(a, x) \union S \subseteq 1..(n + m)
    <3>1. At(a, x) \subseteq 1..n
      BY <1>1 DEF At
    <3>2. S \subseteq 1..(n + m)
      BY <1>5
    <3>3. \A i \in 1..n : i \in 1..(n + m)
      OBVIOUS
    <3> QED BY <3>1, <3>2, <3>3
  <2>3. At(l, x) = {i \in 1..(n + m) : l[i] = x}
    BY <1>3 DEF At
  <2> HIDE DEF S
  <2> QED BY <2>1, <2>2, <2>3
<1>8. \A i \in At(a, x) : i \notin S
  BY <1>1, <1>5 DEF At
<1>9. Cardinality(At(l, x)) = Cardinality(At(a, x)) + Cardinality(S)
  <2> HIDE DEF S
  <2> QED BY <1>4, <1>6, <1>7, <1>8, SumOfSizes
<1> QED BY <1>2, <1>6, <1>9, AtFacts

\* Where transaction x is recorded in c; Recorded is the size of it.
Places(c, x) ==
    {p \in UNION {{i} \X (1..Len(c[i].data)) : i \in 1..Len(c)} : c[p[1]].data[p[2]] = x}

LEMMA PlacesFacts ==
    ASSUME NEW c, NEW x
    PROVE  \A p : p \in Places(c, x) <=>
                \E i \in 1..Len(c) : \E j \in At(c[i].data, x) : p = << i, j >>
<1>1. ASSUME NEW p \in Places(c, x)
      PROVE  \E i \in 1..Len(c) : \E j \in At(c[i].data, x) : p = << i, j >>
  <2>1. PICK i \in 1..Len(c) : p \in {i} \X (1..Len(c[i].data))
    BY DEF Places
  <2>2. PICK j \in 1..Len(c[i].data) : p = << i, j >>
    BY <2>1
  <2>3. c[i].data[j] = x
    BY <2>2 DEF Places
  <2> QED BY <2>2, <2>3 DEF At
<1>2. ASSUME NEW i \in 1..Len(c), NEW j \in At(c[i].data, x)
      PROVE  << i, j >> \in Places(c, x)
  <2>1. j \in 1..Len(c[i].data) /\ c[i].data[j] = x
    BY DEF At
  <2>2. << i, j >> \in {i} \X (1..Len(c[i].data))
    BY <2>1
  <2> QED BY <2>1, <2>2 DEF Places
<1> QED BY <1>1, <1>2

\* What is recorded in a chain that gets a block.
LEMMA RecordedAppend ==
    ASSUME NEW c \in Seq(Block), NEW b \in Block, NEW x, IsFiniteSet(Places(c, x))
    PROVE  /\ IsFiniteSet(Places(Append(c, b), x))
           /\ Recorded(Append(c, b), x) = Recorded(c, x) + Count(b.data, x)
<1>1. PICK n \in Nat : n = Len(c)
  OBVIOUS
<1>2. PICK l \in Seq(Block) : l = Append(c, b)
  BY AppendFacts
<1>3. Len(l) = n + 1 /\ l[n + 1] = b /\ \A i \in 1..n : l[i] = c[i]
  BY <1>1, <1>2
<1>4. b.data \in Seq(Tx)
  BY DEF Block
<1> DEFINE B == At(b.data, x)
           S == {<< n + 1, j >> : j \in B}
           f == [j \in B |-> << n + 1, j >>]
<1>5. IsFiniteSet(B) /\ Count(b.data, x) = Cardinality(B)
  BY <1>4, AtFacts
<1>6. IsFiniteSet(S) /\ Cardinality(S) = Cardinality(B)
  <2> HIDE DEF B
  <2>1. f \in [B -> S]
    OBVIOUS
  <2>2. \A i, j \in B : f[i] = f[j] => i = j
    OBVIOUS
  <2>3. \A z \in S : \E i \in B : f[i] = z
    OBVIOUS
  <2> HIDE DEF S, f
  <2> QED BY <1>5, <2>1, <2>2, <2>3, SameSize
<1> HIDE DEF f
<1>7. ASSUME NEW p
      PROVE  p \in Places(l, x) <=> p \in Places(c, x) \/ p \in S
  <2>1. p \in Places(l, x) <=> \E i \in 1..(n + 1) : \E j \in At(l[i].data, x) : p = << i, j >>
    BY <1>3, PlacesFacts
  <2>2. p \in Places(c, x) <=> \E i \in 1..n : \E j \in At(c[i].data, x) : p = << i, j >>
    BY <1>1, PlacesFacts
  <2>3. \A i \in 1..n : At(l[i].data, x) = At(c[i].data, x)
    BY <1>3
  <2>4. At(l[n + 1].data, x) = B
    BY <1>3
  <2>5. \A i \in 1..(n + 1) : i \in 1..n \/ i = n + 1
    OBVIOUS
  <2>6. n + 1 \in 1..(n + 1) /\ \A i \in 1..n : i \in 1..(n + 1)
    OBVIOUS
  <2> HIDE DEF B
  <2> QED BY <2>1, <2>2, <2>3, <2>4, <2>5, <2>6, Zenon
<1>8. Places(l, x) = Places(c, x) \union S
  BY <1>7, Zenon
<1>9. \A p \in Places(c, x) : p \notin S
  <2> SUFFICES ASSUME NEW p \in Places(c, x), p \in S PROVE FALSE
    OBVIOUS
  <2>1. PICK i \in 1..n : \E j \in At(c[i].data, x) : p = << i, j >>
    BY <1>1, PlacesFacts
  <2>2. p[1] = i /\ i # n + 1
    BY <2>1
  <2>3. p[1] = n + 1
    OBVIOUS
  <2> QED BY <2>2, <2>3
<1>10. /\ IsFiniteSet(Places(l, x))
       /\ Cardinality(Places(l, x)) = Cardinality(Places(c, x)) + Cardinality(S)
  <2> HIDE DEF S
  <2> QED BY <1>6, <1>8, <1>9, SumOfSizes
<1>11. Recorded(l, x) = Cardinality(Places(l, x)) /\ Recorded(c, x) = Cardinality(Places(c, x))
  BY DEF Recorded, Places
<1> QED BY <1>2, <1>5, <1>6, <1>10, <1>11

\* The conservation of transactions, with the finiteness that counting needs.
ConservedInv ==
    /\ \A tx \in Tx : IsFiniteSet(Places(created, tx))
    /\ TxConserved

\* What requestTransaction makes of a buffer that is full with the new
\* transaction: nothing, or a block that holds what is not left.
Makes(made, left, full) ==
    \/ made = << >> /\ left = full
    \/ \E b \in Block : /\ made = << b >> /\ b.data \in Seq(Tx) /\ left \in Seq(Tx)
                        /\ b.data \o left = full

\* Transaction x is recorded and left as often as it was before.
Keeps(made, left, full, x) ==
    /\ IsFiniteSet(Places(created \o made, x))
    /\ Recorded(created \o made, x) + Count(left, x) = Recorded(created, x) + Count(full, x)

\* One call of requestTransaction records and keeps what it was given and what
\* was kept before.
LEMMA RequestConserves ==
    ASSUME TypeOK, ConservedInv, NEW full \in Seq(Tx), NEW made, NEW left,
           Makes(made, left, full)
    PROVE  \A x \in Tx : Keeps(made, left, full, x)
<1> SUFFICES ASSUME NEW x \in Tx PROVE Keeps(made, left, full, x)
  OBVIOUS
<1>1. created \in Seq(Block) /\ IsFiniteSet(Places(created, x))
  BY DEF TypeOK, ConservedInv
<1>2. CASE made = << >> /\ left = full
  <2>1. created \o << >> = created
    BY <1>1
  <2> QED BY <1>1, <1>2, <2>1 DEF Keeps
<1>3. ASSUME NEW b \in Block, made = << b >>, b.data \in Seq(Tx), left \in Seq(Tx),
             b.data \o left = full
      PROVE  Keeps(made, left, full, x)
  <2>1. created \o made = Append(created, b)
    BY <1>1, <1>3, AppendIsConcat
  <2>2. /\ IsFiniteSet(Places(Append(created, b), x))
        /\ Recorded(Append(created, b), x) = Recorded(created, x) + Count(b.data, x)
    BY <1>1, RecordedAppend
  <2>3. PICK d \in Seq(Tx) : d = b.data
    BY <1>3
  <2>4. Count(full, x) = Count(d, x) + Count(left, x)
    <3>1. Count(d \o left, x) = Count(d, x) + Count(left, x)
      BY <1>3, CountConcat
    <3> QED BY <1>3, <2>3, <3>1
  <2>5. Recorded(created, x) \in Nat /\ Count(d, x) \in Nat /\ Count(left, x) \in Nat
    <3>1. Recorded(created, x) = Cardinality(Places(created, x))
      BY DEF Recorded, Places
    <3> QED BY <1>1, <1>3, <3>1, AtFacts, FS_CardinalityType
  <2> QED BY <2>1, <2>2, <2>3, <2>4, <2>5 DEF Keeps
<1> QED BY <1>2, <1>3 DEF Makes

\* Nothing accepted, nothing recorded.
LEMMA NothingConserved ==
    ASSUME NEW x
    PROVE  /\ IsFiniteSet(Places(<< >>, x)) /\ Recorded(<< >>, x) = 0
           /\ Count(<< >>, x) = 0 /\ Count(<< >>, x) = Recorded(<< >>, x) + Count(<< >>, x)
<1>1. Len(<< >>) = 0
  OBVIOUS
<1>2. Places(<< >>, x) = {} /\ At(<< >>, x) = {}
  <2>1. 1..0 = {}
    OBVIOUS
  <2>2. At(<< >>, x) = {}
    BY <1>1, <2>1 DEF At
  <2>3. \A p : p \notin Places(<< >>, x)
    BY <1>1, <2>1, PlacesFacts
  <2> QED BY <2>2, <2>3
<1>3. Recorded(<< >>, x) = 0 /\ IsFiniteSet(Places(<< >>, x))
  BY <1>2, FS_EmptySet DEF Recorded, Places
<1>4. Count(<< >>, x) = 0
  BY <1>2, FS_EmptySet DEF Count, At
<1> QED BY <1>3, <1>4

\* A transaction more, at the end.
LEMMA CountAppend ==
    ASSUME NEW s \in Seq(Tx), NEW tx \in Tx, NEW x
    PROVE  /\ Count(Append(s, tx), x) = Count(s, x) + Count(<< tx >>, x)
           /\ Count(s, x) \in Nat /\ Count(<< tx >>, x) \in Nat
<1>1. PICK one \in Seq(Tx) : one = << tx >>
  <2>1. << tx >> \in Seq(Tx)
    OBVIOUS
  <2> QED BY <2>1, Zenon
<1>2. Append(s, tx) = s \o one
  BY <1>1, AppendIsConcat
<1>3. Count(s \o one, x) = Count(s, x) + Count(one, x)
  BY CountConcat
<1>4. Count(s, x) \in Nat /\ Count(one, x) \in Nat
  BY AtFacts
<1> QED BY <1>1, <1>2, <1>3, <1>4

\* The oldest transaction at the end.
LEMMA CountRotated ==
    ASSUME NEW s \in Seq(Tx), s # << >>, NEW x
    PROVE  Count(Append(Tail(s), Head(s)), x) = Count(s, x)
<1>1. PICK h \in Tx, r \in Seq(Tx) : h = Head(s) /\ r = Tail(s)
  BY TailFacts
<1>2. PICK one \in Seq(Tx) : one = << h >>
  <2>1. << h >> \in Seq(Tx)
    OBVIOUS
  <2> QED BY <2>1, Zenon
<1>3. s = one \o r
  BY <1>1, <1>2
<1>4. Count(one \o r, x) = Count(one, x) + Count(r, x)
  BY CountConcat
<1>5. /\ Count(Append(r, h), x) = Count(r, x) + Count(<< h >>, x)
      /\ Count(r, x) \in Nat /\ Count(<< h >>, x) \in Nat
  BY CountAppend
<1>6. Count(Append(Tail(s), Head(s)), x) = Count(Append(r, h), x)
  BY <1>1, Zenon
<1>7. /\ Count(Append(r, h), x) = Count(r, x) + Count(one, x)
      /\ Count(r, x) \in Nat /\ Count(one, x) \in Nat
  BY <1>2, <1>5, Zenon
<1>8. Count(s, x) = Count(one, x) + Count(r, x)
  BY <1>3, <1>4, Zenon
<1>9. Count(Append(r, h), x) = Count(s, x)
  BY <1>7, <1>8
<1> QED BY <1>6, <1>9, Zenon

\* One step keeps every transaction.
LEMMA NextConserves == TypeOK /\ ConservedInv /\ [Next]_vars => ConservedInv'
<1> SUFFICES ASSUME TypeOK, ConservedInv, [Next]_vars
             PROVE  ConservedInv'
  OBVIOUS
<1>1. ASSUME UNCHANGED << accepted, created, txBuffer >>
      PROVE  ConservedInv'
  BY <1>1 DEF ConservedInv, TxConserved
<1>2. ASSUME accepted' = << >>, created' = << >>, txBuffer' = << >>
      PROVE  ConservedInv'
  BY <1>2, NothingConserved DEF ConservedInv, TxConserved
<1>3. ASSUME NEW tx \in Tx, NEW t \in Time, RequestTransaction(tx, t)
      PROVE  ConservedInv'
  <2> DEFINE r == Requested(chain, txBuffer, tx, FALSE, t)
  <2>1. /\ txBuffer' = r.buf
        /\ accepted' = Append(accepted, tx) /\ created' = created \o r.made
    BY <1>3 DEF RequestTransaction
  <2>2. chain \in Seq(Block) /\ txBuffer \in Seq(Tx) /\ accepted \in Seq(Tx)
    BY DEF TypeOK
  <2>3. Makes(r.made, r.buf, Append(txBuffer, tx))
    BY <2>2, RequestedRecords DEF Makes
  <2> HIDE DEF r
  <2>4. PICK full \in Seq(Tx) : full = Append(txBuffer, tx)
    <3>1. Append(txBuffer, tx) \in Seq(Tx)
      BY <2>2
    <3> QED BY <3>1, Zenon
  <2>5. ASSUME NEW x \in Tx
        PROVE  /\ IsFiniteSet(Places(created', x))
               /\ Count(accepted', x) = Recorded(created', x) + Count(txBuffer', x)
    <3>1. /\ IsFiniteSet(Places(created', x))
          /\ Recorded(created', x) + Count(txBuffer', x)
               = Recorded(created, x) + Count(Append(txBuffer, tx), x)
      <4>1. Keeps(r.made, r.buf, full, x)
        BY <2>3, <2>4, RequestConserves
      <4> QED BY <2>1, <2>4, <4>1 DEF Keeps
    <3>2. Count(accepted', x) = Count(accepted, x) + Count(<< tx >>, x)
      BY <2>1, <2>2, CountAppend
    <3>3. /\ Count(Append(txBuffer, tx), x) = Count(txBuffer, x) + Count(<< tx >>, x)
          /\ Count(txBuffer, x) \in Nat /\ Count(<< tx >>, x) \in Nat
      BY <2>2, CountAppend
    <3>4. Count(accepted, x) = Recorded(created, x) + Count(txBuffer, x)
      BY DEF ConservedInv, TxConserved
    <3>5. Recorded(created, x) \in Nat
      BY FS_CardinalityType DEF ConservedInv, Recorded, Places
    <3> QED BY <3>1, <3>2, <3>3, <3>4, <3>5
  <2> QED BY <2>5 DEF ConservedInv, TxConserved
<1>4. ASSUME NEW t \in Time, Save(t)
      PROVE  ConservedInv'
  <2>1. chain \in Seq(Block) /\ txBuffer \in Seq(Tx) /\ created \in Seq(Block)
    BY DEF TypeOK
  <2>2. CASE txBuffer = << >>
    <3>1. /\ txBuffer' = txBuffer /\ accepted' = accepted /\ created' = created \o << >>
      BY <1>4, <2>2 DEF Save, Flushed
    <3>2. created \o << >> = created
      BY <2>1
    <3> QED BY <1>1, <3>1, <3>2
  <2>3. CASE txBuffer # << >>
    <3>1. PICK h \in Tx, rest \in Seq(Tx) : h = Head(txBuffer) /\ rest = Tail(txBuffer)
      BY <2>1, <2>3, TailFacts
    <3> DEFINE r == Requested(chain, rest, h, TRUE, t)
    <3>2. txBuffer' = r.buf /\ accepted' = accepted /\ created' = created \o r.made
      BY <1>4, <2>3, <3>1 DEF Save, Flushed
    <3>3. Makes(r.made, r.buf, Append(rest, h))
      BY <2>1, <3>1, RequestedRecords DEF Makes
    <3> HIDE DEF r
    <3>4. PICK full \in Seq(Tx) : full = Append(rest, h)
      <4>1. Append(rest, h) \in Seq(Tx)
        BY <3>1
      <4> QED BY <4>1, Zenon
    <3>5. ASSUME NEW x \in Tx
          PROVE  /\ IsFiniteSet(Places(created', x))
                 /\ Count(accepted', x) = Recorded(created', x) + Count(txBuffer', x)
      <4>1. /\ IsFiniteSet(Places(created', x))
            /\ Recorded(created', x) + Count(txBuffer', x)
                 = Recorded(created, x) + Count(Append(rest, h), x)
        <5>1. Keeps(r.made, r.buf, full, x)
          BY <3>3, <3>4, RequestConserves
        <5> QED BY <3>2, <3>4, <5>1 DEF Keeps
      <4>2. Count(Append(rest, h), x) = Count(txBuffer, x)
        BY <2>1, <2>3, <3>1, CountRotated
      <4>3. Count(accepted, x) = Recorded(created, x) + Count(txBuffer, x)
        BY DEF ConservedInv, TxConserved
      <4> QED BY <3>2, <4>1, <4>2, <4>3
    <3> QED BY <3>5 DEF ConservedInv, TxConserved
  <2> QED BY <2>2, <2>3
<1>5. CASE Load \/ Gone
  BY <1>2, <1>5 DEF Load, Gone
<1>6. CASE \/ \E t \in Time, s \in {<< >>} \union {<< tx >> : tx \in Tx} : ToolboxInit(t, s)
           \/ \E b \in Offered : PushBlock(b)
           \/ Dispatch \/ UNCHANGED vars
  BY <1>1, <1>6 DEF ToolboxInit, PushBlock, Dispatch, vars
<1>7. CASE VerifyBlock
  BY <1>1, <1>5, <1>7 DEF VerifyBlock
<1>8. CASE Stop \/ Crash
  BY <1>5, <1>8 DEF Stop, Crash
<1> QED BY <1>3, <1>4, <1>5, <1>6, <1>7, <1>8 DEF Next

\* No accepted transaction is dropped or recorded twice, by the drain loop that
\* stops half way or by the re-request in save, for every MIN_TX_PER_BLOCK and
\* every number of requests: it is in one block of this run or in the buffer
\* (blockchain.cpp:121-126, 155-169).
THEOREM TransactionsConserved == Spec => []TxConserved
<1>1. Init => TypeOK /\ BufferBelowMin /\ ConservedInv
  BY InitTypeOK, NothingConserved DEF Init, ConservedInv, TxConserved
<1>2. TypeOK /\ BufferBelowMin /\ ConservedInv /\ [Next]_vars
        => (TypeOK /\ BufferBelowMin /\ ConservedInv)'
  BY NextTypeOK, NextConserves
<1>3. ConservedInv => TxConserved
  BY DEF ConservedInv
<1> QED BY <1>1, <1>2, <1>3, PTL DEF Spec
=============================================================================
