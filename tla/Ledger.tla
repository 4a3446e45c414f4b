------------------------------- MODULE Ledger -------------------------------
(***************************************************************************)
(* One process and its Blockchain object: the chain, the transaction       *)
(* buffer, the event queue and the chain file, over several runs of the    *)
(* process.  Three threads use the object without a lock:                  *)
(*   - the network thread accepts transactions (requestTransaction) and    *)
(*     blocks (operator<<), one call at a time;                            *)
(*   - the dispatcher thread hands queued events to the callbacks;         *)
(*   - the main thread loads the file, waits, saves and stops.             *)
(* addBlock is two steps, because it pushes a block before verifying the   *)
(* chain and the other two threads can look at the chain in between.       *)
(***************************************************************************)
EXTENDS Chain, SequencesExt, FiniteSets

CONSTANTS
    Valid,        \* the transactions whose isValid() is TRUE
    Offered,      \* blocks a peer may send
    StartFiles,   \* what the chain file may hold at first (NoFile: no file)
    NoFile,
    MaxRequests,  \* bound: transactions accepted in one run of the process
    MaxRuns       \* bound: runs of the process

ASSUME LedgerAssumption ==
    /\ Valid \subseteq Tx
    /\ Offered \subseteq Block
    /\ NoFile \notin Seq(Block)
    /\ StartFiles \subseteq Seq(Block) \union {NoFile}

VARIABLES
    main,      \* the main thread: "off", "waiting" for 'q', or has "saved"
    chain,     \* Blockchain::_chain
    txBuffer,  \* Blockchain::_txBuffer, oldest first
    events,    \* ChainEventManager::_eventBuffer, oldest first
    adding,    \* addBlock has pushed a block and not verified yet
    file,      \* the chain file
    accepted,  \* history of this run: transactions accepted, in order
    created,   \* history of this run: blocks created, in order
    announced, \* history of this run: blocks handed to the callbacks
    runs       \* number of times the process was started

vars == << main, chain, txBuffer, events, adding, file,
           accepted, created, announced, runs >>

TxEvent == [name : {"NEW_TRANSACTION"}, tx : Tx]
BlockEvent == [name : {"NEW_BLOCK"}, blk : Block]

\* Faulty variant of BlockEvents: the event has the other one's name.
BlockEventsMisnamed(s) ==
    [i \in 1..Len(s) |-> [name |-> "NEW_TRANSACTION", blk |-> s[i]]]

\* The NEW_BLOCK events for the blocks of s.
BlockEvents(s) ==
    [i \in 1..Len(s) |-> [name |-> "NEW_BLOCK", blk |-> s[i]]]

Up == main # "off"

-----------------------------------------------------------------------------
Init ==
    /\ main = "off" /\ adding = FALSE /\ runs = 0
    /\ chain = << >> /\ txBuffer = << >> /\ events = << >>
    /\ accepted = << >> /\ created = << >> /\ announced = << >>
    /\ file \in StartFiles

\* Toolbox::_initBlockchain: a genesis block, one optional transaction that
\* is forced into a block (valid or not), then save.
ToolboxInit(t, s) ==
    LET genesis == << NewBlock(<< >>, t, << >>) >>
    IN  /\ main = "off" /\ file = NoFile
        /\ Len(s) <= 1
        /\ file' = IF s = << >> THEN genesis
                   ELSE Requested(genesis, << >>, s[1], TRUE, t).chain
        /\ UNCHANGED << main, chain, txBuffer, events, adding,
                        accepted, created, announced, runs >>

\* MasterNode::exec and Wallet::exec up to startNetwork.  With no file, or
\* one that does not verify, the process ends before it did anything.
Load ==
    /\ main = "off" /\ file # NoFile
    /\ Verify(Reloaded(file))
    /\ runs < MaxRuns
    /\ main' = "waiting" /\ runs' = runs + 1 /\ adding' = FALSE
    /\ chain' = Reloaded(file)
    /\ txBuffer' = << >> /\ events' = << >>
    /\ accepted' = << >> /\ created' = << >> /\ announced' = << >>
    /\ UNCHANGED file

\* A NEW_TRANSACTION message; an invalid transaction changes nothing.
RequestTransaction(tx, t) ==
    LET r == Requested(chain, txBuffer, tx, FALSE, t)
    IN  /\ Up /\ ~adding
        /\ tx \in Valid
        /\ Len(accepted) < MaxRequests
        /\ chain' = r.chain /\ txBuffer' = r.buf
        /\ events' = events \o << [name |-> "NEW_TRANSACTION", tx |-> tx] >>
                            \o BlockEvents(r.made)
        /\ accepted' = Append(accepted, tx)
        /\ created' = created \o r.made
        /\ UNCHANGED << main, adding, file, announced, runs >>

\* A NEW_BLOCK message, addBlock up to push_back.
PushBlock(b) ==
    /\ Up /\ ~adding
    /\ ~Known(chain, b)
    /\ chain' = Append(chain, b)
    /\ adding' = TRUE
    /\ UNCHANGED << main, txBuffer, events, file,
                    accepted, created, announced, runs >>

\* What is left when the process is gone: the file.
Gone ==
    /\ main' = "off" /\ adding' = FALSE
    /\ chain' = << >> /\ txBuffer' = << >> /\ events' = << >>
    /\ accepted' = << >> /\ created' = << >> /\ announced' = << >>
    /\ UNCHANGED << file, runs >>

\* Faulty variant of VerifyBlock: verify's answer is not looked at.
VerifyBlockIgnored ==
    /\ adding
    /\ adding' = FALSE
    /\ UNCHANGED << main, chain, txBuffer, events, file,
                    accepted, created, announced, runs >>

\* addBlock's verify.  It never returns FALSE: on a chain that is not
\* linked it throws, nothing catches that, and the process is terminated.
VerifyBlock ==
    /\ adding
    /\ \/ /\ Verify(chain)
          /\ adding' = FALSE
          /\ UNCHANGED << main, chain, txBuffer, events, file,
                          accepted, created, announced, runs >>
       \/ ~Verify(chain) /\ Gone

\* Faulty variants of Dispatch: the newest event is handled and the oldest
\* removed; a single queued event is left for later.
DispatchNewest ==
    /\ Up /\ events # << >>
    /\ events' = Tail(events)
    /\ announced' = IF Last(events).name = "NEW_BLOCK"
                    THEN Append(announced, Last(events).blk) ELSE announced
    /\ UNCHANGED << main, chain, txBuffer, adding, file,
                    accepted, created, runs >>
DispatchButLast ==
    /\ Up /\ Len(events) > 1
    /\ events' = Tail(events)
    /\ announced' = IF Head(events).name = "NEW_BLOCK"
                    THEN Append(announced, Head(events).blk) ELSE announced
    /\ UNCHANGED << main, chain, txBuffer, adding, file,
                    accepted, created, runs >>

\* One turn of _dispatchImpl: the oldest event goes to every callback and
\* then leaves the queue.
Dispatch ==
    /\ Up /\ events # << >>
    /\ events' = Tail(events)
    /\ announced' = IF Head(events).name = "NEW_BLOCK"
                    THEN Append(announced, Head(events).blk) ELSE announced
    /\ UNCHANGED << main, chain, txBuffer, adding, file,
                    accepted, created, runs >>

\* The main thread read 'q': Blockchain::save.  The network thread is still
\* running and may be inside addBlock.
Save(t) ==
    LET r == Flushed(chain, txBuffer, t)
    IN  /\ main = "waiting" /\ chain # << >>
        /\ main' = "saved"
        /\ chain' = r.chain /\ txBuffer' = r.buf
        /\ events' = IF txBuffer = << >> THEN events
                     ELSE events \o << [name |-> "NEW_TRANSACTION",
                                        tx |-> Head(txBuffer)] >>
                                 \o BlockEvents(r.made)
        /\ created' = created \o r.made
        /\ file' = r.chain
        /\ UNCHANGED << adding, accepted, announced, runs >>

\* The end of exec: ~P2PServer joins the network thread, ~Blockchain stops
\* the dispatcher, whatever is queued.
Stop == main = "saved" /\ ~adding /\ Gone

\* The process is killed, or save threw because the chain is empty.
Crash == Up /\ Gone

Next ==
    \/ \E t \in Time, s \in {<< >>} \union {<< tx >> : tx \in Tx} :
            ToolboxInit(t, s)
    \/ Load
    \/ \E tx \in Tx, t \in Time : RequestTransaction(tx, t)
    \/ \E b \in Offered : PushBlock(b)
    \/ VerifyBlock
    \/ Dispatch
    \/ \E t \in Time : Save(t)
    \/ Stop
    \/ Crash

\* The dispatcher thread and the network thread, once in addBlock, are never
\* held up: they take no lock.  Nothing makes a user quit or a peer send.
Fairness == WF_vars(Dispatch) /\ WF_vars(VerifyBlock)

Spec == Init /\ [][Next]_vars /\ Fairness

-----------------------------------------------------------------------------
TypeOK ==
    /\ main \in {"off", "waiting", "saved"}
    /\ chain \in Seq(Block)
    /\ txBuffer \in Seq(Tx)
    /\ events \in Seq(TxEvent \union BlockEvent)
    /\ adding \in BOOLEAN
    /\ file \in Seq(Block) \union {NoFile}
    /\ accepted \in Seq(Tx)
    /\ created \in Seq(Block)
    /\ announced \in Seq(Block)
    /\ runs \in Nat

\* How often transaction tx occurs in s.
Count(s, tx) == Cardinality({i \in 1..Len(s) : s[i] = tx})

\* How often transaction tx is recorded in the blocks of c.
Recorded(c, tx) ==
    Cardinality({p \in UNION {{i} \X (1..Len(c[i].data)) : i \in 1..Len(c)} :
                    c[p[1]].data[p[2]] = tx})

\* While a process runs, each transaction it accepted is in exactly one
\* place: in a block this run created or in the buffer.  Neither the drain
\* loop that stops half way nor the re-request in save() may drop or repeat
\* one (blockchain.cpp:121-126, 155-169).
TxConserved ==
    \A tx \in Tx : Count(accepted, tx) = Recorded(created, tx) + Count(txBuffer, tx)

\* Until save() moves the oldest buffered transaction to the end, blocks
\* record transactions in the order in which they were accepted: a block's
\* data, read block after block, then the buffer, is the accepted sequence.
Data(c) == FlattenSeq([i \in 1..Len(c) |-> c[i].data])
TxInOrder == main = "waiting" => accepted = Data(created) \o txBuffer

\* Between calls the buffer is shorter than MIN_TX_PER_BLOCK, so the test
\* "size() == MIN_TX_PER_BLOCK" cannot be jumped over (blockchain.cpp:157).
BufferBelowMin == Len(txBuffer) < MinTx

\* The chain is linked whenever no addBlock is under way, even though
\* createBlock extends it without verifying and addBlock verifies only
\* after pushing (blockchain.cpp:34-79).
ChainLinked == Up /\ ~adding => Linked(chain)

\* A save that does not overlap an addBlock writes a file the next run can
\* load (blockchain.cpp:114-137, 201-216).
SavedFileLoads == [][file' # file /\ ~adding => Verify(Reloaded(file'))]_vars

\* A save never loses or changes a block an earlier save has written.
FileOnlyGrows ==
    [][file # NoFile => IsPrefix(file, file')]_vars

\* The blocks of the NEW_BLOCK events of evts.
BlocksOf(evts) ==
    FlattenSeq([i \in 1..Len(evts) |->
                   IF evts[i].name = "NEW_BLOCK" THEN << evts[i].blk >> ELSE << >>])

\* Callbacks see every created block exactly once and in order of creation,
\* also across transactions' events: what was announced, followed by what is
\* queued, is what was created (chainevent.cpp:107-122).
AnnouncedInOrder == created = announced \o BlocksOf(events)

\* A created block is announced, unless the process ends first.
EveryBlockAnnounced ==
    \A n \in 1..MaxRequests :
        (Len(created) >= n) ~> (Len(announced) >= n \/ ~Up)

\* The save at the end of a run leaves no accepted transaction behind.
SaveKeepsEveryTx ==
    [][main = "waiting" /\ main' = "saved" => txBuffer' = << >>]_vars
=============================================================================
