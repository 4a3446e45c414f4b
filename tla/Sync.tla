-------------------------------- MODULE Sync --------------------------------
(***************************************************************************)
(* Replication of the chain between masternodes and wallets: what          *)
(* src/masternode/application.cpp and src/wallet/application.cpp do with   *)
(* the messages NEW_TRANSACTION, NEW_BLOCK, ACQUITED, SYNCHRONIZE and      *)
(* REQUEST_BLOCK, over the tick queue of src/hgo_protocol/p2p_server.cpp   *)
(* and the TCP streams of src/hgo_protocol/network_manager.cpp.            *)
(*                                                                         *)
(* Each process has a network thread (Receive), a tick thread (Tick), a    *)
(* dispatcher thread (Dispatch) and a main thread (Load, Submit, Save,     *)
(* Stop).  The handshake that follows a connect is one step (Greet) and    *)
(* may never happen.  addBlock is one step: module Ledger splits it.       *)
(***************************************************************************)
EXTENDS Chain, SequencesExt, FiniteSets

CONSTANTS
    Node,       \* processes of the network, each with a chain file
    Masters,    \* those started as masternodes; the others are wallets
    Dials,      \* pairs <<c, s>>: c may connect to s (--peer or a peer list)
    StartFile,  \* what the chain file of each node holds at first
    Everyone,   \* the null peer of pushTickMessage: broadcast
    MaxRead,    \* bound: messages that one recv may return together
    MaxSends,   \* bound: send commands
    MaxBlocks,  \* bound: blocks on a masternode's chain
    MaxOutbox,  \* bound: queued messages when a transaction is queued
    MaxChan,    \* bound: unread messages on a stream when one is written
    MaxDials,   \* bound: connections
    MaxRuns     \* bound: runs of each process

ASSUME SyncAssumption ==
    /\ Masters \subseteq Node
    /\ Dials \subseteq {d \in Node \X Node : d[1] # d[2]}
    /\ StartFile \in [Node -> Seq(Block)]
    /\ Everyone \notin Node
    /\ MaxRead \in Nat \ {0}

VARIABLES
    proc,    \* per node: "off", "up", or "saved" (has written its file)
    chain,   \* per node: Blockchain::_chain
    buffer,  \* per node: Blockchain::_txBuffer, oldest first
    events,  \* per node: blocks of the queued NEW_BLOCK events, oldest first
    outbox,  \* per node: P2PServer::_buffer, oldest first
    file,    \* per node: the chain file
    link,    \* open connections <<c, s>>, c the side that connected
    greeted, \* those whose handshake is over
    chan,    \* chan[p][q]: what p has written to q and q has not read
    lost,     \* history: a masternode ended with blocks its file lacks
    swallowed, \* history: a recv returned more than one message
    sends, dials, runs   \* counters for the bounds

local == << proc, chain, buffer, events, outbox, file >>
net == << link, greeted, chan >>
counters == << sends, dials, runs >>
vars == << proc, chain, buffer, events, outbox, file,
           link, greeted, chan, lost, swallowed, sends, dials, runs >>

Message ==
    [type : {"ACQUITED"}]
    \union [type : {"SYNCHRONIZE", "REQUEST_BLOCK"}, id : Nat]
    \union [type : {"NEW_BLOCK"}, blk : Block]
    \union [type : {"NEW_TRANSACTION"}, tx : Tx]

Queued == [to : Node \union {Everyone}, msg : Message]

Up(n) == proc[n] # "off"
Open(p, q) == << p, q >> \in link \/ << q, p >> \in link

\* n's entry for p has p's listening port: n dialled it, or has been told.
Identified(n, p) == << n, p >> \in link \/ << p, n >> \in greeted

\* NEW_BLOCK messages to p for the blocks of s.
BlockMessages(p, s) ==
    [i \in 1..Len(s) |->
        [to |-> p, msg |-> [type |-> "NEW_BLOCK", blk |-> s[i]]]]

-----------------------------------------------------------------------------
Init ==
    /\ proc = [n \in Node |-> "off"]
    /\ chain = [n \in Node |-> << >>]
    /\ buffer = [n \in Node |-> << >>]
    /\ events = [n \in Node |-> << >>]
    /\ outbox = [n \in Node |-> << >>]
    /\ file = StartFile
    /\ link = {} /\ greeted = {}
    /\ chan = [p \in Node |-> [q \in Node |-> << >>]]
    /\ lost = FALSE /\ swallowed = FALSE
    /\ sends = 0 /\ dials = 0 /\ runs = [n \in Node |-> 0]

\* exec up to startNetwork.
Load(n) ==
    /\ proc[n] = "off"
    /\ runs[n] < MaxRuns
    /\ Verify(Reloaded(file[n]))
    /\ proc' = [proc EXCEPT ![n] = "up"]
    /\ chain' = [chain EXCEPT ![n] = Reloaded(file[n])]
    /\ runs' = [runs EXCEPT ![n] = @ + 1]
    /\ UNCHANGED << buffer, events, outbox, file, net, lost, swallowed, sends, dials >>

\* The process of n is gone; its peers see the connection closed and drop
\* the peer, with whatever they had not read from it.
Gone(n) ==
    /\ proc' = [proc EXCEPT ![n] = "off"]
    /\ chain' = [chain EXCEPT ![n] = << >>]
    /\ buffer' = [buffer EXCEPT ![n] = << >>]
    /\ events' = [events EXCEPT ![n] = << >>]
    /\ outbox' = [outbox EXCEPT ![n] = << >>]
    /\ link' = {d \in link : n \notin {d[1], d[2]}}
    /\ greeted' = {d \in greeted : n \notin {d[1], d[2]}}
    /\ chan' = [p \in Node |-> [q \in Node |->
                    IF n \in {p, q} THEN << >> ELSE chan[p][q]]]
    /\ lost' = (lost \/ (n \in Masters /\ chain[n] # file[n]))
    /\ UNCHANGED << file, swallowed, counters >>

-----------------------------------------------------------------------------
(***************************************************************************)
(* Connections.                                                            *)
(***************************************************************************)

\* connectToPeer: refused when the two are connected already.
Connect(c, s) ==
    /\ Up(c) /\ Up(s)
    /\ ~Open(c, s)
    /\ dials < MaxDials
    /\ dials' = dials + 1
    /\ link' = link \union {<< c, s >>}
    /\ UNCHANGED << local, greeted, chan, lost, swallowed, sends, runs >>

\* The handshake ends: s knows c's listening port, c sends ACQUITED.
Greet(c, s) ==
    /\ << c, s >> \in link \ greeted
    /\ greeted' = greeted \union {<< c, s >>}
    /\ chan' = [chan EXCEPT ![c][s] = Append(@, [type |-> "ACQUITED"])]
    /\ UNCHANGED << local, link, lost, swallowed, counters >>

\* Faulty variant of Cut: the closed connection stays marked as greeted.
CutLinkOnly(c, s) ==
    /\ << c, s >> \in link
    /\ link' = link \ {<< c, s >>}
    /\ chan' = [chan EXCEPT ![c][s] = << >>, ![s][c] = << >>]
    /\ UNCHANGED << local, greeted, lost, swallowed, counters >>

\* The connection breaks; there is no reconnect.
Cut(c, s) ==
    /\ << c, s >> \in link
    /\ link' = link \ {<< c, s >>}
    /\ greeted' = greeted \ {<< c, s >>}
    /\ chan' = [chan EXCEPT ![c][s] = << >>, ![s][c] = << >>]
    /\ UNCHANGED << local, lost, swallowed, counters >>

-----------------------------------------------------------------------------
(***************************************************************************)
(* The tick thread and the dispatcher thread.                              *)
(***************************************************************************)

\* One turn of _tick: the oldest message is written to every connection, or
\* to the peer if it is found under its listening port, or dropped.
Tick(n) ==
    /\ Up(n) /\ outbox[n] # << >>
    /\ outbox' = [outbox EXCEPT ![n] = Tail(@)]
    /\ LET to == Head(outbox[n]).to
           msg == Head(outbox[n]).msg
       IN  \/ /\ to = Everyone
              /\ \A q \in Node : Len(chan[n][q]) < MaxChan
              /\ chan' = [chan EXCEPT ![n] = [q \in Node |->
                            IF Open(n, q) THEN Append(@[q], msg) ELSE @[q]]]
           \/ /\ to # Everyone /\ Open(n, to) /\ Len(chan[n][to]) < MaxChan
              /\ chan' = [chan EXCEPT ![n][to] = Append(@, msg)]
           \/ /\ to # Everyone /\ ~Identified(n, to)
              /\ UNCHANGED chan
    /\ UNCHANGED << proc, chain, buffer, events, file, link, greeted,
                    lost, swallowed, counters >>

\* One turn of _dispatchImpl with a NEW_BLOCK event: _handleChainEvent
\* queues the block for everyone.
Dispatch(n) ==
    /\ Up(n) /\ events[n] # << >>
    /\ events' = [events EXCEPT ![n] = Tail(@)]
    /\ outbox' = [outbox EXCEPT ![n] =
                    @ \o BlockMessages(Everyone, << Head(events[n]) >>)]
    /\ UNCHANGED << proc, chain, buffer, file, net, lost, swallowed, counters >>

-----------------------------------------------------------------------------
(***************************************************************************)
(* Transactions.                                                           *)
(***************************************************************************)

\* Results of getRandomMasterNode: a peer known to be a masternode, or none.
\* isMasterNode is read uninitialised until the handshake is over, so a peer
\* that has not been greeted may count as one or not.
RandomMaster(n) ==
    LET known == {m \in Masters : << n, m >> \in greeted \/ << m, n >> \in greeted}
        guess == {p \in Node : Open(n, p) /\ {<< n, p >>, << p, n >>} \cap greeted = {}}
    IN  known \union guess \union (IF known = {} THEN {Everyone} ELSE {})

\* The send command of a wallet: a signed transaction is queued.
Submit(w, tx) ==
    /\ proc[w] = "up" /\ w \notin Masters
    /\ sends < MaxSends /\ Len(outbox[w]) < MaxOutbox
    /\ sends' = sends + 1
    /\ \E to \in RandomMaster(w) :
        outbox' = [outbox EXCEPT ![w] =
            Append(@, [to |-> to, msg |-> [type |-> "NEW_TRANSACTION", tx |-> tx]])]
    /\ UNCHANGED << proc, chain, buffer, events, file, net, lost, swallowed, dials, runs >>

\* The main thread's save.  The other threads go on until Stop.
Save(n, t) ==
    LET r == Flushed(chain[n], buffer[n], t)
    IN  /\ proc[n] = "up" /\ chain[n] # << >>
        /\ proc' = [proc EXCEPT ![n] = "saved"]
        /\ chain' = [chain EXCEPT ![n] = r.chain]
        /\ buffer' = [buffer EXCEPT ![n] = r.buf]
        /\ events' = [events EXCEPT ![n] = @ \o r.made]
        /\ file' = [file EXCEPT ![n] = r.chain]
        /\ UNCHANGED << outbox, net, lost, swallowed, counters >>

\* The end of exec.
Stop(n) == proc[n] = "saved" /\ Gone(n)

\* The process is killed, or save threw because the chain is empty.
Crash(n) == Up(n) /\ Gone(n)

-----------------------------------------------------------------------------
(***************************************************************************)
(* The network thread of q reads from p.  recv returns up to MaxRead       *)
(* messages at once and only the first of them is looked at.               *)
(***************************************************************************)
Read(q, p) ==
    \E k \in 1..MaxRead :
        /\ k <= Len(chan[p][q])
        /\ chan' = [chan EXCEPT ![p][q] = SubSeq(@, k + 1, Len(@))]
        /\ swallowed' = (swallowed \/ k > 1)

Queue(q, s) == outbox' = [outbox EXCEPT ![q] = @ \o s]

\* _checkSynchState
ReceiveAcquited(q, p) ==
    /\ Head(chan[p][q]).type = "ACQUITED"
    /\ Read(q, p)
    /\ Queue(q, << [to |-> p, msg |->
            [type |-> "SYNCHRONIZE", id |-> LastBlockID(chain[q])]] >>)
    /\ UNCHANGED << proc, chain, buffer, events, file, link, greeted, lost, counters >>

\* _checkBlockID: ahead of p, behind p, or level with p.
ReceiveSynchronize(q, p) ==
    LET id == Head(chan[p][q]).id
        last == LastBlockID(chain[q])
    IN  /\ Head(chan[p][q]).type = "SYNCHRONIZE"
        /\ Read(q, p)
        /\ \/ last > id /\ Queue(q, BlockMessages(p, BlocksFrom(chain[q], id + 1)))
           \/ last < id /\ Queue(q, << [to |-> p, msg |->
                                [type |-> "REQUEST_BLOCK", id |-> last]] >>)
           \/ last = id /\ UNCHANGED outbox
        /\ UNCHANGED << proc, chain, buffer, events, file, link, greeted, lost, counters >>

\* _processRequestBlock
ReceiveRequestBlock(q, p) ==
    /\ Head(chan[p][q]).type = "REQUEST_BLOCK"
    /\ Read(q, p)
    /\ Queue(q, BlockMessages(p, BlocksFrom(chain[q], Head(chan[p][q]).id)))
    /\ UNCHANGED << proc, chain, buffer, events, file, link, greeted, lost, counters >>

\* operator<<: a block the chain has already is ignored, one that does not
\* fit ends the process with an exception that nothing catches.
ReceiveNewBlock(q, p) ==
    LET blk == Reparse(Head(chan[p][q]).blk)
        longer == Append(chain[q], blk)
    IN  /\ Head(chan[p][q]).type = "NEW_BLOCK"
        /\ \/ /\ Known(chain[q], blk)
              /\ Read(q, p)
              /\ UNCHANGED << local, link, greeted, lost, counters >>
           \/ /\ ~Known(chain[q], blk) /\ Verify(longer)
              /\ Read(q, p)
              /\ chain' = [chain EXCEPT ![q] = longer]
              /\ UNCHANGED << proc, buffer, events, outbox, file,
                              link, greeted, lost, counters >>
           \/ ~Known(chain[q], blk) /\ ~Verify(longer) /\ Gone(q)

\* A masternode requests the transaction on its chain; a wallet forwards it.
ReceiveNewTransaction(q, p, t) ==
    LET msg == Head(chan[p][q])
        r == Requested(chain[q], buffer[q], msg.tx, FALSE, t)
    IN  /\ msg.type = "NEW_TRANSACTION"
        /\ Read(q, p)
        /\ \/ /\ q \in Masters
              /\ Len(r.chain) <= MaxBlocks
              /\ chain' = [chain EXCEPT ![q] = r.chain]
              /\ buffer' = [buffer EXCEPT ![q] = r.buf]
              /\ events' = [events EXCEPT ![q] = @ \o r.made]
              /\ UNCHANGED outbox
           \/ /\ q \notin Masters
              /\ Len(outbox[q]) < MaxOutbox
              /\ \E to \in RandomMaster(q) : Queue(q, << [to |-> to, msg |-> msg] >>)
              /\ UNCHANGED << chain, buffer, events >>
        /\ UNCHANGED << proc, file, link, greeted, lost, counters >>

Receive(q, p) ==
    /\ Up(q) /\ chan[p][q] # << >>
    /\ \/ ReceiveAcquited(q, p)
       \/ ReceiveSynchronize(q, p)
       \/ ReceiveRequestBlock(q, p)
       \/ ReceiveNewBlock(q, p)
       \/ \E t \in Time : ReceiveNewTransaction(q, p, t)

-----------------------------------------------------------------------------
Next ==
    \/ \E n \in Node :
        \/ Load(n) \/ Tick(n) \/ Dispatch(n)
        \/ Stop(n) \/ Crash(n)
        \/ \E t \in Time : Save(n, t)
        \/ \E tx \in Tx : Submit(n, tx)
        \/ \E p \in Node : Receive(n, p)
    \/ \E d \in Dials :
        Connect(d[1], d[2]) \/ Greet(d[1], d[2]) \/ Cut(d[1], d[2])

\* The threads of a process that runs are never held up, and a handshake on
\* a connection that stays open comes to its end.  Nothing makes a user run,
\* use or quit a program, and nothing makes a connection.
Fairness ==
    /\ \A n \in Node :
        /\ WF_vars(Tick(n)) /\ WF_vars(Dispatch(n))
        /\ \A p \in Node : WF_vars(Receive(n, p))
    /\ \A d \in Dials : WF_vars(Greet(d[1], d[2]))

Spec == Init /\ [][Next]_vars /\ Fairness

-----------------------------------------------------------------------------
TypeOK ==
    /\ proc \in [Node -> {"off", "up", "saved"}]
    /\ chain \in [Node -> Seq(Block)]
    /\ buffer \in [Node -> Seq(Tx)]
    /\ events \in [Node -> Seq(Block)]
    /\ outbox \in [Node -> Seq(Queued)]
    /\ file \in [Node -> Seq(Block)]
    /\ link \subseteq Node \X Node
    /\ greeted \subseteq link
    /\ chan \in [Node -> [Node -> Seq(Message)]]
    /\ {lost, swallowed} \subseteq BOOLEAN
    /\ sends \in Nat /\ dials \in Nat /\ runs \in [Node -> Nat]

\* The chain a masternode holds: in memory, or in its file while it is off.
Log(m) == IF Up(m) THEN chain[m] ELSE file[m]

\* With one masternode, and as long as it never ended with blocks its file
\* lacks, no process and no file holds a block that is not on its chain at
\* the same position: whatever the interleaving of broadcasts, replies to
\* synchronisation, lost messages, crashes and restarts, a chain is either
\* short or gone but never different.
ReplicasArePrefixes ==
    ~lost => \A m \in Masters, n \in Node :
                IsPrefix(chain[n], Log(m)) /\ IsPrefix(file[n], Log(m))

\* With one masternode, the processes implement ReplicatedLedger: the other
\* nodes' chains in memory are the replicas of the masternode's chain.  Every
\* step of every thread is a step of the abstract ledger or leaves it alone.
TheMaster == CHOOSE m \in Masters : TRUE
Abstract == INSTANCE ReplicatedLedger WITH
    Replica <- Node \ Masters,
    Entry <- Block,
    log <- Log(TheMaster),
    replica <- [n \in Node \ Masters |-> chain[n]],
    damaged <- lost
ReplicatesTheLog == Abstract!Spec

\* A node that stays connected to the masternode ends up with its chain and
\* stays level with it, when no recv has returned two messages at once.
CatchUp ==
    \A m \in Masters, n \in Node :
        <>[](~lost /\ ~swallowed /\ {<< m, n >>, << n, m >>} \cap greeted # {})
            => <>[](chain[n] = chain[m])
=============================================================================
