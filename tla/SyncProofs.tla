----------------------------- MODULE SyncProofs -----------------------------
(***************************************************************************)
(* Theorems about Sync, and about the balances that Balance adds to it,    *)
(* for any number of processes, any connections, any bounds and any        *)
(* transactions.                                                           *)
(***************************************************************************)
EXTENDS Balance, ChainProofs

(***************************************************************************)
(* Messages and queues.                                                    *)
(***************************************************************************)

\* What a message carries, by its type.
LEMMA MessageParts ==
    ASSUME NEW m \in Message
    PROVE  /\ m.type = "NEW_BLOCK" => m.blk \in Block
           /\ m.type \in {"SYNCHRONIZE", "REQUEST_BLOCK"} => m.id \in Nat
           /\ m.type = "NEW_TRANSACTION" => m.tx \in Tx
BY DEF Message

\* The messages the processes write are messages.
LEMMA MessageMakers ==
    /\ [type |-> "ACQUITED"] \in Message
    /\ \A i \in Nat : /\ [type |-> "SYNCHRONIZE", id |-> i] \in Message
                      /\ [type |-> "REQUEST_BLOCK", id |-> i] \in Message
    /\ \A b \in Block : [type |-> "NEW_BLOCK", blk |-> b] \in Message
    /\ \A tx \in Tx : [type |-> "NEW_TRANSACTION", tx |-> tx] \in Message
BY DEF Message

\* An empty chain's last identifier is 0, another's is its last block's.
LEMMA LastIDType ==
    ASSUME NEW c \in Seq(Block)
    PROVE  LastBlockID(c) \in Nat
<1>1. CASE c = << >>
  BY <1>1 DEF LastBlockID
<1>2. CASE c # << >>
  <2>1. c[Len(c)] \in Block
    BY <1>2
  <2> QED BY <1>2, <2>1 DEF LastBlockID, Block
<1> QED BY <1>1, <1>2

\* What is sent of a chain are blocks of it (application.cpp:_sendBlocks).
LEMMA BlocksFromType ==
    ASSUME NEW c \in Seq(Block), NEW from \in Nat
    PROVE  /\ BlocksFrom(c, from) \in Seq(Block)
           /\ \A i \in 1..Len(BlocksFrom(c, from)) :
                \E j \in 1..Len(c) : BlocksFrom(c, from)[i] = c[j]
<1>1. CASE Len(c) < from
  BY <1>1 DEF BlocksFrom
<1>2. CASE ~(Len(c) < from)
  <2>1. /\ BlocksFrom(c, from) = SubSeq(c, from + 1, Len(c))
        /\ from \in 0..Len(c)
    BY <1>2 DEF BlocksFrom
  <2>2. /\ SubSeq(c, from + 1, Len(c)) \in Seq(Block)
        /\ Len(SubSeq(c, from + 1, Len(c))) = Len(c) - from
        /\ \A i \in 1..(Len(c) - from) :
                SubSeq(c, from + 1, Len(c))[i] = c[from + i]
    BY <2>1
  <2> QED BY <2>1, <2>2
<1> QED BY <1>1, <1>2

\* NEW_BLOCK messages can be queued; they carry the blocks they are made of.
LEMMA BlockMessagesType ==
    ASSUME NEW to \in Node \union {Everyone}, NEW s \in Seq(Block)
    PROVE  /\ BlockMessages(to, s) \in Seq(Queued)
           /\ Len(BlockMessages(to, s)) = Len(s)
           /\ \A i \in 1..Len(s) :
                BlockMessages(to, s)[i].msg = [type |-> "NEW_BLOCK", blk |-> s[i]]
<1>1. \A i \in 1..Len(s) :
        [to |-> to, msg |-> [type |-> "NEW_BLOCK", blk |-> s[i]]] \in Queued
  BY MessageMakers DEF Queued
<1> QED BY <1>1 DEF BlockMessages

\* getRandomMasterNode answers a peer or none.
LEMMA RandomMasterType ==
    ASSUME NEW n \in Node, NEW to \in RandomMaster(n)
    PROVE  to \in Node \union {Everyone}
BY SyncAssumption DEF RandomMaster

-----------------------------------------------------------------------------
(***************************************************************************)
(* Types.                                                                  *)
(***************************************************************************)
LEMMA InitTypeOK == Init => TypeOK
<1> SUFFICES ASSUME Init PROVE TypeOK
  OBVIOUS
<1>1. << >> \in Seq(Block) /\ << >> \in Seq(Tx)
      /\ << >> \in Seq(Queued) /\ << >> \in Seq(Message)
  OBVIOUS
<1> QED BY <1>1, SyncAssumption DEF Init, TypeOK

\* A process that ends, for whatever reason, leaves a state of the right type.
LEMMA GoneType ==
    ASSUME TypeOK, NEW n \in Node, Gone(n)
    PROVE  TypeOK'
<1>1. << >> \in Seq(Block) /\ << >> \in Seq(Tx)
      /\ << >> \in Seq(Queued) /\ << >> \in Seq(Message)
  OBVIOUS
<1>2. chan' \in [Node -> [Node -> Seq(Message)]]
  BY <1>1 DEF Gone, TypeOK
<1>3. lost' \in BOOLEAN
  BY DEF Gone, TypeOK
<1> QED BY <1>1, <1>2, <1>3 DEF Gone, TypeOK, counters

\* Reading from a stream leaves the rest of it.
LEMMA ReadType ==
    ASSUME TypeOK, NEW q \in Node, NEW p \in Node, Read(q, p)
    PROVE  /\ chan' \in [Node -> [Node -> Seq(Message)]]
           /\ swallowed' \in BOOLEAN
<1>1. PICK k \in 1..MaxRead :
        /\ k <= Len(chan[p][q])
        /\ chan' = [chan EXCEPT ![p][q] = SubSeq(@, k + 1, Len(@))]
        /\ swallowed' = (swallowed \/ k > 1)
  BY DEF Read
<1>2. chan[p][q] \in Seq(Message) /\ k \in Nat
  BY SyncAssumption DEF TypeOK
<1>3. SubSeq(chan[p][q], k + 1, Len(chan[p][q])) \in Seq(Message)
  BY <1>1, <1>2
<1> QED BY <1>1, <1>3 DEF TypeOK

\* Queueing queueable messages.
LEMMA QueueType ==
    ASSUME TypeOK, NEW q \in Node, NEW s \in Seq(Queued), Queue(q, s)
    PROVE  outbox' \in [Node -> Seq(Queued)]
<1>1. outbox[q] \o s \in Seq(Queued)
  BY DEF TypeOK
<1> QED BY <1>1 DEF Queue, TypeOK

LEMMA ReceiveType ==
    ASSUME TypeOK, NEW q \in Node, NEW p \in Node, Receive(q, p)
    PROVE  TypeOK'
<1> DEFINE msg == Head(chan[p][q])
<1>1. /\ msg \in Message /\ chain[q] \in Seq(Block) /\ buffer[q] \in Seq(Tx)
      /\ events[q] \in Seq(Block)
  BY DEF Receive, TypeOK
<1>2. /\ msg.type = "NEW_BLOCK" => msg.blk \in Block
      /\ msg.type \in {"SYNCHRONIZE", "REQUEST_BLOCK"} => msg.id \in Nat
      /\ msg.type = "NEW_TRANSACTION" => msg.tx \in Tx
  BY <1>1, MessageParts
<1>3. LastBlockID(chain[q]) \in Nat
  BY <1>1, LastIDType
<1>4. \A m \in Message, to \in Node \union {Everyone} :
        << [to |-> to, msg |-> m] >> \in Seq(Queued)
  BY DEF Queued
<1>5. CASE ReceiveAcquited(q, p)
  <2>1. Read(q, p) /\ outbox' \in [Node -> Seq(Queued)]
    BY <1>3, <1>4, <1>5, MessageMakers, QueueType DEF ReceiveAcquited
  <2> QED BY <1>5, <2>1, ReadType DEF ReceiveAcquited, TypeOK, counters
<1>6. CASE ReceiveSynchronize(q, p)
  <2>1. msg.id + 1 \in Nat
    BY <1>2, <1>6 DEF ReceiveSynchronize
  <2>2. BlockMessages(p, BlocksFrom(chain[q], msg.id + 1)) \in Seq(Queued)
    BY <1>1, <2>1, BlocksFromType, BlockMessagesType
  <2>3. << [to |-> p, msg |-> [type |-> "REQUEST_BLOCK", id |-> LastBlockID(chain[q])]] >>
            \in Seq(Queued)
    BY <1>3, <1>4, MessageMakers
  <2>4. Read(q, p) /\ outbox' \in [Node -> Seq(Queued)]
    BY <1>6, <2>2, <2>3, QueueType DEF ReceiveSynchronize, TypeOK
  <2> QED BY <1>6, <2>4, ReadType DEF ReceiveSynchronize, TypeOK, counters
<1>7. CASE ReceiveRequestBlock(q, p)
  <2>1. BlockMessages(p, BlocksFrom(chain[q], msg.id)) \in Seq(Queued)
    BY <1>1, <1>2, <1>7, BlocksFromType, BlockMessagesType DEF ReceiveRequestBlock
  <2>2. Read(q, p) /\ outbox' \in [Node -> Seq(Queued)]
    BY <1>7, <2>1, QueueType DEF ReceiveRequestBlock
  <2> QED BY <1>7, <2>2, ReadType DEF ReceiveRequestBlock, TypeOK, counters
<1>8. CASE ReceiveNewBlock(q, p)
  <2> DEFINE blk == Reparse(msg.blk)
             longer == Append(chain[q], blk)
  <2>1. longer \in Seq(Block)
    BY <1>1, <1>2, <1>8, ReparseType DEF ReceiveNewBlock
  <2> HIDE DEF longer
  <2>2. CASE /\ Read(q, p)
             /\ UNCHANGED << local, link, greeted, lost, counters >>
    BY <2>2, ReadType DEF TypeOK, local, counters
  <2>3. CASE /\ Read(q, p)
             /\ chain' = [chain EXCEPT ![q] = longer]
             /\ UNCHANGED << proc, buffer, events, outbox, file,
                             link, greeted, lost, counters >>
    BY <2>1, <2>3, ReadType DEF TypeOK, counters
  <2>4. CASE Gone(q)
    BY <2>4, GoneType
  <2> QED BY <1>8, <2>2, <2>3, <2>4 DEF ReceiveNewBlock, longer
<1>9. ASSUME NEW t \in Time, ReceiveNewTransaction(q, p, t)
      PROVE  TypeOK'
  <2> DEFINE r == Requested(chain[q], buffer[q], msg.tx, FALSE, t)
  <2>1. r.chain \in Seq(Block) /\ r.buf \in Seq(Tx) /\ r.made \in Seq(Block)
    BY <1>1, <1>2, <1>9, RequestedType DEF ReceiveNewTransaction
  <2>2. Read(q, p) /\ UNCHANGED << proc, file, link, greeted, lost, counters >>
    BY <1>9 DEF ReceiveNewTransaction
  <2>3. CASE /\ chain' = [chain EXCEPT ![q] = r.chain]
             /\ buffer' = [buffer EXCEPT ![q] = r.buf]
             /\ events' = [events EXCEPT ![q] = @ \o r.made]
             /\ UNCHANGED outbox
    <3> HIDE DEF r
    <3>1. events[q] \o r.made \in Seq(Block)
      BY <1>1, <2>1
    <3> QED BY <2>1, <2>2, <2>3, <3>1, ReadType DEF TypeOK, counters
  <2>4. ASSUME NEW to \in RandomMaster(q), Queue(q, << [to |-> to, msg |-> msg] >>),
               UNCHANGED << chain, buffer, events >>
        PROVE  TypeOK'
    <3>1. << [to |-> to, msg |-> msg] >> \in Seq(Queued)
      BY <1>1, <1>4, RandomMasterType
    <3>2. outbox' \in [Node -> Seq(Queued)]
      BY <2>4, <3>1, QueueType
    <3> QED BY <2>2, <2>4, <3>2, ReadType DEF TypeOK, counters
  <2> QED BY <1>9, <2>3, <2>4 DEF ReceiveNewTransaction
<1> QED BY <1>5, <1>6, <1>7, <1>8, <1>9 DEF Receive

LEMMA NextTypeOK == TypeOK /\ [Next]_vars => TypeOK'
<1> SUFFICES ASSUME TypeOK, [Next]_vars PROVE TypeOK'
  OBVIOUS
<1>1. ASSUME NEW n \in Node, Load(n) PROVE TypeOK'
  <2>1. Reloaded(file[n]) \in Seq(Block)
    BY ReloadedType DEF TypeOK
  <2>2. runs' \in [Node -> Nat]
    BY <1>1 DEF Load, TypeOK
  <2>3. proc' \in [Node -> {"off", "up", "saved"}] /\ chain' \in [Node -> Seq(Block)]
    BY <1>1, <2>1 DEF Load, TypeOK
  <2> QED BY <1>1, <2>2, <2>3 DEF Load, TypeOK, net
<1>2. ASSUME NEW n \in Node, Tick(n) PROVE TypeOK'
  <2> DEFINE msg == Head(outbox[n]).msg
             to == Head(outbox[n]).to
  <2>1. Head(outbox[n]) \in Queued /\ Tail(outbox[n]) \in Seq(Queued)
    BY <1>2 DEF Tick, TypeOK
  <2>2. msg \in Message /\ to \in Node \union {Everyone}
    BY <2>1 DEF Queued
  <2> HIDE DEF msg, to
  <2>3. \A q \in Node : Append(chan[n][q], msg) \in Seq(Message)
    BY <2>2 DEF TypeOK
  <2>4. chan' \in [Node -> [Node -> Seq(Message)]]
    <3>1. CASE chan' = [chan EXCEPT ![n] = [q \in Node |->
                            IF Open(n, q) THEN Append(@[q], msg) ELSE @[q]]]
      BY <2>3, <3>1 DEF TypeOK
    <3>2. CASE to # Everyone /\ chan' = [chan EXCEPT ![n][to] = Append(@, msg)]
      BY <2>2, <2>3, <3>2 DEF TypeOK
    <3>3. CASE UNCHANGED chan
      BY <3>3 DEF TypeOK
    <3> QED BY <1>2, <3>1, <3>2, <3>3 DEF Tick, msg, to
  <2> QED BY <1>2, <2>1, <2>4 DEF Tick, TypeOK, counters
<1>3. ASSUME NEW n \in Node, Dispatch(n) PROVE TypeOK'
  <2>1. Head(events[n]) \in Block /\ Tail(events[n]) \in Seq(Block)
    BY <1>3 DEF Dispatch, TypeOK
  <2>2. BlockMessages(Everyone, << Head(events[n]) >>) \in Seq(Queued)
    <3>1. << Head(events[n]) >> \in Seq(Block)
      BY <2>1
    <3> QED BY <3>1, BlockMessagesType
  <2>3. outbox[n] \o BlockMessages(Everyone, << Head(events[n]) >>) \in Seq(Queued)
    BY <2>2 DEF TypeOK
  <2> QED BY <1>3, <2>1, <2>3 DEF Dispatch, TypeOK, net, counters
<1>4. ASSUME NEW n \in Node, Stop(n) \/ Crash(n) PROVE TypeOK'
  BY <1>4, GoneType DEF Stop, Crash
<1>5. ASSUME NEW n \in Node, NEW t \in Time, Save(n, t) PROVE TypeOK'
  <2> DEFINE r == Flushed(chain[n], buffer[n], t)
  <2>1. r.chain \in Seq(Block) /\ r.buf \in Seq(Tx) /\ r.made \in Seq(Block)
    BY FlushedType DEF TypeOK
  <2>2. /\ proc' = [proc EXCEPT ![n] = "saved"]
        /\ chain' = [chain EXCEPT ![n] = r.chain]
        /\ buffer' = [buffer EXCEPT ![n] = r.buf]
        /\ events' = [events EXCEPT ![n] = @ \o r.made]
        /\ file' = [file EXCEPT ![n] = r.chain]
        /\ UNCHANGED << outbox, net, lost, swallowed, counters >>
    BY <1>5 DEF Save
  <2> HIDE DEF r
  <2>3. events[n] \o r.made \in Seq(Block)
    BY <2>1 DEF TypeOK
  <2> QED BY <2>1, <2>2, <2>3 DEF TypeOK, net, counters
<1>6. ASSUME NEW n \in Node, NEW tx \in Tx, Submit(n, tx) PROVE TypeOK'
  <2>1. PICK to \in RandomMaster(n) :
            outbox' = [outbox EXCEPT ![n] =
                Append(@, [to |-> to, msg |-> [type |-> "NEW_TRANSACTION", tx |-> tx]])]
    BY <1>6 DEF Submit
  <2>2. [to |-> to, msg |-> [type |-> "NEW_TRANSACTION", tx |-> tx]] \in Queued
    BY RandomMasterType, MessageMakers DEF Queued
  <2>3. outbox' \in [Node -> Seq(Queued)]
    BY <2>1, <2>2 DEF TypeOK
  <2>4. sends' \in Nat
    BY <1>6 DEF Submit, TypeOK
  <2> QED BY <1>6, <2>3, <2>4 DEF Submit, TypeOK, net
<1>7. ASSUME NEW n \in Node, NEW p \in Node, Receive(n, p) PROVE TypeOK'
  BY <1>7, ReceiveType
<1>8. ASSUME NEW c \in Node, NEW s \in Node,
             Connect(c, s) \/ Greet(c, s) \/ Cut(c, s)
      PROVE  TypeOK'
  <2>1. CASE Connect(c, s)
    <3>1. dials' \in Nat
      BY <2>1 DEF Connect, TypeOK
    <3>2. link' \subseteq Node \X Node /\ greeted' \subseteq link'
      BY <2>1 DEF Connect, TypeOK
    <3> QED BY <2>1, <3>1, <3>2 DEF Connect, TypeOK, local
  <2>2. CASE Greet(c, s)
    <3>1. Append(chan[c][s], [type |-> "ACQUITED"]) \in Seq(Message)
      BY MessageMakers DEF TypeOK
    <3>2. chan' \in [Node -> [Node -> Seq(Message)]]
      BY <2>2, <3>1 DEF Greet, TypeOK
    <3> QED BY <2>2, <3>2 DEF Greet, TypeOK, local, counters
  <2>3. CASE Cut(c, s)
    <3>1. << >> \in Seq(Message)
      OBVIOUS
    <3>2. chan' \in [Node -> [Node -> Seq(Message)]]
      BY <2>3, <3>1 DEF Cut, TypeOK
    <3> QED BY <2>3, <3>2 DEF Cut, TypeOK, local, counters
  <2> QED BY <1>8, <2>1, <2>2, <2>3
<1>9. CASE UNCHANGED vars
  BY <1>9 DEF vars, TypeOK
<1>10. \A d \in Dials : d[1] \in Node /\ d[2] \in Node
  BY SyncAssumption
<1> QED BY <1>1, <1>2, <1>3, <1>4, <1>5, <1>6, <1>7, <1>8, <1>9, <1>10 DEF Next

\* Whatever a recv returns, whoever goes down and whatever was on its way,
\* queues hold messages and chains hold blocks (application.cpp of both
\* programs, p2p_server.cpp:40-70).
THEOREM TypeCorrect == Spec => []TypeOK
<1> QED BY InitTypeOK, NextTypeOK, PTL DEF Spec

-----------------------------------------------------------------------------
(***************************************************************************)
(* The masternode's log.  Nothing in the programs tells a masternode's     *)
(* blocks from others, so what follows is about networks with one, whose   *)
(* file a masternode can load, and whose other processes start from a part *)
(* of that file: an empty chain takes any block for its first              *)
(* (blockchain.cpp:102-107), whoever sends it.                             *)
(***************************************************************************)
OneMaster == \E m \in Node : Masters = {m}

GenuineStart ==
    \A m \in Masters :
        /\ Rooted(StartFile[m]) /\ Verify(Reloaded(StartFile[m]))
        /\ \A n \in Node : StartFile[n] # << >> /\ IsPrefix(StartFile[n], StartFile[m])

In(L, b) == \E i \in 1..Len(L) : L[i] = b
Carries(L, msg) == msg.type = "NEW_BLOCK" => In(L, msg.blk)
Sound(L) == Rooted(L) /\ Linked(L) /\ Readable(L)

\* Chains or files c are parts of the log L; the blocks in the event queues
\* e, in the tick queues o and on the streams h are blocks of L.
ChainsOn(L, c) == \A n \in Node : IsPrefix(c[n], L)
EventsOn(L, e) == \A n \in Node : \A i \in 1..Len(e[n]) : In(L, e[n][i])
QueuesOn(L, o) == \A n \in Node : \A i \in 1..Len(o[n]) : Carries(L, o[n][i].msg)
StreamsOn(L, h) ==
    \A p, q \in Node : \A i \in 1..Len(h[p][q]) : Carries(L, h[p][q][i])

LogInv(m) ==
    /\ Sound(Log(m))
    /\ ChainsOn(Log(m), chain) /\ ChainsOn(Log(m), file)
    /\ EventsOn(Log(m), events)
    /\ QueuesOn(Log(m), outbox)
    /\ StreamsOn(Log(m), chan)

\* What holds of each process whatever happened to the log: it has a chain
\* when it runs and none otherwise, its file is never emptied, and only
\* masternodes buffer transactions.
LocalInv ==
    /\ \A n \in Node : Up(n) <=> chain[n] # << >>
    /\ \A n \in Node : file[n] # << >>
    /\ \A n \in Node \ Masters : buffer[n] = << >>

IInv == TypeOK /\ LocalInv /\ (~lost => \A m \in Masters : LogInv(m))

-----------------------------------------------------------------------------
(***************************************************************************)
(* What the parts of LogInv are kept by.                                   *)
(***************************************************************************)

\* A log that grows keeps its blocks and everything that was copied from it.
LEMMA Growth ==
    ASSUME NEW L \in Seq(Block), NEW K \in Seq(Block), IsPrefix(L, K)
    PROVE  /\ \A b : In(L, b) => In(K, b)
           /\ \A c \in [Node -> Seq(Block)] : ChainsOn(L, c) => ChainsOn(K, c)
           /\ \A e : EventsOn(L, e) => EventsOn(K, e)
           /\ \A o : QueuesOn(L, o) => QueuesOn(K, o)
           /\ \A h : StreamsOn(L, h) => StreamsOn(K, h)
<1>1. Len(L) \in Nat /\ Len(K) \in Nat /\ Len(L) <= Len(K)
      /\ \A i \in 1..Len(L) : L[i] = K[i]
  BY PrefixFacts
<1>2. \A b : In(L, b) => In(K, b)
  BY <1>1 DEF In
<1>3. ASSUME NEW c \in [Node -> Seq(Block)], ChainsOn(L, c)
      PROVE  ChainsOn(K, c)
  <2> SUFFICES ASSUME NEW n \in Node PROVE IsPrefix(c[n], K)
    BY DEF ChainsOn
  <2>1. c[n] \in Seq(Block) /\ IsPrefix(c[n], L)
    BY <1>3 DEF ChainsOn
  <2> QED BY <2>1, PrefixFacts
<1> QED BY <1>2, <1>3 DEF EventsOn, QueuesOn, StreamsOn, Carries

\* A chain is replaced by another part of the log.
LEMMA ChainUpdate ==
    ASSUME NEW L, NEW c \in [Node -> Seq(Block)], ChainsOn(L, c),
           NEW n \in Node, NEW d, IsPrefix(d, L)
    PROVE  ChainsOn(L, [c EXCEPT ![n] = d])
BY DEF ChainsOn

\* Blocks of the log are added to an event queue.
LEMMA EventsUpdate ==
    ASSUME NEW L, NEW e \in [Node -> Seq(Block)], EventsOn(L, e),
           NEW n \in Node, NEW s \in Seq(Block), \A i \in 1..Len(s) : In(L, s[i])
    PROVE  EventsOn(L, [e EXCEPT ![n] = @ \o s])
<1>1. /\ Len(e[n] \o s) = Len(e[n]) + Len(s)
      /\ \A i \in 1..(Len(e[n]) + Len(s)) :
            (e[n] \o s)[i] = IF i <= Len(e[n]) THEN e[n][i] ELSE s[i - Len(e[n])]
  OBVIOUS
<1>2. \A i \in 1..Len(e[n] \o s) : In(L, (e[n] \o s)[i])
  BY <1>1 DEF EventsOn
<1> QED BY <1>2 DEF EventsOn

\* Messages with blocks of the log are added to a tick queue.
LEMMA QueuesUpdate ==
    ASSUME NEW L, NEW o \in [Node -> Seq(Queued)], QueuesOn(L, o),
           NEW n \in Node, NEW s \in Seq(Queued),
           \A i \in 1..Len(s) : Carries(L, s[i].msg)
    PROVE  QueuesOn(L, [o EXCEPT ![n] = @ \o s])
<1>1. /\ Len(o[n] \o s) = Len(o[n]) + Len(s)
      /\ \A i \in 1..(Len(o[n]) + Len(s)) :
            (o[n] \o s)[i] = IF i <= Len(o[n]) THEN o[n][i] ELSE s[i - Len(o[n])]
  OBVIOUS
<1>2. \A i \in 1..Len(o[n] \o s) : Carries(L, (o[n] \o s)[i].msg)
  BY <1>1 DEF QueuesOn
<1> QED BY <1>2 DEF QueuesOn

\* A message is written to a stream.
LEMMA StreamAppend ==
    ASSUME NEW L, NEW s \in Seq(Message), NEW msg \in Message,
           \A i \in 1..Len(s) : Carries(L, s[i]), Carries(L, msg)
    PROVE  \A i \in 1..Len(Append(s, msg)) : Carries(L, Append(s, msg)[i])
OBVIOUS

\* Reading takes messages from a stream.
LEMMA StreamRead ==
    ASSUME TypeOK, NEW L, StreamsOn(L, chan),
           NEW q \in Node, NEW p \in Node, Read(q, p)
    PROVE  StreamsOn(L, chan')
<1>1. PICK k \in 1..MaxRead :
        /\ k <= Len(chan[p][q])
        /\ chan' = [chan EXCEPT ![p][q] = SubSeq(@, k + 1, Len(@))]
  BY DEF Read
<1> DEFINE s == chan[p][q]
<1>2. s \in Seq(Message) /\ k \in Nat /\ k <= Len(s)
  BY <1>1, SyncAssumption DEF TypeOK
<1>3. \A i \in 1..Len(s) : Carries(L, s[i])
  BY DEF StreamsOn
<1> HIDE DEF s
<1>4. /\ Len(SubSeq(s, k + 1, Len(s))) = Len(s) - k
      /\ \A i \in 1..(Len(s) - k) : SubSeq(s, k + 1, Len(s))[i] = s[k + i]
  BY <1>2
<1>5. \A i \in 1..Len(SubSeq(s, k + 1, Len(s))) :
        Carries(L, SubSeq(s, k + 1, Len(s))[i])
  BY <1>2, <1>3, <1>4
<1>6. /\ chan'[p][q] = SubSeq(s, k + 1, Len(s))
      /\ \A x, y \in Node : << x, y >> # << p, q >> => chan'[x][y] = chan[x][y]
  BY <1>1 DEF TypeOK, s
<1> SUFFICES ASSUME NEW x \in Node, NEW y \in Node
             PROVE  \A i \in 1..Len(chan'[x][y]) : Carries(L, chan'[x][y][i])
  BY DEF StreamsOn
<1>7. CASE x = p /\ y = q
  BY <1>5, <1>6, <1>7
<1>8. CASE ~(x = p /\ y = q)
  <2>1. chan'[x][y] = chan[x][y]
    BY <1>6, <1>8
  <2> QED BY <2>1 DEF StreamsOn
<1> QED BY <1>7, <1>8
\* A message of a stream, and of a queue, carries a block of the log.
LEMMA HeadsCarry ==
    ASSUME TypeOK, NEW L
    PROVE  /\ \A p, q \in Node : StreamsOn(L, chan) /\ chan[p][q] # << >>
                    => Carries(L, Head(chan[p][q]))
           /\ \A n \in Node : QueuesOn(L, outbox) /\ outbox[n] # << >>
                    => Carries(L, Head(outbox[n]).msg)
           /\ \A n \in Node : EventsOn(L, events) /\ events[n] # << >>
                    => In(L, Head(events[n]))
<1>1. ASSUME NEW S, NEW s \in Seq(S), s # << >>
      PROVE  Head(s) = s[1] /\ 1 \in 1..Len(s)
  BY <1>1
<1>2. ASSUME NEW p \in Node, NEW q \in Node,
             StreamsOn(L, chan), chan[p][q] # << >>
      PROVE  Carries(L, Head(chan[p][q]))
  <2>1. chan[p][q] \in Seq(Message)
    BY DEF TypeOK
  <2> QED BY <1>1, <1>2, <2>1 DEF StreamsOn
<1>3. ASSUME NEW n \in Node, QueuesOn(L, outbox), outbox[n] # << >>
      PROVE  Carries(L, Head(outbox[n]).msg)
  <2>1. outbox[n] \in Seq(Queued)
    BY DEF TypeOK
  <2> QED BY <1>1, <1>3, <2>1 DEF QueuesOn
<1>4. ASSUME NEW n \in Node, EventsOn(L, events), events[n] # << >>
      PROVE  In(L, Head(events[n]))
  <2>1. events[n] \in Seq(Block)
    BY DEF TypeOK
  <2> QED BY <1>1, <1>4, <2>1 DEF EventsOn
<1> QED BY <1>2, <1>3, <1>4

\* What is left of a queue when its head is taken.
LEMMA TailsCarry ==
    ASSUME TypeOK, NEW L, NEW n \in Node
    PROVE  /\ QueuesOn(L, outbox) /\ outbox[n] # << >>
                => QueuesOn(L, [outbox EXCEPT ![n] = Tail(@)])
           /\ EventsOn(L, events) /\ events[n] # << >>
                => EventsOn(L, [events EXCEPT ![n] = Tail(@)])
<1>1. ASSUME NEW S, NEW s \in Seq(S), s # << >>
      PROVE  /\ Len(Tail(s)) = Len(s) - 1 /\ Len(s) \in Nat
             /\ \A i \in 1..Len(Tail(s)) : i + 1 \in 1..Len(s) /\ Tail(s)[i] = s[i + 1]
  BY <1>1
<1>2. ASSUME QueuesOn(L, outbox), outbox[n] # << >>
      PROVE  QueuesOn(L, [outbox EXCEPT ![n] = Tail(@)])
  <2>1. outbox[n] \in Seq(Queued) /\ outbox \in [Node -> Seq(Queued)]
    BY DEF TypeOK
  <2>2. \A i \in 1..Len(Tail(outbox[n])) : Carries(L, Tail(outbox[n])[i].msg)
    BY <1>1, <1>2, <2>1 DEF QueuesOn
  <2> QED BY <1>2, <2>1, <2>2 DEF QueuesOn
<1>3. ASSUME EventsOn(L, events), events[n] # << >>
      PROVE  EventsOn(L, [events EXCEPT ![n] = Tail(@)])
  <2>1. events[n] \in Seq(Block) /\ events \in [Node -> Seq(Block)]
    BY DEF TypeOK
  <2>2. \A i \in 1..Len(Tail(events[n])) : In(L, Tail(events[n])[i])
    BY <1>1, <1>3, <2>1 DEF EventsOn
  <2> QED BY <1>3, <2>1, <2>2 DEF EventsOn
<1> QED BY <1>2, <1>3

\* The blocks of a part of the log are the log's.
LEMMA PartsCarry ==
    ASSUME NEW L \in Seq(Block), NEW c \in Seq(Block), IsPrefix(c, L)
    PROVE  /\ \A i \in 1..Len(c) : In(L, c[i])
           /\ \A to \in Node \union {Everyone}, from \in Nat :
                LET s == BlockMessages(to, BlocksFrom(c, from))
                IN  s \in Seq(Queued) /\ \A i \in 1..Len(s) : Carries(L, s[i].msg)
<1>1. \A i \in 1..Len(c) : In(L, c[i])
  <2>1. Len(c) <= Len(L) /\ \A i \in 1..Len(c) : c[i] = L[i]
    BY PrefixFacts
  <2> QED BY <2>1 DEF In
<1>2. ASSUME NEW to \in Node \union {Everyone}, NEW from \in Nat
      PROVE  LET s == BlockMessages(to, BlocksFrom(c, from))
             IN  s \in Seq(Queued) /\ \A i \in 1..Len(s) : Carries(L, s[i].msg)
  <2> DEFINE bs == BlocksFrom(c, from)
  <2>1. bs \in Seq(Block) /\ \A i \in 1..Len(bs) : In(L, bs[i])
    BY <1>1, BlocksFromType
  <2> HIDE DEF bs
  <2>2. /\ BlockMessages(to, bs) \in Seq(Queued)
        /\ Len(BlockMessages(to, bs)) = Len(bs)
        /\ \A i \in 1..Len(bs) :
             BlockMessages(to, bs)[i].msg = [type |-> "NEW_BLOCK", blk |-> bs[i]]
    BY <2>1, BlockMessagesType
  <2>3. \A i \in 1..Len(BlockMessages(to, bs)) :
            Carries(L, BlockMessages(to, bs)[i].msg)
    <3> SUFFICES ASSUME NEW i \in 1..Len(bs)
                 PROVE  Carries(L, BlockMessages(to, bs)[i].msg)
      BY <2>2
    <3>1. BlockMessages(to, bs)[i].msg = [type |-> "NEW_BLOCK", blk |-> bs[i]]
      BY <2>2
    <3>2. In(L, bs[i])
      BY <2>1
    <3>3. [type |-> "NEW_BLOCK", blk |-> bs[i]].blk = bs[i]
      OBVIOUS
    <3> QED BY <3>1, <3>2, <3>3 DEF Carries
  <2> QED BY <2>2, <2>3 DEF bs
<1> QED BY <1>1, <1>2
-----------------------------------------------------------------------------
(***************************************************************************)
(* The steps.  Each keeps LogInv of the one masternode m while no block is *)
(* lost, and moves the chains as the abstract ledger allows.               *)
(***************************************************************************)

\* How a step may move the log of m and the chains of the other processes:
\* the log gets a block, or a chain gets the block that follows on the log, is
\* gone with its process, or is read from a file that holds a part of the log.
LogMoves(m) ==
    /\ \E b \in Block : Log(m)' = Append(Log(m), b)
    /\ \A n \in Node \ {m} : chain'[n] = chain[n]
ChainMoves(m, w) ==
    /\ Log(m)' = Log(m)
    /\ \A n \in Node \ {m, w} : chain'[n] = chain[n]
    /\ \/ chain'[w] = << >>
       \/ chain[w] = << >> /\ IsPrefix(chain'[w], Log(m))
       \/ /\ Len(chain[w]) < Len(Log(m))
          /\ chain'[w] = Append(chain[w], Log(m)[Len(chain[w]) + 1])
Stays(m) == Log(m)' = Log(m) /\ \A n \in Node \ {m} : chain'[n] = chain[n]
Moves(m) == Stays(m) \/ LogMoves(m) \/ \E w \in Node \ {m} : ChainMoves(m, w)

Good(m) == LogInv(m)' /\ Moves(m)

\* The log is a sequence of blocks, and changes with the masternode only.
LEMMA LogType ==
    ASSUME TypeOK, NEW m \in Node
    PROVE  Log(m) \in Seq(Block)
BY DEF TypeOK, Log

LEMMA LogSame ==
    ASSUME NEW m \in Node, proc'[m] = proc[m], chain'[m] = chain[m], file'[m] = file[m]
    PROVE  Log(m)' = Log(m)
BY DEF Log, Up

\* A process ends (application.cpp:exec, or a thread throws).
LEMMA GoneGood ==
    ASSUME TypeOK, LocalInv, NEW n \in Node, Gone(n)
    PROVE  /\ LocalInv'
           /\ \A m \in Node : Masters = {m} /\ ~lost' /\ LogInv(m) => Good(m)
<1>1. /\ proc' = [proc EXCEPT ![n] = "off"]
      /\ chain' = [chain EXCEPT ![n] = << >>]
      /\ buffer' = [buffer EXCEPT ![n] = << >>]
      /\ events' = [events EXCEPT ![n] = << >>]
      /\ outbox' = [outbox EXCEPT ![n] = << >>]
      /\ chan' = [x \in Node |-> [y \in Node |->
                    IF n \in {x, y} THEN << >> ELSE chan[x][y]]]
      /\ lost' = (lost \/ (n \in Masters /\ chain[n] # file[n]))
      /\ file' = file
  BY DEF Gone
<1>2. LocalInv'
  BY <1>1 DEF LocalInv, TypeOK, Up
<1>3. ASSUME NEW m \in Node, Masters = {m}, ~lost', LogInv(m)
      PROVE  Good(m)
  <2>1. Log(m)' = Log(m)
    <3>1. CASE n # m
      BY <1>1, <3>1, LogSame DEF TypeOK
    <3>2. CASE n = m
      <4>1. chain[m] = file[m]
        BY <1>1, <1>3, <3>2
      <4> QED BY <1>1, <3>2, <4>1 DEF Log, Up, TypeOK
    <3> QED BY <3>1, <3>2
  <2> DEFINE L == Log(m)
  <2>2. L \in Seq(Block)
    BY LogType
  <2>3. /\ Sound(L) /\ ChainsOn(L, chain) /\ ChainsOn(L, file)
        /\ EventsOn(L, events) /\ QueuesOn(L, outbox) /\ StreamsOn(L, chan)
    BY <1>3 DEF LogInv
  <2> HIDE DEF L
  <2>4. IsPrefix(<< >>, L)
    <3> DEFINE e == << >>
    <3>1. e \in Seq(Block) /\ Len(e) = 0 /\ Len(L) \in Nat
      BY <2>2
    <3> HIDE DEF e
    <3>2. Len(e) <= Len(L) /\ \A i \in 1..Len(e) : e[i] = L[i]
      BY <3>1
    <3>3. IsPrefix(e, L)
      BY <2>2, <3>1, <3>2, PrefixFacts
    <3> QED BY <3>3 DEF e
  <2>5. ChainsOn(L, chain')
    BY <1>1, <2>3, <2>4 DEF ChainsOn, TypeOK
  <2>6. EventsOn(L, events') /\ QueuesOn(L, outbox')
    <3>1. \A i \in 1..Len(<< >>) : FALSE
      OBVIOUS
    <3>2. \A x \in Node : /\ events'[x] = IF x = n THEN << >> ELSE events[x]
                          /\ outbox'[x] = IF x = n THEN << >> ELSE outbox[x]
      BY <1>1 DEF TypeOK
    <3> QED BY <2>3, <3>1, <3>2 DEF EventsOn, QueuesOn
  <2>7. StreamsOn(L, chan')
    <3>1. \A i \in 1..Len(<< >>) : FALSE
      OBVIOUS
    <3> QED BY <1>1, <2>3, <3>1 DEF StreamsOn
  <2>8. LogInv(m)'
    BY <1>1, <2>1, <2>3, <2>5, <2>6, <2>7 DEF LogInv, L
  <2>9. Moves(m)
    <3>1. CASE n = m
      BY <1>1, <2>1, <3>1 DEF Moves, Stays, TypeOK
    <3>2. CASE n # m
      BY <1>1, <2>1, <3>2 DEF Moves, ChainMoves, TypeOK
    <3> QED BY <3>1, <3>2
  <2> QED BY <2>8, <2>9 DEF Good
<1> QED BY <1>2, <1>3
\* Steps that leave chains and files alone have to account for the queues.
LEMMA QueueStep ==
    ASSUME TypeOK, LocalInv, UNCHANGED << proc, chain, file, buffer >>
    PROVE  /\ LocalInv'
           /\ \A m \in Node :
                /\ LogInv(m)
                /\ EventsOn(Log(m), events') /\ QueuesOn(Log(m), outbox')
                /\ StreamsOn(Log(m), chan')
                => Good(m)
<1>1. LocalInv'
  BY DEF LocalInv, Up
<1>2. ASSUME NEW m \in Node, LogInv(m), EventsOn(Log(m), events'),
             QueuesOn(Log(m), outbox'), StreamsOn(Log(m), chan')
      PROVE  Good(m)
  <2>1. Log(m)' = Log(m)
    BY LogSame
  <2> QED BY <1>2, <2>1 DEF Good, LogInv, Moves, Stays
<1> QED BY <1>1, <1>2

\* The tick thread writes a message that was queued.
LEMMA TickGood ==
    ASSUME TypeOK, LocalInv, NEW n \in Node, Tick(n)
    PROVE  /\ LocalInv'
           /\ \A m \in Node : LogInv(m) => Good(m)
<1>1. UNCHANGED << proc, chain, file, buffer, events >>
  BY DEF Tick
<1>2. ASSUME NEW m \in Node, LogInv(m) PROVE Good(m)
  <2> DEFINE L == Log(m)
             msg == Head(outbox[n]).msg
             to == Head(outbox[n]).to
  <2>1. EventsOn(L, events) /\ QueuesOn(L, outbox) /\ StreamsOn(L, chan)
    BY <1>2 DEF LogInv
  <2>2. outbox[n] # << >> /\ outbox' = [outbox EXCEPT ![n] = Tail(@)]
    BY DEF Tick
  <2>3. QueuesOn(L, outbox')
    BY <2>1, <2>2, TailsCarry
  <2>4. Carries(L, msg) /\ msg \in Message /\ to \in Node \union {Everyone}
    <3>1. Head(outbox[n]) \in Queued
      BY <2>2 DEF TypeOK
    <3> QED BY <2>1, <2>2, <3>1, HeadsCarry DEF Queued
  <2>5. \/ chan' = [chan EXCEPT ![n] = [q \in Node |->
                        IF Open(n, q) THEN Append(@[q], msg) ELSE @[q]]]
        \/ to # Everyone /\ chan' = [chan EXCEPT ![n][to] = Append(@, msg)]
        \/ UNCHANGED chan
    BY DEF Tick
  <2> HIDE DEF L, msg, to
  <2>6. \A x, y \in Node : chan'[x][y] = chan[x][y]
                           \/ chan'[x][y] = Append(chan[x][y], msg)
    <3> SUFFICES ASSUME NEW x \in Node, NEW y \in Node
                 PROVE  \/ chan'[x][y] = chan[x][y]
                        \/ chan'[x][y] = Append(chan[x][y], msg)
      OBVIOUS
    <3>1. chan \in [Node -> [Node -> Seq(Message)]]
      BY DEF TypeOK
    <3>2. CASE chan' = [chan EXCEPT ![n] = [q \in Node |->
                        IF Open(n, q) THEN Append(@[q], msg) ELSE @[q]]]
      BY <3>1, <3>2
    <3>3. CASE to # Everyone /\ chan' = [chan EXCEPT ![n][to] = Append(@, msg)]
      BY <2>4, <3>1, <3>3
    <3> QED BY <2>5, <3>2, <3>3
  <2>7. StreamsOn(L, chan')
    <3> SUFFICES ASSUME NEW x \in Node, NEW y \in Node
                 PROVE  \A i \in 1..Len(chan'[x][y]) : Carries(L, chan'[x][y][i])
      BY DEF StreamsOn
    <3>1. chan[x][y] \in Seq(Message) /\ \A i \in 1..Len(chan[x][y]) : Carries(L, chan[x][y][i])
      BY <2>1 DEF StreamsOn, TypeOK
    <3>2. \A i \in 1..Len(Append(chan[x][y], msg)) : Carries(L, Append(chan[x][y], msg)[i])
      BY <2>4, <3>1, StreamAppend
    <3> QED BY <2>6, <3>1, <3>2
  <2> QED BY <1>1, <1>2, <2>1, <2>3, <2>7, QueueStep DEF L
<1> QED BY <1>1, <1>2, QueueStep

\* The dispatcher queues the block of an event.
LEMMA DispatchGood ==
    ASSUME TypeOK, LocalInv, NEW n \in Node, Dispatch(n)
    PROVE  /\ LocalInv'
           /\ \A m \in Node : LogInv(m) => Good(m)
<1> DEFINE s == BlockMessages(Everyone, << Head(events[n]) >>)
<1>1. /\ UNCHANGED << proc, chain, file, buffer, chan >>
      /\ events[n] # << >> /\ events' = [events EXCEPT ![n] = Tail(@)]
      /\ outbox' = [outbox EXCEPT ![n] = @ \o s]
  BY DEF Dispatch, net
<1>2. ASSUME NEW m \in Node, LogInv(m) PROVE Good(m)
  <2> DEFINE L == Log(m)
  <2>1. EventsOn(L, events) /\ QueuesOn(L, outbox) /\ StreamsOn(L, chan)
    BY <1>2 DEF LogInv
  <2> HIDE DEF L
  <2>2. EventsOn(L, events')
    BY <1>1, <2>1, TailsCarry
  <2>3. s \in Seq(Queued) /\ \A i \in 1..Len(s) : Carries(L, s[i].msg)
    <3>1. Head(events[n]) \in Block /\ In(L, Head(events[n]))
      <4>1. events[n] \in Seq(Block)
        BY DEF TypeOK
      <4> QED BY <1>1, <2>1, <4>1, HeadsCarry
    <3> DEFINE b == Head(events[n])
               bs == << b >>
    <3>2. bs \in Seq(Block) /\ Len(bs) = 1 /\ bs[1] = b
      BY <3>1
    <3> HIDE DEF bs
    <3>3. /\ BlockMessages(Everyone, bs) \in Seq(Queued)
          /\ Len(BlockMessages(Everyone, bs)) = 1
          /\ BlockMessages(Everyone, bs)[1].msg = [type |-> "NEW_BLOCK", blk |-> b]
      <4>1. Everyone \in Node \union {Everyone} /\ 1 \in 1..Len(bs)
        BY <3>2
      <4> QED BY <3>2, <4>1, BlockMessagesType
    <3>4. Carries(L, [type |-> "NEW_BLOCK", blk |-> b])
      BY <3>1 DEF Carries
    <3> QED BY <3>3, <3>4 DEF bs
  <2>4. QueuesOn(L, outbox')
    <3>1. outbox \in [Node -> Seq(Queued)]
      BY DEF TypeOK
    <3> HIDE DEF s
    <3> QED BY <1>1, <2>1, <2>3, <3>1, QueuesUpdate
  <2> QED BY <1>1, <1>2, <2>1, <2>2, <2>4, QueueStep DEF L
<1> QED BY <1>1, <1>2, QueueStep

\* A transaction carries no block.
LEMMA SubmitGood ==
    ASSUME TypeOK, LocalInv, NEW n \in Node, NEW tx \in Tx, Submit(n, tx)
    PROVE  /\ LocalInv'
           /\ \A m \in Node : LogInv(m) => Good(m)
<1>1. PICK to \in RandomMaster(n) :
        outbox' = [outbox EXCEPT ![n] =
            Append(@, [to |-> to, msg |-> [type |-> "NEW_TRANSACTION", tx |-> tx]])]
  BY DEF Submit
<1>2. UNCHANGED << proc, chain, file, buffer, events, chan >>
  BY DEF Submit, net
<1> DEFINE q == [to |-> to, msg |-> [type |-> "NEW_TRANSACTION", tx |-> tx]]
<1>3. q \in Queued /\ q.msg.type = "NEW_TRANSACTION"
  BY RandomMasterType, MessageMakers DEF Queued
<1> HIDE DEF q
<1>4. ASSUME NEW m \in Node, LogInv(m) PROVE Good(m)
  <2> DEFINE L == Log(m)
  <2>1. EventsOn(L, events) /\ QueuesOn(L, outbox) /\ StreamsOn(L, chan)
    BY <1>4 DEF LogInv
  <2> HIDE DEF L
  <2>2. << q >> \in Seq(Queued) /\ \A i \in 1..Len(<< q >>) : Carries(L, << q >>[i].msg)
    BY <1>3 DEF Carries
  <2>3. outbox' = [outbox EXCEPT ![n] = @ \o << q >>]
    <3>1. outbox[n] \in Seq(Queued)
      BY DEF TypeOK
    <3>2. Append(outbox[n], q) = outbox[n] \o << q >>
      BY <1>3, <3>1, AppendIsConcat
    <3> QED BY <1>1, <3>2 DEF q
  <2>4. QueuesOn(L, outbox')
    BY <2>1, <2>2, <2>3, QueuesUpdate DEF TypeOK
  <2> QED BY <1>2, <1>4, <2>1, <2>4, QueueStep DEF L
<1> QED BY <1>2, <1>4, QueueStep
\* A process reads its file: what is part of a rooted log and passes verify
\* comes back as it was written.
LEMMA LoadGood ==
    ASSUME TypeOK, LocalInv, NEW n \in Node, Load(n)
    PROVE  /\ LocalInv'
           /\ \A m \in Node : Masters = {m} /\ LogInv(m) => Good(m)
<1> DEFINE f == file[n]
<1>1. /\ proc[n] = "off" /\ Verify(Reloaded(f))
      /\ proc' = [proc EXCEPT ![n] = "up"]
      /\ chain' = [chain EXCEPT ![n] = Reloaded(f)]
      /\ UNCHANGED << buffer, events, outbox, file, chan >>
  BY DEF Load, net
<1>2. f \in Seq(Block) /\ f # << >> /\ Len(f) >= 1
  BY DEF TypeOK, LocalInv
<1>3. Reloaded(f) \in Seq(Block) /\ Reloaded(f) # << >>
  <2>1. Reloaded(f) \in Seq(Block) /\ Len(Reloaded(f)) = Len(f)
    BY <1>2, ReloadedType
  <2> QED BY <1>2, <2>1
<1>4. LocalInv'
  BY <1>1, <1>3 DEF LocalInv, TypeOK, Up
<1>5. ASSUME NEW m \in Node, Masters = {m}, LogInv(m) PROVE Good(m)
  <2> DEFINE L == Log(m)
  <2>1. L \in Seq(Block)
    BY LogType
  <2>2. /\ Sound(L) /\ ChainsOn(L, chain) /\ ChainsOn(L, file)
        /\ EventsOn(L, events) /\ QueuesOn(L, outbox) /\ StreamsOn(L, chan)
    BY <1>5 DEF LogInv
  <2>3. IsPrefix(f, L) /\ Rooted(L)
    BY <2>2 DEF ChainsOn, Sound
  <2>4. Rooted(f)
    <3>1. Len(f) <= Len(L) /\ \A i \in 1..Len(f) : f[i] = L[i]
      BY <1>2, <2>1, <2>3, PrefixFacts
    <3>2. f[1] = L[1]
      BY <1>2, <3>1
    <3> QED BY <1>2, <2>3, <3>2 DEF Rooted
  <2>5. Reloaded(f) = f
    BY <1>1, <1>2, <2>4, RootedReload
  <2>6. Log(m)' = L
    <3>1. CASE n = m
      <4>1. Log(m) = f
        BY <1>1, <3>1 DEF Log, Up
      <4> QED BY <1>1, <2>5, <3>1, <4>1 DEF Log, Up, TypeOK
    <3>2. CASE n # m
      BY <1>1, <3>2, LogSame DEF TypeOK
    <3> QED BY <3>1, <3>2
  <2>7. ChainsOn(L, chain')
    <3>1. chain \in [Node -> Seq(Block)] /\ IsPrefix(Reloaded(f), L)
      BY <2>3, <2>5 DEF TypeOK
    <3> HIDE DEF L, f
    <3> QED BY <1>1, <2>2, <3>1, ChainUpdate
  <2>8. LogInv(m)'
    BY <1>1, <2>2, <2>6, <2>7 DEF LogInv
  <2>9. Moves(m)
    <3>1. CASE n = m
      BY <1>1, <2>6, <3>1 DEF Moves, Stays, TypeOK
    <3>2. CASE n # m
      <4>1. chain[n] = << >>
        BY <1>1 DEF LocalInv, Up
      <4>2. chain'[n] = f
        BY <1>1, <2>5 DEF TypeOK
      <4>3. \A x \in Node \ {m, n} : chain'[x] = chain[x]
        BY <1>1 DEF TypeOK
      <4> QED BY <2>3, <2>6, <3>2, <4>1, <4>2, <4>3 DEF Moves, ChainMoves
    <3> QED BY <3>1, <3>2
  <2> QED BY <2>8, <2>9 DEF Good
<1> QED BY <1>4, <1>5

\* The masternode's chain gets a block, or none.
LEMMA MasterStep ==
    ASSUME TypeOK, NEW m \in Node, LogInv(m), Up(m), Up(m)', NEW K \in Seq(Block),
           K = chain[m] \/ \E b \in Block : K = Append(chain[m], b),
           Linked(K), Readable(K),
           chain' = [chain EXCEPT ![m] = K],
           ChainsOn(K, file'), EventsOn(K, events'),
           QueuesOn(K, outbox'), StreamsOn(K, chan')
    PROVE  Good(m)
<1>1. Log(m) = chain[m] /\ Log(m)' = K /\ chain[m] \in Seq(Block)
  BY DEF Log, TypeOK
<1>2. IsPrefix(chain[m], K)
  <2>1. CASE K = chain[m]
    BY <1>1, <2>1, PrefixFacts
  <2>2. ASSUME NEW b \in Block, K = Append(chain[m], b) PROVE IsPrefix(chain[m], K)
    <3>1. IsPrefix(chain[m], chain[m])
      BY <1>1, PrefixFacts
    <3> QED BY <1>1, <2>2, <3>1, PrefixFacts
  <2> QED BY <2>1, <2>2
<1>3. Rooted(K)
  <2>1. Rooted(chain[m])
    BY <1>1 DEF LogInv, Sound
  <2> QED BY <1>1, <1>2, <2>1, RootedGrows
<1>4. ChainsOn(K, chain')
  <2>1. ChainsOn(K, chain) /\ chain \in [Node -> Seq(Block)]
    <3>1. ChainsOn(chain[m], chain) /\ chain \in [Node -> Seq(Block)]
      BY <1>1 DEF LogInv, TypeOK
    <3> QED BY <1>1, <1>2, <3>1, Growth
  <2>2. IsPrefix(K, K)
    BY PrefixFacts
  <2> QED BY <2>1, <2>2, ChainUpdate
<1>5. LogInv(m)'
  BY <1>1, <1>3, <1>4 DEF LogInv, Sound
<1>6. \A n \in Node \ {m} : chain'[n] = chain[n]
  BY DEF TypeOK
<1>7. Moves(m)
  BY <1>1, <1>6 DEF Moves, Stays, LogMoves
<1> QED BY <1>5, <1>7 DEF Good
\* The blocks a request has made are at the end of the new chain.
LEMMA MadeOnChain ==
    ASSUME NEW c \in Seq(Block), NEW K, NEW made,
           \/ K = c /\ made = << >>
           \/ \E b \in Block : K = Append(c, b) /\ made = << b >>
    PROVE  \A i \in 1..Len(made) : In(K, made[i])
<1>1. CASE made = << >>
  BY <1>1
<1>2. ASSUME NEW b \in Block, K = Append(c, b), made = << b >>
      PROVE  \A i \in 1..Len(made) : In(K, made[i])
  <2>1. Len(K) = Len(c) + 1 /\ K[Len(c) + 1] = b /\ Len(c) \in Nat
    BY <1>2
  <2>2. In(K, b)
    BY <2>1 DEF In
  <2> QED BY <1>2, <2>2
<1> QED BY <1>1, <1>2

\* save writes the chain it has just completed (application.cpp:exec).
LEMMA SaveGood ==
    ASSUME TypeOK, LocalInv, NEW n \in Node, NEW t \in Time, Save(n, t)
    PROVE  /\ LocalInv'
           /\ \A m \in Node : Masters = {m} /\ LogInv(m) => Good(m)
<1> DEFINE r == Flushed(chain[n], buffer[n], t)
           K == r.chain
<1>1. /\ proc[n] = "up" /\ chain[n] # << >>
      /\ proc' = [proc EXCEPT ![n] = "saved"]
      /\ chain' = [chain EXCEPT ![n] = K]
      /\ buffer' = [buffer EXCEPT ![n] = r.buf]
      /\ events' = [events EXCEPT ![n] = @ \o r.made]
      /\ file' = [file EXCEPT ![n] = K]
      /\ UNCHANGED << outbox, chan >>
  BY DEF Save, net
<1>2. chain[n] \in Seq(Block) /\ buffer[n] \in Seq(Tx)
  BY DEF TypeOK
<1>3. /\ K \in Seq(Block) /\ r.made \in Seq(Block)
      /\ Len(K) >= Len(chain[n]) /\ IsPrefix(chain[n], K)
      /\ Linked(chain[n]) => Linked(K)
      /\ Readable(chain[n]) => Readable(K)
  BY <1>2, FlushedType, FlushedReadable
<1>4. /\ \/ K = chain[n] /\ r.made = << >>
         \/ \E b \in Block : K = Append(chain[n], b) /\ r.made = << b >>
      /\ buffer[n] = << >> => K = chain[n] /\ r.buf = << >> /\ r.made = << >>
  BY <1>2, FlushedMakes
<1>5. \A i \in 1..Len(r.made) : In(K, r.made[i])
  <2> HIDE DEF r
  <2> QED BY <1>2, <1>4, MadeOnChain
<1> HIDE DEF r
<1>6. K # << >>
  BY <1>1, <1>2, <1>3
<1> HIDE DEF K
<1>7. LocalInv'
  <2>1. /\ \A x \in Node : Up(x)' <=> chain'[x] # << >>
        /\ \A x \in Node : file'[x] # << >>
    BY <1>1, <1>6 DEF LocalInv, TypeOK, Up
  <2>2. \A x \in Node \ Masters : buffer'[x] = << >>
    BY <1>1, <1>4 DEF LocalInv, TypeOK
  <2> QED BY <2>1, <2>2 DEF LocalInv
<1>8. ASSUME NEW m \in Node, Masters = {m}, LogInv(m) PROVE Good(m)
  <2> DEFINE L == Log(m)
  <2>1. /\ Sound(L) /\ ChainsOn(L, chain) /\ ChainsOn(L, file)
        /\ EventsOn(L, events) /\ QueuesOn(L, outbox) /\ StreamsOn(L, chan)
    BY <1>8 DEF LogInv
  <2>2. CASE n = m
    <3>1. L = chain[m] /\ Up(m) /\ Up(m)'
      BY <1>1, <2>2 DEF Log, Up, TypeOK
    <3>2. Linked(K) /\ Readable(K)
      BY <1>3, <2>1, <2>2, <3>1 DEF Sound
    <3>3. /\ ChainsOn(K, file) /\ EventsOn(K, events)
          /\ QueuesOn(K, outbox) /\ StreamsOn(K, chan)
      <4>1. L \in Seq(Block) /\ IsPrefix(L, K)
        BY <1>2, <1>3, <2>2, <3>1
      <4>2. file \in [Node -> Seq(Block)]
        BY DEF TypeOK
      <4> HIDE DEF L
      <4> QED BY <1>3, <2>1, <4>1, <4>2, Growth
    <3>4. ChainsOn(K, file')
      <4>1. IsPrefix(K, K) /\ file \in [Node -> Seq(Block)]
        BY <1>3, PrefixFacts DEF TypeOK
      <4> QED BY <1>1, <3>3, <4>1, ChainUpdate
    <3>5. EventsOn(K, events')
      <4>1. events \in [Node -> Seq(Block)]
        BY DEF TypeOK
      <4> QED BY <1>1, <1>3, <1>5, <3>3, <4>1, EventsUpdate
    <3> QED BY <1>1, <1>3, <1>4, <1>8, <2>2, <3>1, <3>2, <3>3, <3>4, <3>5, MasterStep
  <2>3. CASE n # m
    <3>1. K = chain[n] /\ r.made = << >>
      BY <1>4, <1>8, <2>3 DEF LocalInv
    <3>2. chain' = chain
      BY <1>1, <3>1 DEF TypeOK
    <3>3. events' = events
      <4>1. events[n] \o << >> = events[n]
        BY DEF TypeOK
      <4> QED BY <1>1, <3>1, <4>1 DEF TypeOK
    <3>4. Log(m)' = L
      BY <1>1, <2>3, <3>2, LogSame DEF TypeOK
    <3>5. ChainsOn(L, file')
      <4>1. IsPrefix(K, L) /\ file \in [Node -> Seq(Block)]
        BY <2>1, <3>1 DEF ChainsOn, TypeOK
      <4> HIDE DEF L
      <4> QED BY <1>1, <2>1, <4>1, ChainUpdate
    <3>6. LogInv(m)'
      BY <1>1, <2>1, <3>2, <3>3, <3>4, <3>5 DEF LogInv
    <3> QED BY <3>2, <3>4, <3>6 DEF Good, Moves, Stays
  <2> QED BY <2>2, <2>3
<1> QED BY <1>7, <1>8

\* Connections come and go; all that is written is ACQUITED.
LEMMA ConnectionGood ==
    ASSUME TypeOK, LocalInv, NEW c \in Node, NEW s \in Node,
           Connect(c, s) \/ Greet(c, s) \/ Cut(c, s)
    PROVE  /\ LocalInv'
           /\ \A m \in Node : LogInv(m) => Good(m)
<1>1. UNCHANGED << proc, chain, file, buffer, events, outbox >>
  BY DEF Connect, Greet, Cut, local
<1>2. ASSUME NEW m \in Node, LogInv(m) PROVE Good(m)
  <2> DEFINE L == Log(m)
             msg == [type |-> "ACQUITED"]
  <2>1. EventsOn(L, events) /\ QueuesOn(L, outbox) /\ StreamsOn(L, chan)
    BY <1>2 DEF LogInv
  <2>2. msg \in Message /\ Carries(L, msg)
    BY MessageMakers DEF Carries
  <2> HIDE DEF L, msg
  <2>3. \A x, y \in Node : \/ chan'[x][y] = chan[x][y]
                           \/ chan'[x][y] = Append(chan[x][y], msg)
                           \/ chan'[x][y] = << >>
    <3>1. chan \in [Node -> [Node -> Seq(Message)]]
      BY DEF TypeOK
    <3>2. CASE Connect(c, s)
      BY <3>2 DEF Connect
    <3>3. CASE Greet(c, s)
      BY <3>1, <3>3 DEF Greet, msg
    <3>4. CASE Cut(c, s)
      BY <3>1, <3>4 DEF Cut
    <3> QED BY <3>2, <3>3, <3>4
  <2>4. StreamsOn(L, chan')
    <3> SUFFICES ASSUME NEW x \in Node, NEW y \in Node
                 PROVE  \A i \in 1..Len(chan'[x][y]) : Carries(L, chan'[x][y][i])
      BY DEF StreamsOn
    <3>1. chan[x][y] \in Seq(Message) /\ \A i \in 1..Len(chan[x][y]) : Carries(L, chan[x][y][i])
      BY <2>1 DEF StreamsOn, TypeOK
    <3>2. \A i \in 1..Len(Append(chan[x][y], msg)) : Carries(L, Append(chan[x][y], msg)[i])
      BY <2>2, <3>1, StreamAppend
    <3>3. \A i \in 1..Len(<< >>) : FALSE
      OBVIOUS
    <3> QED BY <2>3, <3>1, <3>2, <3>3
  <2> QED BY <1>1, <1>2, <2>1, <2>4, QueueStep DEF L
<1> QED BY <1>1, <1>2, QueueStep
\* Blocks of the log, once through their text, are the same blocks.
LEMMA LogReparse ==
    ASSUME NEW L \in Seq(Block), Sound(L), NEW b \in Block, In(L, b)
    PROVE  Reparse(b) = b
<1>1. PICK i \in 1..Len(L) : L[i] = b
  BY DEF In
<1>2. b.idx = 0 => b.prev = NoHash
  BY <1>1 DEF Sound, Readable
<1> QED BY <1>2, ReparseType

\* A block is received: it is known, or it is the next one, or it ends the
\* process.  This is where a chain could come to differ from the log.
LEMMA NewBlockGood ==
    ASSUME TypeOK, LocalInv, NEW q \in Node, NEW p \in Node,
           Up(q), chan[p][q] # << >>, ReceiveNewBlock(q, p)
    PROVE  /\ LocalInv'
           /\ \A m \in Node : Masters = {m} /\ ~lost' /\ LogInv(m) => Good(m)
<1> DEFINE msg == Head(chan[p][q])
           blk == Reparse(msg.blk)
           longer == Append(chain[q], blk)
<1>1. msg \in Message /\ msg.type = "NEW_BLOCK" /\ msg.blk \in Block
  <2>1. msg \in Message
    BY DEF TypeOK
  <2> QED BY <2>1, MessageParts DEF ReceiveNewBlock
<1>2. blk \in Block /\ chain[q] \in Seq(Block) /\ longer \in Seq(Block)
  BY <1>1, ReparseType DEF TypeOK
<1>3. CASE Gone(q)
  BY <1>3, GoneGood
<1>4. CASE Read(q, p) /\ UNCHANGED << local, link, greeted, lost, counters >>
  <2>1. UNCHANGED << proc, chain, file, buffer, events, outbox >>
    BY <1>4 DEF local
  <2>2. \A m \in Node : LogInv(m) => StreamsOn(Log(m), chan')
    BY <1>4, StreamRead DEF LogInv
  <2>3. \A m \in Node : LogInv(m) => EventsOn(Log(m), events) /\ QueuesOn(Log(m), outbox)
    BY DEF LogInv
  <2> QED BY <2>1, <2>2, <2>3, QueueStep
<1>5. CASE /\ ~Known(chain[q], blk) /\ Verify(longer)
           /\ Read(q, p)
           /\ chain' = [chain EXCEPT ![q] = longer]
           /\ UNCHANGED << proc, buffer, events, outbox, file,
                           link, greeted, lost, counters >>
  <2>1. LocalInv'
    <3>1. longer # << >>
      BY <1>2
    <3> HIDE DEF longer
    <3> QED BY <1>5, <3>1 DEF LocalInv, TypeOK, Up
  <2>2. ASSUME NEW m \in Node, Masters = {m}, LogInv(m) PROVE Good(m)
    <3> DEFINE L == Log(m)
    <3>1. L \in Seq(Block)
      BY LogType
    <3>2. /\ Sound(L) /\ ChainsOn(L, chain) /\ ChainsOn(L, file)
          /\ EventsOn(L, events) /\ QueuesOn(L, outbox) /\ StreamsOn(L, chan)
      BY <2>2 DEF LogInv
    <3>3. In(L, msg.blk)
      BY <1>1, <3>2, HeadsCarry DEF Carries
    <3>4. blk = msg.blk
      BY <1>1, <3>1, <3>2, <3>3, LogReparse
    <3>5. PICK j \in 1..Len(L) : L[j] = blk
      BY <3>3, <3>4 DEF In
    <3>6. IsPrefix(chain[q], L) /\ chain[q] # << >>
      BY <3>2 DEF ChainsOn, LocalInv
    <3>7. Linked(longer)
      <4>1. Len(longer) # 1
        BY <1>2, <3>6
      <4> QED BY <1>5, <4>1 DEF Verify
    <3>8. j = Len(chain[q]) + 1 /\ IsPrefix(longer, L)
      <4>1. Linked(L) /\ Linked(Append(chain[q], L[j]))
        BY <3>2, <3>5, <3>7 DEF Sound
      <4> HIDE DEF L, blk
      <4> QED BY <1>2, <3>1, <3>5, <3>6, <4>1, OnlyTheNextFits
    <3>9. Len(chain[q]) < Len(L)
      BY <1>2, <3>1, <3>8
    <3>10. q # m
      <4>1. q = m => L = chain[q]
        BY DEF Log
      <4> QED BY <1>2, <3>9, <4>1
    <3>11. Log(m)' = L
      BY <1>5, <3>10, LogSame DEF TypeOK
    <3>12. ChainsOn(L, chain')
      <4>1. chain \in [Node -> Seq(Block)]
        BY DEF TypeOK
      <4> HIDE DEF L, longer
      <4> QED BY <1>5, <3>2, <3>8, <4>1, ChainUpdate
    <3>13. StreamsOn(L, chan')
      BY <1>5, <3>2, StreamRead
    <3>14. LogInv(m)'
      BY <1>5, <3>2, <3>11, <3>12, <3>13 DEF LogInv
    <3>15. Moves(m)
      <4>1. chain'[q] = Append(chain[q], L[Len(chain[q]) + 1])
        BY <1>5, <3>5, <3>8 DEF TypeOK
      <4>2. \A x \in Node \ {m, q} : chain'[x] = chain[x]
        BY <1>5 DEF TypeOK
      <4> QED BY <3>9, <3>10, <3>11, <4>1, <4>2 DEF Moves, ChainMoves
    <3> QED BY <3>14, <3>15 DEF Good
  <2> QED BY <2>1, <2>2
<1> QED BY <1>3, <1>4, <1>5 DEF ReceiveNewBlock

\* A transaction is received: the masternode's chain may get a block, a
\* wallet hands it on.
LEMMA NewTransactionGood ==
    ASSUME TypeOK, LocalInv, NEW q \in Node, NEW p \in Node, NEW t \in Time,
           Up(q), chan[p][q] # << >>, ReceiveNewTransaction(q, p, t)
    PROVE  /\ LocalInv'
           /\ \A m \in Node : Masters = {m} /\ LogInv(m) => Good(m)
<1> DEFINE msg == Head(chan[p][q])
           r == Requested(chain[q], buffer[q], msg.tx, FALSE, t)
           K == r.chain
<1>1. msg \in Message /\ msg.type = "NEW_TRANSACTION" /\ msg.tx \in Tx
  <2>1. msg \in Message
    BY DEF TypeOK
  <2> QED BY <2>1, MessageParts DEF ReceiveNewTransaction
<1>2. chain[q] \in Seq(Block) /\ buffer[q] \in Seq(Tx) /\ chain[q] # << >>
  BY DEF TypeOK, LocalInv
<1>3. Read(q, p) /\ UNCHANGED << proc, file >>
  BY DEF ReceiveNewTransaction
<1>4. CASE /\ q \in Masters
           /\ chain' = [chain EXCEPT ![q] = r.chain]
           /\ buffer' = [buffer EXCEPT ![q] = r.buf]
           /\ events' = [events EXCEPT ![q] = @ \o r.made]
           /\ UNCHANGED outbox
  <2>1. /\ K \in Seq(Block) /\ r.made \in Seq(Block)
        /\ Len(K) >= Len(chain[q]) /\ IsPrefix(chain[q], K)
        /\ Linked(chain[q]) => Linked(K)
        /\ Readable(chain[q]) => Readable(K)
    BY <1>1, <1>2, RequestedType, RequestedReadable
  <2>2. \/ K = chain[q] /\ r.made = << >>
        \/ \E b \in Block : K = Append(chain[q], b) /\ r.made = << b >>
    BY <1>1, <1>2, RequestedMakes
  <2> HIDE DEF r
  <2>3. \A i \in 1..Len(r.made) : In(K, r.made[i])
    BY <1>2, <2>2, MadeOnChain
  <2>4. K # << >>
    BY <1>2, <2>1
  <2>5. LocalInv'
    BY <1>3, <1>4, <2>4 DEF LocalInv, TypeOK, Up
  <2> HIDE DEF K
  <2>6. ASSUME NEW m \in Node, Masters = {m}, LogInv(m) PROVE Good(m)
    <3> DEFINE L == Log(m)
    <3>1. q = m /\ L = chain[q] /\ Up(m) /\ Up(m)'
      BY <1>3, <1>4, <2>6 DEF Log, Up
    <3>2. /\ Sound(L) /\ ChainsOn(L, chain) /\ ChainsOn(L, file)
          /\ EventsOn(L, events) /\ QueuesOn(L, outbox) /\ StreamsOn(L, chan)
      BY <2>6 DEF LogInv
    <3>3. Linked(K) /\ Readable(K)
      BY <2>1, <3>1, <3>2 DEF Sound
    <3>4. /\ ChainsOn(K, file) /\ EventsOn(K, events)
          /\ QueuesOn(K, outbox) /\ StreamsOn(K, chan)
      <4>1. L \in Seq(Block) /\ IsPrefix(L, K) /\ file \in [Node -> Seq(Block)]
        BY <1>2, <2>1, <3>1 DEF TypeOK
      <4> HIDE DEF L
      <4> QED BY <2>1, <3>2, <4>1, Growth
    <3>5. EventsOn(K, events')
      <4>1. events \in [Node -> Seq(Block)]
        BY DEF TypeOK
      <4> QED BY <1>4, <2>1, <2>3, <3>4, <4>1, EventsUpdate
    <3>6. StreamsOn(K, chan')
      BY <1>3, <3>4, StreamRead
    <3>7. K = chain[m] \/ \E b \in Block : K = Append(chain[m], b)
      BY <2>2, <3>1
    <3>8. chain' = [chain EXCEPT ![m] = K]
      BY <1>4, <3>1 DEF K
    <3> QED BY <1>3, <1>4, <2>1, <2>6, <3>1, <3>3, <3>4, <3>5, <3>6, <3>7, <3>8, MasterStep
  <2> QED BY <2>5, <2>6
<1>5. ASSUME NEW to \in RandomMaster(q), Queue(q, << [to |-> to, msg |-> msg] >>),
             UNCHANGED << chain, buffer, events >>
      PROVE  /\ LocalInv'
             /\ \A m \in Node : LogInv(m) => Good(m)
  <2> DEFINE e == [to |-> to, msg |-> msg]
  <2>1. e \in Queued /\ e.msg.type = "NEW_TRANSACTION"
    BY <1>1, RandomMasterType DEF Queued
  <2> HIDE DEF e
  <2>2. << e >> \in Seq(Queued)
    BY <2>1
  <2>3. ASSUME NEW m \in Node, LogInv(m) PROVE Good(m)
    <3> DEFINE L == Log(m)
    <3>1. EventsOn(L, events) /\ QueuesOn(L, outbox) /\ StreamsOn(L, chan)
      BY <2>3 DEF LogInv
    <3> HIDE DEF L
    <3>2. StreamsOn(L, chan')
      BY <1>3, <3>1, StreamRead
    <3>3. \A i \in 1..Len(<< e >>) : Carries(L, << e >>[i].msg)
      BY <2>1 DEF Carries
    <3>4. QueuesOn(L, outbox')
      <4>1. outbox' = [outbox EXCEPT ![q] = @ \o << e >>] /\ outbox \in [Node -> Seq(Queued)]
        BY <1>5 DEF Queue, e, TypeOK
      <4> QED BY <2>2, <3>1, <3>3, <4>1, QueuesUpdate
    <3> QED BY <1>3, <1>5, <2>3, <3>1, <3>2, <3>4, QueueStep DEF L
  <2> QED BY <1>3, <1>5, <2>3, QueueStep
<1> QED BY <1>4, <1>5 DEF ReceiveNewTransaction
\* Whatever a process receives.
LEMMA ReceiveGood ==
    ASSUME TypeOK, LocalInv, NEW q \in Node, NEW p \in Node, Receive(q, p)
    PROVE  /\ LocalInv'
           /\ \A m \in Node : Masters = {m} /\ ~lost' /\ LogInv(m) => Good(m)
<1> DEFINE msg == Head(chan[p][q])
<1>1. /\ msg \in Message /\ chan[p][q] # << >> /\ Up(q)
      /\ chain[q] \in Seq(Block) /\ LastBlockID(chain[q]) \in Nat
  <2>1. chain[q] \in Seq(Block) /\ chan[p][q] \in Seq(Message)
    BY DEF TypeOK
  <2>2. Up(q) /\ chan[p][q] # << >>
    BY DEF Receive
  <2>3. msg \in Message
    BY <2>1, <2>2
  <2> QED BY <2>1, <2>2, <2>3, LastIDType
<1>2. /\ msg.type \in {"SYNCHRONIZE", "REQUEST_BLOCK"} => msg.id \in Nat
  BY <1>1, MessageParts
\* What is answered are blocks of the chain, or carries none.
<1>3. ASSUME NEW s \in Seq(Queued), Queue(q, s), Read(q, p),
             UNCHANGED << proc, chain, file, buffer, events >>,
             \A m \in Node : LogInv(m) => \A i \in 1..Len(s) : Carries(Log(m), s[i].msg)
      PROVE  /\ LocalInv'
             /\ \A m \in Node : LogInv(m) => Good(m)
  <2>1. ASSUME NEW m \in Node, LogInv(m) PROVE Good(m)
    <3> DEFINE L == Log(m)
    <3>1. EventsOn(L, events) /\ QueuesOn(L, outbox) /\ StreamsOn(L, chan)
      BY <2>1 DEF LogInv
    <3>2. \A i \in 1..Len(s) : Carries(L, s[i].msg)
      BY <1>3, <2>1
    <3> HIDE DEF L
    <3>3. StreamsOn(L, chan')
      BY <1>3, <3>1, StreamRead
    <3>4. QueuesOn(L, outbox')
      <4>1. outbox' = [outbox EXCEPT ![q] = @ \o s] /\ outbox \in [Node -> Seq(Queued)]
        BY <1>3 DEF Queue, TypeOK
      <4> QED BY <3>1, <3>2, <4>1, QueuesUpdate
    <3> QED BY <1>3, <2>1, <3>1, <3>3, <3>4, QueueStep DEF L
  <2> QED BY <1>3, <2>1, QueueStep
<1>4. ASSUME NEW m \in Node, LogInv(m), NEW from \in Nat
      PROVE  LET s == BlockMessages(p, BlocksFrom(chain[q], from))
             IN  s \in Seq(Queued) /\ \A i \in 1..Len(s) : Carries(Log(m), s[i].msg)
  <2>1. IsPrefix(chain[q], Log(m)) /\ Log(m) \in Seq(Block)
    BY <1>4, LogType DEF LogInv, ChainsOn
  <2> QED BY <1>1, <2>1, PartsCarry
<1>5. ASSUME NEW x \in Message, x.type # "NEW_BLOCK"
      PROVE  LET s == << [to |-> p, msg |-> x] >>
             IN  s \in Seq(Queued) /\ \A L : \A i \in 1..Len(s) : Carries(L, s[i].msg)
  <2> DEFINE e == [to |-> p, msg |-> x]
  <2>1. e \in Queued /\ e.msg.type # "NEW_BLOCK"
    BY <1>5 DEF Queued
  <2> HIDE DEF e
  <2>2. << e >> \in Seq(Queued) /\ \A L : \A i \in 1..Len(<< e >>) : Carries(L, << e >>[i].msg)
    BY <2>1 DEF Carries
  <2> QED BY <2>2 DEF e
<1>6. CASE ReceiveAcquited(q, p)
  <2> DEFINE x == [type |-> "SYNCHRONIZE", id |-> LastBlockID(chain[q])]
             s == << [to |-> p, msg |-> x] >>
  <2>1. x \in Message /\ x.type # "NEW_BLOCK"
    BY <1>1, MessageMakers
  <2>2. s \in Seq(Queued) /\ \A L : \A i \in 1..Len(s) : Carries(L, s[i].msg)
    BY <1>5, <2>1
  <2>3. Queue(q, s) /\ Read(q, p) /\ UNCHANGED << proc, chain, file, buffer, events >>
    BY <1>6 DEF ReceiveAcquited
  <2> HIDE DEF s
  <2> QED BY <1>3, <2>2, <2>3
<1>7. CASE ReceiveSynchronize(q, p)
  <2> DEFINE x == [type |-> "REQUEST_BLOCK", id |-> LastBlockID(chain[q])]
             s == << [to |-> p, msg |-> x] >>
             from == msg.id + 1
             bs == BlockMessages(p, BlocksFrom(chain[q], from))
  <2>1. Read(q, p) /\ UNCHANGED << proc, chain, file, buffer, events >>
    BY <1>7 DEF ReceiveSynchronize
  <2>2. from \in Nat
    BY <1>2, <1>7 DEF ReceiveSynchronize
  <2>3. CASE Queue(q, bs)
    <3>1. bs \in Seq(Queued)
      BY <1>1, <2>2, BlocksFromType, BlockMessagesType
    <3>2. \A m \in Node : LogInv(m) => \A i \in 1..Len(bs) : Carries(Log(m), bs[i].msg)
      BY <1>4, <2>2
    <3> HIDE DEF bs
    <3> QED BY <1>3, <2>1, <2>3, <3>1, <3>2
  <2>4. CASE Queue(q, s)
    <3>1. x \in Message /\ x.type # "NEW_BLOCK"
      BY <1>1, MessageMakers
    <3>2. s \in Seq(Queued) /\ \A L : \A i \in 1..Len(s) : Carries(L, s[i].msg)
      BY <1>5, <3>1
    <3> HIDE DEF s
    <3> QED BY <1>3, <2>1, <2>4, <3>2
  <2>5. CASE UNCHANGED outbox
    <3>1. \A m \in Node : LogInv(m) =>
            /\ EventsOn(Log(m), events) /\ QueuesOn(Log(m), outbox)
            /\ StreamsOn(Log(m), chan')
      BY <2>1, StreamRead DEF LogInv
    <3> QED BY <2>1, <2>5, <3>1, QueueStep
  <2> QED BY <1>7, <2>3, <2>4, <2>5 DEF ReceiveSynchronize
<1>8. CASE ReceiveRequestBlock(q, p)
  <2> DEFINE bs == BlockMessages(p, BlocksFrom(chain[q], msg.id))
  <2>1. /\ Read(q, p) /\ Queue(q, bs) /\ msg.id \in Nat
        /\ UNCHANGED << proc, chain, file, buffer, events >>
    BY <1>2, <1>8 DEF ReceiveRequestBlock
  <2>2. bs \in Seq(Queued)
    BY <1>1, <2>1, BlocksFromType, BlockMessagesType
  <2>3. \A m \in Node : LogInv(m) => \A i \in 1..Len(bs) : Carries(Log(m), bs[i].msg)
    BY <1>4, <2>1
  <2> HIDE DEF bs
  <2> QED BY <1>3, <2>1, <2>2, <2>3
<1>9. CASE ReceiveNewBlock(q, p)
  BY <1>1, <1>9, NewBlockGood
<1>10. ASSUME NEW t \in Time, ReceiveNewTransaction(q, p, t)
       PROVE  /\ LocalInv'
              /\ \A m \in Node : Masters = {m} /\ LogInv(m) => Good(m)
  BY <1>1, <1>10, NewTransactionGood
<1> QED BY <1>6, <1>7, <1>8, <1>9, <1>10 DEF Receive

\* Every step of every thread is good.
LEMMA NextGood ==
    ASSUME TypeOK, LocalInv, [Next]_vars
    PROVE  /\ LocalInv'
           /\ \A m \in Node : Masters = {m} /\ ~lost' /\ LogInv(m) => Good(m)
<1> DEFINE P == /\ LocalInv'
                /\ \A m \in Node : Masters = {m} /\ ~lost' /\ LogInv(m) => Good(m)
<1>1. ASSUME NEW n \in Node, Load(n) PROVE P
  BY <1>1, LoadGood
<1>2. ASSUME NEW n \in Node, Tick(n) PROVE P
  BY <1>2, TickGood
<1>3. ASSUME NEW n \in Node, Dispatch(n) PROVE P
  BY <1>3, DispatchGood
<1>4. ASSUME NEW n \in Node, Stop(n) \/ Crash(n) PROVE P
  BY <1>4, GoneGood DEF Stop, Crash
<1>5. ASSUME NEW n \in Node, NEW t \in Time, Save(n, t) PROVE P
  BY <1>5, SaveGood
<1>6. ASSUME NEW n \in Node, NEW tx \in Tx, Submit(n, tx) PROVE P
  BY <1>6, SubmitGood
<1>7. ASSUME NEW n \in Node, NEW p \in Node, Receive(n, p) PROVE P
  BY <1>7, ReceiveGood
<1>8. ASSUME NEW c \in Node, NEW s \in Node, Connect(c, s) \/ Greet(c, s) \/ Cut(c, s)
      PROVE  P
  BY <1>8, ConnectionGood
<1>9. ASSUME UNCHANGED vars PROVE P
  <2>1. UNCHANGED << proc, chain, file, buffer, events, outbox, chan >>
    BY <1>9 DEF vars
  <2> QED BY <2>1, QueueStep DEF LogInv
<1>10. \A d \in Dials : d[1] \in Node /\ d[2] \in Node
  BY SyncAssumption
<1> HIDE DEF P
<1>11. ASSUME Next PROVE P
  <2>1. ASSUME \E n \in Node :
                 \/ Load(n) \/ Tick(n) \/ Dispatch(n)
                 \/ Stop(n) \/ Crash(n)
                 \/ \E t \in Time : Save(n, t)
                 \/ \E tx \in Tx : Submit(n, tx)
                 \/ \E p \in Node : Receive(n, p)
        PROVE  P
    BY <2>1, <1>1, <1>2, <1>3, <1>4, <1>5, <1>6, <1>7
  <2>2. ASSUME \E d \in Dials :
               Connect(d[1], d[2]) \/ Greet(d[1], d[2]) \/ Cut(d[1], d[2])
        PROVE  P
    <3> PICK d \in Dials : Connect(d[1], d[2]) \/ Greet(d[1], d[2]) \/ Cut(d[1], d[2])
      BY <2>2
    <3> DEFINE c == d[1]
               s == d[2]
    <3>1. c \in Node /\ s \in Node /\ (Connect(c, s) \/ Greet(c, s) \/ Cut(c, s))
      BY <1>10
    <3> HIDE DEF c, s
    <3> QED BY <3>1, <1>8
  <2> QED BY <1>11, <2>1, <2>2 DEF Next
<1>12. P
  BY <1>9, <1>11
<1> QED BY <1>12 DEF P

\* Blocks that are lost stay lost.
LEMMA LostStays ==
    ASSUME TypeOK, [Next]_vars
    PROVE  lost => lost'
<1>1. ASSUME NEW n \in Node, Gone(n) PROVE lost => lost'
  BY <1>1 DEF Gone, TypeOK
<1>2. ASSUME NEW n \in Node, NEW p \in Node, Receive(n, p) PROVE lost => lost'
  <2>1. CASE UNCHANGED lost
    BY <2>1
  <2>2. CASE Gone(n)
    BY <2>2, <1>1
  <2>3. UNCHANGED lost \/ Gone(n)
    BY <1>2 DEF Receive, ReceiveAcquited, ReceiveSynchronize, ReceiveRequestBlock,
                ReceiveNewBlock, ReceiveNewTransaction
  <2> QED BY <2>1, <2>2, <2>3
<1>3. ASSUME NEW n \in Node, Load(n) \/ Tick(n) \/ Dispatch(n) PROVE lost => lost'
  BY <1>3 DEF Load, Tick, Dispatch
<1>4. ASSUME NEW n \in Node, NEW t \in Time, Save(n, t) PROVE lost => lost'
  BY <1>4 DEF Save
<1>5. ASSUME NEW n \in Node, NEW tx \in Tx, Submit(n, tx) PROVE lost => lost'
  BY <1>5 DEF Submit
<1>6. ASSUME NEW d \in Dials, Connect(d[1], d[2]) \/ Greet(d[1], d[2]) \/ Cut(d[1], d[2])
      PROVE  lost => lost'
  BY <1>6 DEF Connect, Greet, Cut
<1>7. CASE UNCHANGED vars
  BY <1>7 DEF vars
<1>8. CASE Next
  BY <1>1, <1>2, <1>3, <1>4, <1>5, <1>6, <1>8 DEF Next, Stop, Crash
<1> QED BY <1>7, <1>8

LEMMA InitIInv ==
    ASSUME OneMaster, GenuineStart, Init
    PROVE  IInv
<1>1. TypeOK
  BY InitTypeOK
<1>2. LocalInv
  BY DEF Init, LocalInv, Up, GenuineStart, OneMaster
<1>3. ASSUME NEW m \in Masters PROVE LogInv(m)
  <2>1. m \in Node /\ Log(m) = StartFile[m] /\ StartFile[m] \in Seq(Block)
    BY SyncAssumption DEF Log, Up, Init
  <2> DEFINE L == StartFile[m]
  <2>2. Rooted(L) /\ Verify(Reloaded(L)) /\ \A n \in Node : IsPrefix(StartFile[n], L)
    BY DEF GenuineStart
  <2> HIDE DEF L
  <2>3. L \in Seq(Block)
    BY <2>1 DEF L
  <2>4. Sound(L)
    BY <2>2, <2>3, RootedReload DEF Sound
  <2>5. ChainsOn(L, file)
    BY <2>2 DEF Init, ChainsOn
  <2>6. ChainsOn(L, chain)
    <3> DEFINE e == << >>
    <3>1. e \in Seq(Block) /\ Len(e) = 0 /\ Len(L) \in Nat
      BY <2>3
    <3> HIDE DEF e
    <3>2. Len(e) <= Len(L) /\ \A i \in 1..Len(e) : e[i] = L[i]
      BY <3>1
    <3>3. IsPrefix(e, L)
      BY <2>3, <3>1, <3>2, PrefixFacts
    <3> QED BY <3>3 DEF e, Init, ChainsOn
  <2>7. EventsOn(L, events) /\ QueuesOn(L, outbox) /\ StreamsOn(L, chan)
    <3>1. \A i \in 1..Len(<< >>) : FALSE
      OBVIOUS
    <3> QED BY <3>1 DEF Init, EventsOn, QueuesOn, StreamsOn
  <2> QED BY <2>1, <2>4, <2>5, <2>6, <2>7 DEF LogInv, L
<1> QED BY <1>1, <1>2, <1>3 DEF IInv

LEMMA NextIInv ==
    ASSUME OneMaster, IInv, [Next]_vars
    PROVE  IInv'
<1>1. TypeOK'
  BY NextTypeOK DEF IInv
<1>2. LocalInv'
  BY NextGood DEF IInv
<1>3. lost => lost'
  BY LostStays DEF IInv
<1>4. ASSUME ~lost', NEW m \in Masters PROVE LogInv(m)'
  <2>1. m \in Node /\ Masters = {m} /\ LogInv(m)
    BY <1>3, <1>4 DEF OneMaster, IInv
  <2> QED BY <1>4, <2>1, NextGood DEF Good, IInv
<1> QED BY <1>1, <1>2, <1>4 DEF IInv

\* With one masternode whose file loads, and every file a part of its file
\* at first, no process and no file ever holds a block the masternode's chain
\* does not hold at the same place, until the masternode ends with blocks its
\* file lacks (masternode/application.cpp:136-237, wallet/application.cpp:
\* 199-308, blockchain.cpp:95-118): for every network, every queue and every
\* loss, repetition and reordering the connections allow.
THEOREM ReplicasFollow == OneMaster /\ GenuineStart /\ Spec => []ReplicasArePrefixes
<1>1. OneMaster /\ GenuineStart /\ Init => IInv
  BY InitIInv
<1>2. OneMaster /\ IInv /\ [Next]_vars => IInv'
  BY NextIInv
<1>3. IInv => ReplicasArePrefixes
  BY DEF IInv, ReplicasArePrefixes, LogInv, ChainsOn
<1>4. SUFFICES ASSUME OneMaster, GenuineStart PROVE Spec => []ReplicasArePrefixes
  OBVIOUS
<1>5. Init => IInv
  BY <1>1, <1>4
<1>6. IInv /\ [Next]_vars => IInv'
  BY <1>2, <1>4
<1> QED BY <1>3, <1>5, <1>6, PTL DEF Spec

(***************************************************************************)
(* The refinement of ReplicatedLedger.                                     *)
(***************************************************************************)
LEMMA MasterIsTheMaster ==
    ASSUME NEW m \in Node, Masters = {m}
    PROVE  TheMaster = m
BY DEF TheMaster

LEMMA AbstractInit ==
    ASSUME OneMaster, GenuineStart, Init
    PROVE  Abstract!Init
<1>1. PICK m \in Node : Masters = {m}
  BY DEF OneMaster
<1>2. Log(TheMaster) = StartFile[m]
  BY <1>1, MasterIsTheMaster DEF Init, Log, Up
<1>3. StartFile[m] \in Seq(Block) /\ StartFile[m] # << >>
  BY <1>1, SyncAssumption DEF GenuineStart
<1>4. [n \in Node \ Masters |-> chain[n]] = [n \in Node \ Masters |-> << >>]
  BY DEF Init
<1>5. lost = FALSE
  BY DEF Init
<1> QED BY <1>2, <1>3, <1>4, <1>5 DEF Abstract!Init

\* A step that moves the log or one chain is a step of the abstract ledger.
LEMMA MovesRefine ==
    ASSUME NEW m \in Node, Masters = {m}, TypeOK, TypeOK', Moves(m), ~lost, ~lost'
    PROVE  [Abstract!Next]_(Abstract!vars)
<1> DEFINE R == Node \ Masters
           rep == [n \in R |-> chain[n]]
           L == Log(m)
<1>1. TheMaster = m /\ L \in Seq(Block) /\ L' \in Seq(Block)
  <2>1. L' \in Seq(Block)
    BY DEF TypeOK, Log
  <2> QED BY <2>1, MasterIsTheMaster, LogType
<1>2. CASE Stays(m)
  <2>1. L' = L /\ rep' = rep
    BY <1>2 DEF Stays
  <2>2. lost' = lost
    BY DEF TypeOK
  <2> HIDE DEF L
  <2> QED BY <1>1, <2>1, <2>2 DEF Abstract!vars, L
<1>3. CASE LogMoves(m)
  <2>1. rep' = rep
    BY <1>3 DEF LogMoves
  <2>2. PICK b \in Block : L' = Append(L, b)
    BY <1>3 DEF LogMoves
  <2>3. IsPrefix(L, L') /\ Len(L') = Len(L) + 1
    <3>1. IsPrefix(L, Append(L, b))
      <4> HIDE DEF L
      <4> QED BY <1>1, PrefixFacts
    <3> QED BY <1>1, <2>2, <3>1
  <2>4. Abstract!IsPrefix(L, L')
    BY <2>3 DEF Abstract!IsPrefix, IsPrefix
  <2>5. Abstract!Extend
    BY <1>1, <2>1, <2>3, <2>4 DEF Abstract!Extend
  <2> QED BY <2>5 DEF Abstract!Next, Abstract!Step
<1>4. ASSUME NEW w \in Node \ {m}, ChainMoves(m, w) PROVE [Abstract!Next]_(Abstract!vars)
  <2>1. w \in R /\ L' = L /\ rep[w] = chain[w] /\ rep'[w] = chain'[w]
    BY <1>4 DEF ChainMoves
  <2>2. rep' = [rep EXCEPT ![w] = chain'[w]]
    BY <1>4 DEF ChainMoves
  <2>3. CASE chain'[w] = << >>
    <3>1. Abstract!Drop(w)
      BY <1>1, <2>1, <2>2, <2>3 DEF Abstract!Drop
    <3> QED BY <2>1, <3>1 DEF Abstract!Next, Abstract!Step
  <2>4. CASE chain[w] = << >> /\ IsPrefix(chain'[w], L)
    <3> DEFINE c == chain'[w]
               k == Len(c)
    <3>1. c \in Seq(Block)
      BY DEF TypeOK
    <3>2. k \in 0..Len(L) /\ c = SubSeq(L, 1, k)
      <4> HIDE DEF L, c
      <4>1. k \in Nat /\ k <= Len(L) /\ \A i \in 1..k : c[i] = L[i]
        BY <1>1, <2>4, <3>1, PrefixFacts DEF c
      <4>2. SubSeq(L, 1, k) \in Seq(Block) /\ Len(SubSeq(L, 1, k)) = k
            /\ \A i \in 1..k : SubSeq(L, 1, k)[i] = L[i]
        BY <1>1, <4>1
      <4>3. c = SubSeq(L, 1, k)
        BY <3>1, <4>1, <4>2
      <4> QED BY <1>1, <4>1, <4>3
    <3> HIDE DEF k
    <3>3. Abstract!Restore(w)
      BY <1>1, <2>1, <2>2, <2>4, <3>2 DEF Abstract!Restore
    <3> QED BY <2>1, <3>3 DEF Abstract!Next, Abstract!Step
  <2>5. CASE /\ Len(chain[w]) < Len(L)
             /\ chain'[w] = Append(chain[w], L[Len(chain[w]) + 1])
    <3>1. Abstract!Copy(w)
      BY <1>1, <2>1, <2>2, <2>5 DEF Abstract!Copy
    <3> QED BY <2>1, <3>1 DEF Abstract!Next, Abstract!Step
  <2> QED BY <1>4, <2>3, <2>4, <2>5 DEF ChainMoves
<1> QED BY <1>2, <1>3, <1>4 DEF Moves

LEMMA StepsRefine ==
    ASSUME OneMaster, IInv, [Next]_vars
    PROVE  [Abstract!Next]_(Abstract!vars)
<1>1. PICK m \in Node : Masters = {m}
  BY DEF OneMaster
<1>2. TypeOK /\ TypeOK' /\ LocalInv
  BY NextTypeOK DEF IInv
<1>3. CASE lost'
  BY <1>3 DEF Abstract!Next
<1>4. CASE ~lost'
  <2>1. ~lost
    BY <1>2, <1>4, LostStays
  <2>2. Moves(m)
    BY <1>1, <1>2, <1>4, <2>1, NextGood DEF IInv, Good
  <2> QED BY <1>1, <1>2, <1>4, <2>1, <2>2, MovesRefine
<1> QED BY <1>3, <1>4

\* Under the same assumptions the processes implement ReplicatedLedger:
\* whatever threads, streams and restarts do, what can be seen of the chains
\* is one log that its masternode extends and replicas that copy its next
\* block, start from a part of it, or end (application.cpp of both programs,
\* blockchain.cpp:95-118), until the log is damaged.
THEOREM NetworkImplementsLedger ==
    OneMaster /\ GenuineStart /\ Spec => ReplicatesTheLog
<1> SUFFICES ASSUME OneMaster, GenuineStart PROVE Spec => ReplicatesTheLog
  OBVIOUS
<1>1. Init => IInv /\ Abstract!Init
  BY InitIInv, AbstractInit
<1>2. IInv /\ [Next]_vars => IInv'
  BY NextIInv
<1>3. IInv /\ [Next]_vars => [Abstract!Next]_(Abstract!vars)
  BY StepsRefine
<1> QED BY <1>1, <1>2, <1>3, PTL DEF Spec, ReplicatesTheLog, Abstract!Spec

-----------------------------------------------------------------------------
(***************************************************************************)
(* The balances (module Balance).                                          *)
(***************************************************************************)

\* The elements of a sequence with an element appended, and of one element.
LEMMA RangeAppend ==
    ASSUME NEW S, NEW r \in Seq(S), NEW x \in S
    PROVE  Range(Append(r, x)) = Range(r) \union {x}
<1>1. /\ DOMAIN Append(r, x) = 1..(Len(r) + 1) /\ Len(r) \in Nat /\ DOMAIN r = 1..Len(r)
      /\ \A i \in 1..Len(r) : Append(r, x)[i] = r[i]
      /\ Append(r, x)[Len(r) + 1] = x
  OBVIOUS
<1>2. 1..(Len(r) + 1) = 1..Len(r) \union {Len(r) + 1}
  BY <1>1
<1> QED BY <1>1, <1>2 DEF Range

LEMMA RangeSingle == Range(<< >>) = {} /\ \A x : Range(<< x >>) = {x}
<1>1. DOMAIN << >> = {} /\ \A x : DOMAIN << x >> = {1} /\ << x >>[1] = x
  OBVIOUS
<1> QED BY <1>1 DEF Range

\* The elements of two sequences in one.
LEMMA RangeConcat ==
    ASSUME NEW S, NEW r \in Seq(S), NEW s \in Seq(S)
    PROVE  Range(r \o s) = Range(r) \union Range(s)
<1> DEFINE u == r \o s
<1>1. /\ DOMAIN u = 1..(Len(r) + Len(s)) /\ Len(r) \in Nat /\ Len(s) \in Nat
      /\ DOMAIN r = 1..Len(r) /\ DOMAIN s = 1..Len(s)
      /\ \A i \in 1..Len(r) : u[i] = r[i]
      /\ \A i \in 1..Len(s) : u[Len(r) + i] = s[i]
  OBVIOUS
<1> HIDE DEF u
<1>2. ASSUME NEW y \in Range(u) PROVE y \in Range(r) \union Range(s)
  <2>1. PICK i \in 1..(Len(r) + Len(s)) : y = u[i]
    BY <1>1 DEF Range
  <2>2. CASE i \in 1..Len(r)
    BY <1>1, <2>1, <2>2 DEF Range
  <2>3. CASE i \notin 1..Len(r)
    <3>1. i - Len(r) \in 1..Len(s) /\ i = Len(r) + (i - Len(r))
      BY <1>1, <2>1, <2>3
    <3>2. y = s[i - Len(r)]
      BY <1>1, <2>1, <3>1
    <3> QED BY <1>1, <3>1, <3>2 DEF Range
  <2> QED BY <2>2, <2>3
<1>3. ASSUME NEW y \in Range(r) PROVE y \in Range(u)
  <2>1. PICK i \in 1..Len(r) : y = r[i]
    BY <1>1 DEF Range
  <2>2. i \in 1..(Len(r) + Len(s)) /\ u[i] = y
    BY <1>1, <2>1
  <2> QED BY <1>1, <2>2 DEF Range
<1>4. ASSUME NEW y \in Range(s) PROVE y \in Range(u)
  <2>1. PICK i \in 1..Len(s) : y = s[i]
    BY <1>1 DEF Range
  <2>2. Len(r) + i \in 1..(Len(r) + Len(s)) /\ u[Len(r) + i] = y
    BY <1>1, <2>1
  <2> QED BY <1>1, <2>2 DEF Range
<1> QED BY <1>2, <1>3, <1>4 DEF u

\* A chain with one block more pays what it paid, and that block if it pays.
LEMMA PayingAppend ==
    ASSUME NEW c \in Seq(Block), NEW b \in Block, Paying(c) \in Seq(Block)
    PROVE  /\ Paying(Append(c, b)) \in Seq(Block)
           /\ Range(Paying(Append(c, b))) = Range(Paying(c)) \union {x \in {b} : Counts(x)}
<1> DEFINE T == Seq(Block)
           One(x) == IF Counts(x) THEN << x >> ELSE << >>
           s == [i \in 1..Len(c) |-> One(c[i])]
           l == Append(c, b)
<1>1. /\ Len(l) = Len(c) + 1 /\ l[Len(c) + 1] = b /\ \A i \in 1..Len(c) : l[i] = c[i]
      /\ Len(c) \in Nat
  OBVIOUS
<1>2. One(b) \in T /\ \A i \in 1..Len(c) : One(c[i]) \in T
  <2>1. \A x \in Block : One(x) \in T
    OBVIOUS
  <2> HIDE DEF T, One
  <2>2. \A i \in 1..Len(c) : c[i] \in Block
    OBVIOUS
  <2> QED BY <2>1, <2>2
<1>3. Range(One(b)) = {x \in {b} : Counts(x)}
  <2>1. Range(<< b >>) = {b} /\ Range(<< >>) = {}
    BY RangeSingle
  <2> QED BY <2>1
<1>4. Paying(c) = FlattenSeq(s) /\ Paying(l) = FlattenSeq([i \in 1..Len(l) |-> One(l[i])])
  BY DEF Paying
<1> HIDE DEF T, One
<1>5. s \in Seq(T) /\ Len(s) = Len(c)
  BY <1>1, <1>2
<1> HIDE DEF l
<1>6. [i \in 1..Len(l) |-> One(l[i])] = Append(s, One(b))
  BY <1>1, <1>2, <1>5
<1> HIDE DEF s
<1>7. FlattenSeq(s) \in Seq(Block) /\ FlattenSeq(Append(s, One(b))) = FlattenSeq(s) \o One(b)
  BY <1>2, <1>5, FlattenType, FlattenAppend DEF T
<1>8. Paying(l) = Paying(c) \o One(b) /\ One(b) \in Seq(Block)
  BY <1>2, <1>4, <1>6, <1>7 DEF T
<1>9. Range(Paying(l)) = Range(Paying(c)) \union Range(One(b)) /\ Paying(l) \in Seq(Block)
  BY <1>8, RangeConcat, ConcatFacts
<1> QED BY <1>3, <1>9 DEF l

\* What a chain pays: its blocks with transactions.
LEMMA PayingFacts ==
    ASSUME NEW c \in Seq(Block)
    PROVE  /\ Paying(c) \in Seq(Block)
           /\ Range(Paying(c)) = {b \in Range(c) : Counts(b)}
<1> DEFINE T == Seq(Block)
           Pays(d) == /\ Paying(d) \in Seq(Block)
                      /\ Range(Paying(d)) = {b \in Range(d) : Counts(b)}
           B == {k \in Nat : \E d \in T : Len(d) = k /\ ~Pays(d)}
<1>1. Pays(<< >>)
  <2>1. << >> \in T /\ Len(<< >>) = 0 /\ Range(<< >>) = {}
    BY DEF Range
  <2>2. [i \in 1..0 |-> IF Counts(<< >>[i]) THEN << << >>[i] >> ELSE << >>] = << >>
    OBVIOUS
  <2>3. Paying(<< >>) = << >>
    BY <2>1, <2>2, FlattenEmpty DEF Paying
  <2> QED BY <2>1, <2>3
<1>2. ASSUME NEW r \in T, NEW x \in Block, Pays(r)
      PROVE  Pays(Append(r, x))
  <2>1. Range(Append(r, x)) = Range(r) \union {x}
    BY RangeAppend
  <2> QED BY <1>2, <2>1, PayingAppend
<1> HIDE DEF Pays
<1>3. B = {}
  <2> SUFFICES ASSUME B # {} PROVE FALSE
    OBVIOUS
  <2>1. PICK k \in B : \A j \in B : k <= j
    <3> HIDE DEF B
    <3>1. B \in SUBSET Nat
      BY DEF B
    <3> QED BY <3>1, LeastNatural
  <2>2. PICK d \in T : Len(d) = k /\ ~Pays(d)
    BY <2>1
  <2>3. d # << >>
    BY <1>1, <2>2
  <2>4. PICK r \in T, x \in Block : d = Append(r, x) /\ Len(d) = Len(r) + 1
    BY <2>3, FrontFacts
  <2>5. Len(r) \in Nat /\ ~(k <= Len(r))
    BY <2>2, <2>4
  <2>6. Pays(r)
    BY <2>1, <2>5
  <2> QED BY <1>2, <2>2, <2>4, <2>6
<1>4. Len(c) \in Nat
  OBVIOUS
<1>5. Pays(c)
  BY <1>3, <1>4
<1> QED BY <1>5 DEF Pays

-----------------------------------------------------------------------------
(***************************************************************************)
(* Numbered logs.  A block is ignored for its number, so the balances are  *)
(* about files whose blocks are numbered by their positions, as createBlock*)
(* numbers them.                                                           *)
(***************************************************************************)
Numbered(L) == \A i \in 1..Len(L) : L[i].idx = i - 1
NumberedStart == \A m \in Masters : Numbered(StartFile[m])

LEMMA NumberedAppend ==
    ASSUME NEW c \in Seq(Block), NEW t \in Time, NEW d \in Seq(Tx), Numbered(c)
    PROVE  Numbered(Append(c, NewBlock(c, t, d)))
<1> DEFINE b == NewBlock(c, t, d)
           l == Append(c, b)
<1>1. b.idx = IF c = << >> THEN 0 ELSE LastBlockID(c) + 1
  BY DEF NewBlock
<1>2. b.idx = Len(c)
  <2>1. CASE c = << >>
    BY <1>1, <2>1
  <2>2. CASE c # << >>
    <3>1. Len(c) \in 1..Len(c) /\ Len(c) \in Nat
      BY <2>2
    <3>2. LastBlockID(c) = Len(c) - 1
      BY <2>2, <3>1 DEF LastBlockID, Numbered
    <3> QED BY <1>1, <2>2, <3>1, <3>2
  <2> QED BY <2>1, <2>2
<1>3. /\ Len(l) = Len(c) + 1 /\ l[Len(c) + 1] = b /\ \A i \in 1..Len(c) : l[i] = c[i]
      /\ Len(c) \in Nat
  OBVIOUS
<1> HIDE DEF b, l
<1>4. ASSUME NEW i \in 1..Len(l) PROVE l[i].idx = i - 1
  <2>1. i \in 1..Len(c) \/ i = Len(c) + 1
    BY <1>3
  <2> QED BY <1>2, <1>3, <2>1 DEF Numbered
<1> QED BY <1>4 DEF Numbered, l, b

LEMMA RequestedNumbered ==
    ASSUME NEW c \in Seq(Block), NEW buf \in Seq(Tx), NEW tx \in Tx,
           NEW force \in BOOLEAN, NEW t \in Time, Numbered(c)
    PROVE  Numbered(Requested(c, buf, tx, force, t).chain)
<1> DEFINE full == Append(buf, tx)
           b == NewBlock(c, t, Taken(full))
<1>0. full \in Seq(Tx)
  OBVIOUS
<1>1. Taken(full) \in Seq(Tx)
  BY <1>0, SplitBuffer
<1>2. Numbered(Append(c, b))
  BY <1>1, NumberedAppend
<1>3. CASE BlockDue(full, force)
  <2>1. Requested(c, buf, tx, force, t)
          = [chain |-> Append(c, b), buf |-> Left(full), made |-> << b >>]
    BY <1>3 DEF Requested
  <2> HIDE DEF b, full
  <2> QED BY <1>2, <2>1
<1>4. CASE ~BlockDue(full, force)
  BY <1>4 DEF Requested
<1> QED BY <1>3, <1>4

LEMMA FlushedNumbered ==
    ASSUME NEW c \in Seq(Block), NEW buf \in Seq(Tx), NEW t \in Time, Numbered(c)
    PROVE  Numbered(Flushed(c, buf, t).chain)
<1>1. CASE buf = << >>
  BY <1>1 DEF Flushed
<1>2. CASE buf # << >>
  <2>1. Tail(buf) \in Seq(Tx) /\ Head(buf) \in Tx
    BY <1>2
  <2>2. Flushed(c, buf, t) = Requested(c, Tail(buf), Head(buf), TRUE, t)
    BY <1>2 DEF Flushed
  <2> QED BY <2>1, <2>2, RequestedNumbered
<1> QED BY <1>1, <1>2

\* Who asks whether a block is known by its number finds it on the chain.
LEMMA KnownIsThere ==
    ASSUME NEW c \in Seq(Block), NEW L \in Seq(Block), IsPrefix(c, L), Numbered(L),
           NEW j \in 1..Len(L), Known(c, L[j])
    PROVE  L[j] \in Range(c)
<1>1. Len(c) <= Len(L) /\ \A i \in 1..Len(c) : c[i] = L[i]
  BY PrefixFacts
<1>2. Len(c) \in 1..Len(c) /\ Len(c) \in Nat /\ Len(L) \in Nat
  BY DEF Known
<1>3. LastBlockID(c) = Len(c) - 1
  BY <1>1, <1>2 DEF LastBlockID, Known, Numbered
<1>4. j - 1 <= Len(c) - 1
  BY <1>3 DEF Known, Numbered
<1>5. j \in 1..Len(c) /\ L[j] = c[j]
  BY <1>1, <1>2, <1>4
<1> QED BY <1>5 DEF Range

\* The log stays numbered: only the masternode adds to it.
LEMMA LogNumbered ==
    ASSUME TypeOK, LocalInv, [Next]_vars, ~lost',
           NEW m \in Node, Masters = {m}, LogInv(m), Numbered(Log(m))
    PROVE  Numbered(Log(m)')
<1> DEFINE L == Log(m)
<1>1. /\ L \in Seq(Block) /\ Sound(L) /\ ChainsOn(L, chain) /\ ChainsOn(L, file)
      /\ StreamsOn(L, chan)
  BY LogType DEF LogInv
<1>2. ASSUME proc'[m] = proc[m], chain'[m] = chain[m], file'[m] = file[m]
      PROVE  Numbered(Log(m)')
  BY <1>2, LogSame
<1>3. ASSUME NEW n \in Node, Load(n) PROVE Numbered(Log(m)')
  <2>1. CASE n # m
    BY <1>2, <1>3, <2>1 DEF Load, TypeOK
  <2>2. CASE n = m
    <3>1. L = file[m] /\ Log(m)' = Reloaded(file[m])
      BY <1>3, <2>2 DEF Load, Log, Up, TypeOK
    <3>2. Reloaded(L) = L
      BY <1>1, ReloadedType DEF Sound
    <3> QED BY <3>1, <3>2
  <2> QED BY <2>1, <2>2
<1>4. ASSUME NEW n \in Node, Gone(n) PROVE Numbered(Log(m)')
  <2>1. CASE n # m
    BY <1>2, <1>4, <2>1 DEF Gone, TypeOK
  <2>2. CASE n = m
    <3>1. chain[m] = file[m] /\ Log(m)' = file[m]
      BY <1>4, <2>2 DEF Gone, Log, Up, TypeOK
    <3> QED BY <3>1 DEF Log
  <2> QED BY <2>1, <2>2
<1>5. ASSUME NEW n \in Node, NEW t \in Time, Save(n, t) PROVE Numbered(Log(m)')
  <2> DEFINE K == Flushed(chain[n], buffer[n], t).chain
  <2>1. /\ proc[n] = "up" /\ proc' = [proc EXCEPT ![n] = "saved"]
        /\ chain' = [chain EXCEPT ![n] = K] /\ file' = [file EXCEPT ![n] = K]
    BY <1>5 DEF Save
  <2>2. CASE n # m
    BY <1>2, <2>1, <2>2 DEF TypeOK
  <2>3. CASE n = m
    <3>1. L = chain[m]
      BY <2>1, <2>3 DEF Log, Up
    <3>2. Numbered(K)
      BY <2>3, <3>1, FlushedNumbered DEF TypeOK
    <3> HIDE DEF K
    <3>3. Log(m)' = K
      BY <2>1, <2>3 DEF Log, Up, TypeOK
    <3> QED BY <3>2, <3>3
  <2> QED BY <2>2, <2>3
<1>6. ASSUME NEW q \in Node, NEW p \in Node, NEW t \in Time,
             Up(q), chan[p][q] # << >>, ReceiveNewTransaction(q, p, t)
      PROVE  Numbered(Log(m)')
  <2> DEFINE msg == Head(chan[p][q])
             K == Requested(chain[q], buffer[q], msg.tx, FALSE, t).chain
  <2>1. UNCHANGED << proc, file >> /\ (UNCHANGED chain \/ chain' = [chain EXCEPT ![q] = K])
    BY <1>6 DEF ReceiveNewTransaction
  <2>2. CASE q # m \/ UNCHANGED chain
    BY <1>2, <2>1, <2>2 DEF TypeOK
  <2>3. CASE q = m /\ chain' = [chain EXCEPT ![q] = K]
    <3>1. msg.tx \in Tx
      <4>0. chan[p][q] \in Seq(Message)
        BY DEF TypeOK
      <4>1. msg \in Message
        BY <1>6, <4>0
      <4> QED BY <1>6, <4>1, MessageParts DEF ReceiveNewTransaction
    <3>2. L = chain[m]
      BY <1>6, <2>3 DEF Log
    <3>3. Numbered(K)
      BY <2>3, <3>1, <3>2, RequestedNumbered DEF TypeOK
    <3> HIDE DEF K
    <3>4. Log(m)' = K
      BY <1>6, <2>1, <2>3 DEF Log, Up, TypeOK
    <3> QED BY <3>3, <3>4
  <2> QED BY <2>1, <2>2, <2>3
<1>7. ASSUME NEW q \in Node, NEW p \in Node,
             Up(q), chan[p][q] # << >>, ReceiveNewBlock(q, p)
      PROVE  Numbered(Log(m)')
  <2>1. CASE Gone(q)
    BY <1>4, <2>1
  <2>2. CASE q # m /\ ~Gone(q)
    <3>1. UNCHANGED << proc, file >> /\ chain'[m] = chain[m]
      BY <1>7, <2>2 DEF ReceiveNewBlock, local, TypeOK
    <3> QED BY <1>2, <3>1
  <2>3. CASE q = m /\ ~Gone(q)
    <3> DEFINE blk == Reparse(Head(chan[p][q]).blk)
    <3>1. Head(chan[p][q]) \in Message /\ Head(chan[p][q]).type = "NEW_BLOCK"
      <4>1. chan[p][q] \in Seq(Message)
        BY DEF TypeOK
      <4> QED BY <1>7, <4>1 DEF ReceiveNewBlock
    <3>2. Head(chan[p][q]).blk \in Block /\ In(L, Head(chan[p][q]).blk)
      BY <1>1, <1>7, <3>1, MessageParts, HeadsCarry DEF Carries
    <3>3. blk \in Block /\ In(L, blk)
      BY <1>1, <3>2, LogReparse
    <3>4. PICK j \in 1..Len(L) : L[j] = blk
      BY <3>3 DEF In
    <3>5. L = chain[m] /\ L # << >>
      BY <1>7, <2>3 DEF Log, LocalInv
    <3>6. Known(chain[q], blk)
      <4>1. LastBlockID(L) = Len(L) - 1 /\ blk.idx = j - 1 /\ Len(L) \in Nat
        BY <1>1, <3>4, <3>5 DEF LastBlockID, Numbered
      <4> QED BY <2>3, <3>4, <3>5, <4>1 DEF Known
    <3>7. UNCHANGED << proc, chain, file >>
      BY <1>7, <2>3, <3>6 DEF ReceiveNewBlock, local
    <3> QED BY <1>2, <3>7
  <2> QED BY <2>1, <2>2, <2>3
<1>8. ASSUME NEW n \in Node, NEW p \in Node, Receive(n, p) PROVE Numbered(Log(m)')
  <2>1. Up(n) /\ chan[p][n] # << >>
    BY <1>8 DEF Receive
  <2>2. CASE ReceiveAcquited(n, p) \/ ReceiveSynchronize(n, p) \/ ReceiveRequestBlock(n, p)
    <3>1. UNCHANGED << proc, chain, file >>
      BY <2>2 DEF ReceiveAcquited, ReceiveSynchronize, ReceiveRequestBlock
    <3> QED BY <1>2, <3>1
  <2> QED BY <1>6, <1>7, <1>8, <2>1, <2>2 DEF Receive
<1>9. ASSUME UNCHANGED << proc, chain, file >> PROVE Numbered(Log(m)')
  BY <1>2, <1>9
<1>10. ASSUME NEW n \in Node, Tick(n) \/ Dispatch(n) \/ \E tx \in Tx : Submit(n, tx)
       PROVE  Numbered(Log(m)')
  BY <1>9, <1>10 DEF Tick, Dispatch, Submit
<1>11. ASSUME NEW d \in Dials, Connect(d[1], d[2]) \/ Greet(d[1], d[2]) \/ Cut(d[1], d[2])
       PROVE  Numbered(Log(m)')
  BY <1>9, <1>11 DEF Connect, Greet, Cut, local
<1>12. CASE UNCHANGED vars
  BY <1>9, <1>12 DEF vars
<1> QED BY <1>3, <1>4, <1>5, <1>8, <1>10, <1>11, <1>12 DEF Next, Stop, Crash

-----------------------------------------------------------------------------
(***************************************************************************)
(* What a wallet that handles a block has in hand, and what the other      *)
(* steps leave it.                                                         *)
(***************************************************************************)
InHand(w, b) == \E p \in Node : << w, p >> \in handling /\ b = Reparse(Head(chan[p][w]).blk)

\* The balance of w covers its chain, and nothing but that and the block in
\* hand, which it covers already.
Covers(w) ==
    /\ Range(Paying(chain[w])) \subseteq Range(counted[w])
    /\ \A b \in Range(counted[w]) : b \in Range(chain[w]) \/ InHand(w, b)
    /\ \A b : InHand(w, b) /\ Counts(b) => b \in Range(counted[w])

\* A thread that handles a block has it at the head of a stream, and has one.
Hands ==
    /\ \A h \in handling :
        /\ Up(h[1]) /\ chan[h[2]][h[1]] # << >>
        /\ Head(chan[h[2]][h[1]]).type = "NEW_BLOCK"
    /\ \A g, h \in handling : g[1] = h[1] => g = h

\* What was the oldest message from p to q, and was not read, still is.
HeadStays(p, q) ==
    chan[p][q] # << >> /\ chan'[p][q] # << >> => Head(chan'[p][q]) = Head(chan[p][q])

\* Only the network thread of q takes messages from the streams to q.
LEMMA HeadsStay ==
    ASSUME TypeOK, NEW q \in Node, NEW p \in Node,
           \/ \E n \in Node : Load(n) \/ Tick(n) \/ Dispatch(n) \/ Gone(n)
           \/ \E n \in Node : \E t \in Time : Save(n, t)
           \/ \E n \in Node : \E tx \in Tx : Submit(n, tx)
           \/ \E d \in Dials : Connect(d[1], d[2]) \/ Greet(d[1], d[2]) \/ Cut(d[1], d[2])
           \/ \E n, r \in Node : n # q /\ Receive(n, r)
    PROVE  HeadStays(p, q)
<1> USE DEF HeadStays
<1>0. chan \in [Node -> [Node -> Seq(Message)]] /\ chan[p][q] \in Seq(Message)
  BY DEF TypeOK
<1>1. CASE UNCHANGED chan
  BY <1>1
<1>2. ASSUME NEW n \in Node, Load(n) \/ Dispatch(n) \/ (\E t \in Time : Save(n, t))
                             \/ (\E tx \in Tx : Submit(n, tx))
      PROVE  HeadStays(p, q)
  BY <1>1, <1>2 DEF Load, Dispatch, Save, Submit, net
<1>3. ASSUME NEW n \in Node, Gone(n) PROVE HeadStays(p, q)
  BY <1>3 DEF Gone
<1>4. ASSUME NEW n \in Node, Tick(n) PROVE HeadStays(p, q)
  <2> DEFINE msg == Head(outbox[n]).msg
             to == Head(outbox[n]).to
  <2>1. msg \in Message /\ to \in Node \union {Everyone}
    <3>1. outbox[n] \in Seq(Queued) /\ outbox[n] # << >>
      BY <1>4 DEF Tick, TypeOK
    <3>2. Head(outbox[n]) \in Queued
      BY <3>1
    <3> QED BY <3>2 DEF Queued
  <2>2. \/ chan' = [chan EXCEPT ![n] = [x \in Node |->
                        IF Open(n, x) THEN Append(@[x], msg) ELSE @[x]]]
        \/ to # Everyone /\ chan' = [chan EXCEPT ![n][to] = Append(@, msg)]
        \/ UNCHANGED chan
    BY <1>4 DEF Tick
  <2> HIDE DEF msg, to
  <2>3. chan'[p][q] = chan[p][q] \/ chan'[p][q] = Append(chan[p][q], msg)
    <3>1. CASE chan' = [chan EXCEPT ![n] = [x \in Node |->
                            IF Open(n, x) THEN Append(@[x], msg) ELSE @[x]]]
      BY <1>0, <3>1
    <3>2. CASE to # Everyone /\ chan' = [chan EXCEPT ![n][to] = Append(@, msg)]
      BY <1>0, <2>1, <3>2
    <3> QED BY <2>2, <3>1, <3>2
  <2>4. chan[p][q] # << >> => Head(Append(chan[p][q], msg)) = Head(chan[p][q])
    BY <1>0, <2>1
  <2> QED BY <2>3, <2>4
<1>5. ASSUME NEW d \in Dials, Connect(d[1], d[2]) \/ Greet(d[1], d[2]) \/ Cut(d[1], d[2])
      PROVE  HeadStays(p, q)
  <2>1. d[1] \in Node /\ d[2] \in Node
    BY SyncAssumption
  <2>2. CASE Connect(d[1], d[2])
    BY <2>2 DEF Connect
  <2>3. CASE Greet(d[1], d[2])
    <3> DEFINE msg == [type |-> "ACQUITED"]
    <3>1. msg \in Message /\ chan' = [chan EXCEPT ![d[1]][d[2]] = Append(@, msg)]
      BY <2>3, MessageMakers DEF Greet
    <3> HIDE DEF msg
    <3>2. chan'[p][q] = chan[p][q] \/ chan'[p][q] = Append(chan[p][q], msg)
      BY <1>0, <2>1, <3>1
    <3>3. chan[p][q] # << >> => Head(Append(chan[p][q], msg)) = Head(chan[p][q])
      BY <1>0, <3>1
    <3> QED BY <3>2, <3>3
  <2>4. CASE Cut(d[1], d[2])
    <3>1. chan'[p][q] = chan[p][q] \/ chan'[p][q] = << >>
      BY <1>0, <2>1, <2>4 DEF Cut
    <3> QED BY <3>1
  <2> QED BY <1>5, <2>2, <2>3, <2>4
<1>6. ASSUME NEW n \in Node, NEW r \in Node, n # q, Receive(n, r) PROVE HeadStays(p, q)
  <2>1. CASE Gone(n)
    BY <1>3, <2>1
  <2>2. CASE Read(n, r)
    <3>1. chan'[p][q] = chan[p][q]
      BY <1>0, <1>6, <2>2 DEF Read
    <3> QED BY <3>1
  <2>3. Gone(n) \/ Read(n, r)
    BY <1>6 DEF Receive, ReceiveAcquited, ReceiveSynchronize, ReceiveRequestBlock,
                ReceiveNewBlock, ReceiveNewTransaction
  <2> QED BY <2>1, <2>2, <2>3
<1> QED BY <1>2, <1>3, <1>4, <1>5, <1>6

\* A wallet's chain changes with a block, and when the process starts or ends.
WalletStays(w) == Up(w) /\ Up(w)' => chain'[w] = chain[w]

LEMMA WalletsStay ==
    ASSUME TypeOK, LocalInv, NEW w \in Wallets,
           \/ \E n \in Node : Load(n) \/ Tick(n) \/ Dispatch(n) \/ Gone(n)
           \/ \E n \in Node : \E t \in Time : Save(n, t)
           \/ \E n \in Node : \E tx \in Tx : Submit(n, tx)
           \/ \E d \in Dials : Connect(d[1], d[2]) \/ Greet(d[1], d[2]) \/ Cut(d[1], d[2])
           \/ \E n, p \in Node :
                /\ Receive(n, p)
                /\ n = w => Head(chan[p][n]).type # "NEW_BLOCK"
    PROVE  WalletStays(w)
<1> USE DEF WalletStays
<1>0. w \in Node \ Masters /\ chain \in [Node -> Seq(Block)] /\ chain[w] \in Seq(Block)
      /\ proc \in [Node -> {"off", "up", "saved"}]
  BY DEF Wallets, TypeOK
<1>1. CASE UNCHANGED chain
  BY <1>1
<1>2. ASSUME NEW n \in Node, Tick(n) \/ Dispatch(n) \/ (\E tx \in Tx : Submit(n, tx))
      PROVE  WalletStays(w)
  BY <1>1, <1>2 DEF Tick, Dispatch, Submit
<1>3. ASSUME NEW n \in Node, Gone(n) PROVE WalletStays(w)
  BY <1>0, <1>3 DEF Gone, Up
<1>4. ASSUME NEW n \in Node, Load(n) PROVE WalletStays(w)
  BY <1>0, <1>4 DEF Load, Up
<1>5. ASSUME NEW n \in Node, NEW t \in Time, Save(n, t) PROVE WalletStays(w)
  <2>1. CASE n # w
    BY <1>0, <1>5, <2>1 DEF Save
  <2>2. CASE n = w
    <3>1. buffer[w] = << >>
      BY <1>0 DEF LocalInv
    <3>2. chain' = [chain EXCEPT ![w] = chain[w]]
      BY <1>5, <2>2, <3>1 DEF Save, Flushed
    <3> QED BY <1>0, <3>2
  <2> QED BY <2>1, <2>2
<1>6. ASSUME NEW d \in Dials, Connect(d[1], d[2]) \/ Greet(d[1], d[2]) \/ Cut(d[1], d[2])
      PROVE  WalletStays(w)
  BY <1>1, <1>6 DEF Connect, Greet, Cut, local
<1>7. ASSUME NEW n \in Node, NEW p \in Node, Receive(n, p),
             n = w => Head(chan[p][n]).type # "NEW_BLOCK"
      PROVE  WalletStays(w)
  <2>1. CASE ReceiveAcquited(n, p) \/ ReceiveSynchronize(n, p) \/ ReceiveRequestBlock(n, p)
    BY <1>1, <2>1 DEF ReceiveAcquited, ReceiveSynchronize, ReceiveRequestBlock
  <2>2. CASE ReceiveNewBlock(n, p)
    <3>1. n # w
      BY <1>7, <2>2 DEF ReceiveNewBlock
    <3>2. UNCHANGED chain \/ chain'[w] = chain[w] \/ Gone(n)
      BY <1>0, <2>2, <3>1 DEF ReceiveNewBlock, local
    <3> QED BY <1>3, <3>2
  <2>3. ASSUME NEW t \in Time, ReceiveNewTransaction(n, p, t) PROVE WalletStays(w)
    BY <1>0, <2>3 DEF ReceiveNewTransaction
  <2> QED BY <1>7, <2>1, <2>2, <2>3 DEF Receive
<1> QED BY <1>2, <1>3, <1>4, <1>5, <1>6, <1>7

\* The balance of a wallet that neither gets a block nor starts nor ends.
LEMMA CoversStays ==
    ASSUME NEW w \in Wallets, Covers(w), Hands, chain'[w] = chain[w], counted'[w] = counted[w],
           \A p \in Node : << w, p >> \in handling' <=> << w, p >> \in handling,
           \A p \in Node : << w, p >> \in handling => chan'[p][w] # << >> /\ HeadStays(p, w)
    PROVE  Covers(w)'
<1>1. \A b : InHand(w, b)' <=> InHand(w, b)
  BY DEF InHand, Hands, HeadStays
<1> QED BY <1>1 DEF Covers

-----------------------------------------------------------------------------
(***************************************************************************)
(* The invariant of the balances.                                          *)
(***************************************************************************)
BTypes == TypeOK /\ BalanceTypeOK /\ Hands

BInv ==
    /\ BTypes /\ IInv
    /\ ~lost => /\ \A m \in Masters : Numbered(Log(m))
                /\ \A w \in unlocked \ raced : Covers(w)

\* The second half of the handler is the handler of Sync.
LEMMA OfferReceives ==
    ASSUME Hands, NEW w \in Wallets, NEW p \in Node, Offer(w, p)
    PROVE  Receive(w, p)
BY DEF Hands, Offer, Receive

\* Whatever the wallets do with their balances, the processes do what Sync
\* says they do.
LEMMA BalanceStepIsStep ==
    ASSUME Hands, [BalanceNext]_<< vars, purse >>
    PROVE  [Next]_vars
<1>1. CASE UNCHANGED << vars, purse >>
  BY <1>1
<1>2. ASSUME NEW w \in Wallets, Unlock(w) PROVE [Next]_vars
  BY <1>2 DEF Unlock
<1>3. ASSUME NEW w \in Wallets, NEW p \in Node, Update(w, p) PROVE [Next]_vars
  BY <1>3 DEF Update
<1>4. ASSUME NEW w \in Wallets, NEW p \in Node, Offer(w, p) PROVE [Next]_vars
  BY <1>4, OfferReceives DEF Next, Wallets
<1>5. ASSUME NEW n \in Node, NEW p \in Node, Receive(n, p) PROVE [Next]_vars
  BY <1>5 DEF Next
<1>6. ASSUME NEW n \in Node,
             \/ Load(n) \/ Tick(n) \/ Dispatch(n) \/ Stop(n) \/ Crash(n)
             \/ \E t \in Time : Save(n, t)
             \/ \E tx \in Tx : Submit(n, tx)
      PROVE  [Next]_vars
  BY <1>6 DEF Next
<1>7. ASSUME NEW d \in Dials, Connect(d[1], d[2]) \/ Greet(d[1], d[2]) \/ Cut(d[1], d[2])
      PROVE  [Next]_vars
  BY <1>7 DEF Next
<1> QED BY <1>1, <1>2, <1>3, <1>4, <1>5, <1>6, <1>7 DEF BalanceNext

LEMMA TypeStays ==
    ASSUME BalanceTypeOK, handling' \subseteq handling, Forget
    PROVE  BalanceTypeOK'
<1>1. << >> \in Seq(Block)
  OBVIOUS
<1>2. counted' \in [Wallets -> Seq(Block)]
  BY <1>1 DEF Forget, BalanceTypeOK
<1> QED BY <1>2 DEF Forget, BalanceTypeOK, Up, Wallets

LEMMA AsideTypes ==
    ASSUME BTypes, Aside,
           \A w \in Wallets, p \in Node : << w, p >> \in handling => HeadStays(p, w)
    PROVE  /\ BalanceTypeOK' /\ Hands'
           /\ \A h \in handling' : h \in Wallets \X Node /\ chan'[h[2]][h[1]] # << >>
           /\ \A h \in handling : Up(h[1])' <=> h \in handling'
           /\ handling' \subseteq handling
<1>1. /\ handling' \subseteq handling
      /\ \A h \in handling' : h \in Wallets \X Node /\ Up(h[1])' /\ chan'[h[2]][h[1]] # << >>
      /\ \A h \in handling : Up(h[1])' => h \in handling'
      /\ Forget
  BY DEF Aside, Up, BTypes, BalanceTypeOK
<1>2. BalanceTypeOK'
  BY <1>1, TypeStays DEF BTypes
<1>3. Hands'
  <2> SUFFICES ASSUME NEW h \in handling'
               PROVE  Head(chan'[h[2]][h[1]]).type = "NEW_BLOCK"
    BY <1>1 DEF Hands, BTypes
  <2>1. h \in handling /\ h[1] \in Wallets /\ h[2] \in Node /\ h = << h[1], h[2] >>
    BY <1>1
  <2> QED BY <1>1, <2>1 DEF HeadStays, Hands, BTypes
<1> QED BY <1>1, <1>2, <1>3

LEMMA AsideKeeps ==
    ASSUME BInv, IInv', lost => lost',
           ~lost' => \A m \in Masters : Numbered(Log(m))',
           Aside,
           \A w \in Wallets :
                WalletStays(w) /\ \A p \in Node : << w, p >> \in handling => HeadStays(p, w)
    PROVE  BInv'
<1>1. /\ BTypes /\ Forget
      /\ \A w \in Wallets, p \in Node : << w, p >> \in handling => HeadStays(p, w)
  BY DEF Aside, BInv
<1>2. /\ BalanceTypeOK' /\ Hands'
      /\ \A h \in handling' : h \in Wallets \X Node /\ chan'[h[2]][h[1]] # << >>
      /\ \A h \in handling : Up(h[1])' <=> h \in handling'
      /\ handling' \subseteq handling
  BY <1>1, AsideTypes
<1>3. ASSUME ~lost', NEW w \in unlocked' \ raced' PROVE Covers(w)'
  <2>1. /\ w \in unlocked \ raced /\ w \in Wallets /\ Up(w) /\ Up(w)'
        /\ counted'[w] = counted[w]
    BY <1>1, <1>2, <1>3 DEF Forget, BTypes, BalanceTypeOK, Up
  <2>2. Covers(w)
    BY <1>3, <2>1 DEF BInv
  <2>3. chain'[w] = chain[w]
    BY <2>1 DEF WalletStays
  <2>4. \A p \in Node : << w, p >> \in handling' <=> << w, p >> \in handling
    BY <1>2, <2>1
  <2>5. \A p \in Node : << w, p >> \in handling => chan'[p][w] # << >> /\ HeadStays(p, w)
    BY <1>2, <2>1, <2>4
  <2> QED BY <1>1, <2>1, <2>2, <2>3, <2>4, <2>5, CoversStays DEF BTypes
<1> QED BY <1>2, <1>3 DEF BInv, BTypes, IInv

\* The balance is computed anew: it is what the chain pays.
LEMMA UnlockTypes ==
    ASSUME BTypes, NEW w \in Wallets, Unlock(w)
    PROVE  BalanceTypeOK' /\ Hands'
<1>1. /\ UNCHANGED << proc, chain, chan, handling >> /\ Up(w)
      /\ unlocked' = unlocked \union {w}
      /\ counted' = [counted EXCEPT ![w] = Paying(chain[w])]
      /\ raced' = IF Handles(w) THEN raced \union {w} ELSE raced
  BY DEF Unlock, vars
<1>2. chain[w] \in Seq(Block)
  BY DEF BTypes, TypeOK, Wallets
<1>3. Paying(chain[w]) \in Seq(Block)
  BY <1>2, PayingFacts
<1> QED BY <1>1, <1>3 DEF BTypes, BalanceTypeOK, Hands, Up, Handles

LEMMA UnlockKeeps ==
    ASSUME BInv, NEW w \in Wallets, Unlock(w), IInv', ~lost' => \A m \in Masters : Numbered(Log(m))'
    PROVE  BInv'
<1>1. /\ UNCHANGED << proc, chain, chan, lost, handling >> /\ Up(w) /\ w \notin unlocked
      /\ unlocked' = unlocked \union {w}
      /\ counted' = [counted EXCEPT ![w] = Paying(chain[w])]
      /\ raced' = IF Handles(w) THEN raced \union {w} ELSE raced
  BY DEF Unlock, vars
<1>2. chain[w] \in Seq(Block) /\ counted \in [Wallets -> Seq(Block)] /\ raced \subseteq unlocked
  BY DEF BInv, BTypes, TypeOK, Wallets, BalanceTypeOK
<1>3. Range(Paying(chain[w])) \subseteq Range(chain[w])
  BY <1>2, PayingFacts
<1>4. BalanceTypeOK' /\ Hands'
  BY UnlockTypes DEF BInv
<1>6. \A x, b : InHand(x, b)' <=> InHand(x, b)
  BY <1>1 DEF InHand
<1>7. ASSUME ~lost', NEW x \in unlocked' \ raced' PROVE Covers(x)'
  <2>1. x \in Wallets
    BY <1>7, <1>4 DEF BalanceTypeOK
  <2>2. CASE x # w
    <3>1. x \in unlocked \ raced /\ counted'[x] = counted[x] /\ chain'[x] = chain[x]
      BY <1>1, <1>2, <1>7, <2>1, <2>2
    <3>2. Covers(x)
      BY <1>1, <1>7, <3>1 DEF BInv
    <3> QED BY <1>6, <3>1, <3>2 DEF Covers
  <2>3. CASE x = w
    <3>1. ~Handles(w)
      BY <1>1, <1>2, <1>7, <2>3
    <3>2. \A b : ~InHand(w, b)
      BY <3>1 DEF InHand, Handles
    <3>3. counted'[w] = Paying(chain[w]) /\ chain'[w] = chain[w]
      BY <1>1, <1>2
    <3> QED BY <1>3, <1>6, <2>3, <3>2, <3>3 DEF Covers
  <2> QED BY <2>2, <2>3
<1> QED BY <1>4, <1>7 DEF BInv, BTypes, IInv

\* The block is added up when it is in hand.
LEMMA UpdateTypes ==
    ASSUME BTypes, NEW w \in Wallets, NEW p \in Node, Update(w, p)
    PROVE  BalanceTypeOK' /\ Hands'
<1> DEFINE blk == Reparse(Head(chan[p][w]).blk)
<1>1. /\ UNCHANGED << proc, chain, chan, unlocked, raced >> /\ Up(w) /\ ~Handles(w)
      /\ chan[p][w] # << >> /\ Head(chan[p][w]).type = "NEW_BLOCK"
      /\ handling' = handling \union {<< w, p >>}
      /\ counted' = IF w \in unlocked
                    THEN [counted EXCEPT ![w] = @ \o Paying(<< blk >>)] ELSE counted
  BY DEF Update, vars
<1>2. blk \in Block
  <2>1. chan[p][w] \in Seq(Message)
    BY DEF BTypes, TypeOK, Wallets
  <2>2. Head(chan[p][w]) \in Message
    BY <1>1, <2>1
  <2> QED BY <1>1, <2>2, MessageParts, ReparseType
<1> HIDE DEF blk
<1>4. counted \in [Wallets -> Seq(Block)] /\ counted[w] \in Seq(Block)
  BY DEF BTypes, BalanceTypeOK
<1>5. Paying(<< blk >>) \in Seq(Block)
  <2>1. << blk >> \in Seq(Block)
    BY <1>2
  <2> QED BY <2>1, PayingFacts
<1>6. counted[w] \o Paying(<< blk >>) \in Seq(Block)
  BY <1>4, <1>5
<1>7. BalanceTypeOK'
  <2>1. counted' \in [Wallets -> Seq(Block)]
    BY <1>1, <1>4, <1>6
  <2>2. handling' \subseteq Wallets \X Node
    BY <1>1 DEF BTypes, BalanceTypeOK
  <2> QED BY <1>1, <2>1, <2>2 DEF BTypes, BalanceTypeOK, Up
<1>8. Hands'
  <2>1. \A h \in handling' : h \in handling \/ h = << w, p >>
    BY <1>1
  <2>2. \A h \in handling : h[1] # w
    <3>1. \A h \in handling : h = << h[1], h[2] >> /\ h[2] \in Node
      BY DEF BTypes, BalanceTypeOK
    <3> QED BY <1>1, <3>1 DEF Handles
  <2> QED BY <1>1, <2>1, <2>2 DEF Hands, BTypes, Up
<1> QED BY <1>7, <1>8

LEMMA UpdateKeeps ==
    ASSUME BInv, NEW w \in Wallets, NEW p \in Node, Update(w, p), IInv',
           ~lost' => \A m \in Masters : Numbered(Log(m))'
    PROVE  BInv'
<1> DEFINE blk == Reparse(Head(chan[p][w]).blk)
<1>1. /\ UNCHANGED << proc, chain, chan, lost, unlocked, raced >> /\ Up(w) /\ ~Handles(w)
      /\ chan[p][w] # << >> /\ Head(chan[p][w]).type = "NEW_BLOCK"
      /\ handling' = handling \union {<< w, p >>}
      /\ counted' = IF w \in unlocked
                    THEN [counted EXCEPT ![w] = @ \o Paying(<< blk >>)] ELSE counted
  BY DEF Update, vars
<1>2. blk \in Block
  <2>1. chan[p][w] \in Seq(Message)
    BY DEF BInv, BTypes, TypeOK, Wallets
  <2>2. Head(chan[p][w]) \in Message
    BY <1>1, <2>1
  <2> QED BY <1>1, <2>2, MessageParts, ReparseType
<1>3. \A b : InHand(w, b)' <=> b = blk
  BY <1>1 DEF InHand, Handles
<1> HIDE DEF blk
<1>4. counted \in [Wallets -> Seq(Block)] /\ counted[w] \in Seq(Block)
  BY DEF BInv, BTypes, BalanceTypeOK
<1>5. Paying(<< blk >>) \in Seq(Block) /\ Range(Paying(<< blk >>)) = {b \in {blk} : Counts(b)}
  <2>1. << blk >> \in Seq(Block)
    BY <1>2
  <2> QED BY <2>1, PayingFacts, RangeSingle
<1>6. BalanceTypeOK' /\ Hands'
  BY UpdateTypes DEF BInv
<1>7. ASSUME ~lost', NEW x \in unlocked' \ raced' PROVE Covers(x)'
  <2>1. x \in unlocked \ raced /\ x \in Wallets /\ chain'[x] = chain[x] /\ Covers(x)
    BY <1>1, <1>6, <1>7 DEF BInv, BalanceTypeOK
  <2>2. CASE x # w
    <3>1. counted'[x] = counted[x]
      BY <1>1, <1>4, <2>1, <2>2
    <3>2. \A b : InHand(x, b)' <=> InHand(x, b)
      BY <1>1, <2>2 DEF InHand
    <3> QED BY <2>1, <3>1, <3>2 DEF Covers
  <2>3. CASE x = w
    <3>1. Range(counted'[w]) = Range(counted[w]) \union {b \in {blk} : Counts(b)}
      <4>1. counted'[w] = counted[w] \o Paying(<< blk >>)
        BY <1>1, <1>4, <2>1, <2>3
      <4> QED BY <1>4, <1>5, <4>1, RangeConcat
    <3>2. \A b : ~InHand(w, b)
      BY <1>1 DEF InHand, Handles
    <3> QED BY <1>3, <2>1, <2>3, <3>1, <3>2 DEF Covers
  <2> QED BY <2>2, <2>3
<1> QED BY <1>6, <1>7 DEF BInv, BTypes, IInv

LEMMA OfferTypes ==
    ASSUME BTypes, NEW w \in Wallets, NEW p \in Node, Offer(w, p)
    PROVE  /\ BalanceTypeOK' /\ Hands'
           /\ \A h \in handling' : h[1] # w /\ h \in handling /\ HeadStays(h[2], h[1])
<1>1. /\ << w, p >> \in handling /\ handling' = handling \ {<< w, p >>}
      /\ \A h \in handling' : chan'[h[2]][h[1]] # << >>
      /\ ReceiveNewBlock(w, p) /\ Forget
  BY DEF Offer
<1>2. /\ Up(w) /\ chan[p][w] # << >> /\ Head(chan[p][w]).type = "NEW_BLOCK" /\ Receive(w, p)
      /\ TypeOK /\ w \in Node
  BY <1>1, OfferReceives DEF BTypes, Hands, Wallets
<1>3. BalanceTypeOK'
  BY <1>1, TypeStays DEF BTypes
<1>4. ASSUME NEW h \in handling'
      PROVE  /\ h[1] # w /\ h \in handling /\ h[1] \in Wallets /\ h[2] \in Node
             /\ h = << h[1], h[2] >> /\ HeadStays(h[2], h[1]) /\ Up(h[1])'
  <2>1. h \in handling /\ h # << w, p >>
    BY <1>1
  <2>2. h[1] # w
    BY <1>1, <2>1 DEF BTypes, Hands
  <2>3. h[1] \in Wallets /\ h[2] \in Node /\ h = << h[1], h[2] >>
    BY <2>1 DEF BTypes, BalanceTypeOK
  <2>4. HeadStays(h[2], h[1])
    <3>1. h[1] \in Node
      BY <2>3 DEF Wallets
    <3> QED BY <1>2, <2>2, <2>3, <3>1, HeadsStay
  <2>5. Up(h[1])'
    <3>1. proc'[h[1]] = proc[h[1]]
      BY <1>1, <1>2, <2>2, <2>3 DEF ReceiveNewBlock, Gone, local, TypeOK, Wallets
    <3> QED BY <2>1, <3>1 DEF Up, BTypes, Hands
  <2> QED BY <2>1, <2>2, <2>3, <2>4, <2>5
<1>5. Hands'
  <2>1. \A h \in handling' : Head(chan'[h[2]][h[1]]).type = "NEW_BLOCK"
    BY <1>1, <1>4 DEF BTypes, Hands, HeadStays
  <2> QED BY <1>1, <1>4, <2>1 DEF Hands, BTypes
<1> QED BY <1>3, <1>4, <1>5

\* The block in hand is offered to the chain: it is there already, or it comes
\* to be there, or the wallet ends.
LEMMA OfferKeeps ==
    ASSUME OneMaster, BInv, NEW w \in Wallets, NEW p \in Node, Offer(w, p), IInv',
           ~lost' => \A m \in Masters : Numbered(Log(m))'
    PROVE  BInv'
<1> DEFINE msg == Head(chan[p][w])
           blk == Reparse(msg.blk)
           longer == Append(chain[w], blk)
<1>1. /\ << w, p >> \in handling /\ handling' = handling \ {<< w, p >>}
      /\ \A h \in handling' : chan'[h[2]][h[1]] # << >>
      /\ ReceiveNewBlock(w, p) /\ Forget
  BY DEF Offer
<1>2. /\ Up(w) /\ chan[p][w] # << >> /\ msg.type = "NEW_BLOCK"
      /\ BTypes /\ TypeOK /\ Hands /\ LocalInv /\ w \in Node /\ w \notin Masters
  BY <1>1 DEF BInv, BTypes, Hands, IInv, Wallets
<1>3. /\ BalanceTypeOK' /\ Hands'
      /\ \A h \in handling' : h[1] # w /\ h \in handling /\ HeadStays(h[2], h[1])
  BY <1>2, OfferTypes
<1>4. ASSUME ~lost', NEW x \in unlocked' \ raced' PROVE Covers(x)'
  <2>1. /\ x \in unlocked \ raced /\ x \in Wallets /\ Up(x) /\ Up(x)'
        /\ counted'[x] = counted[x]
    BY <1>1, <1>2, <1>3, <1>4 DEF Forget, BTypes, BalanceTypeOK, Up
  <2>2. ~lost
    <3>1. lost \in BOOLEAN
      BY <1>2 DEF TypeOK
    <3> QED BY <1>1, <1>4, <3>1 DEF ReceiveNewBlock, Gone
  <2>3. Covers(x)
    BY <2>1, <2>2 DEF BInv
  <2>4. CASE x # w
    <3>1. chain'[x] = chain[x]
      BY <1>1, <1>2, <2>1, <2>4 DEF ReceiveNewBlock, Gone, local, TypeOK, Wallets
    <3>2. \A r \in Node : << x, r >> \in handling' <=> << x, r >> \in handling
      BY <1>1, <2>4
    <3>3. \A r \in Node : << x, r >> \in handling => chan'[r][x] # << >> /\ HeadStays(r, x)
      BY <1>1, <1>3, <3>2
    <3> QED BY <2>1, <2>3, <3>1, <3>2, <3>3, <1>2, CoversStays
  <2>5. CASE x = w
    <3>1. \A b : ~InHand(w, b)'
      BY <1>3 DEF InHand
    <3>2. \A b : InHand(w, b) <=> b = blk
      <4>1. \A r : << w, r >> \in handling => r = p
        BY <1>1, <1>2 DEF Hands
      <4> QED BY <1>1, <4>1 DEF InHand
    <3>3. chain[w] \in Seq(Block) /\ msg.blk \in Block /\ blk \in Block
      <4>1. chan[p][w] \in Seq(Message) /\ chain[w] \in Seq(Block)
        BY <1>2 DEF TypeOK
      <4>2. msg \in Message
        BY <1>2, <4>1
      <4> QED BY <1>2, <4>1, <4>2, MessageParts, ReparseType
    <3>4. ~Gone(w)
      BY <1>2, <2>1, <2>5 DEF Gone, Up, TypeOK
    <3>5. CASE Known(chain[w], blk) /\ UNCHANGED chain
      <4>1. PICK m \in Node : Masters = {m}
        BY DEF OneMaster
      <4> DEFINE L == Log(m)
      <4>2. /\ L \in Seq(Block) /\ Sound(L) /\ IsPrefix(chain[w], L) /\ Numbered(L)
            /\ StreamsOn(L, chan)
        BY <1>2, <2>2, <4>1, LogType DEF BInv, IInv, LogInv, ChainsOn
      <4>3. In(L, msg.blk)
        BY <1>2, <4>2, HeadsCarry DEF Carries
      <4>4. blk = msg.blk
        BY <3>3, <4>2, <4>3, LogReparse
      <4>5. PICK j \in 1..Len(L) : L[j] = blk
        BY <4>3, <4>4 DEF In
      <4> HIDE DEF L, blk
      <4>6. blk \in Range(chain[w])
        BY <3>3, <3>5, <4>2, <4>5, KnownIsThere
      <4> QED BY <2>1, <2>3, <2>5, <3>1, <3>2, <3>5, <4>6 DEF Covers
    <3>6. CASE chain' = [chain EXCEPT ![w] = longer]
      <4>1. chain'[w] = Append(chain[w], blk)
        BY <1>2, <3>6 DEF TypeOK
      <4> HIDE DEF blk
      <4>2. Range(chain'[w]) = Range(chain[w]) \union {blk}
        BY <3>3, <4>1, RangeAppend
      <4>3. Range(Paying(chain'[w])) = Range(Paying(chain[w])) \union {b \in {blk} : Counts(b)}
        <5>1. Paying(chain[w]) \in Seq(Block)
          BY <3>3, PayingFacts
        <5> QED BY <3>3, <4>1, <5>1, PayingAppend
      <4> QED BY <2>1, <2>3, <2>5, <3>1, <3>2, <4>2, <4>3 DEF Covers
    <3> QED BY <1>1, <3>4, <3>5, <3>6 DEF ReceiveNewBlock, local
  <2> QED BY <2>4, <2>5
<1> QED BY <1>3, <1>4 DEF BInv, BTypes, IInv

LEMMA BalanceInitInv ==
    ASSUME OneMaster, GenuineStart, NumberedStart, BalanceInit
    PROVE  BInv
<1>1. IInv
  BY InitIInv DEF BalanceInit
<1>2. << >> \in Seq(Block)
  OBVIOUS
<1>3. BalanceTypeOK /\ Hands
  BY <1>2 DEF BalanceInit, BalanceTypeOK, Hands
<1>4. \A m \in Masters : Numbered(Log(m))
  <2>1. \A m \in Masters : Log(m) = StartFile[m]
    BY SyncAssumption DEF BalanceInit, Init, Log, Up
  <2> QED BY <2>1 DEF NumberedStart
<1> QED BY <1>1, <1>3, <1>4 DEF BInv, BTypes, IInv, BalanceInit

LEMMA BalanceNextInv ==
    ASSUME OneMaster, BInv, [BalanceNext]_<< vars, purse >>
    PROVE  BInv'
<1>1. [Next]_vars /\ TypeOK /\ LocalInv /\ IInv
  BY BalanceStepIsStep DEF BInv, BTypes, IInv
<1>2. IInv' /\ (lost => lost')
  BY <1>1, NextIInv, LostStays
<1>3. ~lost' => \A m \in Masters : Numbered(Log(m))'
  <2> SUFFICES ASSUME ~lost', NEW m \in Masters PROVE Numbered(Log(m)')
    OBVIOUS
  <2>1. m \in Node /\ Masters = {m}
    BY DEF OneMaster
  <2>2. LogInv(m) /\ Numbered(Log(m))
    BY <1>2 DEF BInv, IInv
  <2> QED BY <1>1, <2>1, <2>2, LogNumbered
<1>4. CASE UNCHANGED << vars, purse >>
  <2>1. \A w, b : InHand(w, b)' <=> InHand(w, b)
    BY <1>4 DEF InHand, vars, purse
  <2>2. \A w : Covers(w)' <=> Covers(w)
    BY <1>4, <2>1 DEF Covers, vars, purse
  <2>3. BalanceTypeOK' /\ Hands'
    BY <1>4 DEF BInv, BTypes, BalanceTypeOK, Hands, vars, purse, Up
  <2> QED BY <1>2, <1>3, <1>4, <2>2, <2>3 DEF BInv, BTypes, IInv, vars, purse
<1>5. ASSUME NEW w \in Wallets, Unlock(w) PROVE BInv'
  BY <1>2, <1>3, <1>5, UnlockKeeps
<1>6. ASSUME NEW w \in Wallets, NEW p \in Node, Update(w, p) \/ Offer(w, p) PROVE BInv'
  BY <1>2, <1>3, <1>6, UpdateKeeps, OfferKeeps
<1>7. ASSUME NEW n \in Node, NEW p \in Node, n \in Wallets => ~Handles(n), Receive(n, p),
             n \in Wallets => Head(chan[p][n]).type # "NEW_BLOCK", Aside
      PROVE  BInv'
  <2>1. ASSUME NEW w \in Wallets PROVE WalletStays(w)
    BY <1>1, <1>7, <2>1, WalletsStay
  <2>2. ASSUME NEW w \in Wallets, NEW r \in Node, << w, r >> \in handling PROVE HeadStays(r, w)
    <3>1. n # w /\ w \in Node
      BY <1>7, <2>2 DEF Handles, Wallets
    <3> QED BY <1>1, <1>7, <3>1, HeadsStay
  <2> QED BY <1>2, <1>3, <1>7, <2>1, <2>2, AsideKeeps
<1>8. ASSUME NEW n \in Node,
             \/ Load(n) \/ Tick(n) \/ Dispatch(n) \/ Stop(n) \/ Crash(n)
             \/ \E t \in Time : Save(n, t)
             \/ \E tx \in Tx : Submit(n, tx),
             Aside
      PROVE  BInv'
  <2>1. \/ Load(n) \/ Tick(n) \/ Dispatch(n) \/ Gone(n)
        \/ \E t \in Time : Save(n, t)
        \/ \E tx \in Tx : Submit(n, tx)
    BY <1>8 DEF Stop, Crash
  <2>2. ASSUME NEW w \in Wallets PROVE WalletStays(w)
    BY <1>1, <2>1, <2>2, WalletsStay
  <2>3. ASSUME NEW w \in Wallets, NEW r \in Node, << w, r >> \in handling PROVE HeadStays(r, w)
    <3>1. w \in Node
      BY DEF Wallets
    <3> QED BY <1>1, <2>1, <3>1, HeadsStay
  <2> QED BY <1>2, <1>3, <1>8, <2>2, <2>3, AsideKeeps
<1>9. ASSUME NEW d \in Dials, Connect(d[1], d[2]) \/ Greet(d[1], d[2]) \/ Cut(d[1], d[2]),
             Aside
      PROVE  BInv'
  <2>1. ASSUME NEW w \in Wallets PROVE WalletStays(w)
    BY <1>1, <1>9, <2>1, WalletsStay
  <2>2. ASSUME NEW w \in Wallets, NEW r \in Node, << w, r >> \in handling PROVE HeadStays(r, w)
    <3>1. w \in Node
      BY DEF Wallets
    <3> QED BY <1>1, <1>9, <3>1, HeadsStay
  <2> QED BY <1>2, <1>3, <1>9, <2>1, <2>2, AsideKeeps
<1> QED BY <1>4, <1>5, <1>6, <1>7, <1>8, <1>9 DEF BalanceNext

LEMMA CoversChain == ASSUME BInv PROVE BalanceCoversChain
<1> SUFFICES ASSUME ~lost, NEW w \in unlocked \ raced
             PROVE  /\ Range(Paying(chain[w])) \subseteq Range(counted[w])
                    /\ ~Handles(w) => Range(counted[w]) \subseteq Range(chain[w])
  BY DEF BalanceCoversChain
<1>1. Covers(w)
  BY DEF BInv
<1>2. ~Handles(w) => \A b : ~InHand(w, b)
  BY DEF InHand, Handles
<1> QED BY <1>1, <1>2 DEF Covers

\* The part of the invariant that needs no assumption about the network.
LEMMA BalanceInitTypes == ASSUME BalanceInit PROVE BTypes
<1>1. << >> \in Seq(Block) /\ TypeOK
  BY InitTypeOK DEF BalanceInit
<1> QED BY <1>1 DEF BalanceInit, BalanceTypeOK, Hands, BTypes

LEMMA BalanceNextTypes ==
    ASSUME BTypes, [BalanceNext]_<< vars, purse >>
    PROVE  BTypes'
<1>1. TypeOK /\ TypeOK' /\ BalanceTypeOK /\ Hands /\ [Next]_vars
  BY BalanceStepIsStep, NextTypeOK DEF BTypes
<1> SUFFICES BalanceTypeOK' /\ Hands'
  BY <1>1 DEF BTypes
<1>2. CASE UNCHANGED << vars, purse >>
  BY <1>1, <1>2 DEF BalanceTypeOK, Hands, vars, purse, Up
<1>3. ASSUME NEW w \in Wallets, Unlock(w) PROVE BalanceTypeOK' /\ Hands'
  BY <1>3, UnlockTypes
<1>4. ASSUME NEW w \in Wallets, NEW p \in Node, Update(w, p) \/ Offer(w, p)
      PROVE  BalanceTypeOK' /\ Hands'
  BY <1>4, UpdateTypes, OfferTypes
<1>5. ASSUME NEW n \in Node, NEW p \in Node, n \in Wallets => ~Handles(n), Receive(n, p), Aside
      PROVE  BalanceTypeOK' /\ Hands'
  <2>1. ASSUME NEW w \in Wallets, NEW r \in Node, << w, r >> \in handling PROVE HeadStays(r, w)
    <3>1. n # w /\ w \in Node
      BY <1>5, <2>1 DEF Handles, Wallets
    <3> QED BY <1>1, <1>5, <3>1, HeadsStay
  <2> QED BY <1>5, <2>1, AsideTypes
<1>6. ASSUME NEW n \in Node,
             \/ Load(n) \/ Tick(n) \/ Dispatch(n) \/ Stop(n) \/ Crash(n)
             \/ \E t \in Time : Save(n, t)
             \/ \E tx \in Tx : Submit(n, tx),
             Aside
      PROVE  BalanceTypeOK' /\ Hands'
  <2>1. \/ Load(n) \/ Tick(n) \/ Dispatch(n) \/ Gone(n)
        \/ \E t \in Time : Save(n, t)
        \/ \E tx \in Tx : Submit(n, tx)
    BY <1>6 DEF Stop, Crash
  <2>2. ASSUME NEW w \in Wallets, NEW r \in Node, << w, r >> \in handling PROVE HeadStays(r, w)
    <3>1. w \in Node
      BY DEF Wallets
    <3> QED BY <1>1, <2>1, <3>1, HeadsStay
  <2> QED BY <1>6, <2>2, AsideTypes
<1>7. ASSUME NEW d \in Dials, Connect(d[1], d[2]) \/ Greet(d[1], d[2]) \/ Cut(d[1], d[2]),
             Aside
      PROVE  BalanceTypeOK' /\ Hands'
  <2>1. ASSUME NEW w \in Wallets, NEW r \in Node, << w, r >> \in handling PROVE HeadStays(r, w)
    <3>1. w \in Node
      BY DEF Wallets
    <3> QED BY <1>1, <1>7, <3>1, HeadsStay
  <2> QED BY <1>7, <2>1, AsideTypes
<1> QED BY <1>2, <1>3, <1>4, <1>5, <1>6, <1>7 DEF BalanceNext

\* No balance, address or block in hand outlives its process: what the run
\* loop keeps on its stack ends with it (wallet/application.cpp:43-54).
THEOREM BalanceTypeCorrect == BalanceSpec => []BalanceTypeOK
<1>1. BalanceInit => BTypes
  BY BalanceInitTypes
<1>2. BTypes /\ [BalanceNext]_<< vars, purse >> => BTypes'
  BY BalanceNextTypes
<1>3. BTypes => BalanceTypeOK
  BY DEF BTypes
<1> QED BY <1>1, <1>2, <1>3, PTL DEF BalanceSpec

\* Splitting the handler of NEW_BLOCK in two adds no behaviour to the
\* network: with the balances left out, every step is a step of Sync or none.
\* What is proved of Sync holds of the processes with wallets.
THEOREM BalanceIsSync == BalanceSpec => Init /\ [][Next]_vars
<1>1. BalanceInit => BTypes /\ Init
  BY BalanceInitTypes DEF BalanceInit
<1>2. BTypes /\ [BalanceNext]_<< vars, purse >> => BTypes'
  BY BalanceNextTypes
<1>3. BTypes /\ [BalanceNext]_<< vars, purse >> => [Next]_vars
  BY BalanceStepIsStep DEF BTypes
<1> QED BY <1>1, <1>2, <1>3, PTL DEF BalanceSpec

\* An unlocked wallet's balance covers its chain, and nothing else between two
\* blocks, however receiving, unlocking, broken connections and ends interleave
\* (wallet/application.cpp:48-51, wallet.cpp:update).
THEOREM BalancesCover ==
    OneMaster /\ GenuineStart /\ NumberedStart /\ BalanceSpec => []BalanceCoversChain
<1>1. SUFFICES ASSUME OneMaster, GenuineStart, NumberedStart
               PROVE  BalanceSpec => []BalanceCoversChain
  OBVIOUS
<1>2. BalanceInit => BInv
  BY <1>1, BalanceInitInv
<1>3. BInv /\ [BalanceNext]_<< vars, purse >> => BInv'
  BY <1>1, BalanceNextInv
<1>4. BInv => BalanceCoversChain
  BY CoversChain
<1> QED BY <1>2, <1>3, <1>4, PTL DEF BalanceSpec
=============================================================================
