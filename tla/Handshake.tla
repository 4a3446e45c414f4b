------------------------------ MODULE Handshake ------------------------------
(***************************************************************************)
(* What follows a connect: src/hgo_protocol/p2p_server.cpp lines 75-261    *)
(* and 304-345 over the threads of src/hgo_protocol/network_manager.cpp.   *)
(*                                                                         *)
(*   c connects to s; the acceptor of s sends an information request and   *)
(*   waits for the answer; the message handler of c answers, asks s for    *)
(*   its peers and waits; the message handler of s answers; c connects to  *)
(*   the peers it was told of and sends ACQUITED.                          *)
(*                                                                         *)
(* Both waits are sendAndWait: no timeout, and whatever arrives next is    *)
(* taken for the answer.  Each process has one acceptor and one message    *)
(* handler, so a thread that waits serves nobody else.                     *)
(***************************************************************************)
EXTENDS Naturals, FiniteSets, SequencesExt

CONSTANTS
    Node,       \* processes
    Setting     \* how a network may be started, with the bounds of each way:
                \*   peers   pairs <<c, s>>, in the order in which they connect:
                \*           c was started with --peer=s
                \*   reads   messages that one recv may return together
                \*   noise   broadcasts of blocks or transactions
                \*   leaves  processes that end

ASSUME HandshakeAssumption ==
    Setting \subseteq
        [peers : Seq({d \in Node \X Node : d[1] # d[2]}),
         reads : Nat \ {0}, noise : Nat, leaves : Nat]

VARIABLES
    setting,  \* the way this network was started
    alive,    \* processes that run
    entries,  \* per node: the peer list, one entry per open socket
    backlog,  \* per node: connections the acceptor has not accepted yet
    stream,   \* per end: what was written for it and it has not read
    shut,     \* ends whose socket is closed
    acceptor, \* per node: the acceptor thread
    handler,  \* per node: the message handler thread
    dialled,  \* history: connections ever made
    greeted,  \* history: ends at which an ACQUITED was handled
    mishaps,  \* history: "swallowed": a recv lost a message of a handshake;
              \* "intruded": something else came for the answer; "renamed": the
              \* handler's copy of a peer lost its entry to the acceptor's
              \* update; "early": the handler was ahead of that update
    noise     \* counter for the bound

vars == << setting, alive, entries, backlog, stream, shut, acceptor,
           handler, dialled, greeted, mishaps, noise >>

\* A connection is the pair of the node that connected and the one it
\* connected to; a pair connects at most once in each direction.
Conn == Node \X Node
End == [conn : Conn, side : {"out", "in"}]
Owner(e) == IF e.side = "out" THEN e.conn[1] ELSE e.conn[2]
Far(e) == [e EXCEPT !.side = IF @ = "out" THEN "in" ELSE "out"]
OutEnd(d) == [conn |-> d, side |-> "out"]
InEnd(d) == [conn |-> d, side |-> "in"]

\* deaf: pollfd::events is 0.  A peer is named by its address and, once it
\* is known, its listening port.
Entry == [end : End, known : BOOLEAN, deaf : BOOLEAN]
Peer == [node : Node, known : BOOLEAN]
PeerOf(x) == [node |-> Owner(Far(x.end)), known |-> x.known]

Message ==
    [type : {"INFO_REQUEST", "INFO_ANSWER", "LIST_REQUEST", "ACQUITED", "OTHER"}]
    \union [type : {"LIST_ANSWER"}, list : Seq(Node)]
Plain(type) == [type |-> type]
Waited == {"INFO_REQUEST", "INFO_ANSWER", "LIST_REQUEST", "LIST_ANSWER", "ACQUITED"}

Acceptor ==
    [pc : {"idle"}] \union [pc : {"waiting", "answered"}, end : End]
Handler ==
    [pc : {"idle"}]
    \union [pc : {"processing"}, end : End, peer : Peer, msg : Message]
    \union [pc : {"asking"}, peer : Peer]
    \union [pc : {"waiting"}, end : End, peer : Peer]
    \union [pc : {"joining"}, peer : Peer, list : Seq(Node)]
Idle == [pc |-> "idle"]

\* _getPeerIndex: the first entry with the same address and port; 0 if none.
Index(n, p) == SelectInSeq(entries[n], LAMBDA x : PeerOf(x) = p)
IndexOfEnd(n, e) == SelectInSeq(entries[n], LAMBDA x : x.end = e)

\* The streams str after n has written msg to the i-th of its entries;
\* nothing is written for a peer that is not found.
Written(str, n, i, msg) ==
    IF i = 0 \/ Far(entries[n][i].end) \in shut THEN str
    ELSE [str EXCEPT ![Far(entries[n][i].end)] = Append(@, msg)]

\* The streams after a recv on e that returned k messages.
Consumed(e, k) == [stream EXCEPT ![e] = SubSeq(@, k + 1, Len(@))]

\* The ends greeted after a message read from e was processed.
Greeted(e, msg) ==
    greeted \union (IF msg.type = "ACQUITED" THEN {e} ELSE {})

\* A recv that returns k messages loses all but the first.
Swallowed(e, k) ==
    IF \E i \in 2..k : stream[e][i].type \in Waited THEN {"swallowed"} ELSE {}

\* Faulty variant of Listed: the sockets are listed, not the addresses.
ListedSockets(n, asker) ==
    LET others == SelectSeq(entries[n], LAMBDA x : x.known /\ PeerOf(x) # asker)
    IN  [i \in 1..Len(others) |-> others[i].end]

\* What the PEER_LIST handler answers: the known peers except the asker.  A
\* peer whose port is not known yet is listed with a port nobody listens on.
Listed(n, asker) ==
    FlattenSeq([i \in 1..Len(entries[n]) |->
        LET x == entries[n][i]
        IN  IF x.known /\ PeerOf(x) # asker THEN << PeerOf(x).node >> ELSE << >>])

-----------------------------------------------------------------------------
Init ==
    /\ setting \in Setting
    /\ alive = Node
    /\ entries = [n \in Node |-> << >>]
    /\ backlog = [n \in Node |-> << >>]
    /\ stream = [e \in End |-> << >>]
    /\ shut = {}
    /\ acceptor = [n \in Node |-> Idle]
    /\ handler = [n \in Node |-> Idle]
    /\ dialled = {} /\ greeted = {} /\ mishaps = {} /\ noise = 0

-----------------------------------------------------------------------------
(***************************************************************************)
(* Connections.                                                            *)
(***************************************************************************)

\* connectToPeer goes through: s is there and c has no entry for it.
CanConnect(c, s) ==
    /\ s \in alive /\ << c, s >> \notin dialled
    /\ Index(c, [node |-> s, known |-> TRUE]) = 0

Connected(c, s) ==
    /\ entries' = [entries EXCEPT ![c] = Append(@,
            [end |-> OutEnd(<< c, s >>), known |-> TRUE, deaf |-> FALSE])]
    /\ backlog' = [backlog EXCEPT ![s] = Append(@, << c, s >>)]
    /\ dialled' = dialled \union {<< c, s >>}

\* The main thread connects to the peer of the command line.
Dial(i) ==
    LET c == setting.peers[i][1]
        s == setting.peers[i][2]
    IN  /\ c \in alive
        /\ \A j \in 1..(i - 1) : setting.peers[j] \in dialled
        /\ CanConnect(c, s)
        /\ Connected(c, s)
        /\ UNCHANGED << setting, alive, stream, shut, acceptor, handler, greeted,
                        mishaps, noise >>

\* What _removePeer does to the i-th entry of n.
Removed(n, i) ==
    /\ shut' = shut \union {entries[n][i].end}
    /\ entries' = [entries EXCEPT ![n] = RemoveAt(@, i)]
    /\ stream' = [stream EXCEPT ![entries[n][i].end] = << >>]

\* The process of n ends or is killed: its sockets are closed.
Leave(n) ==
    /\ n \in alive
    /\ Cardinality(Node \ alive) < setting.leaves
    /\ alive' = alive \ {n}
    /\ shut' = shut \union {e \in End : Owner(e) = n /\ e.conn \in dialled}
    /\ entries' = [entries EXCEPT ![n] = << >>]
    /\ backlog' = [backlog EXCEPT ![n] = << >>]
    /\ stream' = [e \in End |-> IF Owner(e) = n THEN << >> ELSE stream[e]]
    /\ acceptor' = [acceptor EXCEPT ![n] = Idle]
    /\ handler' = [handler EXCEPT ![n] = Idle]
    /\ UNCHANGED << setting, dialled, greeted, mishaps, noise >>

\* The tick thread broadcasts a block or a transaction, at any moment of any
\* handshake.
Broadcast(n) ==
    /\ n \in alive /\ entries[n] # << >> /\ noise < setting.noise
    /\ noise' = noise + 1
    /\ stream' = [e \in End |->
            IF e \notin shut /\ IndexOfEnd(n, Far(e)) # 0
            THEN Append(stream[e], Plain("OTHER")) ELSE stream[e]]
    /\ UNCHANGED << setting, alive, entries, backlog, shut, acceptor, handler,
                    dialled, greeted, mishaps >>

-----------------------------------------------------------------------------
(***************************************************************************)
(* The acceptor thread: _acceptNewConnection, NEW_INCOMING,                *)
(* _requestPeerInfos.                                                      *)
(***************************************************************************)

\* A connection is accepted and sent an information request.
Accept(n) ==
    /\ acceptor[n] = Idle /\ backlog[n] # << >>
    /\ LET e == InEnd(Head(backlog[n]))
       IN  /\ entries' = [entries EXCEPT ![n] = Append(@,
                    [end |-> e, known |-> FALSE, deaf |-> TRUE])]
           /\ backlog' = [backlog EXCEPT ![n] = Tail(@)]
           /\ stream' = IF Far(e) \in shut THEN stream
                        ELSE [stream EXCEPT ![Far(e)] = Append(@, Plain("INFO_REQUEST"))]
           /\ acceptor' = [acceptor EXCEPT ![n] = [pc |-> "waiting", end |-> e]]
    /\ UNCHANGED << setting, alive, shut, handler, dialled, greeted, mishaps, noise >>

\* The wait is over: the answer, or something else, and then the peer is
\* disconnected.
AcceptorReads(n) ==
    LET e == acceptor[n].end
        i == IndexOfEnd(n, e)
    IN  /\ acceptor[n].pc = "waiting"
        /\ Far(e) \notin shut
        /\ \E k \in 1..setting.reads :
            /\ k <= Len(stream[e])
            /\ IF Head(stream[e]).type = "INFO_ANSWER"
               THEN /\ entries' = [entries EXCEPT ![n][i].deaf = FALSE]
                    /\ stream' = Consumed(e, k)
                    /\ acceptor' = [acceptor EXCEPT ![n].pc = "answered"]
                    /\ mishaps' = mishaps \union Swallowed(e, k)
                    /\ UNCHANGED << shut, greeted >>
               ELSE /\ Removed(n, i)
                    /\ acceptor' = [acceptor EXCEPT ![n] = Idle]
                    /\ greeted' = Greeted(e, Head(stream[e]))
                    /\ mishaps' = mishaps \union {"intruded"}
    /\ UNCHANGED << setting, alive, backlog, handler, dialled, noise >>

\* Faulty variant of AcceptorHangsUp: the entry stays.
AcceptorLeavesEntry(n) ==
    /\ acceptor[n].pc = "waiting"
    /\ Far(acceptor[n].end) \in shut
    /\ acceptor' = [acceptor EXCEPT ![n] = Idle]
    /\ UNCHANGED << setting, alive, entries, backlog, stream, shut, handler,
                    dialled, greeted, mishaps, noise >>

\* The wait is over because the peer has closed the connection.
AcceptorHangsUp(n) ==
    LET e == acceptor[n].end
    IN  /\ acceptor[n].pc = "waiting"
        /\ Far(e) \in shut
        /\ Removed(n, IndexOfEnd(n, e))
        /\ acceptor' = [acceptor EXCEPT ![n] = Idle]
        /\ UNCHANGED << setting, alive, backlog, handler, dialled, greeted, mishaps, noise >>

\* Faulty variant of AcceptorUpdates: the answer is not entered.
AcceptorForgets(n) ==
    /\ acceptor[n].pc = "answered"
    /\ acceptor' = [acceptor EXCEPT ![n] = Idle]
    /\ UNCHANGED << setting, alive, entries, backlog, stream, shut, handler,
                    dialled, greeted, mishaps, noise >>

\* Faulty variant of AcceptorUpdates: the peer is asked once more.
AcceptorAsksAgain(n) ==
    LET i == IndexOfEnd(n, acceptor[n].end)
    IN  /\ acceptor[n].pc = "answered"
        /\ entries' = IF i = 0 THEN entries
                      ELSE [entries EXCEPT ![n][i].known = TRUE]
        /\ stream' = Written(stream, n, i, Plain("INFO_REQUEST"))
        /\ acceptor' = [acceptor EXCEPT ![n] = Idle]
        /\ UNCHANGED << setting, alive, backlog, shut, handler,
                        dialled, greeted, mishaps, noise >>

\* updatePeer: the entry gets the listening port, if it is still there.
AcceptorUpdates(n) ==
    LET i == IndexOfEnd(n, acceptor[n].end)
    IN  /\ acceptor[n].pc = "answered"
        /\ entries' = IF i = 0 THEN entries
                      ELSE [entries EXCEPT ![n][i].known = TRUE]
        /\ acceptor' = [acceptor EXCEPT ![n] = Idle]
        /\ UNCHANGED << setting, alive, backlog, stream, shut, handler,
                        dialled, greeted, mishaps, noise >>

-----------------------------------------------------------------------------
(***************************************************************************)
(* The message handler thread: _messageHandler, _processMessage,           *)
(* _requestPeerList, _sendAcquitment.                                      *)
(***************************************************************************)

\* The handler of n polls its i-th entry, one no thread waits on, copies it
\* and reads.
HandlerReads(n, i) ==
    LET e == entries[n][i].end
    IN  /\ handler[n] = Idle
        /\ ~entries[n][i].deaf
        /\ Far(e) \notin shut
        /\ \E k \in 1..setting.reads :
            /\ k <= Len(stream[e])
            /\ handler' = [handler EXCEPT ![n] =
                    [pc |-> "processing", end |-> e,
                     peer |-> PeerOf(entries[n][i]), msg |-> Head(stream[e])]]
            /\ stream' = Consumed(e, k)
            /\ mishaps' = mishaps \union Swallowed(e, k)
    /\ UNCHANGED << setting, alive, entries, backlog, shut, acceptor, dialled, greeted, noise >>

\* POLLRDHUP: the peer is removed, with what it had written.
HandlerDrops(n, i) ==
    /\ handler[n] = Idle
    /\ ~entries[n][i].deaf
    /\ Far(entries[n][i].end) \in shut
    /\ Removed(n, i)
    /\ UNCHANGED << setting, alive, backlog, acceptor, handler, dialled, greeted,
                    mishaps, noise >>

\* _processMessage, up to the request for peers.
HandlerProcesses(n) ==
    LET h == handler[n]
        i == Index(n, h.peer)
    IN  /\ h.pc = "processing"
        /\ \/ /\ h.msg.type = "INFO_REQUEST"
              /\ stream' = Written(stream, n, i, Plain("INFO_ANSWER"))
              /\ handler' = [handler EXCEPT ![n] = [pc |-> "asking", peer |-> h.peer]]
              /\ UNCHANGED << greeted, mishaps >>
           \/ /\ h.msg.type = "LIST_REQUEST"
              /\ stream' = Written(stream, n, i,
                    [type |-> "LIST_ANSWER", list |-> Listed(n, h.peer)])
              /\ handler' = [handler EXCEPT ![n] = Idle]
              /\ mishaps' = mishaps
                    \union (IF i = 0 THEN {"renamed"} ELSE {})
                    \union (IF acceptor[n] = [pc |-> "answered", end |-> h.end]
                            THEN {"early"} ELSE {})
              /\ UNCHANGED greeted
           \/ /\ h.msg.type \notin {"INFO_REQUEST", "LIST_REQUEST"}
              /\ greeted' = Greeted(h.end, h.msg)
              /\ handler' = [handler EXCEPT ![n] = Idle]
              /\ UNCHANGED << stream, mishaps >>
        /\ UNCHANGED << setting, alive, entries, backlog, shut, acceptor, dialled, noise >>

\* Faulty variant of HandlerAsks: the entry is not taken out of the poll.
HandlerAsksAside(n) ==
    LET h == handler[n]
        i == Index(n, h.peer)
    IN  /\ h.pc = "asking"
        /\ stream' = Written(stream, n, i, Plain("LIST_REQUEST"))
        /\ handler' = [handler EXCEPT ![n] = Idle]
        /\ UNCHANGED << setting, alive, entries, backlog, shut, acceptor,
                        dialled, greeted, mishaps, noise >>

\* The request for peers, written to the first entry of that address.
HandlerAsks(n) ==
    LET h == handler[n]
        i == Index(n, h.peer)
    IN  /\ h.pc = "asking"
        /\ stream' = Written(stream, n, i, Plain("LIST_REQUEST"))
        /\ entries' = [entries EXCEPT ![n][i].deaf = TRUE]
        /\ handler' = [handler EXCEPT ![n] =
                [pc |-> "waiting", end |-> entries[n][i].end, peer |-> h.peer]]
        /\ UNCHANGED << setting, alive, backlog, shut, acceptor,
                        dialled, greeted, mishaps, noise >>

\* The wait is over: the list, or something else, which is processed and
\* ends the handshake without ACQUITED.
HandlerHears(n) ==
    LET h == handler[n]
        i == IndexOfEnd(n, h.end)
    IN  /\ h.pc = "waiting"
        /\ Far(h.end) \notin shut
        /\ \E k \in 1..setting.reads :
            /\ k <= Len(stream[h.end])
            /\ entries' = [entries EXCEPT ![n][i].deaf = FALSE]
            /\ LET msg == Head(stream[h.end])
               IN  IF msg.type = "LIST_ANSWER"
                   THEN /\ handler' = [handler EXCEPT ![n] =
                              [pc |-> "joining", peer |-> h.peer, list |-> msg.list]]
                        /\ stream' = Consumed(h.end, k)
                        /\ mishaps' = mishaps \union Swallowed(h.end, k)
                        /\ UNCHANGED greeted
                   ELSE /\ handler' = [handler EXCEPT ![n] = Idle]
                        /\ stream' = IF msg.type # "LIST_REQUEST" THEN Consumed(h.end, k)
                              ELSE Written(Consumed(h.end, k), n, Index(n, h.peer),
                                     [type |-> "LIST_ANSWER", list |-> Listed(n, h.peer)])
                        /\ greeted' = Greeted(h.end, msg)
                        /\ mishaps' = mishaps \union {"intruded"}
        /\ UNCHANGED << setting, alive, backlog, shut, acceptor, dialled, noise >>

\* The wait is over because the peer has closed the connection: the entry
\* stays, and stays deaf.
HandlerHangsUp(n) ==
    /\ handler[n].pc = "waiting"
    /\ Far(handler[n].end) \in shut
    /\ handler' = [handler EXCEPT ![n] = Idle]
    /\ UNCHANGED << setting, alive, entries, backlog, stream, shut, acceptor,
                    dialled, greeted, mishaps, noise >>

\* Faulty variant of HandlerJoins: the last peer of the list is skipped.
HandlerJoinsButLast(n) ==
    LET h == handler[n]
    IN  /\ h.pc = "joining"
        /\ IF Len(h.list) <= 1
           THEN /\ stream' = Written(stream, n, Index(n, h.peer), Plain("ACQUITED"))
                /\ handler' = [handler EXCEPT ![n] = Idle]
                /\ UNCHANGED << entries, backlog, dialled >>
           ELSE /\ handler' = [handler EXCEPT ![n].list = Tail(@)]
                /\ IF CanConnect(n, Head(h.list)) THEN Connected(n, Head(h.list))
                   ELSE UNCHANGED << entries, backlog, dialled >>
                /\ UNCHANGED stream
        /\ UNCHANGED << setting, alive, shut, acceptor, greeted, mishaps, noise >>

\* The peers of the list are connected to one by one, then ACQUITED is sent.
HandlerJoins(n) ==
    LET h == handler[n]
    IN  /\ h.pc = "joining"
        /\ IF h.list = << >>
           THEN /\ stream' = Written(stream, n, Index(n, h.peer), Plain("ACQUITED"))
                /\ handler' = [handler EXCEPT ![n] = Idle]
                /\ UNCHANGED << entries, backlog, dialled >>
           ELSE /\ handler' = [handler EXCEPT ![n].list = Tail(@)]
                /\ IF CanConnect(n, Head(h.list)) THEN Connected(n, Head(h.list))
                   ELSE UNCHANGED << entries, backlog, dialled >>
                /\ UNCHANGED stream
        /\ UNCHANGED << setting, alive, shut, acceptor, greeted, mishaps, noise >>

-----------------------------------------------------------------------------
AcceptorStep(n) ==
    Accept(n) \/ AcceptorReads(n) \/ AcceptorHangsUp(n) \/ AcceptorUpdates(n)

HandlerStep(n) ==
    \/ HandlerProcesses(n) \/ HandlerAsks(n)
    \/ HandlerHears(n) \/ HandlerHangsUp(n) \/ HandlerJoins(n)
    \/ \E i \in DOMAIN entries[n] : HandlerReads(n, i) \/ HandlerDrops(n, i)

Next ==
    \/ \E i \in DOMAIN setting.peers : Dial(i)
    \/ \E n \in Node :
        Leave(n) \/ Broadcast(n) \/ AcceptorStep(n) \/ HandlerStep(n)

\* Both threads of a process that runs go on as long as they can.
Fairness == \A n \in Node : WF_vars(AcceptorStep(n)) /\ WF_vars(HandlerStep(n))

Spec == Init /\ [][Next]_vars /\ Fairness

-----------------------------------------------------------------------------
TypeOK ==
    /\ setting \in Setting
    /\ alive \subseteq Node
    /\ entries \in [Node -> Seq(Entry)]
    /\ backlog \in [Node -> Seq(Conn)]
    /\ stream \in [End -> Seq(Message)]
    /\ shut \subseteq End
    /\ acceptor \in [Node -> Acceptor]
    /\ handler \in [Node -> Handler]
    /\ dialled \subseteq Conn /\ greeted \subseteq {e \in End : e.conn \in dialled}
    /\ mishaps \subseteq {"swallowed", "intruded", "renamed", "early"}
    /\ noise \in Nat

Open(d) == d \in dialled /\ {OutEnd(d), InEnd(d)} \cap shut = {}

\* Some processes have connected to each other in a circle.
Circle ==
    \E S \in SUBSET Node : S # {} /\ \A a \in S : \E b \in S : << a, b >> \in dialled

\* No thread that waits for an answer ever reads an information request in
\* its place, which would start a second handshake inside the first.
NoNestedRequest ==
    \A n \in Node :
        /\ acceptor[n].pc = "waiting" /\ stream[acceptor[n].end] # << >>
            => Head(stream[acceptor[n].end]).type # "INFO_REQUEST"
        /\ handler[n].pc = "waiting" /\ stream[handler[n].end] # << >>
            => Head(stream[handler[n].end]).type # "INFO_REQUEST"

\* Once a node has handled ACQUITED it knows the listening port of the peer,
\* so what it answers later finds the peer, unless its handler had answered
\* the request for peers before its acceptor entered the port.
AcquitedIsKnown ==
    \A e \in greeted :
        LET d == e.conn
        IN  Open(d) /\ "early" \notin mishaps
                => \E i \in DOMAIN entries[d[2]] :
                      entries[d[2]][i].end = InEnd(d) /\ entries[d[2]][i].known

\* Who says ACQUITED to a node that has accepted it has connected to each peer
\* the node had by then, or was connected to by it, unless either of the two
\* has left: the network becomes a full mesh, whatever the order of the
\* handshakes, and whatever else goes wrong.
NewcomersMeetPeers ==
    \A s \in Node : \A i, j \in DOMAIN entries[s] :
        LET x == entries[s][i]
            y == entries[s][j]
            c == Owner(Far(x.end))
            d == Owner(Far(y.end))
        IN  /\ i < j /\ c # d /\ c \in alive
            /\ y.end.side = "in" /\ y.end \in greeted
            => {<< c, d >>, << d, c >>} \cap dialled # {}

\* Every handshake ends, for connections that stay open, when no recv has
\* coalesced messages, nothing came in between an answer, the peer kept its
\* name, and the processes have not connected in a circle.
Undisturbed == mishaps \cap {"swallowed", "intruded", "renamed"} = {}
HandshakeEnds ==
    <>[](Undisturbed /\ ~Circle) => <>[]\A d \in dialled : Open(d) => InEnd(d) \in greeted

\* The same, without the exception for circles.
HandshakeAlwaysEnds ==
    <>[]Undisturbed => <>[]\A d \in dialled : Open(d) => InEnd(d) \in greeted

\* Two processes are connected at most once.
OneConnectionPerPeer ==
    \A a, b \in Node : a # b => ~(Open(<< a, b >>) /\ Open(<< b, a >>))

\* An entry for a connection the peer has closed does not stay, except one
\* the handler waited on: deaf, and of a peer this node connected to.  (The
\* entries of a node whose handler waits on another connection may stay.)
WaitedOn(e) == e.side = "out" \/ << e.conn[2], e.conn[1] >> \in dialled
OnlyOrphansStay ==
    <>[]\A n \in Node : \A i \in DOMAIN entries[n] :
        Far(entries[n][i].end) \in shut /\ handler[n].pc # "waiting"
            => entries[n][i].deaf /\ WaitedOn(entries[n][i].end)

\* An entry for a connection the peer has closed does not stay.
ClosedIsForgotten ==
    \A n \in Node, e \in End :
        (IndexOfEnd(n, e) # 0 /\ Far(e) \in shut) ~> IndexOfEnd(n, e) = 0
=============================================================================
