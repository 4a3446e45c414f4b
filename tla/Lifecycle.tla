------------------------------ MODULE Lifecycle ------------------------------
(***************************************************************************)
(* From startNetwork to the last destructor: the threads of each process,  *)
(* how they are joined when the user quits, and what is taken down when.   *)
(*                                                                         *)
(*   q; save; ~P2PServer: HGONetworkManager::stop joins the message        *)
(*   handler, then the acceptor, closes every socket and clears the lists; *)
(*   then the tick thread is joined.  ~Blockchain: the dispatcher is       *)
(*   joined.  The chain is declared before the network, so it goes last.   *)
(*                                                                         *)
(* A handshake is what its two waits are: the acceptor's for the answer of *)
(* the caller's message handler, then the caller's message handler's for   *)
(* the answer of its counterpart.  A thread that waits leaves its loop     *)
(* only when the answer, any other message, or the end of the connection   *)
(* comes.  Which message that is, is the subject of Handshake.             *)
(***************************************************************************)
EXTENDS Naturals, FiniteSets

CONSTANTS
    Node,       \* processes
    Setting     \* the networks, with the bounds of each:
                \*   dials   pairs <<c, s>>: c connects to s once, while it runs
                \*   blocks  that the processes create, those in save included
                \*   fails   calls of accept4 that fail

ASSUME LifecycleAssumption ==
    Setting \subseteq
        [dials : SUBSET {d \in Node \X Node : d[1] # d[2]},
         blocks : Nat, fails : Nat]

VARIABLES
    setting, \* the network
    main,    \* what the main thread is at
    thread,  \* per process and thread
    conn,    \* per connection: how far it is
    events,  \* per process: events queued for the dispatcher
    buffer,  \* per process: tick messages queued
    created, \* counter: blocks created
    fails,   \* counter: failed calls of accept4
    late,    \* history: processes whose dispatcher used the P2PServer after ~P2PServer
    behind   \* history: those whose dispatcher pushed after their tick thread's end

vars == << setting, main, thread, conn, events, buffer, created, fails, late, behind >>

Dials == setting.dials

\* The main thread: waits for q; in stop, joins the handler and the acceptor;
\* in stopNetwork, joins the tick thread; in ~Blockchain, the dispatcher.
Place == << "off", "up", "join handler", "join acceptor", "join tick", "join dispatcher", "gone" >>
Rank(p) == CHOOSE i \in 1..7 : Place[i] = main[p]

Role == {"handler", "acceptor", "tick", "dispatcher"}
Ended == [at |-> "ended"]
Looping == [at |-> "looping"]
\* "waiting": in sendAndWait for a connection.  "deaf": in sendAndWait for
\* the descriptor -1, which poll passes over.
Thread ==
    {Ended, Looping, [at |-> "deaf"]} \union [at : {"waiting"}, on : Dials]

Running(p) == main[p] = "up"
Quitting(p) == Rank(p) \in 3..6

\* "none"; "backlog": made, not accepted; "infos": the acceptor waits; "list":
\* the caller's handler waits; "made": the handshake is over; "closed".
Phase == {"none", "backlog", "infos", "list", "made", "closed"}
Far(d, p) == IF d[1] = p THEN d[2] ELSE d[1]

-----------------------------------------------------------------------------
Init ==
    /\ setting \in Setting
    /\ main = [p \in Node |-> "off"]
    /\ thread = [p \in Node |-> [r \in Role |-> Ended]]
    /\ conn = [d \in Dials |-> "none"]
    /\ events = [p \in Node |-> 0] /\ buffer = [p \in Node |-> 0]
    /\ created = 0
    /\ fails = 0 /\ late = {} /\ behind = {}

\* The chain's dispatcher runs since its construction; run starts the acceptor
\* and the handler, startNetwork the tick thread.
Start(p) ==
    /\ main[p] = "off" /\ p \in UNION {{d[1], d[2]} : d \in Dials}
    /\ main' = [main EXCEPT ![p] = "up"]
    /\ thread' = [thread EXCEPT ![p] = [r \in Role |-> Looping]]
    /\ UNCHANGED << setting, conn, events, buffer, created, fails, late, behind >>

\* A message makes a block.
Create(p) ==
    /\ Running(p) /\ created < setting.blocks
    /\ created' = created + 1
    /\ events' = [events EXCEPT ![p] = @ + 1]
    /\ UNCHANGED << setting, main, thread, conn, buffer, fails, late, behind >>

\* Faulty variant of Dispatch: the block is pushed twice.
DispatchTwice(p) ==
    /\ thread[p]["dispatcher"] = Looping /\ events[p] > 0
    /\ events' = [events EXCEPT ![p] = @ - 1]
    /\ IF Rank(p) >= 6
       THEN late' = late \union {p} /\ UNCHANGED << buffer, behind >>
       ELSE /\ buffer' = [buffer EXCEPT ![p] = @ + 2]
            /\ behind' = IF thread[p]["tick"] = Ended THEN behind \union {p} ELSE behind
            /\ UNCHANGED late
    /\ UNCHANGED << setting, main, thread, conn, created, fails >>

\* One turn of the dispatcher: _handleChainEvent pushes a tick message.
Dispatch(p) ==
    /\ thread[p]["dispatcher"] = Looping /\ events[p] > 0
    /\ events' = [events EXCEPT ![p] = @ - 1]
    /\ IF Rank(p) >= 6
       THEN late' = late \union {p} /\ UNCHANGED << buffer, behind >>
       ELSE /\ buffer' = [buffer EXCEPT ![p] = @ + 1]
            /\ behind' = IF thread[p]["tick"] = Ended THEN behind \union {p} ELSE behind
            /\ UNCHANGED late
    /\ UNCHANGED << setting, main, thread, conn, created, fails >>

-----------------------------------------------------------------------------
(***************************************************************************)
(* Connections.                                                            *)
(***************************************************************************)
Dial(d) ==
    /\ conn[d] = "none"
    /\ Running(d[1]) /\ Running(d[2])
    /\ conn' = [conn EXCEPT ![d] = "backlog"]
    /\ UNCHANGED << setting, main, thread, events, buffer, created, fails, late, behind >>

\* The acceptor asks for information and waits.
Accept(d) ==
    /\ conn[d] = "backlog" /\ thread[d[2]]["acceptor"] = Looping
    /\ conn' = [conn EXCEPT ![d] = "infos"]
    /\ thread' = [thread EXCEPT ![d[2]]["acceptor"] = [at |-> "waiting", on |-> d]]
    /\ UNCHANGED << setting, main, events, buffer, created, fails, late, behind >>

\* accept4 fails: that is printed, and -1 is pushed and waited for all the same.
AcceptFails(d) ==
    /\ conn[d] = "backlog" /\ thread[d[2]]["acceptor"] = Looping
    /\ fails < setting.fails
    /\ fails' = fails + 1
    /\ conn' = [conn EXCEPT ![d] = "closed"]
    /\ thread' = [thread EXCEPT ![d[2]]["acceptor"] = [at |-> "deaf"]]
    /\ UNCHANGED << setting, main, events, buffer, created, late, behind >>

\* The caller's handler answers the request, asks for peers and waits.
AnswerInfos(d) ==
    /\ conn[d] = "infos" /\ thread[d[1]]["handler"] = Looping
    /\ conn' = [conn EXCEPT ![d] = "list"]
    /\ thread' = [thread EXCEPT
            ![d[2]]["acceptor"] = IF @ = [at |-> "waiting", on |-> d] THEN Looping ELSE @,
            ![d[1]]["handler"] = [at |-> "waiting", on |-> d]]
    /\ UNCHANGED << setting, main, events, buffer, created, fails, late, behind >>

\* Faulty variant of AnswerList: the caller's handler waits on.
AnswerListUnheard(d) ==
    /\ conn[d] = "list" /\ thread[d[2]]["handler"] = Looping
    /\ conn' = [conn EXCEPT ![d] = "made"]
    /\ UNCHANGED << setting, main, thread, events, buffer, created, fails, late, behind >>

\* The other handler answers that, and the caller's goes on.
AnswerList(d) ==
    /\ conn[d] = "list" /\ thread[d[2]]["handler"] = Looping
    /\ conn' = [conn EXCEPT ![d] = "made"]
    /\ thread' = [thread EXCEPT ![d[1]]["handler"] = Looping]
    /\ UNCHANGED << setting, main, events, buffer, created, fails, late, behind >>

\* One turn of the tick thread: a broadcast, which a peer that waits takes
\* for its answer: its acceptor then disconnects, its handler gives up.  When
\* the lists are cleared it reaches nobody.
Reached(p) == {d \in Dials : p \in {d[1], d[2]} /\ conn[d] \in {"infos", "list"}}
Misled(p) == {d \in Reached(p) : conn[d] = (IF p = d[1] THEN "infos" ELSE "list")}
Tick(p) ==
    /\ thread[p]["tick"] = Looping /\ buffer[p] > 0
    /\ buffer' = [buffer EXCEPT ![p] = @ - 1]
    /\ conn' = [d \in Dials |->
            IF d \notin Misled(p) THEN conn[d]
            ELSE IF conn[d] = "infos" THEN "closed" ELSE "made"]
    /\ thread' = [q \in Node |-> [r \in Role |->
            IF \E d \in Misled(p) : Far(d, p) = q /\ thread[q][r] = [at |-> "waiting", on |-> d]
            THEN Looping ELSE thread[q][r]]]
    /\ UNCHANGED << setting, main, events, created, fails, late, behind >>

-----------------------------------------------------------------------------
(***************************************************************************)
(* The end.                                                                *)
(***************************************************************************)

\* q: save, which may make a block of what is buffered; stop sets _running
\* to FALSE and joins.
Quit(p) ==
    /\ main[p] = "up"
    /\ main' = [main EXCEPT ![p] = "join handler"]
    /\ \E n \in {0, 1} :
            /\ created + n <= setting.blocks
            /\ created' = created + n
            /\ events' = [events EXCEPT ![p] = @ + n]
    /\ UNCHANGED << setting, thread, conn, buffer, fails, late, behind >>

\* Faulty variant of Leave: the tick thread looks at _running alone.
LeaveUnsent(p, r) ==
    /\ thread[p][r] = Looping
    /\ IF r = "dispatcher" THEN main[p] = "join dispatcher" ELSE Rank(p) >= 3
    /\ thread' = [thread EXCEPT ![p][r] = Ended]
    /\ UNCHANGED << setting, main, conn, events, buffer, created, fails, late, behind >>

\* A thread finds at the head of its loop that it is over.
Leave(p, r) ==
    /\ thread[p][r] = Looping
    /\ CASE r = "dispatcher" -> main[p] = "join dispatcher"
         [] r = "tick" -> Rank(p) >= 3 /\ buffer[p] = 0
         [] OTHER -> Rank(p) >= 3
    /\ thread' = [thread EXCEPT ![p][r] = Ended]
    /\ UNCHANGED << setting, main, conn, events, buffer, created, fails, late, behind >>

HandlerJoined(p) ==
    /\ main[p] = "join handler" /\ thread[p]["handler"] = Ended
    /\ main' = [main EXCEPT ![p] = "join acceptor"]
    /\ UNCHANGED << setting, thread, conn, events, buffer, created, fails, late, behind >>

\* What is open at p when its sockets and its server socket are closed.
Mine(p) == {d \in Dials : p \in {d[1], d[2]} /\ conn[d] # "none"}

\* Faulty variant of AcceptorJoined: the sockets are not closed.
AcceptorJoinedOnly(p) ==
    /\ main[p] = "join acceptor" /\ thread[p]["acceptor"] = Ended
    /\ main' = [main EXCEPT ![p] = "join tick"]
    /\ UNCHANGED << setting, thread, conn, events, buffer, created, fails, late, behind >>

\* The sockets are closed and the lists cleared; a peer that waits is told so.
AcceptorJoined(p) ==
    /\ main[p] = "join acceptor" /\ thread[p]["acceptor"] = Ended
    /\ main' = [main EXCEPT ![p] = "join tick"]
    /\ conn' = [d \in Dials |-> IF d \in Mine(p) THEN "closed" ELSE conn[d]]
    /\ thread' = [q \in Node |-> [r \in Role |->
            IF q # p /\ \E d \in Mine(p) : thread[q][r] = [at |-> "waiting", on |-> d]
            THEN Looping ELSE thread[q][r]]]
    /\ UNCHANGED << setting, events, buffer, created, fails, late, behind >>

\* The P2PServer is destroyed; then ~ChainEventManager tells the dispatcher.
TickJoined(p) ==
    /\ main[p] = "join tick" /\ thread[p]["tick"] = Ended
    /\ main' = [main EXCEPT ![p] = "join dispatcher"]
    /\ UNCHANGED << setting, thread, conn, events, buffer, created, fails, late, behind >>

DispatcherJoined(p) ==
    /\ main[p] = "join dispatcher" /\ thread[p]["dispatcher"] = Ended
    /\ main' = [main EXCEPT ![p] = "gone"]
    /\ UNCHANGED << setting, thread, conn, events, buffer, created, fails, late, behind >>

MainStep(p) ==
    HandlerJoined(p) \/ AcceptorJoined(p) \/ TickJoined(p) \/ DispatcherJoined(p)

\* What the message handler of p answers.
HandlerStep(p) ==
    \/ \E d \in Dials : d[1] = p /\ AnswerInfos(d)
    \/ \E d \in Dials : d[2] = p /\ AnswerList(d)
    \/ Leave(p, "handler")
AcceptorStep(p) ==
    \/ \E d \in Dials : d[2] = p /\ (Accept(d) \/ AcceptFails(d))
    \/ Leave(p, "acceptor")

Next ==
    \E p \in Node :
        \/ Start(p) \/ Create(p) \/ Dispatch(p) \/ Tick(p) \/ Quit(p)
        \/ \E d \in Dials : d[1] = p /\ Dial(d)
        \/ HandlerStep(p) \/ AcceptorStep(p) \/ MainStep(p)
        \/ Leave(p, "tick") \/ Leave(p, "dispatcher")

\* Every thread goes on when it can; nobody has to start, dial or quit.
Fairness ==
    \A p \in Node :
        /\ WF_vars(HandlerStep(p)) /\ WF_vars(AcceptorStep(p)) /\ WF_vars(MainStep(p))
        /\ WF_vars(Tick(p) \/ Leave(p, "tick"))
        /\ WF_vars(Dispatch(p) \/ Leave(p, "dispatcher"))

Spec == Init /\ [][Next]_vars /\ Fairness

-----------------------------------------------------------------------------
LifecycleTypeOK ==
    /\ setting \in Setting
    /\ \A p \in Node : \E i \in 1..7 : main[p] = Place[i]
    /\ \A p \in Node, r \in Role : thread[p][r] \in Thread
    /\ conn \in [Dials -> Phase]
    /\ {events, buffer} \subseteq [Node -> 0..setting.blocks]
    /\ created \in 0..setting.blocks
    /\ fails \in 0..setting.fails
    /\ late \subseteq Node /\ behind \subseteq Node

\* The thread that thread t = <<p, r>> cannot go on without, itself if there
\* is none: a wait needs the handler at the other end or, when that has ended,
\* the main thread that will close the socket; a join needs the joined thread.
Needs(t) ==
    LET p == t[1]
        w == IF t[2] = "main" THEN Ended ELSE thread[p][t[2]]
        other == Far(w.on, p)
    IN  CASE t[2] = "main" /\ main[p] = "join handler" -> << p, "handler" >>
          [] t[2] = "main" /\ main[p] = "join acceptor" -> << p, "acceptor" >>
          [] w.at = "waiting" ->
                << other, IF thread[other]["handler"] = Ended THEN "main" ELSE "handler" >>
          [] OTHER -> t

\* Whether the main thread of p ends up needing a ring of threads that need
\* each other, or one that waits for what cannot come: following Needs from
\* any thread reaches such a ring, or a thread that can go on, within as many
\* steps as there are threads.
InRing(p) ==
    LET chase[k \in Nat] == IF k = 0 THEN << p, "main" >> ELSE Needs(chase[k - 1])
        t == chase[3 * Cardinality(Node)]
    IN  \/ Needs(t) # t
        \/ t[2] # "main" /\ thread[t[1]][t[2]].at = "deaf"

\* A process whose user quits ends, unless its threads and those of its peers
\* wait for each other in a ring or its acceptor waits for descriptor -1:
\* these are the only ways in which a wait without a timeout keeps it.
\* Neither happens when nobody that connects is connected to (as when all
\* wallets know one masternode) and no accept4 has failed.
Hub == fails = 0 /\ \A d, e \in Dials : d[2] # e[1]
QuitEndsUnlessRing ==
    \A p \in Node : Quitting(p) ~> (main[p] = "gone" \/ (~Hub /\ InRing(p)))

\* A process whose user quits ends.
QuitAlwaysEnds == \A p \in Node : Quitting(p) ~> (main[p] = "gone")

\* Once the lists are cleared neither thread that keeps indices of them runs,
\* and no thread of a peer still waits for an answer of the process; once the
\* P2PServer is destroyed its tick thread does not run either.
Waits(q, r, p) == thread[q][r].at = "waiting" /\ Far(thread[q][r].on, q) = p
OrderlyEnd ==
    \A p \in Node :
        /\ Rank(p) >= 5 =>
            /\ thread[p]["handler"] = Ended /\ thread[p]["acceptor"] = Ended
            /\ ~\E q \in Node, r \in Role : Waits(q, r, p)
        /\ Rank(p) >= 6 => thread[p]["tick"] = Ended

\* A block that has come to the tick queue is taken from it to be sent,
\* although other threads of the process may be stuck, and although the user
\* quits; except those pushed when the tick thread has already ended, which
\* it does when it finds the queue empty after stop (p2p_server.cpp:50).
BlocksAreSent == \A p \in Node : buffer[p] > 0 ~> (buffer[p] = 0 \/ p \in behind)

\* No dispatcher uses a P2PServer that is destroyed.
ServerOutlivesUse == late = {}

\* A connection that is made to a process that goes on is accepted, unless
\* its acceptor is kept by a caller that does not answer.
AcceptorServes ==
    \A d \in Node \X Node :
        (d \in Dials /\ conn[d] = "backlog")
            ~> (d \in Dials => \/ conn[d] # "backlog" \/ ~Running(d[2])
                               \/ thread[d[2]]["acceptor"].at = "waiting")
=============================================================================
