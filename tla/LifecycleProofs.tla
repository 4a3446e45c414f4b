--------------------------- MODULE LifecycleProofs ---------------------------
(***************************************************************************)
(* Theorems about Lifecycle, for any processes, any networks and any       *)
(* bounds.                                                                 *)
(***************************************************************************)
EXTENDS Lifecycle, TLAPS

(***************************************************************************)
(* The inductive invariant.                                                *)
(***************************************************************************)
Mains == {"off", "up", "join handler", "join acceptor", "join tick", "join dispatcher", "gone"}

\* Once the handler is joined, once the lists are cleared, once the P2PServer
\* is destroyed.
Past4(p) == main[p] \in {"join acceptor", "join tick", "join dispatcher", "gone"}
Past5(p) == main[p] \in {"join tick", "join dispatcher", "gone"}
Past6(p) == main[p] \in {"join dispatcher", "gone"}

Shape ==
    /\ setting \in Setting
    /\ main \in [Node -> Mains]
    /\ thread \in [Node -> [Role -> Thread]]
    /\ conn \in [Dials -> Phase]
    /\ late \subseteq Node /\ behind \subseteq Node

\* Every event and every tick message is that of a block: the counters of a
\* process never exceed the blocks created.
Counts ==
    /\ events \in [Node -> Nat] /\ buffer \in [Node -> Nat]
    /\ created \in 0..setting.blocks /\ fails \in 0..setting.fails
    /\ \A p \in Node : events[p] + buffer[p] <= created

\* Who waits, and for what: an acceptor for the answer on a connection it has
\* accepted, a handler for the list on one its process has dialled.
WaitRole ==
    \A q \in Node, r \in Role :
        thread[q][r].at = "waiting" =>
            LET d == thread[q][r].on
            IN  \/ r = "acceptor" /\ q = d[2] /\ conn[d] = "infos"
                \/ r = "handler" /\ q = d[1] /\ conn[d] = "list"
ListWaits ==
    \A d \in Dials : conn[d] = "list" => thread[d[1]]["handler"] = [at |-> "waiting", on |-> d]

\* A process has no connections before it starts, and no open ones once its
\* lists are cleared.
OffNone ==
    \A p \in Node, d \in Dials : main[p] = "off" /\ p \in {d[1], d[2]} => conn[d] = "none"
Shut ==
    \A p \in Node, d \in Dials :
        Past5(p) /\ p \in {d[1], d[2]} => conn[d] \in {"none", "closed"}

\* What is joined has ended.
Joined ==
    \A p \in Node :
        /\ Past4(p) => thread[p]["handler"] = Ended
        /\ Past5(p) => thread[p]["acceptor"] = Ended
        /\ Past6(p) => thread[p]["tick"] = Ended

EndInv == WaitRole /\ ListWaits /\ OffNone /\ Shut /\ Joined
LInv == Shape /\ Counts /\ EndInv

-----------------------------------------------------------------------------
(***************************************************************************)
(* Ranks, connections and threads.                                         *)
(***************************************************************************)

\* Where a main thread is, by its rank.
LEMMA RankFacts ==
    ASSUME NEW p \in Node, main[p] \in Mains
    PROVE  /\ Rank(p) \in 1..7 /\ Place[Rank(p)] = main[p]
           /\ Rank(p) >= 5 <=> Past5(p)
           /\ Rank(p) >= 6 <=> Past6(p)
<1> DEFINE P == Place
<1>1. /\ P[1] = "off" /\ P[2] = "up" /\ P[3] = "join handler" /\ P[4] = "join acceptor"
      /\ P[5] = "join tick" /\ P[6] = "join dispatcher" /\ P[7] = "gone"
  BY DEF Place
<1> HIDE DEF P
<1>2. \E i \in 1..7 : P[i] = main[p]
  <2>1. \A i \in {1, 2, 3, 4, 5, 6, 7} : i \in 1..7
    OBVIOUS
  <2>2. \E i \in {1, 2, 3, 4, 5, 6, 7} : P[i] = main[p]
    BY <1>1, Zenon DEF Mains
  <2> QED BY <2>1, <2>2
<1>3. Rank(p) \in 1..7 /\ P[Rank(p)] = main[p]
  BY <1>2 DEF Rank, P
<1>4. ASSUME NEW i \in 1..7, P[i] = main[p]
      PROVE  (i >= 5 <=> Past5(p)) /\ (i >= 6 <=> Past6(p))
  <2>1. i = 1 \/ i = 2 \/ i = 3 \/ i = 4 \/ i = 5 \/ i = 6 \/ i = 7
    OBVIOUS
  <2>2. (i >= 5 <=> i = 5 \/ i = 6 \/ i = 7) /\ (i >= 6 <=> i = 6 \/ i = 7)
    BY <2>1
  <2>3. Past5(p) <=> i = 5 \/ i = 6 \/ i = 7
    BY <1>1, <1>4, <2>1 DEF Past5
  <2>4. Past6(p) <=> i = 6 \/ i = 7
    BY <1>1, <1>4, <2>1 DEF Past6
  <2> QED BY <2>2, <2>3, <2>4
<1> QED BY <1>3, <1>4 DEF P

\* The ends of a connection are two processes.
LEMMA DialEnds ==
    ASSUME setting \in Setting, NEW d \in Dials
    PROVE  d[1] \in Node /\ d[2] \in Node /\ d[1] # d[2]
BY LifecycleAssumption DEF Dials

\* What the threads may be at.
LEMMA ThreadMakers ==
    /\ Ended \in Thread /\ Looping \in Thread /\ [at |-> "deaf"] \in Thread
    /\ \A d \in Dials : [at |-> "waiting", on |-> d] \in Thread
    /\ Ended.at = "ended" /\ Looping.at = "looping"
BY DEF Thread, Ended, Looping

LEMMA ThreadParts ==
    ASSUME NEW t \in Thread
    PROVE  t.at = "waiting" => t.on \in Dials /\ t = [at |-> "waiting", on |-> t.on]
BY DEF Thread, Ended, Looping

\* One thread moves.
LEMMA ThreadUpdate ==
    ASSUME NEW f \in [Node -> [Role -> Thread]], NEW c \in Node, NEW s \in Role,
           NEW x \in Thread
    PROVE  LET g == [f EXCEPT ![c][s] = x]
           IN  /\ g \in [Node -> [Role -> Thread]]
               /\ \A q \in Node, r \in Role :
                    g[q][r] = IF q = c /\ r = s THEN x ELSE f[q][r]
<1> DEFINE h == [f[c] EXCEPT ![s] = x]
           g == [f EXCEPT ![c] = h]
<1>1. f[c] \in [Role -> Thread]
  OBVIOUS
<1>2. h \in [Role -> Thread] /\ \A r \in Role : h[r] = IF r = s THEN x ELSE f[c][r]
  BY <1>1
<1>3. g = [f EXCEPT ![c][s] = x]
  OBVIOUS
<1> HIDE DEF h
<1>4. g \in [Node -> [Role -> Thread]] /\ \A q \in Node : g[q] = IF q = c THEN h ELSE f[q]
  BY <1>2
<1>5. \A q \in Node, r \in Role : g[q][r] = IF q = c /\ r = s THEN x ELSE f[q][r]
  BY <1>2, <1>4
<1> HIDE DEF g
<1> QED BY <1>3, <1>4, <1>5

-----------------------------------------------------------------------------
(***************************************************************************)
(* Types and counters.                                                     *)
(***************************************************************************)
LEMMA InitShape == Init => Shape /\ Counts
<1> SUFFICES ASSUME Init PROVE Shape /\ Counts
  OBVIOUS
<1>1. thread \in [Node -> [Role -> Thread]]
  BY ThreadMakers DEF Init
<1>2. setting.blocks \in Nat /\ setting.fails \in Nat
  BY LifecycleAssumption DEF Init
<1>3. Shape
  BY <1>1 DEF Init, Shape, Mains, Phase
<1>4. Counts
  BY <1>2 DEF Init, Counts
<1> QED BY <1>3, <1>4

LEMMA CountsStep ==
    ASSUME Shape, Counts, [Next]_vars
    PROVE  Counts'
<1>1. setting.blocks \in Nat /\ setting.fails \in Nat
  BY LifecycleAssumption DEF Shape
<1>2. \A p \in Node : events[p] \in Nat /\ buffer[p] \in Nat
  BY DEF Counts
<1>3. created \in Nat /\ fails \in Nat
  BY <1>1 DEF Counts
<1>4. ASSUME UNCHANGED << setting, events, buffer, created, fails >> PROVE Counts'
  BY <1>4 DEF Counts
<1>5. ASSUME NEW p \in Node, NEW e \in Nat, NEW b \in Nat, NEW c \in 0..setting.blocks,
             setting' = setting, fails' = fails,
             events' = [events EXCEPT ![p] = e], buffer' = [buffer EXCEPT ![p] = b],
             created' = c, created <= c, e + b <= c
      PROVE  Counts'
  <2>1. events' \in [Node -> Nat] /\ buffer' \in [Node -> Nat]
    BY <1>5 DEF Counts
  <2>2. \A q \in Node : events'[q] = (IF q = p THEN e ELSE events[q])
    BY <1>5 DEF Counts
  <2>3. \A q \in Node : buffer'[q] = (IF q = p THEN b ELSE buffer[q])
    BY <1>5 DEF Counts
  <2>4. \A q \in Node \ {p} : events[q] + buffer[q] <= c
    BY <1>1, <1>2, <1>3, <1>5 DEF Counts
  <2>5. \A q \in Node : events'[q] + buffer'[q] <= created'
    BY <1>5, <2>2, <2>3, <2>4
  <2> QED BY <1>5, <2>1, <2>5 DEF Counts
<1>6. buffer = [q \in Node |-> buffer[q]] /\ events = [q \in Node |-> events[q]]
  BY DEF Counts
<1>7. \A q \in Node : /\ buffer = [buffer EXCEPT ![q] = buffer[q]]
                      /\ events = [events EXCEPT ![q] = events[q]]
  BY <1>6
<1>8. ASSUME NEW p \in Node, Create(p) PROVE Counts'
  <2>1. events[p] + 1 \in Nat /\ created + 1 \in 0..setting.blocks /\ created <= created + 1
    BY <1>1, <1>2, <1>3, <1>8 DEF Create
  <2>2. events[p] + 1 + buffer[p] <= created + 1
    BY <1>2, <1>3 DEF Counts
  <2>3. /\ setting' = setting /\ fails' = fails /\ created' = created + 1
        /\ events' = [events EXCEPT ![p] = events[p] + 1] /\ buffer' = buffer
    BY <1>8 DEF Create
  <2> QED BY <1>2, <1>5, <1>7, <2>1, <2>2, <2>3
<1>9. ASSUME NEW p \in Node, Dispatch(p) PROVE Counts'
  <2>1. /\ setting' = setting /\ fails' = fails /\ created' = created /\ events[p] > 0
        /\ events' = [events EXCEPT ![p] = events[p] - 1]
        /\ buffer' = buffer \/ buffer' = [buffer EXCEPT ![p] = buffer[p] + 1]
    BY <1>9 DEF Dispatch
  <2>2. /\ events[p] - 1 \in Nat /\ buffer[p] + 1 \in Nat /\ created \in 0..setting.blocks
        /\ created <= created /\ events[p] - 1 + buffer[p] <= created
        /\ events[p] - 1 + (buffer[p] + 1) <= created
    BY <1>2, <1>3, <2>1 DEF Counts
  <2> QED BY <1>2, <1>5, <1>7, <2>1, <2>2
<1>10. ASSUME NEW p \in Node, Tick(p) PROVE Counts'
  <2>1. /\ setting' = setting /\ fails' = fails /\ created' = created /\ events' = events
        /\ buffer[p] > 0 /\ buffer' = [buffer EXCEPT ![p] = buffer[p] - 1]
    BY <1>10 DEF Tick
  <2>2. /\ buffer[p] - 1 \in Nat /\ created \in 0..setting.blocks
        /\ created <= created /\ events[p] + (buffer[p] - 1) <= created
    BY <1>2, <1>3, <2>1 DEF Counts
  <2> QED BY <1>2, <1>5, <1>7, <2>1, <2>2
<1>11. ASSUME NEW p \in Node, Quit(p) PROVE Counts'
  <2>1. PICK n \in {0, 1} : /\ created + n <= setting.blocks /\ created' = created + n
                            /\ events' = [events EXCEPT ![p] = events[p] + n]
    BY <1>11 DEF Quit
  <2>2. setting' = setting /\ fails' = fails /\ buffer' = buffer
    BY <1>11 DEF Quit
  <2>3. /\ events[p] + n \in Nat /\ created + n \in 0..setting.blocks
        /\ created <= created + n /\ events[p] + n + buffer[p] <= created + n
    BY <1>1, <1>2, <1>3, <2>1 DEF Counts
  <2> QED BY <1>2, <1>5, <1>7, <2>1, <2>2, <2>3
<1>12. ASSUME NEW d \in Dials, AcceptFails(d) PROVE Counts'
  <2>1. fails' \in 0..setting.fails
    BY <1>1, <1>3, <1>12 DEF AcceptFails
  <2>2. UNCHANGED << setting, events, buffer, created >>
    BY <1>12 DEF AcceptFails
  <2> QED BY <2>1, <2>2 DEF Counts
<1>13. ASSUME NEW d \in Dials, Dial(d) \/ Accept(d) \/ AnswerInfos(d) \/ AnswerList(d)
       PROVE  Counts'
  BY <1>4, <1>13 DEF Dial, Accept, AnswerInfos, AnswerList
<1>14. ASSUME NEW p \in Node, \/ Start(p) \/ MainStep(p)
                              \/ \E r \in Role : Leave(p, r)
       PROVE  Counts'
  BY <1>4, <1>14 DEF Start, MainStep, Leave, HandlerJoined, AcceptorJoined, TickJoined,
                     DispatcherJoined
<1>15. CASE UNCHANGED vars
  BY <1>4, <1>15 DEF vars
<1>16. ASSUME Next PROVE Counts'
  <2>1. {"handler", "acceptor", "tick", "dispatcher"} = Role
    BY DEF Role
  <2> QED BY <1>8, <1>9, <1>10, <1>11, <1>12, <1>13, <1>14, <1>16, <2>1
          DEF Next, HandlerStep, AcceptorStep
<1> QED BY <1>15, <1>16

-----------------------------------------------------------------------------
(***************************************************************************)
(* The steps, one after the other.  Of the threads and the connections it  *)
(* matters only what each is at after the step.                            *)
(***************************************************************************)
LEMMA InitEndInv ==
    ASSUME Init
    PROVE  EndInv
<1>1. \A p \in Node : main[p] = "off" /\ \A r \in Role : thread[p][r].at = "ended"
  BY DEF Init, Ended
<1>2. \A d \in Dials : conn[d] = "none"
  BY DEF Init
<1> QED BY <1>1, <1>2 DEF EndInv, WaitRole, ListWaits, OffNone, Shut, Joined,
                         Past4, Past5, Past6

LEMMA SameEnd ==
    ASSUME Shape, EndInv, UNCHANGED << setting, main, thread, conn >>
    PROVE  EndInv'
<1>1. Dials' = Dials
  BY DEF Dials
<1>2. WaitRole'
  BY DEF EndInv, WaitRole
<1>3. ListWaits'
  BY <1>1 DEF EndInv, ListWaits
<1>4. OffNone'
  BY <1>1 DEF EndInv, OffNone
<1>5. Shut'
  BY <1>1 DEF EndInv, Shut, Past5
<1>6. Joined'
  BY DEF EndInv, Joined, Past4, Past5, Past6
<1> QED BY <1>2, <1>3, <1>4, <1>5, <1>6 DEF EndInv

\* Where only connections that are open change, and no thread that has ended,
\* what has ended stays so and what is shut stays so.
LEMMA OpenChanges ==
    ASSUME Shape, EndInv, UNCHANGED << setting, main >>,
           \A d \in Dials : conn'[d] = conn[d] \/ conn[d] \notin {"none", "closed"},
           \A q \in Node, r \in Role : thread[q][r] = Ended => thread'[q][r] = Ended
    PROVE  OffNone' /\ Shut' /\ Joined'
<1>1. Dials' = Dials /\ {"handler", "acceptor", "tick"} \subseteq Role
  BY DEF Dials, Role
<1>2. OffNone'
  BY <1>1 DEF EndInv, OffNone
<1>3. Shut'
  BY <1>1 DEF EndInv, Shut, Past5
<1>4. Joined'
  BY <1>1 DEF EndInv, Joined, Past4, Past5, Past6
<1> QED BY <1>2, <1>3, <1>4

\* Where every wait after the step was one before it, on a connection that the
\* step leaves alone, the waits are still those of the right threads.
LEMMA NoNewWait ==
    ASSUME Shape, EndInv,
           \A q \in Node, r \in Role : thread'[q][r].at = "waiting" =>
                /\ thread'[q][r] = thread[q][r]
                /\ conn'[thread[q][r].on] = conn[thread[q][r].on]
    PROVE  WaitRole'
BY DEF EndInv, WaitRole

LEMMA StartEnd ==
    ASSUME Shape, EndInv, NEW p \in Node, Start(p)
    PROVE  Shape' /\ EndInv'
<1>1. UNCHANGED << setting, conn, late, behind >> /\ Dials' = Dials /\ Thread' = Thread
  BY DEF Start, Dials, Thread
<1>2. /\ main' \in [Node -> Mains] /\ main[p] = "off" /\ main'[p] = "up"
      /\ \A q \in Node \ {p} : main'[q] = main[q]
  BY DEF Start, Shape, Mains
<1>3. /\ thread' \in [Node -> [Role -> Thread]]
      /\ \A q \in Node \ {p} : thread'[q] = thread[q]
      /\ \A r \in Role : thread'[p][r] = Looping
  BY ThreadMakers DEF Start, Shape
<1>4. Shape'
  BY <1>1, <1>2, <1>3 DEF Shape
<1>5. WaitRole'
  BY <1>1, <1>3, ThreadMakers DEF EndInv, WaitRole
<1>6. ListWaits'
  <2> SUFFICES ASSUME NEW d \in Dials, conn[d] = "list"
               PROVE  thread'[d[1]]["handler"] = [at |-> "waiting", on |-> d]
    BY <1>1 DEF ListWaits
  <2>1. d[1] \in Node /\ d[1] # p
    BY <1>2, DialEnds DEF EndInv, OffNone, Shape
  <2> QED BY <1>3, <2>1 DEF EndInv, ListWaits
<1>7. OffNone'
  BY <1>1, <1>2 DEF EndInv, OffNone
<1>8. Shut'
  BY <1>1, <1>2 DEF EndInv, Shut, Past5
<1>9. Joined'
  BY <1>2, <1>3 DEF EndInv, Joined, Past4, Past5, Past6
<1> QED BY <1>4, <1>5, <1>6, <1>7, <1>8, <1>9 DEF EndInv

LEMMA DialEnd ==
    ASSUME Shape, EndInv, NEW d \in Dials, Dial(d)
    PROVE  Shape' /\ EndInv'
<1>1. UNCHANGED << setting, main, thread, late, behind >> /\ Dials' = Dials /\ Thread' = Thread
  BY DEF Dial, Dials, Thread
<1>2. /\ conn' \in [Dials -> Phase] /\ conn[d] = "none" /\ conn'[d] = "backlog"
      /\ \A e \in Dials \ {d} : conn'[e] = conn[e]
  BY DEF Dial, Shape, Phase
<1>3. main[d[1]] = "up" /\ main[d[2]] = "up"
  BY DEF Dial, Running
<1>4. Shape'
  BY <1>1, <1>2 DEF Shape
<1>5. WaitRole'
  <2> SUFFICES ASSUME NEW q \in Node, NEW r \in Role, thread[q][r].at = "waiting"
               PROVE  LET e == thread[q][r].on
                      IN  \/ r = "acceptor" /\ q = e[2] /\ conn'[e] = "infos"
                          \/ r = "handler" /\ q = e[1] /\ conn'[e] = "list"
    BY <1>1 DEF WaitRole
  <2> DEFINE e == thread[q][r].on
  <2>1. e \in Dials
    BY ThreadParts DEF Shape
  <2>2. \/ r = "acceptor" /\ q = e[2] /\ conn[e] = "infos"
        \/ r = "handler" /\ q = e[1] /\ conn[e] = "list"
    BY DEF EndInv, WaitRole
  <2>3. e # d
    BY <1>2, <2>2
  <2> QED BY <1>2, <2>1, <2>2, <2>3
<1>6. ListWaits'
  BY <1>1, <1>2 DEF EndInv, ListWaits
<1>7. OffNone' /\ Shut' /\ Joined'
  BY <1>1, <1>2, <1>3 DEF EndInv, OffNone, Shut, Joined, Past4, Past5, Past6
<1> QED BY <1>4, <1>5, <1>6, <1>7 DEF EndInv

\* A thread at connection d goes from its loop to a wait, or the other way,
\* and the connection with it.
LEMMA AcceptEnd ==
    ASSUME Shape, EndInv, NEW d \in Dials, Accept(d) \/ AcceptFails(d)
    PROVE  Shape' /\ EndInv'
<1> DEFINE w == thread'[d[2]]["acceptor"]
<1>1. UNCHANGED << setting, main, late, behind >> /\ Dials' = Dials /\ Thread' = Thread
  BY DEF Accept, AcceptFails, Dials, Thread
<1>2. d[1] \in Node /\ d[2] \in Node /\ d[1] # d[2] /\ "acceptor" \in Role
  BY DialEnds DEF Shape, Role
<1>3. /\ conn' \in [Dials -> Phase] /\ conn[d] = "backlog" /\ conn'[d] \in {"infos", "closed"}
      /\ \A e \in Dials \ {d} : conn'[e] = conn[e]
  BY DEF Accept, AcceptFails, Shape, Phase
<1>4. /\ thread' \in [Node -> [Role -> Thread]]
      /\ \A q \in Node, r \in Role :
            q # d[2] \/ r # "acceptor" => thread'[q][r] = thread[q][r]
      /\ \/ conn'[d] = "infos" /\ w = [at |-> "waiting", on |-> d]
         \/ w.at = "deaf"
  <2>1. CASE Accept(d)
    <3> DEFINE x == [at |-> "waiting", on |-> d]
    <3>1. x \in Thread
      BY ThreadMakers
    <3>2. thread' = [thread EXCEPT ![d[2]]["acceptor"] = x] /\ conn'[d] = "infos"
      BY <2>1 DEF Accept, Shape
    <3> HIDE DEF x
    <3>3. /\ thread' \in [Node -> [Role -> Thread]]
          /\ \A q \in Node, r \in Role :
                thread'[q][r] = IF q = d[2] /\ r = "acceptor" THEN x ELSE thread[q][r]
      BY <1>2, <3>1, <3>2, ThreadUpdate DEF Shape
    <3> QED BY <1>2, <3>2, <3>3 DEF x
  <2>2. CASE AcceptFails(d)
    <3> DEFINE x == [at |-> "deaf"]
    <3>1. x \in Thread /\ x.at = "deaf"
      BY ThreadMakers
    <3>2. thread' = [thread EXCEPT ![d[2]]["acceptor"] = x]
      BY <2>2 DEF AcceptFails
    <3> HIDE DEF x
    <3>3. /\ thread' \in [Node -> [Role -> Thread]]
          /\ \A q \in Node, r \in Role :
                thread'[q][r] = IF q = d[2] /\ r = "acceptor" THEN x ELSE thread[q][r]
      BY <1>2, <3>1, <3>2, ThreadUpdate DEF Shape
    <3> QED BY <1>2, <3>1, <3>3
  <2> QED BY <2>1, <2>2
<1>5. thread[d[2]]["acceptor"] = Looping
  BY DEF Accept, AcceptFails
<1>6. Shape'
  BY <1>1, <1>3, <1>4 DEF Shape
<1>7. WaitRole'
  <2> SUFFICES ASSUME NEW q \in Node, NEW r \in Role, thread'[q][r].at = "waiting"
               PROVE  LET e == thread'[q][r].on
                      IN  \/ r = "acceptor" /\ q = e[2] /\ conn'[e] = "infos"
                          \/ r = "handler" /\ q = e[1] /\ conn'[e] = "list"
    BY DEF WaitRole
  <2>1. CASE q = d[2] /\ r = "acceptor"
    BY <1>4, <2>1
  <2>2. CASE q # d[2] \/ r # "acceptor"
    <3> DEFINE e == thread[q][r].on
    <3>1. thread'[q][r] = thread[q][r] /\ thread[q][r] \in Thread
      BY <1>4, <2>2 DEF Shape
    <3>2. e \in Dials
      BY <3>1, ThreadParts
    <3>3. \/ r = "acceptor" /\ q = e[2] /\ conn[e] = "infos"
          \/ r = "handler" /\ q = e[1] /\ conn[e] = "list"
      BY <3>1 DEF EndInv, WaitRole
    <3>4. e # d
      BY <1>3, <3>3
    <3> QED BY <1>3, <3>1, <3>2, <3>3, <3>4
  <2> QED BY <2>1, <2>2
<1>8. ListWaits'
  BY <1>1, <1>3, <1>4, DialEnds DEF EndInv, ListWaits, Shape, Role
<1>9. main[d[1]] # "off" /\ main[d[2]] # "off" /\ ~Past5(d[1]) /\ ~Past5(d[2])
  BY <1>2, <1>3 DEF EndInv, OffNone, Shut
<1>10. OffNone' /\ Shut'
  BY <1>1, <1>2, <1>3, <1>9 DEF EndInv, OffNone, Shut, Past5
<1>11. Joined'
  BY <1>1, <1>4, <1>9 DEF EndInv, Joined, Past4, Past5, Past6, Role
<1> QED BY <1>6, <1>7, <1>8, <1>10, <1>11 DEF EndInv

LEMMA AnswerInfosEnd ==
    ASSUME Shape, EndInv, NEW d \in Dials, AnswerInfos(d)
    PROVE  Shape' /\ EndInv'
<1> DEFINE W == [at |-> "waiting", on |-> d]
           a == IF thread[d[2]]["acceptor"] = W THEN Looping ELSE thread[d[2]]["acceptor"]
           f == [thread EXCEPT ![d[2]]["acceptor"] = a]
<1>1. UNCHANGED << setting, main, late, behind >> /\ Dials' = Dials /\ Thread' = Thread
  BY DEF AnswerInfos, Dials, Thread
<1>2. /\ d[1] \in Node /\ d[2] \in Node /\ d[1] # d[2]
      /\ "acceptor" \in Role /\ "handler" \in Role
  BY DialEnds DEF Shape, Role
<1>3. /\ conn' \in [Dials -> Phase] /\ conn[d] = "infos" /\ conn'[d] = "list"
      /\ \A e \in Dials \ {d} : conn'[e] = conn[e]
  BY DEF AnswerInfos, Shape, Phase
<1>4. thread[d[1]]["handler"] = Looping
  BY DEF AnswerInfos
<1>5. W \in Thread /\ a \in Thread /\ thread \in [Node -> [Role -> Thread]]
  BY <1>2, ThreadMakers DEF Shape
<1>6. thread' = [f EXCEPT ![d[1]]["handler"] = W]
  BY <1>2 DEF AnswerInfos, Shape
<1>7. W.at = "waiting" /\ W.on = d
  OBVIOUS
<1>8. a = W => FALSE
  BY <1>7, ThreadMakers
<1>9. a = thread[d[2]]["acceptor"] \/ (thread[d[2]]["acceptor"] = W /\ a = Looping)
  OBVIOUS
<1> HIDE DEF W, a
<1>10. /\ f \in [Node -> [Role -> Thread]]
       /\ \A q \in Node, r \in Role :
            f[q][r] = IF q = d[2] /\ r = "acceptor" THEN a ELSE thread[q][r]
  BY <1>2, <1>5, ThreadUpdate
<1> HIDE DEF f
<1>11. /\ thread' \in [Node -> [Role -> Thread]]
       /\ \A q \in Node, r \in Role :
            thread'[q][r] = IF q = d[1] /\ r = "handler" THEN W ELSE f[q][r]
  BY <1>2, <1>5, <1>6, <1>10, ThreadUpdate
<1>12. /\ thread'[d[1]]["handler"] = W /\ thread'[d[2]]["acceptor"] = a
       /\ \A q \in Node, r \in Role :
            \/ q = d[1] /\ r = "handler"
            \/ q = d[2] /\ r = "acceptor"
            \/ thread'[q][r] = thread[q][r]
  BY <1>2, <1>10, <1>11
<1>13. Shape'
  BY <1>1, <1>3, <1>11 DEF Shape
<1>14. WaitRole'
  <2> SUFFICES ASSUME NEW q \in Node, NEW r \in Role, thread'[q][r].at = "waiting"
               PROVE  LET e == thread'[q][r].on
                      IN  \/ r = "acceptor" /\ q = e[2] /\ conn'[e] = "infos"
                          \/ r = "handler" /\ q = e[1] /\ conn'[e] = "list"
    BY DEF WaitRole
  <2>1. CASE q = d[1] /\ r = "handler"
    BY <1>3, <1>7, <1>12, <2>1
  <2>2. CASE ~(q = d[1] /\ r = "handler")
    <3> DEFINE e == thread[q][r].on
    <3>1. thread'[q][r] = thread[q][r]
      BY <1>9, <1>12, <2>2, ThreadMakers
    <3>2. thread[q][r] \in Thread /\ thread[q][r].at = "waiting"
      BY <3>1 DEF Shape
    <3>3. e \in Dials /\ thread[q][r] = [at |-> "waiting", on |-> e]
      BY <3>2, ThreadParts
    <3>4. \/ r = "acceptor" /\ q = e[2] /\ conn[e] = "infos"
          \/ r = "handler" /\ q = e[1] /\ conn[e] = "list"
      BY <3>2 DEF EndInv, WaitRole
    <3>5. e # d
      <4> SUFFICES ASSUME e = d PROVE FALSE
        OBVIOUS
      <4>1. r = "acceptor" /\ q = d[2]
        BY <1>3, <3>4
      <4>2. a = W
        BY <1>12, <3>1, <3>3, <4>1 DEF W
      <4> QED BY <1>8, <4>2
    <3> QED BY <1>3, <3>1, <3>3, <3>4, <3>5
  <2> QED BY <2>1, <2>2
<1>15. ListWaits'
  <2> SUFFICES ASSUME NEW e \in Dials, conn'[e] = "list"
               PROVE  thread'[e[1]]["handler"] = [at |-> "waiting", on |-> e]
    BY <1>1 DEF ListWaits
  <2>1. CASE e = d
    BY <1>12, <2>1 DEF W
  <2>2. CASE e # d
    <3>1. thread[e[1]]["handler"] = [at |-> "waiting", on |-> e] /\ e[1] \in Node
      BY <1>3, <2>2, DialEnds DEF EndInv, ListWaits, Shape
    <3>2. e[1] # d[1]
      BY <1>4, <3>1, ThreadMakers
    <3> QED BY <1>2, <1>12, <3>1, <3>2
  <2> QED BY <2>1, <2>2
<1>16. \A q \in Node, r \in Role : thread[q][r] = Ended => thread'[q][r] = Ended
  BY <1>4, <1>7, <1>9, <1>12, ThreadMakers
<1>17. OffNone' /\ Shut' /\ Joined'
  BY <1>1, <1>3, <1>16, OpenChanges
<1> QED BY <1>13, <1>14, <1>15, <1>17 DEF EndInv

LEMMA AnswerListEnd ==
    ASSUME Shape, EndInv, NEW d \in Dials, AnswerList(d)
    PROVE  Shape' /\ EndInv'
<1>1. UNCHANGED << setting, main, late, behind >> /\ Dials' = Dials /\ Thread' = Thread
  BY DEF AnswerList, Dials, Thread
<1>2. d[1] \in Node /\ d[2] \in Node /\ d[1] # d[2] /\ "handler" \in Role
  BY DialEnds DEF Shape, Role
<1>3. /\ conn' \in [Dials -> Phase] /\ conn[d] = "list" /\ conn'[d] = "made"
      /\ \A e \in Dials \ {d} : conn'[e] = conn[e]
  BY DEF AnswerList, Shape, Phase
<1>4. thread[d[1]]["handler"] = [at |-> "waiting", on |-> d]
  BY <1>3 DEF EndInv, ListWaits
<1>5. /\ thread' \in [Node -> [Role -> Thread]]
      /\ \A q \in Node, r \in Role :
            thread'[q][r] = IF q = d[1] /\ r = "handler" THEN Looping ELSE thread[q][r]
  BY <1>2, ThreadMakers, ThreadUpdate DEF AnswerList, Shape
<1>6. Shape'
  BY <1>1, <1>3, <1>5 DEF Shape
<1>7. WaitRole'
  <2>1. ASSUME NEW q \in Node, NEW r \in Role, thread'[q][r].at = "waiting"
        PROVE  /\ thread'[q][r] = thread[q][r]
               /\ conn'[thread[q][r].on] = conn[thread[q][r].on]
    <3> DEFINE e == thread[q][r].on
    <3>1. ~(q = d[1] /\ r = "handler") /\ thread'[q][r] = thread[q][r]
      BY <1>5, <2>1, ThreadMakers
    <3>2. thread[q][r] \in Thread /\ thread[q][r].at = "waiting"
      BY <2>1, <3>1 DEF Shape
    <3>3. e \in Dials
      BY <3>2, ThreadParts
    <3>4. e # d
      BY <1>3, <3>1, <3>2 DEF EndInv, WaitRole
    <3> QED BY <1>3, <3>1, <3>3, <3>4
  <2> QED BY <2>1, NoNewWait
<1>8. ListWaits'
  <2> SUFFICES ASSUME NEW e \in Dials, conn'[e] = "list"
               PROVE  thread'[e[1]]["handler"] = [at |-> "waiting", on |-> e]
    BY <1>1 DEF ListWaits
  <2>1. e # d /\ conn[e] = "list"
    BY <1>3
  <2>2. thread[e[1]]["handler"] = [at |-> "waiting", on |-> e] /\ e[1] \in Node
    BY <2>1, DialEnds DEF EndInv, ListWaits, Shape
  <2>3. [at |-> "waiting", on |-> e].on = e /\ [at |-> "waiting", on |-> d].on = d
    OBVIOUS
  <2>4. e[1] # d[1]
    BY <1>4, <2>1, <2>2, <2>3
  <2> QED BY <1>2, <1>5, <2>2, <2>4
<1>9. \A q \in Node, r \in Role : thread[q][r] = Ended => thread'[q][r] = Ended
  <2>1. [at |-> "waiting", on |-> d].at = "waiting"
    OBVIOUS
  <2> QED BY <1>4, <1>5, <2>1, ThreadMakers
<1>10. OffNone' /\ Shut' /\ Joined'
  BY <1>1, <1>3, <1>9, OpenChanges
<1> QED BY <1>6, <1>7, <1>8, <1>10 DEF EndInv

\* The threads that a broadcast or a closed socket reaches were waiting.
LEMMA TickEnd ==
    ASSUME Shape, EndInv, NEW p \in Node, Tick(p)
    PROVE  Shape' /\ EndInv'
<1> DEFINE Hit(q, r) ==
        \E d \in Misled(p) : Far(d, p) = q /\ thread[q][r] = [at |-> "waiting", on |-> d]
<1>1. UNCHANGED << setting, main, late, behind >> /\ Dials' = Dials /\ Thread' = Thread
  BY DEF Tick, Dials, Thread
<1>2. \A d \in Dials : d[1] \in Node /\ d[2] \in Node /\ d[1] # d[2]
  BY DialEnds DEF Shape
<1>3. /\ thread' = [q \in Node |-> [r \in Role |-> IF Hit(q, r) THEN Looping ELSE thread[q][r]]]
      /\ thread \in [Node -> [Role -> Thread]]
  BY DEF Tick, Shape
<1>4. /\ conn' = [d \in Dials |-> IF d \notin Misled(p) THEN conn[d]
                                  ELSE IF conn[d] = "infos" THEN "closed" ELSE "made"]
      /\ conn \in [Dials -> Phase]
  BY DEF Tick, Shape
<1>5. ASSUME NEW d \in Misled(p)
      PROVE  /\ d \in Dials
             /\ \/ conn[d] = "infos" /\ p = d[1] /\ Far(d, p) = d[2]
                \/ conn[d] = "list" /\ p = d[2] /\ Far(d, p) = d[1]
  BY <1>2 DEF Misled, Reached, Far
<1>6. /\ conn' \in [Dials -> Phase]
      /\ \A d \in Dials \ Misled(p) : conn'[d] = conn[d]
      /\ \A d \in Misled(p) : conn'[d] \in {"closed", "made"} /\ conn[d] \in {"infos", "list"}
  BY <1>4, <1>5 DEF Phase
<1> HIDE DEF Hit
<1>7. /\ thread' \in [Node -> [Role -> Thread]]
      /\ \A q \in Node, r \in Role :
            thread'[q][r] = IF Hit(q, r) THEN Looping ELSE thread[q][r]
  BY <1>3, ThreadMakers
<1>8. Shape'
  BY <1>1, <1>6, <1>7 DEF Shape
<1>9. WaitRole'
  <2>1. ASSUME NEW q \in Node, NEW r \in Role, thread'[q][r].at = "waiting"
        PROVE  /\ thread'[q][r] = thread[q][r]
               /\ conn'[thread[q][r].on] = conn[thread[q][r].on]
    <3> DEFINE e == thread[q][r].on
    <3>1. ~Hit(q, r) /\ thread'[q][r] = thread[q][r]
      BY <1>7, <2>1, ThreadMakers
    <3>2. thread[q][r] \in Thread /\ thread[q][r].at = "waiting"
      BY <2>1, <3>1 DEF Shape
    <3>3. e \in Dials /\ thread[q][r] = [at |-> "waiting", on |-> e]
      BY <3>2, ThreadParts
    <3>4. \/ q = e[2] /\ conn[e] = "infos"
          \/ q = e[1] /\ conn[e] = "list"
      BY <3>2 DEF EndInv, WaitRole
    <3>5. e \notin Misled(p)
      <4> SUFFICES ASSUME e \in Misled(p) PROVE FALSE
        OBVIOUS
      <4>1. Far(e, p) = q
        BY <1>5, <3>4
      <4> QED BY <3>1, <3>3, <4>1 DEF Hit
    <3> QED BY <1>6, <3>1, <3>3, <3>5
  <2> QED BY <2>1, NoNewWait
<1>10. ListWaits'
  <2> SUFFICES ASSUME NEW e \in Dials, conn'[e] = "list"
               PROVE  thread'[e[1]]["handler"] = [at |-> "waiting", on |-> e]
    BY <1>1 DEF ListWaits
  <2>1. e \notin Misled(p) /\ conn[e] = "list"
    BY <1>6
  <2>2. thread[e[1]]["handler"] = [at |-> "waiting", on |-> e] /\ e[1] \in Node
    BY <1>2, <2>1 DEF EndInv, ListWaits
  <2>3. ~Hit(e[1], "handler")
    <3> SUFFICES ASSUME NEW d \in Misled(p),
                        thread[e[1]]["handler"] = [at |-> "waiting", on |-> d]
                 PROVE  FALSE
      BY DEF Hit
    <3>1. [at |-> "waiting", on |-> e].on = e /\ [at |-> "waiting", on |-> d].on = d
      OBVIOUS
    <3> QED BY <2>1, <2>2, <3>1
  <2> QED BY <1>7, <2>2, <2>3 DEF Role
<1>11. \A q \in Node, r \in Role : thread[q][r] = Ended => thread'[q][r] = Ended
  <2> SUFFICES ASSUME NEW q \in Node, NEW r \in Role, thread[q][r] = Ended
               PROVE  ~Hit(q, r)
    BY <1>7
  <2>1. \A d : [at |-> "waiting", on |-> d].at = "waiting"
    OBVIOUS
  <2> QED BY <2>1, ThreadMakers DEF Hit
<1>12. OffNone' /\ Shut' /\ Joined'
  <2>1. \A d \in Dials : conn'[d] = conn[d] \/ conn[d] \notin {"none", "closed"}
    BY <1>6
  <2> QED BY <1>1, <1>11, <2>1, OpenChanges
<1> QED BY <1>8, <1>9, <1>10, <1>12 DEF EndInv

-----------------------------------------------------------------------------
(***************************************************************************)
(* The end, join by join.                                                  *)
(***************************************************************************)

\* The main thread of p moves, from a place where it runs.
LEMMA MainMoves ==
    ASSUME Shape, EndInv, NEW p \in Node, NEW m \in Mains, m # "off",
           UNCHANGED << setting, thread, conn, late, behind >>,
           main' = [main EXCEPT ![p] = m],
           m \in {"join acceptor", "join tick", "join dispatcher", "gone"} =>
                thread[p]["handler"] = Ended,
           m \in {"join tick", "join dispatcher", "gone"} => Past5(p),
           m \in {"join dispatcher", "gone"} => thread[p]["tick"] = Ended
    PROVE  Shape' /\ EndInv'
<1>1. Dials' = Dials /\ Thread' = Thread
  BY DEF Dials, Thread
<1>2. /\ main' \in [Node -> Mains] /\ main'[p] = m
      /\ \A q \in Node \ {p} : main'[q] = main[q]
  BY DEF Shape
<1>3. Shape'
  BY <1>1, <1>2 DEF Shape
<1>4. WaitRole'
  BY DEF EndInv, WaitRole
<1>5. ListWaits'
  BY <1>1 DEF EndInv, ListWaits
<1>6. OffNone'
  BY <1>1, <1>2 DEF EndInv, OffNone
<1>7. Shut'
  BY <1>1, <1>2 DEF EndInv, Shut, Past5
<1>8. Joined'
  BY <1>2 DEF EndInv, Joined, Past4, Past5, Past6
<1> QED BY <1>3, <1>4, <1>5, <1>6, <1>7, <1>8 DEF EndInv

LEMMA QuitEnd ==
    ASSUME Shape, EndInv, NEW p \in Node, Quit(p)
    PROVE  Shape' /\ EndInv'
<1>1. /\ UNCHANGED << setting, thread, conn, late, behind >>
      /\ main' = [main EXCEPT ![p] = "join handler"]
  BY DEF Quit
<1> QED BY <1>1, MainMoves DEF Mains

LEMMA HandlerJoinedEnd ==
    ASSUME Shape, EndInv, NEW p \in Node, HandlerJoined(p)
    PROVE  Shape' /\ EndInv'
<1>1. /\ UNCHANGED << setting, thread, conn, late, behind >>
      /\ main' = [main EXCEPT ![p] = "join acceptor"] /\ thread[p]["handler"] = Ended
  BY DEF HandlerJoined
<1> QED BY <1>1, MainMoves DEF Mains

LEMMA TickJoinedEnd ==
    ASSUME Shape, EndInv, NEW p \in Node, TickJoined(p)
    PROVE  Shape' /\ EndInv'
<1>1. /\ UNCHANGED << setting, thread, conn, late, behind >>
      /\ main' = [main EXCEPT ![p] = "join dispatcher"]
      /\ thread[p]["tick"] = Ended /\ main[p] = "join tick"
  BY DEF TickJoined
<1>2. Past5(p) /\ thread[p]["handler"] = Ended
  BY <1>1 DEF EndInv, Joined, Past4, Past5
<1> QED BY <1>1, <1>2, MainMoves DEF Mains

LEMMA DispatcherJoinedEnd ==
    ASSUME Shape, EndInv, NEW p \in Node, DispatcherJoined(p)
    PROVE  Shape' /\ EndInv'
<1>1. /\ UNCHANGED << setting, thread, conn, late, behind >>
      /\ main' = [main EXCEPT ![p] = "gone"] /\ main[p] = "join dispatcher"
  BY DEF DispatcherJoined
<1>2. Past5(p) /\ thread[p]["handler"] = Ended /\ thread[p]["tick"] = Ended
  BY <1>1 DEF EndInv, Joined, Past4, Past5, Past6
<1> QED BY <1>1, <1>2, MainMoves DEF Mains

\* A thread that was in its loop leaves it: it did not wait.
LEMMA LeaveEnd ==
    ASSUME Shape, EndInv, NEW p \in Node, NEW s \in Role, Leave(p, s)
    PROVE  Shape' /\ EndInv'
<1>1. UNCHANGED << setting, main, conn, late, behind >> /\ Dials' = Dials /\ Thread' = Thread
  BY DEF Leave, Dials, Thread
<1>2. thread[p][s] = Looping
  BY DEF Leave
<1>3. /\ thread' \in [Node -> [Role -> Thread]]
      /\ \A q \in Node, r \in Role :
            thread'[q][r] = IF q = p /\ r = s THEN Ended ELSE thread[q][r]
  <2>1. thread' = [thread EXCEPT ![p][s] = Ended]
    BY Zenon DEF Leave
  <2> QED BY <2>1, ThreadMakers, ThreadUpdate DEF Shape
<1>4. Shape'
  BY <1>1, <1>3 DEF Shape
<1>5. WaitRole'
  <2>1. ASSUME NEW q \in Node, NEW r \in Role, thread'[q][r].at = "waiting"
        PROVE  thread'[q][r] = thread[q][r]
    BY <1>3, <2>1, ThreadMakers
  <2> QED BY <1>1, <2>1, NoNewWait
<1>6. ListWaits'
  <2> SUFFICES ASSUME NEW d \in Dials, conn[d] = "list"
               PROVE  thread'[d[1]]["handler"] = [at |-> "waiting", on |-> d]
    BY <1>1 DEF ListWaits
  <2>1. /\ thread[d[1]]["handler"] = [at |-> "waiting", on |-> d]
        /\ d[1] \in Node /\ "handler" \in Role
    BY DialEnds DEF EndInv, ListWaits, Shape, Role
  <2>2. thread[d[1]]["handler"].at = "waiting"
    BY <2>1
  <2>3. ~(d[1] = p /\ "handler" = s)
    BY <1>2, <2>2, ThreadMakers
  <2> QED BY <1>3, <2>1, <2>3
<1>7. \A q \in Node, r \in Role : thread[q][r] = Ended => thread'[q][r] = Ended
  BY <1>3
<1>8. OffNone' /\ Shut' /\ Joined'
  BY <1>1, <1>7, OpenChanges
<1> QED BY <1>4, <1>5, <1>6, <1>8 DEF EndInv

\* When the sockets are closed no thread of the process waits, and every
\* thread that waited for one of them goes on.
LEMMA AcceptorJoinedEnd ==
    ASSUME Shape, EndInv, NEW p \in Node, AcceptorJoined(p)
    PROVE  Shape' /\ EndInv'
<1> DEFINE Hit(q, r) ==
        q # p /\ \E d \in Mine(p) : thread[q][r] = [at |-> "waiting", on |-> d]
<1>1. UNCHANGED << setting, late, behind >> /\ Dials' = Dials /\ Thread' = Thread
  BY DEF AcceptorJoined, Dials, Thread
<1>2. \A d \in Dials : d[1] \in Node /\ d[2] \in Node /\ d[1] # d[2]
  BY DialEnds DEF Shape
<1>3. {"handler", "acceptor", "tick"} \subseteq Role
  BY DEF Role
<1>4. /\ main' \in [Node -> Mains] /\ main[p] = "join acceptor" /\ main'[p] = "join tick"
      /\ \A q \in Node \ {p} : main'[q] = main[q]
  BY DEF AcceptorJoined, Shape, Mains
<1>5. thread[p]["handler"] = Ended /\ thread[p]["acceptor"] = Ended
  BY <1>4 DEF AcceptorJoined, EndInv, Joined, Past4
<1>6. /\ conn' \in [Dials -> Phase]
      /\ \A d \in Mine(p) : conn'[d] = "closed"
      /\ \A d \in Dials \ Mine(p) : conn'[d] = conn[d]
  BY DEF AcceptorJoined, Shape, Phase, Mine
<1>7. thread' = [q \in Node |-> [r \in Role |-> IF Hit(q, r) THEN Looping ELSE thread[q][r]]]
  BY DEF AcceptorJoined
<1>8. \A q \in Node, r \in Role : Hit(q, r) => thread[q][r].at = "waiting"
  OBVIOUS
<1>9. \A q \in Node, r \in Role, d \in Mine(p) :
          q # p /\ thread[q][r] = [at |-> "waiting", on |-> d] => Hit(q, r)
  OBVIOUS
<1> HIDE DEF Hit
<1>10. /\ thread' \in [Node -> [Role -> Thread]]
       /\ \A q \in Node, r \in Role :
            thread'[q][r] = IF Hit(q, r) THEN Looping ELSE thread[q][r]
  BY <1>7, ThreadMakers DEF Shape
<1>11. Shape'
  BY <1>1, <1>4, <1>6, <1>10 DEF Shape
<1>12. ASSUME NEW q \in Node, NEW r \in Role, thread[q][r].at = "waiting", ~Hit(q, r)
       PROVE  thread[q][r].on \in Dials \ Mine(p)
  <2> DEFINE d == thread[q][r].on
  <2>1. d \in Dials /\ thread[q][r] = [at |-> "waiting", on |-> d]
    BY <1>12, ThreadParts DEF Shape
  <2>2. r = "acceptor" \/ r = "handler"
    BY <1>12 DEF EndInv, WaitRole
  <2>3. q # p
    BY <1>5, <1>12, <2>2, ThreadMakers
  <2> QED BY <1>9, <1>12, <2>1, <2>3
<1>13. WaitRole'
  <2>1. ASSUME NEW q \in Node, NEW r \in Role, thread'[q][r].at = "waiting"
        PROVE  /\ thread'[q][r] = thread[q][r]
               /\ conn'[thread[q][r].on] = conn[thread[q][r].on]
    <3>1. ~Hit(q, r) /\ thread'[q][r] = thread[q][r]
      BY <1>10, <2>1, ThreadMakers
    <3>2. thread[q][r].on \in Dials \ Mine(p)
      BY <1>12, <2>1, <3>1
    <3> QED BY <1>6, <3>1, <3>2
  <2> QED BY <2>1, NoNewWait
<1>14. ListWaits'
  <2> SUFFICES ASSUME NEW e \in Dials, conn'[e] = "list"
               PROVE  thread'[e[1]]["handler"] = [at |-> "waiting", on |-> e]
    BY <1>1 DEF ListWaits
  <2>1. e \notin Mine(p) /\ conn[e] = "list"
    BY <1>6
  <2>2. p \notin {e[1], e[2]}
    BY <2>1 DEF Mine
  <2>3. thread[e[1]]["handler"] = [at |-> "waiting", on |-> e] /\ e[1] \in Node
    BY <1>2, <2>1 DEF EndInv, ListWaits
  <2>4. ~Hit(e[1], "handler")
    <3> SUFFICES ASSUME NEW d \in Mine(p),
                        thread[e[1]]["handler"] = [at |-> "waiting", on |-> d]
                 PROVE  FALSE
      BY DEF Hit
    <3>1. [at |-> "waiting", on |-> e].on = e /\ [at |-> "waiting", on |-> d].on = d
      OBVIOUS
    <3> QED BY <2>1, <2>3, <3>1
  <2> QED BY <1>3, <1>10, <2>3, <2>4
<1>15. OffNone'
  <2> SUFFICES ASSUME NEW q \in Node, NEW d \in Dials, main'[q] = "off", q \in {d[1], d[2]}
               PROVE  conn'[d] = "none"
    BY <1>1 DEF OffNone
  <2>1. main[q] = "off"
    BY <1>4
  <2>2. conn[d] = "none"
    BY <2>1 DEF EndInv, OffNone
  <2>3. d \notin Mine(p)
    BY <2>2 DEF Mine
  <2> QED BY <1>6, <2>2, <2>3
<1>16. Shut'
  <2> SUFFICES ASSUME NEW q \in Node, NEW d \in Dials, Past5(q)', q \in {d[1], d[2]}
               PROVE  conn'[d] \in {"none", "closed"}
    BY <1>1 DEF Shut
  <2>1. CASE d \in Mine(p)
    BY <1>6, <2>1
  <2>2. CASE d \notin Mine(p)
    <3>1. CASE q = p
      BY <1>6, <2>2, <3>1 DEF Mine
    <3>2. CASE q # p
      BY <1>4, <1>6, <2>2, <3>2 DEF EndInv, Shut, Past5
    <3> QED BY <3>1, <3>2
  <2> QED BY <2>1, <2>2
<1>17. Joined'
  <2>1. \A q \in Node, r \in Role : thread[q][r] = Ended => thread'[q][r] = Ended
    BY <1>8, <1>10, ThreadMakers
  <2> QED BY <1>3, <1>4, <1>5, <2>1 DEF EndInv, Joined, Past4, Past5, Past6
<1> QED BY <1>11, <1>13, <1>14, <1>15, <1>16, <1>17 DEF EndInv

LEMMA NextLInv ==
    ASSUME LInv, [Next]_vars
    PROVE  LInv'
<1>1. Shape /\ EndInv /\ Counts /\ Counts'
  BY CountsStep DEF LInv
<1>2. Shape' /\ EndInv'
  <2>1. CASE UNCHANGED vars
    <3>1. UNCHANGED << setting, main, thread, conn, late, behind >>
      BY <2>1 DEF vars
    <3>2. Shape'
      BY <1>1, <3>1 DEF Shape, Dials, Thread
    <3> QED BY <1>1, <3>1, <3>2, SameEnd
  <2>2. CASE Next
    <3>1. ASSUME NEW p \in Node, Create(p) \/ Dispatch(p) PROVE Shape' /\ EndInv'
      <4>1. UNCHANGED << setting, main, thread, conn >>
        BY <3>1 DEF Create, Dispatch
      <4>2. late' \subseteq Node /\ behind' \subseteq Node
        BY <1>1, <3>1 DEF Create, Dispatch, Shape
      <4>3. Shape'
        BY <1>1, <4>1, <4>2 DEF Shape, Dials, Thread
      <4> QED BY <1>1, <4>1, <4>3, SameEnd
    <3>2. ASSUME NEW p \in Node, HandlerStep(p) \/ AcceptorStep(p) PROVE Shape' /\ EndInv'
      <4>1. "handler" \in Role /\ "acceptor" \in Role
        BY DEF Role
      <4> QED BY <1>1, <3>2, <4>1, AnswerInfosEnd, AnswerListEnd, AcceptEnd, LeaveEnd
              DEF HandlerStep, AcceptorStep
    <3>3. ASSUME NEW p \in Node, MainStep(p) PROVE Shape' /\ EndInv'
      BY <1>1, <3>3, HandlerJoinedEnd, AcceptorJoinedEnd, TickJoinedEnd, DispatcherJoinedEnd
         DEF MainStep
    <3>4. ASSUME NEW p \in Node, Leave(p, "tick") \/ Leave(p, "dispatcher")
          PROVE  Shape' /\ EndInv'
      <4>1. "tick" \in Role /\ "dispatcher" \in Role
        BY DEF Role
      <4> QED BY <1>1, <3>4, <4>1, LeaveEnd
    <3> QED BY <1>1, <2>2, <3>1, <3>2, <3>3, <3>4, StartEnd, DialEnd, TickEnd, QuitEnd DEF Next
  <2> QED BY <2>1, <2>2
<1> QED BY <1>1, <1>2 DEF LInv

LEMMA AlwaysLInv == Spec => []LInv
<1>1. Init => LInv
  BY InitShape, InitEndInv DEF LInv
<1>2. LInv /\ [Next]_vars => LInv'
  BY NextLInv
<1> QED BY <1>1, <1>2, PTL DEF Spec

-----------------------------------------------------------------------------
(***************************************************************************)
(* The theorems.                                                           *)
(***************************************************************************)

\* Lifecycle is correctly typed, in whatever network, however its processes
\* start, dial, fail to accept and quit: above all the two queues that no code
\* bounds, the dispatcher's events (chainevent.h:82-86) and the tick messages
\* (p2p_server.cpp:50), never hold more than the blocks that were created.
THEOREM TypeCorrect == Spec => []LifecycleTypeOK
<1>1. LInv => LifecycleTypeOK
  <2> SUFFICES ASSUME LInv PROVE LifecycleTypeOK
    OBVIOUS
  <2>1. Shape /\ Counts /\ setting.blocks \in Nat
    BY LifecycleAssumption DEF LInv, Shape
  <2>2. \A p \in Node : \E i \in 1..7 : main[p] = Place[i]
    BY <2>1, RankFacts DEF Shape
  <2>3. \A p \in Node : events[p] \in 0..setting.blocks /\ buffer[p] \in 0..setting.blocks
    BY <2>1 DEF Counts
  <2>4. {events, buffer} \subseteq [Node -> 0..setting.blocks]
    BY <2>1, <2>3 DEF Counts
  <2> QED BY <2>1, <2>2, <2>4 DEF LifecycleTypeOK, Shape, Counts
<1> QED BY <1>1, AlwaysLInv, PTL

\* What stop, stopNetwork and the destructors take down (network_manager.cpp,
\* p2p_server.cpp) is no longer used by what they have joined: once the lists
\* of a process are cleared its handler and acceptor have ended and nobody
\* waits for its answer, once its P2PServer is destroyed its tick thread has
\* ended.  Whoever quits when, in whatever order, and however often accept4
\* has failed.
THEOREM EndIsOrderly == Spec => []OrderlyEnd
<1>1. LInv => OrderlyEnd
  <2> SUFFICES ASSUME LInv, NEW p \in Node
               PROVE  /\ Rank(p) >= 5 =>
                            /\ thread[p]["handler"] = Ended /\ thread[p]["acceptor"] = Ended
                            /\ ~\E q \in Node, r \in Role : Waits(q, r, p)
                      /\ Rank(p) >= 6 => thread[p]["tick"] = Ended
    BY DEF OrderlyEnd
  <2>1. (Rank(p) >= 5 <=> Past5(p)) /\ (Rank(p) >= 6 <=> Past6(p))
    BY RankFacts DEF LInv, Shape
  <2>2. /\ Past5(p) => thread[p]["handler"] = Ended /\ thread[p]["acceptor"] = Ended
        /\ Past6(p) => thread[p]["tick"] = Ended
    BY DEF LInv, EndInv, Joined, Past4, Past5, Past6
  <2>3. ASSUME Past5(p), NEW q \in Node, NEW r \in Role, Waits(q, r, p) PROVE FALSE
    <3> DEFINE d == thread[q][r].on
    <3>1. thread[q][r].at = "waiting" /\ Far(d, q) = p
      BY <2>3 DEF Waits
    <3>2. d \in Dials
      BY <3>1, ThreadParts DEF LInv, Shape
    <3>3. (q = d[2] /\ conn[d] = "infos") \/ (q = d[1] /\ conn[d] = "list")
      BY <3>1 DEF LInv, EndInv, WaitRole
    <3>4. p \in {d[1], d[2]}
      BY <3>1, <3>2, <3>3, DialEnds DEF LInv, Shape, Far
    <3>5. conn[d] \in {"none", "closed"}
      BY <2>3, <3>2, <3>4 DEF LInv, EndInv, Shut
    <3> QED BY <3>3, <3>5
  <2> QED BY <2>1, <2>2, <2>3
<1> QED BY <1>1, AlwaysLInv, PTL
=============================================================================
