--------------------------- MODULE PeerTableProofs ---------------------------
(***************************************************************************)
(* Theorems about PeerTable, for any peers, any processes and any bounds.  *)
(***************************************************************************)
EXTENDS PeerTable, SequenceFacts

(***************************************************************************)
(* Places, indexes and entries.                                            *)
(***************************************************************************)

\* What a thread holds, by where it is.
LEMMA PlaceParts ==
    ASSUME NEW pl \in Place
    PROVE  /\ pl.at \in {"half", "whole", "drop", "got", "asked", "wait"} => pl.peer \in Remote
           /\ pl.at = "wait" => pl.on \in Remote /\ pl.index \in Nat
           /\ pl.at = "erase" => pl.index \in Nat
           /\ pl.at = "half" =>
                [pl EXCEPT !.at = "whole"] = [at |-> "whole", peer |-> pl.peer]
BY DEF Place

\* The places the actions put a thread at.
LEMMA PlaceMakers ==
    /\ Idle \in Place /\ [at |-> "room"] \in Place
    /\ \A p \in Remote :
        /\ \A at \in {"half", "whole", "drop", "got", "asked"} :
                [at |-> at, peer |-> p] \in Place
        /\ \A q \in Remote, i \in Nat :
                [at |-> "wait", peer |-> p, on |-> q, index |-> i] \in Place
    /\ \A i \in Nat : [at |-> "erase", index |-> i] \in Place
BY DEF Place, Idle

\* _getPeerIndex finds a listed peer, and nothing else.
LEMMA IndexFacts ==
    ASSUME NEW s \in Seq(Remote), peers = s, NEW p
    PROVE  /\ Index(p) \in 0..Len(s)
           /\ Index(p) # 0 => s[Index(p)] = p
           /\ Index(p) = 0 => \A i \in 1..Len(s) : s[i] # p
<1> DEFINE I == {i \in 1..Len(s) : s[i] = p}
<1>1. Index(p) = IF I # {} THEN Min(I) ELSE 0
  BY DEF Index, SelectInSeq
<1>2. I \in SUBSET Nat /\ Len(s) \in Nat
  OBVIOUS
<1>3. CASE I = {}
  BY <1>1, <1>2, <1>3
<1>4. CASE I # {}
  <2> HIDE DEF I
  <2>1. Index(p) \in I
    BY <1>1, <1>2, <1>4, MinFacts
  <2> QED BY <2>1 DEF I
<1> QED BY <1>3, <1>4

\* Changing whether an entry is polled leaves the sockets.
LEMMA EntryUpdate ==
    ASSUME NEW f \in Seq(Fd), NEW i \in 1..Len(f), NEW b \in BOOLEAN
    PROVE  LET g == [f EXCEPT ![i].deaf = b]
           IN  /\ g \in Seq(Fd) /\ Len(g) = Len(f)
               /\ \A j \in 1..Len(f) : g[j].sock = f[j].sock
<1> DEFINE x == f[i]
<1>1. x \in Fd
  OBVIOUS
<1>2. [x EXCEPT !.deaf = b] \in Fd /\ [x EXCEPT !.deaf = b].sock = x.sock
  <2> HIDE DEF x
  <2> QED BY <1>1 DEF Fd
<1> QED BY <1>2

LEMMA EntryParts ==
    ASSUME NEW f \in Seq(Fd), NEW i \in 1..Len(f)
    PROVE  f[i] \in Fd /\ f[i].sock \in Remote
<1>1. f[i] \in Fd
  OBVIOUS
<1> QED BY <1>1 DEF Fd

\* Counting messages.
LEMMA CountType ==
    ASSUME NEW f \in [Remote -> Nat], NEW r \in Remote
    PROVE  /\ [f EXCEPT ![r] = @ + 1] \in [Remote -> Nat]
           /\ f[r] > 0 => [f EXCEPT ![r] = @ - 1] \in [Remote -> Nat]
<1>1. f[r] \in Nat
  OBVIOUS
<1>2. f[r] + 1 \in Nat /\ (f[r] > 0 => f[r] - 1 \in Nat)
  BY <1>1
<1> QED BY <1>2

\* The steps of the threads, without the guards on which thread may take them.
Split ==
    \/ \E r \in Remote : Call(r) \/ Say(r) \/ HangUp(r)
    \/ \E t \in Thread, r \in Remote : FindRoom(t, r) \/ PushSocket(t, r)
    \/ \E t \in Thread : \/ Refused(t) \/ PushPeer(t) \/ Ask(t) \/ Hear(t)
                         \/ GiveUp(t) \/ EraseSocket(t)
    \/ Disconnect \/ Poll \/ Look \/ EndRound \/ Answer

LEMMA NextSplits ==
    ASSUME setting \in Setting, Next
    PROVE  Split
<1>1. Caller \subseteq Remote /\ Callee \subseteq Remote
  BY PeerTableAssumption DEF Caller, Callee
<1>2. "acceptor" \in Thread /\ "handler" \in Thread /\ "main" \in Thread
  BY DEF Thread
<1> QED BY <1>1, <1>2 DEF Next, AcceptorStep, HandlerStep, MainStep, Split

-----------------------------------------------------------------------------
(***************************************************************************)
(* Types.                                                                  *)
(***************************************************************************)
LEMMA InitTypeOK == Init => TypeOK
<1> SUFFICES ASSUME Init PROVE TypeOK
  OBVIOUS
<1>1. thread \in [Thread -> Place]
  BY PlaceMakers DEF Init
<1>2. /\ remote \in [Remote -> {"away", "calling", "here", "gone"}]
      /\ unread \in [Remote -> Nat] /\ said \in [Remote -> Nat]
  BY DEF Init
<1>3. setting \in Setting /\ turn \in Nat /\ fds \in Seq(Fd) /\ peers \in Seq(Remote)
  BY DEF Init
<1>4. {raced, stale, strayed, broken} \subseteq BOOLEAN
  BY DEF Init
<1> QED BY <1>1, <1>2, <1>3, <1>4 DEF TypeOK

\* Where a thread goes, and what a change of raced comes to.
LEMMA MoveType ==
    ASSUME TypeOK, NEW t \in Thread
    PROVE  /\ \A pl \in Place : [thread EXCEPT ![t] = pl] \in [Thread -> Place]
           /\ Done(t) => thread' \in [Thread -> Place] /\ turn' \in Nat
           /\ Touch(t) => raced' \in BOOLEAN
<1>1. \A pl \in Place : [thread EXCEPT ![t] = pl] \in [Thread -> Place]
  BY DEF TypeOK
<1>2. Done(t) => thread' \in [Thread -> Place]
  BY <1>1, PlaceMakers DEF Done
<1>3. Done(t) => turn' \in Nat
  BY DEF Done, TypeOK
<1>4. Touch(t) => raced' \in BOOLEAN
  BY DEF Touch
<1> QED BY <1>1, <1>2, <1>3, <1>4

LEMMA StepTypeOK ==
    ASSUME TypeOK, Split
    PROVE  TypeOK'
<1>1. ASSUME NEW r \in Remote, Call(r) \/ Say(r) \/ HangUp(r) PROVE TypeOK'
  <2>1. remote' \in [Remote -> {"away", "calling", "here", "gone"}]
    BY <1>1 DEF Call, Say, HangUp, TypeOK
  <2>2. unread' \in [Remote -> Nat] /\ said' \in [Remote -> Nat]
    <3>1. \/ UNCHANGED << unread, said >>
          \/ /\ unread' = [unread EXCEPT ![r] = @ + 1]
             /\ said' = [said EXCEPT ![r] = @ + 1]
      BY <1>1 DEF Call, Say, HangUp
    <3> QED BY <3>1, CountType DEF TypeOK
  <2>3. UNCHANGED << setting, fds, peers, thread, turn, raced, stale, strayed, broken >>
    BY <1>1 DEF Call, Say, HangUp
  <2> QED BY <2>1, <2>2, <2>3 DEF TypeOK
<1>2. ASSUME NEW t \in Thread, NEW r \in Remote, FindRoom(t, r) PROVE TypeOK'
  BY <1>2, MoveType, PlaceMakers DEF FindRoom, TypeOK, env
<1>3. ASSUME NEW t \in Thread, NEW r \in Remote, PushSocket(t, r) PROVE TypeOK'
  <2> DEFINE x == [sock |-> r, deaf |-> FALSE, in |-> FALSE, hup |-> FALSE]
  <2>1. x \in Fd
    BY DEF Fd
  <2> HIDE DEF x
  <2>2. Append(fds, x) \in Seq(Fd)
    BY <2>1 DEF TypeOK
  <2>3. fds' \in Seq(Fd)
    BY <1>3, <2>2 DEF PushSocket, x
  <2>4. thread' \in [Thread -> Place] /\ raced' \in BOOLEAN
    BY <1>3, MoveType, PlaceMakers DEF PushSocket
  <2> QED BY <1>3, <2>3, <2>4 DEF PushSocket, TypeOK
<1>4. ASSUME NEW t \in Thread, Refused(t) PROVE TypeOK'
  BY <1>4, MoveType DEF Refused, TypeOK, env
<1>5. ASSUME NEW t \in Thread, PushPeer(t) PROVE TypeOK'
  <2>1. thread[t] \in Place /\ thread[t].at = "half"
    BY <1>5 DEF PushPeer, TypeOK
  <2>2. thread[t].peer \in Remote
    BY <2>1, PlaceParts
  <2>3. Append(peers, thread[t].peer) \in Seq(Remote)
    BY <2>2 DEF TypeOK
  <2>4. thread' \in [Thread -> Place] /\ turn' \in Nat
    <3>1. CASE t = "acceptor"
      <4>1. [thread[t] EXCEPT !.at = "whole"] \in Place
        BY <2>1, <2>2, PlaceParts, PlaceMakers
      <4>2. thread' = [thread EXCEPT ![t] = [thread[t] EXCEPT !.at = "whole"]] /\ turn' = turn
        BY <1>5, <3>1 DEF PushPeer
      <4> QED BY <4>1, <4>2, MoveType DEF TypeOK
    <3>2. CASE t # "acceptor"
      BY <1>5, <3>2, MoveType DEF PushPeer
    <3> QED BY <3>1, <3>2
  <2>5. raced' \in BOOLEAN
    BY <1>5, MoveType DEF PushPeer
  <2> QED BY <1>5, <2>3, <2>4, <2>5 DEF PushPeer, TypeOK, env
<1>6. ASSUME NEW t \in Thread, Ask(t) PROVE TypeOK'
  <2> DEFINE p == thread[t].peer
             i == Index(p)
  <2>1. p \in Remote
    <3>1. thread[t] \in Place /\ thread[t].at \in {"whole", "asked"}
      BY <1>6 DEF Ask, TypeOK
    <3> QED BY <3>1, PlaceParts
  <2>2. raced' \in BOOLEAN
    BY <1>6, MoveType DEF Ask
  <2>3. CASE i \in DOMAIN fds
    <3>1. fds \in Seq(Fd) /\ i \in 1..Len(fds) /\ i \in Nat
      BY <2>3 DEF TypeOK
    <3>2. /\ fds' = [fds EXCEPT ![i].deaf = TRUE]
          /\ thread' = [thread EXCEPT ![t] =
                        [at |-> "wait", peer |-> p, on |-> fds[i].sock, index |-> i]]
      BY <1>6, <2>3 DEF Ask
    <3> HIDE DEF i, p
    <3>3. fds' \in Seq(Fd)
      BY <3>1, <3>2, EntryUpdate
    <3>4. thread' \in [Thread -> Place]
      BY <2>1, <3>1, <3>2, EntryParts, MoveType, PlaceMakers
    <3> QED BY <1>6, <2>2, <2>3, <3>3, <3>4 DEF Ask, TypeOK, env
  <2>4. CASE i \notin DOMAIN fds
    BY <1>6, <2>2, <2>4 DEF Ask, TypeOK, env
  <2> QED BY <2>3, <2>4
<1>7. ASSUME NEW t \in Thread, Hear(t) PROVE TypeOK'
  <2> DEFINE w == thread[t]
  <2>1. w \in Place /\ w.at = "wait"
    BY <1>7 DEF Hear, TypeOK
  <2>2. w.peer \in Remote /\ w.on \in Remote /\ w.index \in Nat
    BY <2>1, PlaceParts
  <2>3. fds' \in Seq(Fd)
    <3>1. fds \in Seq(Fd) /\ DOMAIN fds = 1..Len(fds)
      BY DEF TypeOK
    <3>2. CASE w.index \in DOMAIN fds
      BY <1>7, <3>1, <3>2, EntryUpdate DEF Hear
    <3>3. CASE w.index \notin DOMAIN fds
      BY <1>7, <3>1, <3>3 DEF Hear
    <3> QED BY <3>2, <3>3
  <2>4. thread' \in [Thread -> Place] /\ turn' \in Nat
    BY <1>7, <2>2, MoveType, PlaceMakers DEF Hear, TypeOK
  <2>5. unread' \in [Remote -> Nat]
    BY <1>7, <2>2 DEF Hear, TypeOK
  <2>6. raced' \in BOOLEAN
    BY <1>7, MoveType DEF Hear
  <2> QED BY <1>7, <2>3, <2>4, <2>5, <2>6 DEF Hear, TypeOK
<1>8. ASSUME NEW t \in Thread, GiveUp(t) PROVE TypeOK'
  <2>1. thread[t] \in Place /\ thread[t].at = "wait"
    BY <1>8 DEF GiveUp, TypeOK
  <2>2. thread[t].peer \in Remote
    BY <2>1, PlaceParts
  <2>3. thread' \in [Thread -> Place] /\ turn' \in Nat
    BY <1>8, <2>2, MoveType, PlaceMakers DEF GiveUp, TypeOK
  <2> QED BY <1>8, <2>3 DEF GiveUp, TypeOK, env
<1>9. ASSUME NEW t \in Thread, EraseSocket(t) PROVE TypeOK'
  <2>1. fds' \in Seq(Fd)
    BY <1>9, RemoveAtFacts DEF EraseSocket, TypeOK
  <2>2. thread' \in [Thread -> Place] /\ turn' \in Nat /\ raced' \in BOOLEAN
    BY <1>9, MoveType DEF EraseSocket
  <2> QED BY <1>9, <2>1, <2>2 DEF EraseSocket, TypeOK, env
<1>10. CASE Disconnect
  <2> DEFINE i == Index(thread["acceptor"].peer)
  <2>1. "acceptor" \in Thread
    BY DEF Thread
  <2>2. i \in 0..Len(peers)
    BY IndexFacts DEF TypeOK
  <2>3. raced' \in BOOLEAN
    BY <1>10, <2>1, MoveType DEF Disconnect
  <2>4. CASE i \in DOMAIN fds
    <3>1. i \in 1..Len(fds) /\ fds[i] \in Fd /\ i \in 1..Len(peers)
      BY <2>2, <2>4 DEF TypeOK
    <3>2. fds[i].sock \in Remote /\ i \in Nat
      BY <3>1 DEF Fd
    <3>3. peers' \in Seq(Remote)
      BY <1>10, <2>4, <3>1, RemoveAtFacts DEF Disconnect, TypeOK
    <3>4. thread' \in [Thread -> Place]
      BY <1>10, <2>1, <2>4, <3>2, MoveType, PlaceMakers DEF Disconnect
    <3> QED BY <1>10, <2>3, <2>4, <3>2, <3>3, <3>4 DEF Disconnect, TypeOK
  <2>5. CASE i \notin DOMAIN fds
    <3>1. thread' \in [Thread -> Place]
      BY <1>10, <2>1, <2>5, MoveType, PlaceMakers DEF Disconnect
    <3> QED BY <1>10, <2>3, <2>5, <3>1 DEF Disconnect, TypeOK
  <2> QED BY <2>4, <2>5
<1>11. CASE Poll
  <2>1. fds' \in Seq(Fd)
    <3> DEFINE g == [i \in DOMAIN fds |->
                        [fds[i] EXCEPT !.in = Readable(fds[i]), !.hup = HungUp(fds[i])]]
    <3>1. fds \in Seq(Fd) /\ DOMAIN fds = 1..Len(fds) /\ Len(fds) \in Nat
      BY DEF TypeOK
    <3>2. ASSUME NEW i \in 1..Len(fds) PROVE g[i] \in Fd
      <4>1. fds[i] \in Fd
        BY <3>1
      <4>2. Readable(fds[i]) \in BOOLEAN /\ HungUp(fds[i]) \in BOOLEAN
        BY DEF Readable, HungUp
      <4> QED BY <3>1, <4>1, <4>2 DEF Fd
    <3>3. g \in Seq(Fd)
      <4> HIDE DEF g
      <4>1. g \in [1..Len(fds) -> Fd]
        BY <3>1, <3>2 DEF g
      <4> QED BY <3>1, <4>1
    <3> QED BY <1>11, <3>3 DEF Poll
  <2> QED BY <1>11, <2>1 DEF Poll, TypeOK, env
<1>12. CASE Look
  <2>1. "handler" \in Thread /\ turn \in 1..Len(fds) /\ fds[turn] \in Fd
    BY <1>12 DEF Look, Thread, TypeOK
  <2>2. fds[turn].sock \in Remote /\ turn \in Nat
    BY <2>1 DEF Fd, TypeOK
  <2>3. raced' \in BOOLEAN
    BY <1>12, <2>1, MoveType DEF Look
  <2>4. peers' \in Seq(Remote)
    BY <1>12, RemoveAtFacts DEF Look, TypeOK
  <2>5. thread' \in [Thread -> Place]
    <3>1. CASE turn \in DOMAIN peers
      <4>1. peers[turn] \in Remote
        BY <3>1 DEF TypeOK
      <4>2. \A at \in {"got"} \union (IF fds[turn].sock \in Callee THEN {"asked"} ELSE {}) :
                [at |-> at, peer |-> peers[turn]] \in Place
        BY <4>1, PlaceMakers
      <4>3. thread' = thread \/ \E pl \in Place : thread' = [thread EXCEPT !["handler"] = pl]
        BY <1>12, <2>2, <4>2, PlaceMakers DEF Look
      <4> QED BY <2>1, <4>3, MoveType DEF TypeOK
    <3>2. CASE turn \notin DOMAIN peers
      BY <1>12, <3>2 DEF Look, TypeOK
    <3> QED BY <3>1, <3>2
  <2>6. unread' \in [Remote -> Nat] /\ remote' \in [Remote -> {"away", "calling", "here", "gone"}]
    <3>1. \/ UNCHANGED << unread, remote >>
          \/ UNCHANGED unread /\ remote' = [remote EXCEPT ![fds[turn].sock] = "gone"]
          \/ /\ unread[fds[turn].sock] > 0 /\ UNCHANGED remote
             /\ unread' = [unread EXCEPT ![fds[turn].sock] = @ - 1]
      BY <1>12 DEF Look
    <3>2. unread' \in [Remote -> Nat]
      BY <2>2, <3>1, CountType DEF TypeOK
    <3> QED BY <2>2, <3>1, <3>2 DEF TypeOK
  <2>7. setting' = setting /\ UNCHANGED << fds, said, stale, strayed >>
    BY <1>12 DEF Look
  <2>8. turn' \in Nat /\ broken' \in BOOLEAN
    <3>1. turn' \in {turn, turn + 1} /\ broken' \in {TRUE, broken}
      BY <1>12 DEF Look
    <3>2. broken \in BOOLEAN /\ TRUE \in BOOLEAN
      BY DEF TypeOK
    <3>3. broken' \in BOOLEAN
      BY <3>1, <3>2
    <3>4. turn' \in Nat
      BY <2>2, <3>1
    <3> QED BY <3>3, <3>4
  <2> QED BY <2>3, <2>4, <2>5, <2>6, <2>7, <2>8 DEF TypeOK
<1>13. CASE EndRound
  BY <1>13 DEF EndRound, TypeOK, env
<1>14. CASE Answer
  <2>1. "handler" \in Thread
    BY DEF Thread
  <2>2. thread' \in [Thread -> Place] /\ turn' \in Nat
    BY <1>14, <2>1, MoveType DEF Answer
  <2>3. {raced', strayed', broken'} \subseteq BOOLEAN /\ setting' = setting
    BY <1>14, <2>1, MoveType DEF Answer, SendTo, TypeOK
  <2> QED BY <1>14, <2>2, <2>3 DEF Answer, TypeOK, env
<1> QED BY <1>1, <1>2, <1>3, <1>4, <1>5, <1>6, <1>7, <1>8, <1>9, <1>10, <1>11,
           <1>12, <1>13, <1>14 DEF Split

LEMMA NextTypeOK == TypeOK /\ [Next]_vars => TypeOK'
<1>1. CASE Next
  BY <1>1, NextSplits, StepTypeOK DEF TypeOK
<1>2. CASE UNCHANGED vars
  BY <1>2 DEF vars, TypeOK
<1> QED BY <1>1, <1>2

\* Whichever threads meet in the vectors, sockets stay sockets and peers stay
\* peers, and no thread is ever anywhere the code has no place for
\* (network_manager.cpp:95-130, 187-360).
THEOREM TypeCorrect == Spec => []TypeOK
<1> QED BY InitTypeOK, NextTypeOK, PTL DEF Spec

-----------------------------------------------------------------------------
(***************************************************************************)
(* The limit.  In a node that connects to nobody only the acceptor adds    *)
(* peers, and it has one place for the peer it is about to add.            *)
(***************************************************************************)
Adding(t) == thread[t].at \in {"room", "half"}
OnlyAcceptor ==
    Callee = {} =>
        /\ Len(peers) <= setting.limit
        /\ Adding("acceptor") => Len(peers) < setting.limit
        /\ ~Adding("handler")
        /\ thread["main"].at = "idle"

LEMMA InitOnlyAcceptor ==
    ASSUME Init
    PROVE  OnlyAcceptor
<1>1. setting.limit \in Nat \ {0}
  BY PeerTableAssumption DEF Init
<1>2. \A t \in Thread : thread[t].at = "idle"
  BY DEF Init, Idle
<1>3. Len(peers) = 0
  BY DEF Init
<1> QED BY <1>1, <1>2, <1>3 DEF OnlyAcceptor, Adding, Thread

\* The list does not grow, and no thread gets nearer to making it grow but
\* the acceptor, with room.
LEMMA NotMore ==
    ASSUME TypeOK, OnlyAcceptor, setting' = setting, Len(peers') \in Nat,
           peers' = peers \/ Len(peers') <= Len(peers),
           NEW t \in Thread, \A u \in Thread \ {t} : thread'[u] = thread[u],
           thread'[t].at \in {"room", "half"} =>
                \/ Adding(t)
                \/ t = "acceptor" /\ Len(peers) # setting.limit
                \/ t # "acceptor" /\ Callee # {},
           t = "main" /\ thread'[t].at # "idle" => Callee # {} \/ thread[t].at # "idle"
    PROVE  OnlyAcceptor'
<1> SUFFICES ASSUME Callee = {}
             PROVE  /\ Len(peers') <= setting.limit
                    /\ Adding("acceptor")' => Len(peers') < setting.limit
                    /\ ~Adding("handler")'
                    /\ thread'["main"].at = "idle"
  BY DEF OnlyAcceptor, Callee
<1>1. Len(peers) \in Nat /\ setting.limit \in Nat
  BY PeerTableAssumption DEF TypeOK
<1>2. thread \in [Thread -> Place] /\ {"acceptor", "handler", "main"} = Thread
  BY DEF TypeOK, Thread
<1> QED BY <1>1, <1>2 DEF OnlyAcceptor, Adding

LEMMA LimitStep ==
    ASSUME TypeOK, TypeOK', OnlyAcceptor, Split
    PROVE  OnlyAcceptor'
<1>1. Len(peers') \in Nat /\ Len(peers) \in Nat
  BY DEF TypeOK
<1>2. \A u \in Thread : thread'[u] \in Place
  BY DEF TypeOK
<1>3. ASSUME UNCHANGED << setting, thread >>, peers' = peers \/ Len(peers') <= Len(peers)
      PROVE  OnlyAcceptor'
  <2>1. "main" \in Thread
    BY DEF Thread
  <2> QED BY <1>1, <1>3, <2>1, NotMore DEF Adding
<1>4. ASSUME NEW t \in Thread, thread[t].at # "idle" \/ thread'[t].at = "idle",
             thread'[t].at \notin {"room", "half"},
             \A u \in Thread \ {t} : thread'[u] = thread[u],
             setting' = setting, peers' = peers \/ Len(peers') <= Len(peers)
      PROVE  OnlyAcceptor'
  BY <1>1, <1>4, NotMore
<1>5. thread \in [Thread -> Place]
  BY DEF TypeOK
<1>6. ASSUME NEW r \in Remote, Call(r) \/ Say(r) \/ HangUp(r) PROVE OnlyAcceptor'
  BY <1>1, <1>3, <1>6 DEF Call, Say, HangUp
<1>7. ASSUME NEW t \in Thread, NEW r \in Remote, FindRoom(t, r) PROVE OnlyAcceptor'
  <2>1. t = "acceptor" \/ Callee # {}
    BY <1>7 DEF FindRoom
  <2>2. /\ Len(peers) # setting.limit /\ setting' = setting /\ peers' = peers
        /\ thread' = [thread EXCEPT ![t] = [at |-> "room"]]
    BY <1>7 DEF FindRoom
  <2>3. thread'[t].at = "room" /\ \A u \in Thread \ {t} : thread'[u] = thread[u]
    BY <1>5, <2>2
  <2>4. thread[t].at = "idle" /\ (t = "main" => Callee # {})
    BY <1>7 DEF FindRoom
  <2> QED BY <1>1, <2>1, <2>2, <2>3, <2>4, NotMore
<1>8. ASSUME NEW t \in Thread, NEW r \in Remote, PushSocket(t, r) PROVE OnlyAcceptor'
  <2>1. t = "acceptor" \/ Callee # {}
    BY <1>8 DEF PushSocket
  <2>2. /\ Adding(t) /\ setting' = setting /\ peers' = peers
        /\ thread' = [thread EXCEPT ![t] = [at |-> "half", peer |-> r]]
    BY <1>8 DEF PushSocket, Adding
  <2>3. thread'[t].at = "half" /\ \A u \in Thread \ {t} : thread'[u] = thread[u]
    BY <1>5, <2>2
  <2> QED BY <1>1, <2>1, <2>2, <2>3, NotMore
<1>9. ASSUME NEW t \in Thread, Refused(t) PROVE OnlyAcceptor'
  BY <1>4, <1>5, <1>9 DEF Refused, Done, Idle
<1>10. ASSUME NEW t \in Thread, PushPeer(t) PROVE OnlyAcceptor'
  <2>1. thread[t].at = "half" /\ setting' = setting
    BY <1>10 DEF PushPeer
  <2>2. Callee = {} => t = "acceptor"
    BY <2>1 DEF OnlyAcceptor, Adding, Thread
  <2>3. Len(peers') = Len(peers) + 1
    BY <1>10 DEF PushPeer, TypeOK
  <2>4. t = "acceptor" => thread' = [thread EXCEPT ![t].at = "whole"]
    BY <1>10 DEF PushPeer
  <2>5. Callee' = Callee
    BY <2>1 DEF Callee
  <2>6. ASSUME Callee = {} PROVE OnlyAcceptor'
    <3>1. t = "acceptor" /\ Len(peers) < setting.limit
      BY <2>1, <2>2, <2>6 DEF OnlyAcceptor, Adding
    <3>2. setting.limit \in Nat
      BY PeerTableAssumption DEF TypeOK
    <3>3. Len(peers') <= setting'.limit
      BY <1>1, <2>1, <2>3, <3>1, <3>2
    <3>4. thread \in [Thread -> Place] /\ {"acceptor", "handler", "main"} = Thread
      BY DEF TypeOK, Thread
    <3>5. thread'["acceptor"].at = "whole"
      <4>1. thread["acceptor"] \in Place /\ thread["acceptor"].at = "half"
        BY <2>1, <3>1, <3>4
      <4>2. [thread["acceptor"] EXCEPT !.at = "whole"].at = "whole"
        BY <4>1, PlaceParts
      <4> QED BY <2>4, <3>1, <3>4, <4>2
    <3>6. thread'["handler"] = thread["handler"] /\ thread'["main"] = thread["main"]
      BY <2>4, <3>1, <3>4
    <3> QED BY <2>6, <3>3, <3>5, <3>6 DEF OnlyAcceptor, Adding
  <2> QED BY <2>5, <2>6 DEF OnlyAcceptor
<1>11. ASSUME NEW t \in Thread, Ask(t) PROVE OnlyAcceptor'
  <2>1. thread[t].at # "idle" /\ setting' = setting /\ peers' = peers
    BY <1>11 DEF Ask
  <2>2. \/ thread' = thread
        \/ thread'[t].at = "wait" /\ \A u \in Thread \ {t} : thread'[u] = thread[u]
    BY <1>5, <1>11 DEF Ask
  <2> QED BY <1>3, <1>4, <2>1, <2>2
<1>12. ASSUME NEW t \in Thread, Hear(t) PROVE OnlyAcceptor'
  <2>1. thread[t].at # "idle" /\ setting' = setting /\ peers' = peers
    BY <1>12 DEF Hear
  <2>2. \/ Done(t)
        \/ t = "acceptor" /\ thread' = [thread EXCEPT ![t] = [at |-> "drop", peer |-> thread[t].peer]]
        \/ /\ t = "handler" /\ Callee # {}
           /\ thread' = [thread EXCEPT ![t] = [at |-> "room"]]
    BY <1>12 DEF Hear
  <2>4. CASE Done(t)
    BY <1>4, <1>5, <2>1, <2>4 DEF Done, Idle
  <2>5. CASE t = "acceptor" /\ thread' = [thread EXCEPT ![t] = [at |-> "drop", peer |-> thread[t].peer]]
    BY <1>4, <1>5, <2>1, <2>5
  <2>6. CASE /\ t = "handler" /\ Callee # {}
             /\ thread' = [thread EXCEPT ![t] = [at |-> "room"]]
    <3>1. thread'[t].at = "room" /\ \A u \in Thread \ {t} : thread'[u] = thread[u]
      BY <1>5, <2>6
    <3> QED BY <1>1, <2>1, <2>6, <3>1, NotMore
  <2> QED BY <2>2, <2>4, <2>5, <2>6
<1>13. ASSUME NEW t \in Thread, GiveUp(t) PROVE OnlyAcceptor'
  <2>1. thread[t].at # "idle" /\ setting' = setting /\ peers' = peers
    BY <1>13 DEF GiveUp
  <2>2. \/ Done(t)
        \/ t = "acceptor" /\ thread' = [thread EXCEPT ![t] = [at |-> "drop", peer |-> thread[t].peer]]
    BY <1>13 DEF GiveUp
  <2>4. CASE Done(t)
    BY <1>4, <1>5, <2>1, <2>4 DEF Done, Idle
  <2>5. CASE t = "acceptor" /\ thread' = [thread EXCEPT ![t] = [at |-> "drop", peer |-> thread[t].peer]]
    BY <1>4, <1>5, <2>1, <2>5
  <2> QED BY <2>2, <2>4, <2>5
<1>14. ASSUME NEW t \in Thread, EraseSocket(t) PROVE OnlyAcceptor'
  BY <1>4, <1>5, <1>14 DEF EraseSocket, Done, Idle
<1>15. CASE Disconnect
  <2> DEFINE i == Index(thread["acceptor"].peer)
  <2>1. i \in 0..Len(peers) /\ "acceptor" \in Thread /\ setting' = setting
    BY <1>15, IndexFacts DEF TypeOK, Thread, Disconnect
  <2>2. CASE i \in DOMAIN fds
    <3>1. i \in 1..Len(peers) /\ i \in Nat
      BY <2>1, <2>2 DEF TypeOK
    <3>2. /\ peers' = RemoveAt(peers, i)
          /\ thread' = [thread EXCEPT !["acceptor"] = [at |-> "erase", index |-> i]]
      BY <1>15, <2>2 DEF Disconnect
    <3> HIDE DEF i
    <3>3. Len(peers') <= Len(peers)
      BY <1>1, <3>1, <3>2, RemoveAtFacts DEF TypeOK
    <3>4. thread["acceptor"].at # "idle"
      BY <1>15 DEF Disconnect
    <3>5. /\ thread'["acceptor"].at = "erase"
          /\ \A u \in Thread \ {"acceptor"} : thread'[u] = thread[u]
      BY <1>5, <2>1, <3>2
    <3> QED BY <1>4, <2>1, <3>3, <3>4, <3>5
  <2>3. CASE i \notin DOMAIN fds
    <3>1. peers' = peers /\ thread' = [thread EXCEPT !["acceptor"] = Idle]
      BY <1>15, <2>3 DEF Disconnect
    <3> QED BY <1>4, <1>5, <2>1, <3>1 DEF Idle
  <2> QED BY <2>2, <2>3
<1>16. CASE Poll
  BY <1>3, <1>16 DEF Poll
<1>17. CASE Look
  <2>1. "handler" \in Thread /\ setting' = setting
    BY <1>17 DEF Thread, Look
  <2>2. peers' = peers \/ Len(peers') <= Len(peers)
    <3>1. peers' = peers \/ (turn \in 1..Len(peers) /\ peers' = RemoveAt(peers, turn))
      BY <1>17 DEF Look, TypeOK
    <3> QED BY <1>1, <3>1, RemoveAtFacts DEF TypeOK
  <2>3. \/ thread' = thread
        \/ /\ thread'["handler"].at \in {"erase", "got", "asked"}
           /\ \A u \in Thread \ {"handler"} : thread'[u] = thread[u]
    <3>1. \/ thread' = thread
          \/ thread' = [thread EXCEPT !["handler"] = [at |-> "erase", index |-> turn]]
          \/ \E at \in {"got", "asked"} :
                thread' = [thread EXCEPT !["handler"] = [at |-> at, peer |-> peers[turn]]]
      BY <1>17 DEF Look
    <3> QED BY <1>5, <2>1, <3>1
  <2>4. CASE thread' = thread
    BY <1>3, <2>1, <2>2, <2>4
  <2>5. CASE thread' # thread
    <3>1. /\ thread'["handler"].at \notin {"room", "half"}
          /\ \A u \in Thread \ {"handler"} : thread'[u] = thread[u]
      BY <2>3, <2>5
    <3> QED BY <1>1, <2>1, <2>2, <3>1, NotMore
  <2> QED BY <2>4, <2>5
<1>18. CASE EndRound
  BY <1>3, <1>18 DEF EndRound
<1>19. CASE Answer
  <2>1. thread'["handler"].at = "idle" /\ \A u \in Thread \ {"handler"} : thread'[u] = thread[u]
    BY <1>5, <1>19 DEF Answer, Done, Idle, Thread
  <2>2. setting' = setting /\ peers' = peers /\ "handler" \in Thread
    BY <1>19 DEF Answer, SendTo, Thread
  <2> QED BY <1>4, <2>1, <2>2
<1> QED BY <1>6, <1>7, <1>8, <1>9, <1>10, <1>11, <1>12, <1>13, <1>14, <1>15, <1>16,
           <1>17, <1>18, <1>19 DEF Split

\* A node that connects to nobody never has more than MAX_PEERS peers, for
\* every MAX_PEERS and every number of callers, although the limit is tested
\* with an inequality and before the peer is added
\* (network_manager.cpp:95-130, 187-215).
THEOREM LimitHolds == Spec => []PeersBounded
<1>1. TypeOK /\ OnlyAcceptor /\ [Next]_vars => (TypeOK /\ OnlyAcceptor)'
  <2> SUFFICES ASSUME TypeOK, OnlyAcceptor, [Next]_vars PROVE OnlyAcceptor'
    BY NextTypeOK
  <2>1. TypeOK'
    BY NextTypeOK
  <2>2. CASE Next
    BY <2>1, <2>2, NextSplits, LimitStep DEF TypeOK
  <2>3. CASE UNCHANGED vars
    BY <2>3 DEF vars, OnlyAcceptor, Callee, Adding
  <2> QED BY <2>2, <2>3
<1>2. OnlyAcceptor => PeersBounded
  BY DEF OnlyAcceptor, PeersBounded
<1> QED BY <1>1, <1>2, InitTypeOK, InitOnlyAcceptor, PTL DEF Spec

-----------------------------------------------------------------------------
(***************************************************************************)
(* The vectors stay in order.                                              *)
(***************************************************************************)
Mid(t) == thread[t].at \in {"half", "erase"}
Socks == [i \in DOMAIN fds |-> fds[i].sock]
Listed(p) == \E i \in 1..Len(peers) : peers[i] = p

\* No two threads are between the two steps of a change.
OneMid == \A t, u \in Thread : Mid(t) /\ Mid(u) => t = u

\* The vectors belong together; between the two steps one of them is one
\* change ahead.
Level == (\A t \in Thread : ~Mid(t)) => peers = Socks
Ahead == \A t \in Thread : thread[t].at = "half" => Socks = Append(peers, thread[t].peer)
Behind ==
    \A t \in Thread : thread[t].at = "erase" =>
        /\ thread[t].index \in 1..Len(fds)
        /\ peers = RemoveAt(Socks, thread[t].index)

\* A peer that is about to be asked is in the list, or has hung up.
Asking ==
    \A t \in Thread : thread[t].at \in {"whole", "asked"} =>
        Listed(thread[t].peer) \/ remote[thread[t].peer] = "gone"

InOrder ==
    /\ OneMid /\ Level /\ Ahead /\ Behind /\ Asking
    /\ ~strayed
    /\ broken => \E t \in Thread :
            thread[t].at \in {"whole", "asked"} /\ remote[thread[t].peer] = "gone"

POrder == TypeOK /\ (~raced => InOrder)


LEMMA SocksFacts ==
    ASSUME TypeOK
    PROVE  /\ Socks \in Seq(Remote) /\ Len(Socks) = Len(fds)
           /\ DOMAIN fds = 1..Len(fds)
           /\ \A i \in 1..Len(fds) : Socks[i] = fds[i].sock /\ fds[i].sock \in Remote
<1> DEFINE n == Len(fds)
<1>1. fds \in Seq(Fd) /\ n \in Nat /\ DOMAIN fds = 1..n
  BY DEF TypeOK
<1>2. \A i \in 1..n : fds[i].sock \in Remote
  BY <1>1, EntryParts
<1>3. Socks \in [1..n -> Remote]
  BY <1>1, <1>2 DEF Socks
<1> HIDE DEF n
<1>4. Socks \in Seq(Remote) /\ Len(Socks) = n
  BY <1>1, <1>3
<1> QED BY <1>1, <1>2, <1>4 DEF n, Socks

LEMMA SocksAgain ==
    ASSUME TypeOK'
    PROVE  Socks' \in Seq(Remote) /\ Len(Socks') = Len(fds')
<1>1. fds' \in Seq(Fd) /\ DOMAIN fds' = 1..Len(fds') /\ Len(fds') \in Nat
  BY DEF TypeOK
<1>2. \A i \in 1..Len(fds') : fds'[i].sock \in Remote
  BY <1>1, EntryParts
<1>3. Socks' \in [1..Len(fds') -> Remote]
  BY <1>1, <1>2 DEF Socks
<1> QED BY <1>1, <1>3

\* Two sequences of sockets that agree.
LEMMA SameSocks ==
    ASSUME DOMAIN fds' = DOMAIN fds, \A i \in DOMAIN fds : fds'[i].sock = fds[i].sock
    PROVE  Socks' = Socks
BY DEF Socks

\* A thread that comes to the vectors finds no other half way through.
LEMMA TouchFacts ==
    ASSUME NEW t \in Thread, Touch(t), ~raced'
    PROVE  ~raced /\ ~broken /\ \A u \in Thread \ {t} : ~Mid(u)
BY DEF Touch, Mid

\* A step that leaves the vectors alone, and takes t nowhere or to a place
\* that is not half way through a change.
LEMMA Quiet ==
    ASSUME TypeOK, TypeOK', InOrder, NEW t \in Thread,
           \A u \in Thread \ {t} : thread'[u] = thread[u],
           thread'[t] = thread[t] \/ ~Mid(t),
           thread'[t] = thread[t] \/ ~Mid(t)',
           thread'[t] # thread[t] /\ thread'[t].at \in {"whole", "asked"} =>
                Listed(thread'[t].peer),
           peers' = peers, Len(fds') = Len(fds), Socks' = Socks,
           \A r \in Remote : remote[r] = "gone" => remote'[r] = "gone",
           ~strayed', broken' => broken /\ thread'[t] = thread[t]
    PROVE  InOrder'
<1>1. \A u \in Thread : Mid(u)' <=> Mid(u)
  BY DEF Mid
<1>2. OneMid' /\ Level'
  BY <1>1 DEF InOrder, OneMid, Level
<1>3. Ahead' /\ Behind'
  BY <1>1 DEF InOrder, Ahead, Behind, Mid
<1>4. \A u \in Thread : thread[u].at \in {"whole", "asked"} => thread[u].peer \in Remote
  <2>1. \A u \in Thread : thread[u] \in Place
    BY DEF TypeOK
  <2> QED BY <2>1, PlaceParts
<1>5. Asking'
  BY <1>4 DEF InOrder, Asking, Listed
<1>6. broken' => \E u \in Thread :
            thread'[u].at \in {"whole", "asked"} /\ remote'[thread'[u].peer] = "gone"
  BY <1>4 DEF InOrder
<1> QED BY <1>2, <1>3, <1>5, <1>6 DEF InOrder

\* Between changes, the place of a listed peer is the place of its socket.
LEMMA IndexIsSocket ==
    ASSUME TypeOK, InOrder, \A t \in Thread : ~Mid(t), NEW p
    PROVE  /\ Len(peers) = Len(fds) /\ Index(p) \in 0..Len(fds)
           /\ Index(p) # 0 => fds[Index(p)].sock = p /\ peers[Index(p)] = p
           /\ Index(p) = 0 => ~Listed(p)
<1>1. peers = Socks /\ peers \in Seq(Remote)
  BY DEF InOrder, Level, TypeOK
<1>2. Len(peers) = Len(fds) /\ \A i \in 1..Len(fds) : peers[i] = fds[i].sock
  BY <1>1, SocksFacts
<1>3. /\ Index(p) \in 0..Len(peers)
      /\ Index(p) # 0 => peers[Index(p)] = p
      /\ Index(p) = 0 => \A i \in 1..Len(peers) : peers[i] # p
  BY <1>1, IndexFacts
<1>4. Len(peers) \in Nat
  BY <1>1
<1> QED BY <1>2, <1>3, <1>4 DEF Listed

\* A peer is erased and its socket closed: the first step of _removePeer.
LEMMA FirstErase ==
    ASSUME TypeOK, TypeOK', InOrder, \A u \in Thread : ~Mid(u),
           NEW t \in Thread, NEW i \in 1..Len(fds), i \in 1..Len(peers),
           \A u \in Thread \ {t} : thread'[u] = thread[u],
           thread'[t] = [at |-> "erase", index |-> i],
           peers' = RemoveAt(peers, i), fds' = fds,
           remote' = [remote EXCEPT ![fds[i].sock] = "gone"],
           ~strayed', ~broken'
    PROVE  InOrder'
<1>1. peers = Socks /\ peers \in Seq(Remote) /\ Len(peers) \in Nat /\ Socks' = Socks
  <2>1. peers = Socks
    BY DEF InOrder, Level
  <2>2. peers \in Seq(Remote) /\ Len(peers) \in Nat
    BY DEF TypeOK
  <2> QED BY <2>1, <2>2 DEF Socks
<1>2. Mid(t)' /\ \A u \in Thread \ {t} : ~Mid(u)'
  BY DEF Mid
<1>3. OneMid' /\ Level' /\ Ahead'
  BY <1>2 DEF OneMid, Level, Ahead, Mid
<1>4. Behind'
  BY <1>1, <1>2 DEF Behind, Mid
<1>5. Asking'
  <2> SUFFICES ASSUME NEW u \in Thread, thread'[u].at \in {"whole", "asked"}
               PROVE  \/ \E k \in 1..Len(peers') : peers'[k] = thread'[u].peer
                      \/ remote'[thread'[u].peer] = "gone"
    BY DEF Asking, Listed
  <2> DEFINE p == thread[u].peer
  <2>1. u # t /\ thread'[u] = thread[u]
    OBVIOUS
  <2>2. p \in Remote
    <3>1. thread[u] \in Place
      BY DEF TypeOK
    <3> QED BY <2>1, <3>1, PlaceParts
  <2>3. Listed(p) \/ remote[p] = "gone"
    BY <2>1 DEF InOrder, Asking
  <2>4. peers[i] = fds[i].sock
    BY <1>1, SocksFacts
  <2> HIDE DEF p
  <2>5. CASE remote[p] = "gone"
    <3>1. remote'[p] = "gone"
      BY <2>2, <2>5 DEF TypeOK
    <3> QED BY <2>1, <3>1 DEF p
  <2>6. CASE Listed(p)
    <3>1. PICK j \in 1..Len(peers) : peers[j] = p
      BY <2>6 DEF Listed
    <3>2. CASE j = i
      <4>1. remote'[p] = "gone"
        BY <2>2, <2>4, <3>1, <3>2 DEF TypeOK
      <4> QED BY <2>1, <4>1 DEF p
    <3>3. CASE j # i
      <4> DEFINE k == IF j < i THEN j ELSE j - 1
      <4>1. k \in 1..(Len(peers) - 1) /\ j = IF k < i THEN k ELSE k + 1
        BY <1>1, <3>3
      <4>2. Len(peers') = Len(peers) - 1 /\ peers'[k] = peers[j]
        BY <1>1, <4>1, RemoveAtFacts
      <4> HIDE DEF k
      <4>3. \E l \in 1..Len(peers') : peers'[l] = p
        BY <3>1, <4>1, <4>2
      <4> QED BY <2>1, <4>3 DEF p
    <3> QED BY <3>2, <3>3
  <2> QED BY <2>3, <2>5, <2>6
<1> QED BY <1>3, <1>4, <1>5 DEF InOrder

LEMMA InOrderStep ==
    ASSUME TypeOK, TypeOK', InOrder, ~raced', Split
    PROVE  InOrder'
<1>1. thread \in [Thread -> Place] /\ \A u \in Thread : thread[u] \in Place
  BY DEF TypeOK
<1>2. "handler" \in Thread /\ "acceptor" \in Thread
  BY DEF Thread
<1>3. ASSUME UNCHANGED << thread, peers, strayed, broken >>, Len(fds') = Len(fds),
             Socks' = Socks, \A r \in Remote : remote[r] = "gone" => remote'[r] = "gone"
      PROVE  InOrder'
  BY <1>2, <1>3, Quiet DEF InOrder
<1>4. ASSUME UNCHANGED << fds >> PROVE Len(fds') = Len(fds) /\ Socks' = Socks
  BY <1>4 DEF Socks
<1>5. ASSUME NEW t \in Thread, ~Mid(t), ~(thread'[t].at \in {"half", "erase", "whole", "asked"}),
             \A u \in Thread \ {t} : thread'[u] = thread[u],
             peers' = peers, Len(fds') = Len(fds), Socks' = Socks, remote' = remote,
             ~strayed', ~broken'
      PROVE  InOrder'
  BY <1>5, Quiet DEF Mid
<1>6. ASSUME NEW r \in Remote, Call(r) \/ Say(r) \/ HangUp(r) PROVE InOrder'
  <2>1. \A q \in Remote : remote[q] = "gone" => remote'[q] = "gone"
    BY <1>6 DEF Call, Say, HangUp, TypeOK
  <2> QED BY <1>3, <1>4, <1>6, <2>1 DEF Call, Say, HangUp
<1>7. ASSUME NEW t \in Thread, NEW r \in Remote, FindRoom(t, r) PROVE InOrder'
  <2>1. ~broken /\ ~strayed
    BY <1>7, TouchFacts DEF FindRoom, InOrder
  <2>2. thread'[t].at = "room" /\ \A u \in Thread \ {t} : thread'[u] = thread[u]
    BY <1>1, <1>7 DEF FindRoom
  <2>3. UNCHANGED << fds, peers, remote, strayed, broken >> /\ ~Mid(t)
    BY <1>7 DEF FindRoom, Mid, env
  <2> QED BY <1>4, <1>5, <2>1, <2>2, <2>3
<1>8. ASSUME NEW t \in Thread, NEW r \in Remote, PushSocket(t, r) PROVE InOrder'
  <2> DEFINE x == [sock |-> r, deaf |-> FALSE, in |-> FALSE, hup |-> FALSE]
  <2>1. ~broken /\ \A u \in Thread : ~Mid(u)
    BY <1>8, TouchFacts DEF PushSocket, Mid
  <2>2. /\ thread'[t] = [at |-> "half", peer |-> r]
        /\ \A u \in Thread \ {t} : thread'[u] = thread[u]
    BY <1>1, <1>8 DEF PushSocket
  <2>3. /\ fds' = Append(fds, x) /\ UNCHANGED << peers, strayed, broken >>
        /\ remote' = [remote EXCEPT ![r] = "here"] /\ remote[r] # "gone"
    BY <1>8 DEF PushSocket
  <2>4. Mid(t)' /\ \A u \in Thread \ {t} : ~Mid(u)'
    BY <2>1, <2>2 DEF Mid
  <2>5. OneMid' /\ Level' /\ Behind'
    BY <2>4, <2>2 DEF OneMid, Level, Behind, Mid
  <2>6. Socks' = Append(peers, r)
    <3>1. peers = Socks
      BY <2>1 DEF InOrder, Level
    <3>2. fds \in Seq(Fd) /\ x.sock = r
      BY DEF TypeOK
    <3> HIDE DEF x
    <3>3. DOMAIN fds' = 1..(Len(fds) + 1) /\ DOMAIN fds = 1..Len(fds)
      BY <2>3, <3>2
    <3>4. \A i \in 1..(Len(fds) + 1) : fds'[i] = IF i <= Len(fds) THEN fds[i] ELSE x
      BY <2>3, <3>2
    <3>5. Socks' \in Seq(Remote) /\ Len(Socks') = Len(fds) + 1
      BY <3>3, SocksFacts, SocksAgain
    <3>6. Append(Socks, r) \in Seq(Remote) /\ Len(Append(Socks, r)) = Len(fds) + 1
      BY SocksFacts
    <3>7. ASSUME NEW i \in 1..(Len(fds) + 1) PROVE Socks'[i] = Append(Socks, r)[i]
      <4>1. Socks'[i] = fds'[i].sock
        BY <3>3 DEF Socks
      <4>2. CASE i <= Len(fds)
        BY <3>4, <4>1, <4>2, SocksFacts
      <4>3. CASE ~(i <= Len(fds))
        <5>1. i = Len(fds) + 1 /\ Len(Socks) = Len(fds)
          BY <3>2, <4>3, SocksFacts
        <5> QED BY <3>2, <3>4, <4>1, <4>3, <5>1, SocksFacts
      <4> QED BY <4>2, <4>3
    <3>8. Socks' = Append(Socks, r)
      BY <3>5, <3>6, <3>7
    <3> QED BY <3>1, <3>8
  <2>7. Ahead'
    BY <2>2, <2>4, <2>3, <2>6 DEF Ahead, Mid
  <2>8. Asking'
    <3>1. \A u \in Thread \ {t} : thread[u].at \in {"whole", "asked"} => thread[u].peer \in Remote
      BY <1>1, PlaceParts
    <3>2. \A q \in Remote : remote[q] = "gone" => remote'[q] = "gone"
      BY <2>3 DEF TypeOK
    <3>3. ASSUME NEW u \in Thread, thread'[u].at \in {"whole", "asked"}
          PROVE  \/ \E k \in 1..Len(peers') : peers'[k] = thread'[u].peer
                 \/ remote'[thread'[u].peer] = "gone"
      <4>1. u # t /\ thread'[u] = thread[u]
        BY <2>2, <3>3
      <4>2. Listed(thread[u].peer) \/ remote[thread[u].peer] = "gone"
        BY <3>3, <4>1 DEF InOrder, Asking
      <4> QED BY <2>3, <3>1, <3>2, <3>3, <4>1, <4>2 DEF Listed
    <3> QED BY <3>3 DEF Asking, Listed
  <2> QED BY <2>1, <2>3, <2>5, <2>7, <2>8 DEF InOrder
<1>9. ASSUME NEW t \in Thread, Refused(t) PROVE InOrder'
  <2>1. thread'[t].at = "idle" /\ \A u \in Thread \ {t} : thread'[u] = thread[u]
    BY <1>1, <1>9 DEF Refused, Done, Idle
  <2>2. UNCHANGED << fds, peers, remote, strayed, broken >> /\ ~Mid(t) /\ ~broken /\ ~strayed
    BY <1>9 DEF Refused, Mid, env, InOrder
  <2> QED BY <1>4, <1>5, <2>1, <2>2
<1>10. ASSUME NEW t \in Thread, PushPeer(t) PROVE InOrder'
  <2> DEFINE p == thread[t].peer
  <2>1. ~broken /\ (\A u \in Thread \ {t} : ~Mid(u)) /\ thread[t].at = "half"
    BY <1>10, TouchFacts DEF PushPeer
  <2>2. p \in Remote
    BY <1>1, <2>1, PlaceParts
  <2>3. /\ peers' = Append(peers, p) /\ UNCHANGED << fds, remote, strayed, broken >>
        /\ \A u \in Thread \ {t} : thread'[u] = thread[u]
    BY <1>1, <1>10 DEF PushPeer, Done, env
  <2>4. thread'[t] = [at |-> "whole", peer |-> p] \/ thread'[t].at = "idle"
    <3>1. CASE t = "acceptor"
      <4>1. thread'[t] = [thread[t] EXCEPT !.at = "whole"]
        BY <1>1, <1>10, <3>1 DEF PushPeer
      <4> QED BY <1>1, <2>1, <4>1, PlaceParts
    <3>2. CASE t # "acceptor"
      BY <1>1, <1>10, <3>2 DEF PushPeer, Done, Idle
    <3> QED BY <3>1, <3>2
  <2>5. \A u \in Thread : ~Mid(u)'
    BY <2>1, <2>3, <2>4 DEF Mid
  <2>6. Socks' = Append(peers, p)
    BY <1>4, <2>1, <2>3 DEF InOrder, Ahead
  <2>7. OneMid' /\ Level' /\ Ahead' /\ Behind'
    BY <2>3, <2>5, <2>6 DEF OneMid, Level, Ahead, Behind, Mid
  <2> HIDE DEF p
  <2>8. Asking'
    <3>1. /\ Len(peers') = Len(peers) + 1 /\ peers'[Len(peers) + 1] = p
          /\ \A i \in 1..Len(peers) : peers'[i] = peers[i]
          /\ Len(peers) \in Nat
      BY <2>2, <2>3 DEF TypeOK
    <3>2. \E i \in 1..Len(peers') : peers'[i] = p
      BY <3>1
    <3>3. \A q : Listed(q) => \E i \in 1..Len(peers') : peers'[i] = q
      BY <3>1 DEF Listed
    <3>4. ASSUME NEW u \in Thread, thread'[u].at \in {"whole", "asked"}
          PROVE  \/ \E i \in 1..Len(peers') : peers'[i] = thread'[u].peer
                 \/ remote'[thread'[u].peer] = "gone"
      <4>1. CASE u = t
        BY <2>4, <3>2, <3>4, <4>1
      <4>2. CASE u # t
        BY <2>3, <3>3, <3>4, <4>2 DEF InOrder, Asking
      <4> QED BY <4>1, <4>2
    <3> QED BY <3>4 DEF Asking, Listed
  <2> QED BY <2>1, <2>3, <2>7, <2>8 DEF InOrder
<1>11. ASSUME NEW t \in Thread, Ask(t) PROVE InOrder'
  <2> DEFINE p == thread[t].peer
             k == Index(p)
  <2>1. ~broken /\ (\A u \in Thread : ~Mid(u)) /\ thread[t].at \in {"whole", "asked"}
    BY <1>11, TouchFacts DEF Ask, Mid
  <2>2. k = 0 \/ (k \in 1..Len(fds) /\ fds[k].sock = p)
    <3>1. k \in 0..Len(fds) /\ (k # 0 => fds[k].sock = p)
      BY <2>1, IndexIsSocket
    <3>2. Len(fds) \in Nat
      BY DEF TypeOK
    <3> HIDE DEF k
    <3>3. k # 0 => k \in 1..Len(fds)
      BY <3>1, <3>2
    <3> QED BY <3>1, <3>3
  <2>3. DOMAIN fds = 1..Len(fds) /\ fds \in Seq(Fd) /\ Len(fds) \in Nat
    BY DEF TypeOK
  <2>4. UNCHANGED << peers, remote >>
    BY <1>11 DEF Ask, env
  <2>5. CASE k \in DOMAIN fds
    <3>1. /\ fds' = [fds EXCEPT ![k].deaf = TRUE]
          /\ strayed' = (strayed \/ fds[k].sock # p)
          /\ broken' = broken
          /\ thread'[t].at = "wait" /\ \A u \in Thread \ {t} : thread'[u] = thread[u]
      BY <1>1, <1>11, <2>5 DEF Ask
    <3>2. ~strayed'
      <4>1. k # 0
        BY <2>3, <2>5
      <4> QED BY <2>2, <3>1, <4>1 DEF InOrder
    <3>3. Len(fds') = Len(fds) /\ Socks' = Socks
      <4> HIDE DEF k
      <4>1. k \in 1..Len(fds)
        BY <2>3, <2>5
      <4>2. Len(fds') = Len(fds) /\ \A i \in 1..Len(fds) : fds'[i].sock = fds[i].sock
        BY <2>3, <3>1, <4>1, EntryUpdate
      <4>3. DOMAIN fds' = DOMAIN fds
        BY <2>3, <3>1
      <4> QED BY <2>3, <4>2, <4>3, SameSocks
    <3> QED BY <1>5, <2>1, <2>4, <3>1, <3>2, <3>3
  <2>6. CASE k \notin DOMAIN fds
    <3>1. UNCHANGED << fds, strayed, thread >>
      BY <1>11, <2>6 DEF Ask
    <3>2. k = 0
      BY <2>2, <2>3, <2>6
    <3>3. ~Listed(p)
      BY <2>1, <3>2, IndexIsSocket
    <3>4. remote[p] = "gone"
      BY <2>1, <3>3 DEF InOrder, Asking
    <3>5. /\ thread'[t].at \in {"whole", "asked"} /\ remote'[thread'[t].peer] = "gone"
      BY <2>1, <2>4, <3>1, <3>4
    <3>6. OneMid' /\ Level' /\ Ahead' /\ Behind' /\ Asking' /\ ~strayed'
      BY <2>4, <3>1 DEF InOrder, OneMid, Level, Ahead, Behind, Asking, Mid, Socks, Listed
    <3> QED BY <3>5, <3>6 DEF InOrder
  <2> QED BY <2>5, <2>6
<1>12. ASSUME NEW t \in Thread, Hear(t) PROVE InOrder'
  <2> DEFINE k == thread[t].index
  <2>1. ~broken /\ ~strayed /\ thread[t].at = "wait"
    BY <1>12, TouchFacts DEF Hear, InOrder
  <2>2. /\ thread'[t].at \in {"idle", "drop", "room"}
        /\ \A u \in Thread \ {t} : thread'[u] = thread[u]
    BY <1>1, <1>12 DEF Hear, Done, Idle
  <2>3. UNCHANGED << peers, remote, strayed, broken >>
    BY <1>12 DEF Hear
  <2>4. Len(fds') = Len(fds) /\ Socks' = Socks
    <3>1. DOMAIN fds = 1..Len(fds) /\ fds \in Seq(Fd)
      BY DEF TypeOK
    <3>2. fds' = fds \/ (k \in 1..Len(fds) /\ fds' = [fds EXCEPT ![k].deaf = FALSE])
      <4>1. CASE k \in DOMAIN fds
        BY <1>12, <3>1, <4>1 DEF Hear
      <4>2. CASE k \notin DOMAIN fds
        BY <1>12, <4>2 DEF Hear
      <4> QED BY <4>1, <4>2
    <3> HIDE DEF k
    <3>3. /\ Len(fds') = Len(fds) /\ DOMAIN fds' = DOMAIN fds
          /\ \A i \in 1..Len(fds) : fds'[i].sock = fds[i].sock
      <4>1. CASE fds' = fds
        BY <4>1
      <4>2. CASE k \in 1..Len(fds) /\ fds' = [fds EXCEPT ![k].deaf = FALSE]
        <5>1. Len(fds') = Len(fds) /\ \A i \in 1..Len(fds) : fds'[i].sock = fds[i].sock
          BY <3>1, <4>2, EntryUpdate
        <5>2. DOMAIN fds' = DOMAIN fds
          BY <4>2
        <5> QED BY <5>1, <5>2
      <4> QED BY <3>2, <4>1, <4>2
    <3> QED BY <3>1, <3>3, SameSocks
  <2> QED BY <1>5, <2>1, <2>2, <2>3, <2>4 DEF Mid
<1>13. ASSUME NEW t \in Thread, GiveUp(t) PROVE InOrder'
  <2>1. /\ thread'[t].at \in {"idle", "drop"} /\ thread[t].at = "wait"
        /\ \A u \in Thread \ {t} : thread'[u] = thread[u]
    BY <1>1, <1>13 DEF GiveUp, Done, Idle
  <2>2. UNCHANGED << fds, peers, remote, strayed, broken >> /\ ~broken /\ ~strayed
    BY <1>13 DEF GiveUp, env, InOrder
  <2> QED BY <1>4, <1>5, <2>1, <2>2 DEF Mid
<1>14. ASSUME NEW t \in Thread, EraseSocket(t) PROVE InOrder'
  <2> DEFINE k == thread[t].index
  <2>1. ~broken /\ ~strayed /\ (\A u \in Thread \ {t} : ~Mid(u)) /\ thread[t].at = "erase"
    BY <1>14, TouchFacts DEF EraseSocket, InOrder
  <2>2. k \in 1..Len(fds) /\ peers = RemoveAt(Socks, k)
    BY <2>1 DEF InOrder, Behind
  <2>3. DOMAIN fds = 1..Len(fds) /\ fds \in Seq(Fd) /\ Len(fds) \in Nat
    BY DEF TypeOK
  <2>4. /\ fds' = RemoveAt(fds, k) /\ UNCHANGED << peers, remote, strayed, broken >>
        /\ thread'[t].at = "idle" /\ \A u \in Thread \ {t} : thread'[u] = thread[u]
    BY <1>1, <1>14, <2>2, <2>3 DEF EraseSocket, Done, Idle, env
  <2>5. \A u \in Thread : ~Mid(u)'
    BY <2>1, <2>4 DEF Mid
  <2> HIDE DEF k
  <2>6. Socks' = peers
    <3>1. /\ Len(fds') = Len(fds) - 1
          /\ \A j \in 1..(Len(fds) - 1) : fds'[j] = IF j < k THEN fds[j] ELSE fds[j + 1]
      BY <2>2, <2>3, <2>4, RemoveAtFacts
    <3>2. /\ peers \in Seq(Remote) /\ Len(peers) = Len(fds) - 1
          /\ \A j \in 1..(Len(fds) - 1) : peers[j] = IF j < k THEN Socks[j] ELSE Socks[j + 1]
      BY <2>2, SocksFacts, RemoveAtFacts
    <3>3. Socks' \in Seq(Remote) /\ Len(Socks') = Len(fds) - 1
      BY <3>1, SocksAgain
    <3>4. ASSUME NEW j \in 1..(Len(fds) - 1) PROVE Socks'[j] = peers[j]
      <4>1. DOMAIN fds' = 1..(Len(fds) - 1)
        BY <3>1 DEF TypeOK
      <4>2. Socks'[j] = fds'[j].sock
        BY <4>1 DEF Socks
      <4>3. j \in 1..Len(fds) /\ j + 1 \in 1..Len(fds)
        BY <2>3
      <4>4. Socks[j] = fds[j].sock /\ Socks[j + 1] = fds[j + 1].sock
        BY <4>3, SocksFacts
      <4> QED BY <3>1, <3>2, <4>2, <4>4
    <3> QED BY <3>2, <3>3, <3>4
  <2>7. OneMid' /\ Level' /\ Ahead' /\ Behind'
    BY <2>4, <2>5, <2>6 DEF OneMid, Level, Ahead, Behind, Mid
  <2>8. Asking'
    BY <2>1, <2>4 DEF Asking, InOrder, Listed
  <2> QED BY <2>1, <2>4, <2>7, <2>8 DEF InOrder
<1>15. CASE Disconnect
  <2> DEFINE t == "acceptor"
             p == thread[t].peer
             k == Index(p)
  <2>1. ~broken /\ ~strayed /\ (\A u \in Thread : ~Mid(u)) /\ thread[t].at = "drop"
    BY <1>2, <1>15, TouchFacts DEF Disconnect, Mid, InOrder
  <2>2. DOMAIN fds = 1..Len(fds) /\ Len(fds) \in Nat
    BY DEF TypeOK
  <2>3. Len(peers) = Len(fds) /\ k \in 0..Len(fds) /\ (k # 0 => fds[k].sock = p)
    BY <2>1, IndexIsSocket
  <2>4. CASE k \in DOMAIN fds
    <3>1. /\ peers' = RemoveAt(peers, k) /\ fds' = fds /\ broken' = broken
          /\ remote' = [remote EXCEPT ![fds[k].sock] = "gone"]
          /\ strayed' = (strayed \/ fds[k].sock # p)
          /\ thread' = [thread EXCEPT ![t] = [at |-> "erase", index |-> k]]
      BY <1>15, <2>4 DEF Disconnect
    <3>2. k \in 1..Len(fds) /\ k # 0
      BY <2>2, <2>4
    <3> HIDE DEF k
    <3>3. /\ thread'[t] = [at |-> "erase", index |-> k]
          /\ \A u \in Thread \ {t} : thread'[u] = thread[u]
      BY <1>1, <1>2, <3>1
    <3>4. ~strayed' /\ ~broken'
      BY <2>1, <2>3, <3>1, <3>2
    <3> QED BY <1>2, <2>1, <2>3, <3>1, <3>2, <3>3, <3>4, FirstErase
  <2>5. CASE k \notin DOMAIN fds
    <3>1. UNCHANGED << peers, fds, remote, strayed, broken >>
      BY <1>15, <2>5 DEF Disconnect
    <3>2. thread'[t].at = "idle" /\ \A u \in Thread \ {t} : thread'[u] = thread[u]
      BY <1>1, <1>2, <1>15, <2>5 DEF Disconnect, Idle
    <3> QED BY <1>2, <1>4, <1>5, <2>1, <3>1, <3>2
  <2> QED BY <2>4, <2>5
<1>16. CASE Poll
  <2>1. UNCHANGED << thread, peers, strayed, broken, remote >>
    BY <1>16 DEF Poll, env
  <2>2. Len(fds') = Len(fds) /\ Socks' = Socks
    <3>1. DOMAIN fds = 1..Len(fds) /\ fds \in Seq(Fd) /\ DOMAIN fds' = 1..Len(fds')
      BY DEF TypeOK
    <3>2. /\ DOMAIN fds' = DOMAIN fds
          /\ \A i \in DOMAIN fds : fds'[i] =
                [fds[i] EXCEPT !.in = Readable(fds[i]), !.hup = HungUp(fds[i])]
      BY <1>16 DEF Poll
    <3>4. ASSUME NEW i \in DOMAIN fds PROVE fds'[i].sock = fds[i].sock
      <4>1. fds[i] \in Fd
        BY <3>1
      <4>2. fds'[i] = [fds[i] EXCEPT !.in = Readable(fds[i]), !.hup = HungUp(fds[i])]
        BY <3>2
      <4> QED BY <4>1, <4>2 DEF Fd
    <3>5. Len(fds') = Len(fds)
      <4>1. fds' \in Seq(Fd) /\ Len(fds) \in Nat
        BY DEF TypeOK
      <4>2. fds' = [i \in 1..Len(fds) |-> fds'[i]]
        BY <1>16, <3>1 DEF Poll
      <4>3. \A i \in 1..Len(fds) : fds'[i] \in Fd
        <5>1. \A i \in 1..Len(fds) : i \in 1..Len(fds')
          BY <3>1, <3>2, Zenon
        <5> QED BY <4>1, <5>1
      <4>4. fds' \in [1..Len(fds) -> Fd]
        BY <4>2, <4>3
      <4> QED BY <4>1, <4>4
    <3> QED BY <3>2, <3>4, <3>5, SameSocks
  <2> QED BY <1>3, <2>1, <2>2
<1>17. CASE Look
  <2> DEFINE t == "handler"
  <2>1. ~broken /\ ~strayed /\ (\A u \in Thread : ~Mid(u)) /\ thread[t].at = "idle"
    BY <1>2, <1>17, TouchFacts DEF Look, Mid, InOrder, Idle
  <2>2. DOMAIN fds = 1..Len(fds) /\ DOMAIN peers = 1..Len(peers) /\ turn \in DOMAIN fds
    BY <1>17 DEF Look, TypeOK
  <2>3. peers = Socks /\ Len(peers) = Len(fds)
    BY <2>1, SocksFacts DEF InOrder, Level
  <2>4. turn \in DOMAIN peers /\ turn \in 1..Len(fds) /\ turn \in 1..Len(peers)
    BY <2>2, <2>3
  <2>5. UNCHANGED << fds, strayed >>
    BY <1>17 DEF Look
  <2>6. \/ /\ peers' = RemoveAt(peers, turn) /\ broken' = broken
           /\ remote' = [remote EXCEPT ![fds[turn].sock] = "gone"]
           /\ thread' = [thread EXCEPT ![t] = [at |-> "erase", index |-> turn]]
        \/ /\ UNCHANGED << peers, remote, broken >>
           /\ \E at \in {"got", "asked"} :
                thread' = [thread EXCEPT ![t] = [at |-> at, peer |-> peers[turn]]]
        \/ UNCHANGED << peers, remote, broken, thread >>
    BY <1>17, <2>4 DEF Look
  <2>7. CASE /\ peers' = RemoveAt(peers, turn) /\ broken' = broken
             /\ remote' = [remote EXCEPT ![fds[turn].sock] = "gone"]
             /\ thread' = [thread EXCEPT ![t] = [at |-> "erase", index |-> turn]]
    <3>1. /\ thread'[t] = [at |-> "erase", index |-> turn]
          /\ \A u \in Thread \ {t} : thread'[u] = thread[u]
      BY <1>1, <1>2, <2>7
    <3> QED BY <1>2, <2>1, <2>4, <2>5, <2>7, <3>1, FirstErase
  <2>8. CASE /\ UNCHANGED << peers, remote, broken >>
             /\ \E at \in {"got", "asked"} :
                thread' = [thread EXCEPT ![t] = [at |-> at, peer |-> peers[turn]]]
    <3>1. /\ thread'[t].at \in {"got", "asked"} /\ thread'[t].peer = peers[turn]
          /\ \A u \in Thread \ {t} : thread'[u] = thread[u]
      BY <1>1, <1>2, <2>8
    <3>2. Listed(thread'[t].peer)
      BY <2>4, <3>1 DEF Listed
    <3>3. Len(fds') = Len(fds) /\ Socks' = Socks
      BY <1>4, <2>5
    <3> QED BY <1>2, <2>1, <2>5, <2>8, <3>1, <3>2, <3>3, Quiet DEF Mid
  <2>9. CASE UNCHANGED << peers, remote, broken, thread >>
    BY <1>3, <1>4, <2>5, <2>9
  <2> QED BY <2>6, <2>7, <2>8, <2>9
<1>18. CASE EndRound
  BY <1>3, <1>4, <1>18 DEF EndRound, env
<1>19. CASE Answer
  <2> DEFINE t == "handler"
             p == thread[t].peer
  <2>1. ~broken /\ ~strayed /\ thread[t].at = "got"
    BY <1>19 DEF Answer, InOrder
  <2>2. thread'[t].at = "idle" /\ \A u \in Thread \ {t} : thread'[u] = thread[u]
    BY <1>1, <1>2, <1>19 DEF Answer, Done, Idle
  <2>3. UNCHANGED << fds, peers, remote >>
    BY <1>19 DEF Answer, env
  <2>4. ~strayed' /\ ~broken'
    <3>1. CASE SendTo(p) /\ Touch(t)
      <4>1. \A u \in Thread : ~Mid(u)
        BY <1>2, <2>1, <3>1, TouchFacts DEF Mid
      <4>2. Index(p) \in 0..Len(fds) /\ (Index(p) # 0 => fds[Index(p)].sock = p)
        BY <4>1, IndexIsSocket
      <4>3. DOMAIN fds = 1..Len(fds) /\ Len(fds) \in Nat
        BY DEF TypeOK
      <4> DEFINE k == Index(p)
      <4>4. /\ strayed' = (strayed \/ (k \in DOMAIN fds /\ fds[k].sock # p))
            /\ broken' = (broken \/ ~(k \in DOMAIN fds \union {0}))
        BY <3>1 DEF SendTo
      <4>5. k \in 0..Len(fds) /\ (k # 0 => fds[k].sock = p)
        BY <4>2
      <4> HIDE DEF k
      <4>6. k \in DOMAIN fds \union {0} /\ (k \in DOMAIN fds => fds[k].sock = p)
        BY <4>3, <4>5
      <4> QED BY <2>1, <4>4, <4>6
    <3>2. CASE UNCHANGED << setting, strayed, broken, raced >>
      BY <2>1, <3>2
    <3> QED BY <1>19, <3>1, <3>2 DEF Answer
  <2> QED BY <1>2, <1>4, <1>5, <2>1, <2>2, <2>3, <2>4 DEF Mid
<1> QED BY <1>6, <1>7, <1>8, <1>9, <1>10, <1>11, <1>12, <1>13, <1>14, <1>15, <1>16,
           <1>17, <1>18, <1>19 DEF Split

\* That threads have met is not forgotten.
LEMMA RacedStays ==
    ASSUME Split
    PROVE  raced => raced'
BY DEF Split, Call, Say, HangUp, FindRoom, PushSocket, Refused, PushPeer, Ask, Hear,
       GiveUp, EraseSocket, Disconnect, Poll, Look, EndRound, Answer, Touch

LEMMA InitInOrder ==
    ASSUME Init
    PROVE  InOrder
<1>1. \A t \in Thread : thread[t].at = "idle"
  BY DEF Init, Idle
<1>2. fds = << >> /\ peers = << >> /\ ~strayed /\ ~broken
  BY DEF Init
<1>3. Socks = peers
  BY <1>2, InitTypeOK, SocksFacts DEF TypeOK
<1> QED BY <1>1, <1>2, <1>3 DEF InOrder, OneMid, Level, Ahead, Behind, Asking, Mid

\* As long as no two threads meet in the vectors, no socket serves another
\* peer, the vectors match between two changes, and the only element used
\* past the end is that of a peer that hung up before it was asked
\* (network_manager.cpp:95-130, 187-360), for any number of callers and
\* callees, any limit and any messages.
THEOREM VectorsPaired == Spec => []Paired
<1>1. Init => POrder
  BY InitTypeOK, InitInOrder DEF POrder
<1>2. POrder /\ [Next]_vars => POrder'
  <2> SUFFICES ASSUME POrder, [Next]_vars PROVE POrder'
    OBVIOUS
  <2>1. TypeOK /\ TypeOK'
    BY NextTypeOK DEF POrder
  <2>2. CASE Next
    <3>1. Split
      BY <2>1, <2>2, NextSplits DEF TypeOK
    <3>2. raced => raced'
      BY <3>1, RacedStays
    <3> QED BY <2>1, <3>1, <3>2, InOrderStep DEF POrder
  <2>3. CASE UNCHANGED vars
    BY <2>1, <2>3 DEF vars, POrder, InOrder, OneMid, Level, Ahead, Behind, Asking,
                      Mid, Socks, Listed
  <2> QED BY <2>2, <2>3
<1>3. POrder => Paired
  BY DEF POrder, InOrder, Level, Mid, Socks, Paired
<1> QED BY <1>1, <1>2, <1>3, PTL DEF Spec
=============================================================================
