------------------------------ MODULE PeerTable ------------------------------
(***************************************************************************)
(* The peer list of one process: the vectors _fds and _peers of            *)
(* src/hgo_protocol/network_manager.cpp, which belong together index by    *)
(* index and are used by four threads without a lock (_mut is never        *)
(* locked): the acceptor and the main thread add to them, the message      *)
(* handler adds to them, removes from them and walks over them, the tick   *)
(* thread writes to the sockets.                                           *)
(*                                                                         *)
(* A change of both vectors is two steps.  Each push, erase and look-up of *)
(* one vector is one step; what an unsynchronised vector does to itself is *)
(* not modelled.                                                           *)
(***************************************************************************)
EXTENDS Naturals, FiniteSets, SequencesExt

CONSTANTS
    Remote,    \* peers
    Setting    \* the processes, with a bound of each:
               \*   callers  peers that connect to this process
               \*   callees  peers this process connects to
               \*   limit    MAX_PEERS
               \*   says     bound: messages each peer sends

ASSUME PeerTableAssumption ==
    /\ Setting \subseteq
            [callers : SUBSET Remote, callees : SUBSET Remote,
             limit : Nat \ {0}, says : Nat]
    /\ \A s \in Setting : s.callers \cap s.callees = {}

VARIABLES
    setting, \* the process
    fds,     \* _fds
    peers,   \* _peers; a peer stands for its address and its socket
    thread,  \* where each thread is
    turn,    \* the handler's loop index, 0 between rounds
    remote,  \* per peer: "away", "calling" (in the listen queue), "here", "gone"
    unread,  \* per peer: messages in the socket
    said,    \* per peer: counter for the bound
    raced,   \* history: a thread used the vectors between two steps of another
    stale,   \* history: a wait ended with an index that no longer was its own
    strayed, \* history: a socket was used on behalf of another peer
    broken   \* an element past the end was used: anything may follow

vars == << setting, fds, peers, thread, turn, remote, unread, said,
           raced, stale, strayed, broken >>
env == << remote, unread, said >>

Caller == setting.callers
Callee == setting.callees
Thread == {"acceptor", "handler", "main"}

\* An entry of _fds: events is 0 when deaf; in and hup are revents.
Fd == [sock : Remote, deaf : BOOLEAN, in : BOOLEAN, hup : BOOLEAN]

\* "room": the limit was tested; "half": pushed to _fds only; "whole": to
\* both; "wait": in sendAndWait, polling a copy of fds[index]; "drop":
\* disconnectPeer is called; "erase": erased from _peers only; "got" and
\* "asked": the handler has read a message, or an information request.
Place ==
    [at : {"idle", "room"}]
    \union [at : {"half", "whole", "drop", "got", "asked"}, peer : Remote]
    \union [at : {"wait"}, peer : Remote, on : Remote, index : Nat]
    \union [at : {"erase"}, index : Nat]
Idle == [at |-> "idle"]

\* _getPeerIndex, 0 if there is none.
Index(p) == SelectInSeq(peers, LAMBDA q : q = p)
Sockets == {fds[i].sock : i \in DOMAIN fds}

\* A step of t on the vectors, if they are still in order; another thread may be half way through one.
Touch(t) ==
    /\ ~broken
    /\ raced' = (raced \/ \E u \in Thread \ {t} : thread[u].at \in {"half", "erase"})

\* Where the handler is once a message is dealt with: at the next index.
Done(t) ==
    /\ thread' = [thread EXCEPT ![t] = Idle]
    /\ turn' = IF t = "handler" THEN turn + 1 ELSE turn

-----------------------------------------------------------------------------
Init ==
    /\ setting \in Setting
    /\ fds = << >> /\ peers = << >>
    /\ thread = [t \in Thread |-> Idle]
    /\ turn = 0
    /\ remote = [r \in Remote |-> "away"]
    /\ unread = [r \in Remote |-> 0] /\ said = [r \in Remote |-> 0]
    /\ raced = FALSE /\ stale = FALSE /\ strayed = FALSE /\ broken = FALSE

-----------------------------------------------------------------------------
(***************************************************************************)
(* The peers.                                                              *)
(***************************************************************************)
Call(r) ==
    /\ r \in Caller /\ remote[r] = "away"
    /\ remote' = [remote EXCEPT ![r] = "calling"]
    /\ UNCHANGED << setting, fds, peers, thread, turn, unread, said,
                    raced, stale, strayed, broken >>

Say(r) ==
    /\ remote[r] \in {"calling", "here"} /\ said[r] < setting.says
    /\ said' = [said EXCEPT ![r] = @ + 1]
    /\ unread' = [unread EXCEPT ![r] = @ + 1]
    /\ UNCHANGED << setting, fds, peers, thread, turn, remote,
                    raced, stale, strayed, broken >>

HangUp(r) ==
    /\ remote[r] = "here"
    /\ remote' = [remote EXCEPT ![r] = "gone"]
    /\ UNCHANGED << setting, fds, peers, thread, turn, unread, said,
                    raced, stale, strayed, broken >>

-----------------------------------------------------------------------------
(***************************************************************************)
(* Adding a peer: _acceptNewConnection and connectToPeer.                  *)
(***************************************************************************)

\* Faulty variant of FindRoom: the limit is taken to be one more.
FindRoomLate(t, r) ==
    /\ thread[t].at = "idle"
    /\ IF t = "acceptor" THEN remote[r] = "calling"
       ELSE t = "main" /\ r \in Callee /\ remote[r] = "away"
    /\ Len(peers) # setting.limit + 1
    /\ thread' = [thread EXCEPT ![t] = [at |-> "room"]]
    /\ Touch(t)
    /\ UNCHANGED << setting, fds, peers, turn, env, stale, strayed, broken >>

\* The test of the limit, by the acceptor or by the main thread.
FindRoom(t, r) ==
    /\ thread[t].at = "idle"
    /\ IF t = "acceptor" THEN remote[r] = "calling"
       ELSE t = "main" /\ r \in Callee /\ remote[r] = "away"
    /\ Len(peers) # setting.limit
    /\ thread' = [thread EXCEPT ![t] = [at |-> "room"]]
    /\ Touch(t)
    /\ UNCHANGED << setting, fds, peers, turn, env, stale, strayed, broken >>

\* accept or connect goes through: the socket is pushed.
PushSocket(t, r) ==
    /\ thread[t].at = "room"
    /\ IF t = "acceptor" THEN remote[r] = "calling"
       ELSE r \in Callee /\ remote[r] = "away"
    /\ remote' = [remote EXCEPT ![r] = "here"]
    /\ fds' = Append(fds, [sock |-> r, deaf |-> FALSE, in |-> FALSE, hup |-> FALSE])
    /\ thread' = [thread EXCEPT ![t] = [at |-> "half", peer |-> r]]
    /\ Touch(t)
    /\ UNCHANGED << setting, peers, turn, unread, said, stale, strayed, broken >>

\* socket or connect fails, and connectToPeer leaves the vectors alone.
Refused(t) ==
    /\ thread[t].at = "room" /\ ~broken
    /\ Done(t)
    /\ UNCHANGED << setting, fds, peers, env, raced, stale, strayed, broken >>

\* Faulty variant of PushPeer: what the thread is at is pushed.
PushPlace(t) ==
    /\ thread[t].at = "half"
    /\ peers' = Append(peers, thread[t])
    /\ Done(t)
    /\ Touch(t)
    /\ UNCHANGED << setting, fds, env, stale, strayed, broken >>

\* The peer is pushed.  The acceptor goes on to ask it for its port.
PushPeer(t) ==
    /\ thread[t].at = "half"
    /\ peers' = Append(peers, thread[t].peer)
    /\ IF t = "acceptor"
       THEN /\ thread' = [thread EXCEPT ![t].at = "whole"]
            /\ UNCHANGED turn
       ELSE Done(t)
    /\ Touch(t)
    /\ UNCHANGED << setting, fds, env, stale, strayed, broken >>

-----------------------------------------------------------------------------
(***************************************************************************)
(* sendAndWait, by the acceptor for a new peer and by the handler for the  *)
(* peer of a message.                                                      *)
(***************************************************************************)
Ask(t) ==
    LET p == thread[t].peer
        i == Index(p)
    IN  /\ thread[t].at \in {"whole", "asked"}
        /\ Touch(t)
        /\ IF i \in DOMAIN fds
           THEN /\ fds' = [fds EXCEPT ![i].deaf = TRUE]
                /\ strayed' = (strayed \/ fds[i].sock # p)
                /\ thread' = [thread EXCEPT ![t] =
                        [at |-> "wait", peer |-> p, on |-> fds[i].sock, index |-> i]]
                /\ UNCHANGED broken
           ELSE /\ broken' = TRUE
                /\ UNCHANGED << setting, fds, strayed, thread >>
        /\ UNCHANGED << setting, peers, turn, env, stale >>

\* Faulty variant of Hear: the events of the entry are not restored.
HearOnly(t) ==
    LET w == thread[t]
    IN  /\ w.at = "wait"
        /\ remote[w.on] = "here" /\ unread[w.on] > 0
        /\ unread' = [unread EXCEPT ![w.on] = @ - 1]
        /\ stale' = (stale \/ ~(w.index \in DOMAIN fds /\ fds[w.index].sock = w.on))
        /\ Touch(t)
        /\ Done(t)
        /\ UNCHANGED << setting, fds, peers, remote, said, strayed, broken >>

\* An answer: the events of the entry at the index found before are restored.
\* The acceptor disconnects a peer whose answer is not the one it wants; the
\* handler may be told of another peer to connect to.
Hear(t) ==
    LET w == thread[t]
    IN  /\ w.at = "wait"
        /\ remote[w.on] = "here" /\ unread[w.on] > 0
        /\ unread' = [unread EXCEPT ![w.on] = @ - 1]
        /\ fds' = IF w.index \in DOMAIN fds
                  THEN [fds EXCEPT ![w.index].deaf = FALSE] ELSE fds
        /\ stale' = (stale \/ ~(w.index \in DOMAIN fds /\ fds[w.index].sock = w.on))
        /\ Touch(t)
        /\ \/ Done(t)
           \/ /\ t = "acceptor"
              /\ thread' = [thread EXCEPT ![t] = [at |-> "drop", peer |-> w.peer]]
              /\ UNCHANGED turn
           \/ /\ t = "handler" /\ Len(peers) # setting.limit
              /\ \E r \in Callee : remote[r] = "away"
              /\ thread' = [thread EXCEPT ![t] = [at |-> "room"]]
              /\ UNCHANGED turn
        /\ UNCHANGED << setting, peers, remote, said, strayed, broken >>

\* The peer has hung up: the entry stays deaf; the acceptor disconnects it.
GiveUp(t) ==
    LET w == thread[t]
    IN  /\ w.at = "wait" /\ ~broken
        /\ remote[w.on] = "gone"
        /\ IF t = "acceptor"
           THEN /\ thread' = [thread EXCEPT ![t] = [at |-> "drop", peer |-> w.peer]]
                /\ UNCHANGED turn
           ELSE Done(t)
        /\ UNCHANGED << setting, fds, peers, env, raced, stale, strayed, broken >>

-----------------------------------------------------------------------------
(***************************************************************************)
(* Removing a peer: _removePeer, from disconnectPeer and from the handler. *)
(***************************************************************************)

\* The index of p is found and _removePeer called with it: the socket at
\* that index is closed and the peer at that index erased.
Disconnect ==
    LET p == thread["acceptor"].peer
        i == Index(p)
    IN  /\ thread["acceptor"].at = "drop"
        /\ Touch("acceptor")
        /\ IF i \in DOMAIN fds
           THEN /\ peers' = RemoveAt(peers, i)
                /\ remote' = [remote EXCEPT ![fds[i].sock] = "gone"]
                /\ strayed' = (strayed \/ fds[i].sock # p)
                /\ thread' = [thread EXCEPT !["acceptor"] = [at |-> "erase", index |-> i]]
           ELSE /\ thread' = [thread EXCEPT !["acceptor"] = Idle]
                /\ UNCHANGED << setting, peers, remote, strayed >>
        /\ UNCHANGED << setting, fds, turn, unread, said, stale, broken >>

\* Faulty variant of EraseSocket: the peer alone is erased.
EraseNothing(t) ==
    /\ thread[t].at = "erase"
    /\ Touch(t)
    /\ Done(t)
    /\ UNCHANGED << setting, fds, peers, env, stale, strayed, broken >>

EraseSocket(t) ==
    LET i == thread[t].index
    IN  /\ thread[t].at = "erase"
        /\ Touch(t)
        /\ IF i \in DOMAIN fds THEN fds' = RemoveAt(fds, i) /\ UNCHANGED broken
           ELSE broken' = TRUE /\ UNCHANGED fds
        /\ Done(t)
        /\ UNCHANGED << setting, peers, env, stale, strayed >>

-----------------------------------------------------------------------------
(***************************************************************************)
(* The message handler: _messageHandler.                                   *)
(***************************************************************************)
Readable(x) == ~x.deaf /\ remote[x.sock] = "here" /\ unread[x.sock] > 0
HungUp(x) == ~x.deaf /\ remote[x.sock] = "gone"

\* poll sets revents of every entry; a round begins if there is any.
Poll ==
    /\ thread["handler"] = Idle /\ turn = 0 /\ ~broken
    /\ \E i \in DOMAIN fds : Readable(fds[i]) \/ HungUp(fds[i])
    /\ fds' = [i \in DOMAIN fds |->
                [fds[i] EXCEPT !.in = Readable(fds[i]), !.hup = HungUp(fds[i])]]
    /\ turn' = 1
    /\ UNCHANGED << setting, peers, thread, env, raced, stale, strayed, broken >>

\* The handler at index turn: the peer is copied, and removed, read from or
\* passed over.
Look ==
    LET x == fds[turn]
    IN  /\ thread["handler"] = Idle
        /\ turn \in DOMAIN fds
        /\ Touch("handler")
        /\ \/ /\ turn \notin DOMAIN peers
              /\ broken' = TRUE
              /\ UNCHANGED << setting, peers, thread, turn, unread, remote >>
           \/ /\ turn \in DOMAIN peers /\ x.hup
              /\ peers' = RemoveAt(peers, turn)
              /\ remote' = [remote EXCEPT ![x.sock] = "gone"]
              /\ thread' = [thread EXCEPT !["handler"] = [at |-> "erase", index |-> turn]]
              /\ UNCHANGED << setting, turn, unread, broken >>
           \/ /\ turn \in DOMAIN peers /\ ~x.hup /\ x.in /\ unread[x.sock] > 0
              /\ unread' = [unread EXCEPT ![x.sock] = @ - 1]
              /\ \E at \in {"got"} \union (IF x.sock \in Callee THEN {"asked"} ELSE {}) :
                    thread' = [thread EXCEPT !["handler"] = [at |-> at, peer |-> peers[turn]]]
              /\ UNCHANGED << setting, peers, turn, remote, broken >>
           \/ /\ turn \in DOMAIN peers /\ ~x.hup /\ ~(x.in /\ unread[x.sock] > 0)
              /\ turn' = turn + 1
              /\ UNCHANGED << setting, peers, thread, unread, remote, broken >>
        /\ UNCHANGED << setting, fds, said, stale, strayed >>

EndRound ==
    /\ thread["handler"] = Idle /\ ~broken
    /\ turn > Len(fds)
    /\ turn' = 0
    /\ UNCHANGED << setting, fds, peers, thread, env, raced, stale, strayed, broken >>

\* sendTo p: the index found in _peers is used in _fds.
SendTo(p) ==
    LET i == Index(p)
    IN  /\ strayed' = (strayed \/ (i \in DOMAIN fds /\ fds[i].sock # p))
        /\ broken' = (broken \/ ~(i \in DOMAIN fds \union {0}))

\* A message is answered, or needs no answer.
Answer ==
    /\ thread["handler"].at = "got" /\ ~broken
    /\ Done("handler")
    /\ \/ SendTo(thread["handler"].peer) /\ Touch("handler")
       \/ UNCHANGED << setting, strayed, broken, raced >>
    /\ UNCHANGED << setting, fds, peers, env, stale >>

-----------------------------------------------------------------------------
AcceptorStep ==
    \/ \E r \in Caller : FindRoom("acceptor", r) \/ PushSocket("acceptor", r)
    \/ PushPeer("acceptor") \/ Ask("acceptor") \/ Hear("acceptor")
    \/ GiveUp("acceptor") \/ Disconnect \/ EraseSocket("acceptor")

HandlerStep ==
    \/ Poll \/ Look \/ EndRound \/ Answer \/ EraseSocket("handler")
    \/ Ask("handler") \/ Hear("handler") \/ GiveUp("handler")
    \/ \E r \in Callee : PushSocket("handler", r)
    \/ Refused("handler") \/ PushPeer("handler")

MainStep ==
    \/ \E r \in Callee : FindRoom("main", r) \/ PushSocket("main", r)
    \/ Refused("main") \/ PushPeer("main")

Next ==
    \/ \E r \in Remote : Call(r) \/ Say(r) \/ HangUp(r)
    \/ AcceptorStep \/ HandlerStep \/ MainStep

\* The three threads go on; nothing makes a peer call, answer or hang up.
Fairness ==
    WF_vars(AcceptorStep) /\ WF_vars(HandlerStep) /\ WF_vars(MainStep)

Spec == Init /\ [][Next]_vars /\ Fairness

-----------------------------------------------------------------------------
TypeOK ==
    /\ setting \in Setting
    /\ fds \in Seq(Fd) /\ peers \in Seq(Remote)
    /\ thread \in [Thread -> Place]
    /\ turn \in Nat
    /\ remote \in [Remote -> {"away", "calling", "here", "gone"}]
    /\ unread \in [Remote -> Nat] /\ said \in [Remote -> Nat]
    /\ {raced, stale, strayed, broken} \subseteq BOOLEAN

\* As long as no two threads were in the vectors at once, no socket is used
\* on behalf of another peer, the i-th socket is that of the i-th peer
\* whenever no thread is between its two steps, and an element past the end
\* is used in one case only: a peer hung up, and was removed, before the
\* thread that is about to ask it has looked it up.
Paired ==
    ~raced =>
        /\ ~strayed
        /\ (\A t \in Thread : thread[t].at \notin {"half", "erase"})
            => peers = [i \in DOMAIN fds |-> fds[i].sock]
        /\ broken => \E t \in Thread :
            thread[t].at \in {"whole", "asked"} /\ remote[thread[t].peer] = "gone"

\* A socket is only used on behalf of its own peer.
SocketsServeTheirPeer == ~broken => ~strayed

\* The list of a node that connects to nobody never has more than MAX_PEERS
\* entries, although the limit is tested before the peer is pushed.
PeersBounded == Callee = {} => Len(peers) <= setting.limit

\* The list never has more than MAX_PEERS entries.
NeverPastLimit == Len(peers) <= setting.limit

\* A message of a connected peer is read at some time.
Heard(r) == unread[r] = 0 \/ remote[r] # "here" \/ r \notin Sockets

\* A peer with an entry is heard, unless the handler waits for another one,
\* threads met in the vectors, or an index went stale during a wait: a round
\* that skips an entry after it removed one, or a wait that ends, forgets
\* nobody for good.
Excused == raced \/ broken \/ thread["handler"].at = "wait"
HeardUnlessStale == \A r \in Remote : []<>(Heard(r) \/ Excused \/ stale)

\* The same without the exception for an index that went stale.
EveryoneIsHeard == \A r \in Remote : []<>(Heard(r) \/ Excused)
=============================================================================
