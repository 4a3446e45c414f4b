-------------------------- MODULE HandshakeProofs --------------------------
(***************************************************************************)
(* Theorems about Handshake, for any processes, any way in which a network *)
(* is started and any bounds.                                              *)
(***************************************************************************)
EXTENDS Handshake, SequenceFacts

(***************************************************************************)
(* Ends of connections, entries and what finds them.                       *)
(***************************************************************************)

LEMMA EndFacts ==
    ASSUME NEW e \in End
    PROVE  /\ e.conn \in Conn /\ e.side \in {"out", "in"}
           /\ Owner(e) \in Node /\ Far(e) \in End /\ Far(e) # e /\ Far(Far(e)) = e
           /\ Far(e).conn = e.conn
           /\ e.side = "out" => /\ e = OutEnd(e.conn) /\ Far(e) = InEnd(e.conn)
                                /\ e.conn = << Owner(e), Owner(Far(e)) >>
           /\ e.side = "in" => /\ e = InEnd(e.conn) /\ Far(e) = OutEnd(e.conn)
                               /\ e.conn = << Owner(Far(e)), Owner(e) >>
<1>1. /\ e = [conn |-> e.conn, side |-> e.side] /\ e.conn \in Node \X Node
      /\ e.side \in {"out", "in"}
  BY DEF End, Conn
<1>2. /\ Far(e) = [conn |-> e.conn, side |-> IF e.side = "out" THEN "in" ELSE "out"]
      /\ Far(Far(e)) = e
  <2>1. \A x \in End : Far(x) = [conn |-> x.conn, side |-> IF x.side = "out" THEN "in" ELSE "out"]
    BY DEF Far, End
  <2>2. Far(e) \in End
    BY <1>1, <2>1 DEF End, Conn
  <2> QED BY <1>1, <2>1, <2>2
<1>3. e.conn = << e.conn[1], e.conn[2] >> /\ e.conn[1] \in Node /\ e.conn[2] \in Node
  BY <1>1
<1>4. CASE e.side = "out"
  BY <1>1, <1>2, <1>3, <1>4 DEF Owner, OutEnd, InEnd, End, Conn
<1>5. CASE e.side = "in"
  BY <1>1, <1>2, <1>3, <1>5 DEF Owner, OutEnd, InEnd, End, Conn
<1> QED BY <1>1, <1>4, <1>5

LEMMA ConnEnds ==
    ASSUME NEW d \in Conn
    PROVE  /\ OutEnd(d) \in End /\ InEnd(d) \in End
           /\ OutEnd(d).conn = d /\ InEnd(d).conn = d
           /\ OutEnd(d).side = "out" /\ InEnd(d).side = "in"
           /\ Far(OutEnd(d)) = InEnd(d) /\ Far(InEnd(d)) = OutEnd(d)
           /\ Owner(OutEnd(d)) = d[1] /\ Owner(InEnd(d)) = d[2]
           /\ d[1] \in Node /\ d[2] \in Node /\ d = << d[1], d[2] >>
BY DEF OutEnd, InEnd, End, Far, Owner, Conn

LEMMA EntryFacts ==
    ASSUME NEW x \in Entry
    PROVE  /\ x.end \in End /\ x.known \in BOOLEAN /\ x.deaf \in BOOLEAN
           /\ PeerOf(x) \in Peer
           /\ PeerOf(x).node = Owner(Far(x.end)) /\ PeerOf(x).known = x.known
           /\ \A p \in Peer : PeerOf(x) = p <=> x.known = p.known /\ Owner(Far(x.end)) = p.node
<1>1. x.end \in End /\ x.known \in BOOLEAN /\ x.deaf \in BOOLEAN
  BY DEF Entry
<1>2. Far(x.end) \in End
  BY <1>1, EndFacts
<1>3. Owner(Far(x.end)) \in Node
  BY <1>2, EndFacts
<1>4. PeerOf(x) = [node |-> Owner(Far(x.end)), known |-> x.known]
  BY DEF PeerOf
<1> QED BY <1>1, <1>3, <1>4 DEF Peer

\* The places the two searches find.
LEMMA IndexFacts ==
    ASSUME NEW n \in Node, entries[n] \in Seq(Entry), NEW p
    PROVE  /\ Index(n, p) \in 0..Len(entries[n])
           /\ Index(n, p) # 0 =>
                /\ Index(n, p) \in DOMAIN entries[n] /\ PeerOf(entries[n][Index(n, p)]) = p
                /\ \A i \in DOMAIN entries[n] : PeerOf(entries[n][i]) = p => Index(n, p) <= i
           /\ Index(n, p) = 0 => \A i \in DOMAIN entries[n] : PeerOf(entries[n][i]) # p
<1> DEFINE I == {i \in 1..Len(entries[n]) : PeerOf(entries[n][i]) = p}
<1>1. Index(n, p) = IF I # {} THEN Min(I) ELSE 0
  BY DEF Index, SelectInSeq
<1>2. I \in SUBSET Nat /\ Len(entries[n]) \in Nat /\ DOMAIN entries[n] = 1..Len(entries[n])
  OBVIOUS
<1>3. CASE I = {}
  BY <1>1, <1>2, <1>3
<1>4. CASE I # {}
  <2> HIDE DEF I
  <2>1. Min(I) \in I /\ \A i \in I : Min(I) <= i
    BY <1>2, <1>4, MinFacts
  <2> QED BY <1>1, <1>2, <1>4, <2>1 DEF I
<1> QED BY <1>3, <1>4

LEMMA IndexOfEndFacts ==
    ASSUME NEW n \in Node, entries[n] \in Seq(Entry), NEW e
    PROVE  /\ IndexOfEnd(n, e) \in 0..Len(entries[n])
           /\ IndexOfEnd(n, e) # 0 =>
                /\ IndexOfEnd(n, e) \in DOMAIN entries[n]
                /\ entries[n][IndexOfEnd(n, e)].end = e
           /\ IndexOfEnd(n, e) = 0 => \A i \in DOMAIN entries[n] : entries[n][i].end # e
<1> DEFINE I == {i \in 1..Len(entries[n]) : entries[n][i].end = e}
<1>1. IndexOfEnd(n, e) = IF I # {} THEN Min(I) ELSE 0
  BY DEF IndexOfEnd, SelectInSeq
<1>2. I \in SUBSET Nat /\ Len(entries[n]) \in Nat /\ DOMAIN entries[n] = 1..Len(entries[n])
  OBVIOUS
<1>3. CASE I = {}
  BY <1>1, <1>2, <1>3
<1>4. CASE I # {}
  <2> HIDE DEF I
  <2>1. Min(I) \in I
    BY <1>2, <1>4, MinFacts
  <2> QED BY <1>1, <1>2, <1>4, <2>1 DEF I
<1> QED BY <1>3, <1>4

\* What the threads hold at each point.
LEMMA AcceptorFacts ==
    ASSUME NEW a \in Acceptor
    PROVE  /\ a.pc \in {"idle", "waiting", "answered"}
           /\ a.pc = "idle" => a = Idle
           /\ a.pc # "idle" => a.end \in End /\ a = [pc |-> a.pc, end |-> a.end]
BY DEF Acceptor, Idle

LEMMA HandlerFacts ==
    ASSUME NEW h \in Handler
    PROVE  /\ h.pc \in {"idle", "processing", "asking", "waiting", "joining"}
           /\ h.pc = "idle" => h = Idle
           /\ h.pc # "idle" => h.peer \in Peer /\ h.peer.node \in Node /\ h.peer.known \in BOOLEAN
           /\ h.pc = "processing" => h.end \in End /\ h.msg \in Message
           /\ h.pc = "waiting" => h.end \in End
           /\ h.pc = "joining" => h.list \in Seq(Node)
<1>1. CASE h \in [pc : {"idle"}]
  BY <1>1 DEF Idle
<1>2. CASE h \in [pc : {"processing"}, end : End, peer : Peer, msg : Message]
  BY <1>2 DEF Peer
<1>3. CASE h \in [pc : {"asking"}, peer : Peer]
  BY <1>3 DEF Peer
<1>4. CASE h \in [pc : {"waiting"}, end : End, peer : Peer]
  BY <1>4 DEF Peer
<1>5. CASE h \in [pc : {"joining"}, peer : Peer, list : Seq(Node)]
  BY <1>5 DEF Peer
<1> QED BY <1>1, <1>2, <1>3, <1>4, <1>5 DEF Handler

LEMMA IdleFacts == Idle \in Acceptor /\ Idle \in Handler /\ Idle.pc = "idle"
BY DEF Idle, Acceptor, Handler

LEMMA MessageFacts ==
    /\ \A m \in Message : /\ m.type = "LIST_ANSWER" => m.list \in Seq(Node)
    /\ \A t \in {"INFO_REQUEST", "INFO_ANSWER", "LIST_REQUEST", "ACQUITED", "OTHER"} :
            Plain(t) \in Message /\ Plain(t).type = t
    /\ \A l \in Seq(Node) : [type |-> "LIST_ANSWER", list |-> l] \in Message
BY DEF Message, Plain

-----------------------------------------------------------------------------
(***************************************************************************)
(* The inductive invariant.                                                *)
(***************************************************************************)
Pending(d) == \E i \in DOMAIN backlog[d[2]] : backlog[d[2]][i] = d
NamedIn(s, p) == \E i \in DOMAIN s : PeerOf(s[i]) = p
Quiet(s, T) == \A i \in DOMAIN s : s[i].type \notin T
Single(s) ==
    \A i, j \in DOMAIN s :
        s[i].type = "INFO_REQUEST" /\ s[j].type = "INFO_REQUEST" => i = j

\* An entry is for an end of its node, of a connection that was made and is
\* not waiting to be accepted; a node knows the port of what it has dialled.
Placed(n, x) ==
    /\ Owner(x.end) = n /\ x.end.conn \in dialled
    /\ x.end.side = "in" => ~Pending(x.end.conn)
    /\ x.end.side = "out" => x.known
Ends == \A n \in Node : \A i \in DOMAIN entries[n] : Placed(n, entries[n][i])

\* A socket has one entry.
OnceIn(s) == \A i, j \in DOMAIN s : s[i].end = s[j].end => i = j
Once == \A n \in Node : OnceIn(entries[n])

\* The only peer a node does not know is the one its acceptor is busy with.
UnknownIn(s, a) ==
    \A i \in DOMAIN s : ~s[i].known => a.pc # "idle" /\ a.end = s[i].end
Unknown == \A n \in Node : UnknownIn(entries[n], acceptor[n])

\* An acceptor waits on an entry that nobody else reads.
WaitsIn(s, a) ==
    a.pc = "waiting" => \E i \in DOMAIN s : s[i].end = a.end /\ ~s[i].known /\ s[i].deaf
AcceptorAt == \A n \in Node : WaitsIn(entries[n], acceptor[n])

Backlogs ==
    \A n \in Node :
        /\ \A i \in DOMAIN backlog[n] : backlog[n][i] \in dialled /\ backlog[n][i][2] = n
        /\ \A i, j \in DOMAIN backlog[n] : backlog[n][i] = backlog[n][j] => i = j

\* Connection d was accepted and the information request on it was read.
Clear(d) == d \in dialled /\ ~Pending(d) /\ Quiet(stream[OutEnd(d)], {"INFO_REQUEST"})

\* A handler that answers an information request, or asks for peers, does so
\* on a connection that is clear, and the peer it serves has an entry.
Serving(n, h) ==
    /\ h.pc = "processing" =>
        /\ Owner(h.end) = n /\ h.end.conn \in dialled
        /\ h.peer.node = Owner(Far(h.end))
        /\ h.end.side = "in" => ~Pending(h.end.conn)
        /\ h.msg.type = "INFO_REQUEST" =>
             /\ h.end.side = "out" /\ h.peer.known /\ NamedIn(entries[n], h.peer)
             /\ Clear(h.end.conn)
    /\ h.pc = "asking" =>
        h.peer.known /\ NamedIn(entries[n], h.peer) /\ Clear(<< n, h.peer.node >>)
    /\ h.pc = "joining" => h.peer.known /\ NamedIn(entries[n], h.peer)
    /\ h.pc = "waiting" =>
        /\ h.peer.known
        /\ h.end.side = "out" => Clear(h.end.conn)
        /\ \E i \in DOMAIN entries[n] :
             entries[n][i].end = h.end /\ PeerOf(entries[n][i]) = h.peer
Serves == \A n \in Node : Serving(n, handler[n])

\* One information request is written for each connection, when it is
\* accepted, and only for the node that connected.
Requests ==
    \A d \in Conn :
        /\ Quiet(stream[InEnd(d)], {"INFO_REQUEST"})
        /\ d \notin dialled \/ Pending(d) => Quiet(stream[OutEnd(d)], {"INFO_REQUEST"})
        /\ Single(stream[OutEnd(d)])

HInv ==
    /\ TypeOK /\ Ends /\ Once /\ Unknown /\ AcceptorAt /\ Backlogs /\ Requests /\ Serves

-----------------------------------------------------------------------------
(***************************************************************************)
(* What a step may do to a list of peers, to a stream and to the rest.     *)
(***************************************************************************)

\* t has some of the entries of s, in their order; what is known stays known.
From(s, t) ==
    \E f \in [DOMAIN t -> DOMAIN s] :
        /\ \A j \in DOMAIN t : t[j].end = s[f[j]].end /\ (s[f[j]].known => t[j].known)
        /\ \A j, k \in DOMAIN t : j < k => f[j] < f[k]

\* t has one entry more than s, the last, for another socket.
Adds(s, t, x) ==
    /\ x \in Entry /\ t = Append(s, x)
    /\ \A i \in DOMAIN s : s[i].end # x.end

\* The known peers of s are known peers of t.
Lasts(s, t) ==
    \A i \in DOMAIN s : s[i].known =>
        \E j \in DOMAIN t : t[j].end = s[i].end /\ t[j].known

\* Who waits on an entry of s other than that of e waits on one of t.
WaitsOn(s, t, e) == \A a : WaitsIn(s, a) /\ a.end # e => WaitsIn(t, a)

\* No information request is new in t.
Quieter(s, t) ==
    /\ Quiet(s, {"INFO_REQUEST"}) => Quiet(t, {"INFO_REQUEST"})
    /\ Single(s) => Single(t)

LEMMA FromItself ==
    ASSUME NEW s \in Seq(Entry)
    PROVE  From(s, s) /\ Lasts(s, s)
<1> DEFINE f == [j \in DOMAIN s |-> j]
<1>1. f \in [DOMAIN s -> DOMAIN s]
  OBVIOUS
<1> QED BY <1>1 DEF From, Lasts

LEMMA FromNothing ==
    ASSUME NEW s \in Seq(Entry)
    PROVE  From(s, << >>)
<1> DEFINE f == [j \in {} |-> 1]
<1>1. DOMAIN << >> = {} /\ f \in [{} -> DOMAIN s]
  OBVIOUS
<1> QED BY <1>1 DEF From

LEMMA FromSet ==
    ASSUME NEW s \in Seq(Entry), NEW i \in DOMAIN s, NEW x \in Entry, x.end = s[i].end,
           s[i].known => x.known
    PROVE  LET t == [s EXCEPT ![i] = x]
           IN  /\ t \in Seq(Entry) /\ Len(t) = Len(s) /\ t[i] = x
               /\ \A j \in DOMAIN s : j # i => t[j] = s[j]
               /\ From(s, t) /\ Lasts(s, t)
               /\ \A a : WaitsIn(s, a) /\ a.end # x.end => WaitsIn(t, a)
<1> DEFINE t == [s EXCEPT ![i] = x]
<1>1. /\ t \in Seq(Entry) /\ Len(t) = Len(s) /\ t[i] = x /\ DOMAIN t = DOMAIN s
      /\ \A j \in DOMAIN s : j # i => t[j] = s[j]
  OBVIOUS
<1> HIDE DEF t
<1> DEFINE f == [j \in DOMAIN t |-> j]
<1>2. f \in [DOMAIN t -> DOMAIN s] /\ \A j \in DOMAIN t : f[j] = j
  BY <1>1
<1>3. From(s, t)
  BY <1>1, <1>2 DEF From
<1>4. Lasts(s, t)
  BY <1>1 DEF Lasts
<1>5. \A a : WaitsIn(s, a) /\ a.end # x.end => WaitsIn(t, a)
  BY <1>1 DEF WaitsIn
<1> QED BY <1>1, <1>3, <1>4, <1>5 DEF t

LEMMA FromRemove ==
    ASSUME NEW s \in Seq(Entry), NEW i \in DOMAIN s
    PROVE  LET t == RemoveAt(s, i)
           IN  /\ t \in Seq(Entry) /\ From(s, t)
               /\ ~s[i].known => Lasts(s, t)
               /\ \A j \in DOMAIN s : j # i => \E k \in DOMAIN t : t[k] = s[j]
               /\ \A j \in DOMAIN t : \E k \in DOMAIN s : k # i /\ t[j] = s[k]
<1> DEFINE t == RemoveAt(s, i)
<1>0. i \in 1..Len(s) /\ Len(s) \in Nat /\ DOMAIN s = 1..Len(s)
  OBVIOUS
<1>1. /\ i \in 1..Len(s) /\ Len(s) \in Nat /\ DOMAIN s = 1..Len(s)
      /\ t \in Seq(Entry) /\ Len(t) = Len(s) - 1 /\ DOMAIN t = 1..(Len(s) - 1)
      /\ \A j \in 1..(Len(s) - 1) : t[j] = IF j < i THEN s[j] ELSE s[j + 1]
  <2>1. /\ t \in Seq(Entry) /\ Len(t) = Len(s) - 1
        /\ \A j \in 1..(Len(s) - 1) : t[j] = IF j < i THEN s[j] ELSE s[j + 1]
    BY <1>0, RemoveAtFacts
  <2> HIDE DEF t
  <2> QED BY <1>0, <2>1
<1> HIDE DEF t
<1> DEFINE f == [j \in DOMAIN t |-> IF j < i THEN j ELSE j + 1]
<1>2. /\ f \in [DOMAIN t -> DOMAIN s]
      /\ \A j \in DOMAIN t : f[j] = IF j < i THEN j ELSE j + 1
  BY <1>1
<1> HIDE DEF f
<1>3. /\ \A j \in DOMAIN t : t[j] = s[f[j]] /\ f[j] # i
      /\ \A j, k \in DOMAIN t : j < k => f[j] < f[k]
  BY <1>1, <1>2
<1>4. From(s, t)
  BY <1>2, <1>3 DEF From
<1>5. \A j \in DOMAIN s : j # i => \E k \in DOMAIN t : t[k] = s[j]
  <2> SUFFICES ASSUME NEW j \in DOMAIN s, j # i PROVE \E k \in DOMAIN t : t[k] = s[j]
    OBVIOUS
  <2>1. CASE j < i
    <3>1. j \in DOMAIN t /\ t[j] = s[j]
      BY <1>1, <2>1
    <3> QED BY <3>1
  <2>2. CASE i < j
    <3>1. j - 1 \in DOMAIN t /\ t[j - 1] = s[j]
      BY <1>1, <2>2
    <3> QED BY <3>1
  <2> QED BY <1>1, <2>1, <2>2
<1>6. ~s[i].known => Lasts(s, t)
  BY <1>5 DEF Lasts
<1>7. \A j \in DOMAIN t : \E k \in DOMAIN s : k # i /\ t[j] = s[k]
  BY <1>2, <1>3
<1> QED BY <1>1, <1>4, <1>5, <1>6, <1>7 DEF t

\* What a new entry leaves as it was, and what it adds.
LEMMA AddsFacts ==
    ASSUME NEW s \in Seq(Entry), NEW t, NEW x, Adds(s, t, x)
    PROVE  /\ t \in Seq(Entry) /\ Lasts(s, t)
           /\ \A i \in DOMAIN s : i \in DOMAIN t /\ t[i] = s[i]
           /\ Len(s) + 1 \in DOMAIN t /\ t[Len(s) + 1] = x
           /\ \A j \in DOMAIN t : j \in DOMAIN s \/ j = Len(s) + 1
           /\ \A a : WaitsIn(s, a) => WaitsIn(t, a)
<1>1. /\ t \in Seq(Entry)
      /\ \A i \in DOMAIN s : i \in DOMAIN t /\ t[i] = s[i]
      /\ Len(s) + 1 \in DOMAIN t /\ t[Len(s) + 1] = x
      /\ \A j \in DOMAIN t : j \in DOMAIN s \/ j = Len(s) + 1
  BY DEF Adds
<1>2. Lasts(s, t)
  BY <1>1 DEF Lasts
<1>3. \A a : WaitsIn(s, a) => WaitsIn(t, a)
  BY <1>1 DEF WaitsIn
<1> QED BY <1>1, <1>2, <1>3

LEMMA OnceKept ==
    ASSUME NEW s \in Seq(Entry), NEW t \in Seq(Entry), OnceIn(s),
           From(s, t) \/ \E x : Adds(s, t, x)
    PROVE  OnceIn(t)
<1> SUFFICES ASSUME NEW i \in DOMAIN t, NEW j \in DOMAIN t, t[i].end = t[j].end
             PROVE  i = j
  BY DEF OnceIn
<1>1. i \in Nat /\ j \in Nat
  OBVIOUS
<1>2. CASE From(s, t)
  <2>1. PICK f \in [DOMAIN t -> DOMAIN s] :
            /\ \A k \in DOMAIN t : t[k].end = s[f[k]].end
            /\ \A k, l \in DOMAIN t : k < l => f[k] < f[l]
    BY <1>2 DEF From
  <2>2. f[i] = f[j]
    BY <2>1 DEF OnceIn
  <2>3. f[i] \in Nat /\ f[j] \in Nat
    BY <1>1, <2>1
  <2>4. ~(i < j) /\ ~(j < i)
    BY <2>1, <2>2, <2>3
  <2> QED BY <1>1, <2>4
<1>3. ASSUME NEW x, Adds(s, t, x) PROVE i = j
  <2>1. \A k \in DOMAIN s : s[k].end # x.end
    BY <1>3 DEF Adds
  <2>2. /\ (i \in DOMAIN s /\ t[i] = s[i]) \/ i = Len(s) + 1
        /\ (j \in DOMAIN s /\ t[j] = s[j]) \/ j = Len(s) + 1
        /\ t[Len(s) + 1] = x
    BY <1>3, AddsFacts
  <2> QED BY <2>1, <2>2 DEF OnceIn
<1> QED BY <1>2, <1>3

LEMMA UnknownKept ==
    ASSUME NEW s \in Seq(Entry), NEW t \in Seq(Entry), NEW a, NEW b, UnknownIn(s, a),
           From(s, t) \/ \E x : Adds(s, t, x) /\ x.known,
           b = a \/ (b.pc # "idle" /\ b.end = a.end)
    PROVE  UnknownIn(t, b)
<1> SUFFICES ASSUME NEW j \in DOMAIN t, ~t[j].known
             PROVE  b.pc # "idle" /\ b.end = t[j].end
  BY DEF UnknownIn
<1>1. \E i \in DOMAIN s : t[j].end = s[i].end /\ ~s[i].known
  <2>1. CASE From(s, t)
    BY <2>1 DEF From
  <2>2. ASSUME NEW x, Adds(s, t, x), x.known
        PROVE  \E i \in DOMAIN s : t[j].end = s[i].end /\ ~s[i].known
    <3>1. (j \in DOMAIN s /\ t[j] = s[j]) \/ j = Len(s) + 1
      BY <2>2, AddsFacts
    <3>2. t[Len(s) + 1] = x
      BY <2>2, AddsFacts
    <3> QED BY <2>2, <3>1, <3>2
  <2> QED BY <2>1, <2>2
<1> QED BY <1>1 DEF UnknownIn

\* A known peer that is named stays named.
LEMMA NamedKept ==
    ASSUME NEW s \in Seq(Entry), NEW t \in Seq(Entry), Lasts(s, t),
           NEW p \in Peer, p.known, NEW i \in DOMAIN s, PeerOf(s[i]) = p
    PROVE  \E j \in DOMAIN t : t[j].end = s[i].end /\ PeerOf(t[j]) = p
<1>1. PICK x \in Entry : x = s[i]
  OBVIOUS
<1>2. x.known /\ Owner(Far(x.end)) = p.node
  BY <1>1, EntryFacts
<1>3. PICK j \in DOMAIN t : t[j].end = x.end /\ t[j].known
  BY <1>1, <1>2 DEF Lasts
<1>4. PICK y \in Entry : y = t[j]
  OBVIOUS
<1>5. PeerOf(y) = p
  BY <1>2, <1>3, <1>4, EntryFacts
<1> QED BY <1>1, <1>3, <1>4, <1>5

-----------------------------------------------------------------------------
(***************************************************************************)
(* What a step may do to a stream.                                         *)
(***************************************************************************)

LEMMA QuieterItself ==
    ASSUME NEW s
    PROVE  Quieter(s, s)
BY DEF Quieter

LEMMA QuieterNothing ==
    ASSUME NEW s
    PROVE  Quieter(s, << >>)
<1>1. DOMAIN << >> = {}
  OBVIOUS
<1> QED BY <1>1 DEF Quieter, Quiet, Single

LEMMA QuieterAppend ==
    ASSUME NEW s \in Seq(Message), NEW m \in Message, m.type # "INFO_REQUEST"
    PROVE  Append(s, m) \in Seq(Message) /\ Quieter(s, Append(s, m))
<1> DEFINE t == Append(s, m)
<1>1. /\ t \in Seq(Message) /\ t[Len(s) + 1] = m
      /\ \A i \in DOMAIN t : (i \in DOMAIN s /\ t[i] = s[i]) \/ i = Len(s) + 1
  BY AppendFacts
<1> HIDE DEF t
<1>2. Quieter(s, t)
  BY <1>1 DEF Quieter, Quiet, Single
<1> QED BY <1>1, <1>2 DEF t

\* What is left after the first k messages of s were read.
LEMMA RestFacts ==
    ASSUME NEW s \in Seq(Message), NEW k \in 1..Len(s)
    PROVE  LET t == SubSeq(s, k + 1, Len(s))
           IN  /\ t \in Seq(Message) /\ Len(t) = Len(s) - k
               /\ \A i \in DOMAIN t : i + k \in DOMAIN s /\ t[i] = s[i + k]
<1> DEFINE t == SubSeq(s, k + 1, Len(s))
<1>1. t \in Seq(Message) /\ Len(t) = Len(s) - k /\ \A i \in 1..(Len(s) - k) : t[i] = s[i + k]
  OBVIOUS
<1> HIDE DEF t
<1>2. k \in Nat \ {0} /\ Len(s) \in Nat /\ DOMAIN s = 1..Len(s) /\ DOMAIN t = 1..(Len(s) - k)
  BY <1>1
<1>3. \A i \in DOMAIN t : i + k \in DOMAIN s /\ t[i] = s[i + k]
  BY <1>1, <1>2
<1> QED BY <1>1, <1>3 DEF t

LEMMA QuieterRest ==
    ASSUME NEW s \in Seq(Message), NEW k \in 1..Len(s)
    PROVE  LET t == SubSeq(s, k + 1, Len(s))
           IN  /\ Quieter(s, t) /\ t \in Seq(Message)
               /\ Single(s) /\ s[1].type = "INFO_REQUEST" => Quiet(t, {"INFO_REQUEST"})
<1> DEFINE t == SubSeq(s, k + 1, Len(s))
<1>1. t \in Seq(Message) /\ \A i \in DOMAIN t : i \in Nat \ {0} /\ i + k \in DOMAIN s /\ t[i] = s[i + k]
  BY RestFacts
<1> HIDE DEF t
<1>2. 1 \in DOMAIN s /\ k \in Nat \ {0} /\ Len(s) \in Nat
  OBVIOUS
<1>3. Quieter(s, t)
  <2>1. Quiet(s, {"INFO_REQUEST"}) => Quiet(t, {"INFO_REQUEST"})
    BY <1>1 DEF Quiet
  <2>2. ASSUME Single(s), NEW i \in DOMAIN t, NEW j \in DOMAIN t,
               t[i].type = "INFO_REQUEST", t[j].type = "INFO_REQUEST"
        PROVE  i = j
    <3>1. i + k = j + k
      BY <1>1, <2>2 DEF Single
    <3> QED BY <1>1, <1>2, <3>1
  <2> QED BY <2>1, <2>2 DEF Quieter, Single
<1>4. ASSUME Single(s), s[1].type = "INFO_REQUEST", NEW i \in DOMAIN t, t[i].type = "INFO_REQUEST"
      PROVE  FALSE
  <2>1. i + k = 1
    BY <1>1, <1>2, <1>4 DEF Single
  <2> QED BY <1>1, <1>2, <2>1
<1>5. Single(s) /\ s[1].type = "INFO_REQUEST" => Quiet(t, {"INFO_REQUEST"})
  BY <1>4 DEF Quiet
<1> QED BY <1>1, <1>3, <1>5 DEF t

-----------------------------------------------------------------------------
(***************************************************************************)
(* What a step of one node keeps, and what it has to re-establish.         *)
(***************************************************************************)

\* Connections are never undone, nor accepted twice.
Growing == dialled \subseteq dialled' /\ \A d \in dialled : Pending(d)' => Pending(d)

\* What was clear stays clear.
StillClear == \A d \in Conn : Clear(d) => Clear(d)'

\* The list of peers of n loses entries, or gets one more.
Listing(n) ==
    \/ From(entries[n], entries'[n])
    \/ \E x \in Entry : Adds(entries[n], entries'[n], x) /\ Placed(n, x)'

LEMMA ClearKept ==
    ASSUME Growing,
           \A d \in Conn : Clear(d) => Quieter(stream[OutEnd(d)], stream'[OutEnd(d)])
    PROVE  StillClear
<1> SUFFICES ASSUME NEW d \in Conn, Clear(d) PROVE Clear(d)'
  BY DEF StillClear
<1>1. Quiet(stream'[OutEnd(d)], {"INFO_REQUEST"})
  BY DEF Quieter, Clear
<1> QED BY <1>1 DEF Clear, Growing

LEMMA RequestsKept ==
    ASSUME Requests, Growing, \A e \in End : Quieter(stream[e], stream'[e])
    PROVE  Requests' /\ StillClear
<1>1. ASSUME NEW d \in Conn
      PROVE  /\ Quiet(stream'[InEnd(d)], {"INFO_REQUEST"})
             /\ d \notin dialled' \/ Pending(d)' => Quiet(stream'[OutEnd(d)], {"INFO_REQUEST"})
             /\ Single(stream'[OutEnd(d)])
  <2>1. Quieter(stream[InEnd(d)], stream'[InEnd(d)]) /\ Quieter(stream[OutEnd(d)], stream'[OutEnd(d)])
    BY ConnEnds
  <2>2. d \notin dialled' \/ Pending(d)' => d \notin dialled \/ Pending(d)
    BY DEF Growing
  <2> QED BY <2>1, <2>2 DEF Requests, Quieter
<1>2. Requests'
  BY <1>1 DEF Requests
<1>3. StillClear
  BY ConnEnds, ClearKept
<1> QED BY <1>2, <1>3

LEMMA EndsKept ==
    ASSUME TypeOK, TypeOK', Ends, Growing, NEW n \in Node, Listing(n)
    PROVE  \A i \in DOMAIN entries'[n] : Placed(n, entries[n][i])'
<1> SUFFICES ASSUME NEW j \in DOMAIN entries'[n] PROVE Placed(n, entries[n][j])'
  OBVIOUS
<1>1. entries[n] \in Seq(Entry) /\ entries'[n] \in Seq(Entry)
  BY DEF TypeOK
<1>2. ASSUME NEW i \in DOMAIN entries[n], entries'[n][j].end = entries[n][i].end,
             entries[n][i].known => entries'[n][j].known
      PROVE  Placed(n, entries[n][j])'
  BY <1>2 DEF Ends, Placed, Growing
<1>3. CASE From(entries[n], entries'[n])
  BY <1>2, <1>3 DEF From
<1>4. ASSUME NEW x \in Entry, Adds(entries[n], entries'[n], x), Placed(n, x)'
      PROVE  Placed(n, entries[n][j])'
  <2>1. /\ (j \in DOMAIN entries[n] /\ entries'[n][j] = entries[n][j]) \/ j = Len(entries[n]) + 1
        /\ entries'[n][Len(entries[n]) + 1] = x
    BY <1>1, <1>4, AddsFacts
  <2> QED BY <1>2, <1>4, <2>1
<1> QED BY <1>3, <1>4 DEF Listing

LEMMA ServingKept ==
    ASSUME TypeOK, TypeOK', NEW n \in Node, NEW h \in Handler, Serving(n, h),
           h.pc # "idle" => Lasts(entries[n], entries'[n]), Growing, StillClear
    PROVE  Serving(n, h)'
<1>1. entries[n] \in Seq(Entry) /\ entries'[n] \in Seq(Entry)
  BY DEF TypeOK
<1>2. ASSUME h.pc # "idle", h.peer.known, NamedIn(entries[n], h.peer)
      PROVE  NamedIn(entries[n], h.peer)'
  <2>1. h.peer \in Peer
    BY <1>2, HandlerFacts
  <2>2. PICK i \in DOMAIN entries[n] : PeerOf(entries[n][i]) = h.peer
    BY <1>2 DEF NamedIn
  <2>3. \E j \in DOMAIN entries'[n] : PeerOf(entries'[n][j]) = h.peer
    BY <1>1, <1>2, <2>1, <2>2, NamedKept
  <2> QED BY <2>3 DEF NamedIn
<1>3. CASE h.pc = "processing"
  <2>1. h.end \in End /\ h.end.conn \in Conn
    BY <1>3, HandlerFacts, EndFacts
  <2>2. h.end.conn \in dialled' /\ (h.end.side = "in" => ~Pending(h.end.conn)')
    BY <1>3 DEF Serving, Growing
  <2>3. h.msg.type = "INFO_REQUEST" => NamedIn(entries[n], h.peer)' /\ Clear(h.end.conn)'
    BY <1>2, <1>3, <2>1 DEF Serving, StillClear
  <2> QED BY <1>3, <2>2, <2>3 DEF Serving
<1>4. CASE h.pc = "asking"
  <2>1. << n, h.peer.node >> \in Conn
    BY <1>4, HandlerFacts DEF Conn
  <2>2. NamedIn(entries[n], h.peer)' /\ Clear(<< n, h.peer.node >>)'
    BY <1>2, <1>4, <2>1 DEF Serving, StillClear
  <2> QED BY <1>4, <2>2 DEF Serving
<1>5. CASE h.pc = "joining"
  <2>1. NamedIn(entries[n], h.peer)'
    BY <1>2, <1>5 DEF Serving
  <2> QED BY <1>5, <2>1 DEF Serving
<1>6. CASE h.pc = "waiting"
  <2>1. h.end \in End /\ h.end.conn \in Conn /\ h.peer \in Peer
    BY <1>6, HandlerFacts, EndFacts
  <2>2. h.end.side = "out" => Clear(h.end.conn)'
    BY <1>6, <2>1 DEF Serving, StillClear
  <2>3. PICK i \in DOMAIN entries[n] : entries[n][i].end = h.end /\ PeerOf(entries[n][i]) = h.peer
    BY <1>6 DEF Serving
  <2>4. h.peer.known
    BY <1>6 DEF Serving
  <2>5. \E j \in DOMAIN entries'[n] : entries'[n][j].end = h.end /\ PeerOf(entries'[n][j]) = h.peer
    <3>1. PICK p \in Peer : p = h.peer
      BY <2>1
    <3>2. Lasts(entries[n], entries'[n]) /\ p.known /\ PeerOf(entries[n][i]) = p
      BY <1>6, <2>3, <2>4, <3>1
    <3>3. \E j \in DOMAIN entries'[n] : entries'[n][j].end = entries[n][i].end /\ PeerOf(entries'[n][j]) = p
      BY <1>1, <3>2, NamedKept
    <3> QED BY <2>3, <3>1, <3>3
  <2> QED BY <1>6, <2>2, <2>4, <2>5 DEF Serving
<1>7. CASE h.pc = "idle"
  BY <1>7 DEF Serving
<1> QED BY <1>3, <1>4, <1>5, <1>6, <1>7, HandlerFacts

\* The threads and the peers of the other nodes are as they were.
Elsewhere(n) ==
    \A m \in Node \ {n} :
        entries'[m] = entries[m] /\ acceptor'[m] = acceptor[m] /\ handler'[m] = handler[m]

\* What a step of n has to keep, for the invariant to hold after it.
LEMMA StepKeeps ==
    ASSUME HInv, TypeOK', NEW n \in Node, Elsewhere(n), Growing, StillClear, Listing(n),
           Backlogs', Requests', UnknownIn(entries'[n], acceptor'[n]),
           WaitsIn(entries'[n], acceptor'[n]),
           NEW h \in Handler, handler'[n] = h, Serving(n, h)'
    PROVE  HInv'
<1> USE DEF HInv
<1>1. \A m \in Node : entries[m] \in Seq(Entry) /\ entries'[m] \in Seq(Entry)
  BY DEF TypeOK
<1>2. \A m \in Node : Listing(m)
  <2>1. \A m \in Node \ {n} : From(entries[m], entries'[m])
    BY <1>1, FromItself DEF Elsewhere
  <2> QED BY <2>1 DEF Listing
<1>3. Ends'
  BY <1>2, EndsKept DEF Ends
<1>4. Once'
  BY <1>1, <1>2, OnceKept DEF Once, Listing
<1>5. Unknown'
  BY DEF Unknown, Elsewhere
<1>6. AcceptorAt'
  BY DEF AcceptorAt, Elsewhere
<1>7. Serves'
  <2> SUFFICES ASSUME NEW m \in Node PROVE Serving(m, handler[m])'
    BY DEF Serves
  <2>1. CASE m = n
    <3>1. handler'[m] = h /\ Serving(m, h)'
      BY <2>1
    <3> QED BY <3>1 DEF Serving
  <2>2. CASE m # n
    <3>1. PICK g \in Handler : g = handler[m]
      BY DEF TypeOK
    <3>2. handler'[m] = g /\ Serving(m, g) /\ Lasts(entries[m], entries'[m])
      BY <1>1, <2>2, <3>1, FromItself DEF Elsewhere, Serves
    <3>3. Serving(m, g)'
      BY <3>2, ServingKept
    <3> QED BY <3>2, <3>3 DEF Serving
  <2> QED BY <2>1, <2>2
<1> QED BY <1>3, <1>4, <1>5, <1>6, <1>7

-----------------------------------------------------------------------------
(***************************************************************************)
(* The steps that connect.                                                 *)
(***************************************************************************)

\* What a new connection adds, at the end that makes it.
LEMMA ConnectedFacts ==
    ASSUME HInv, NEW c \in Node, NEW s \in Node, << c, s >> \notin dialled, Connected(c, s),
           UNCHANGED << stream, shut >>
    PROVE  /\ entries' \in [Node -> Seq(Entry)] /\ backlog' \in [Node -> Seq(Conn)]
           /\ dialled' \subseteq Conn /\ dialled \subseteq dialled'
           /\ \A m \in Node \ {c} : entries'[m] = entries[m]
           /\ Growing /\ StillClear /\ Requests' /\ Backlogs'
           /\ \E x \in Entry : /\ Adds(entries[c], entries'[c], x) /\ Placed(c, x)'
                               /\ x = [end |-> OutEnd(<< c, s >>), known |-> TRUE, deaf |-> FALSE]
<1> USE DEF HInv
<1> DEFINE d == << c, s >>
           x == [end |-> OutEnd(d), known |-> TRUE, deaf |-> FALSE]
<1>1. /\ d \in Conn /\ d[1] = c /\ d[2] = s /\ OutEnd(d) \in End /\ Owner(OutEnd(d)) = c
      /\ OutEnd(d).conn = d /\ OutEnd(d).side = "out"
  <2>1. d \in Conn /\ d[1] = c /\ d[2] = s
    BY DEF Conn
  <2> HIDE DEF d
  <2> QED BY <2>1, ConnEnds
<1>2. x \in Entry /\ x.end = OutEnd(d) /\ x.known
  BY <1>1 DEF Entry
<1> HIDE DEF d, x
<1>3. /\ entries \in [Node -> Seq(Entry)] /\ backlog \in [Node -> Seq(Conn)] /\ dialled \subseteq Conn
      /\ entries' = [entries EXCEPT ![c] = Append(@, x)]
      /\ backlog' = [backlog EXCEPT ![s] = Append(@, d)]
      /\ dialled' = dialled \union {d} /\ d \notin dialled
  BY DEF TypeOK, Connected, d, x
<1>4. /\ entries' \in [Node -> Seq(Entry)] /\ backlog' \in [Node -> Seq(Conn)]
      /\ dialled' \subseteq Conn /\ dialled \subseteq dialled' /\ d \in dialled'
      /\ \A m \in Node \ {c} : entries'[m] = entries[m]
      /\ entries'[c] = Append(entries[c], x)
      /\ \A m \in Node \ {s} : backlog'[m] = backlog[m]
      /\ backlog'[s] = Append(backlog[s], d)
  <2>1. Append(entries[c], x) \in Seq(Entry) /\ Append(backlog[s], d) \in Seq(Conn)
    BY <1>1, <1>2, <1>3
  <2> QED BY <1>1, <1>3, <2>1
<1>5. /\ \A i \in DOMAIN backlog'[s] : (i \in DOMAIN backlog[s] /\ backlog'[s][i] = backlog[s][i])
                                      \/ i = Len(backlog[s]) + 1
      /\ backlog'[s][Len(backlog[s]) + 1] = d
  <2>1. backlog[s] \in Seq(Conn)
    BY <1>3
  <2> QED BY <1>1, <1>4, <2>1, AppendFacts
<1>6. Growing
  <2> SUFFICES ASSUME NEW e \in dialled, Pending(e)' PROVE Pending(e)
    BY <1>4 DEF Growing
  <2>1. e \in Conn /\ e[2] \in Node /\ e # d
    BY <1>3, ConnEnds
  <2>2. PICK i \in DOMAIN backlog'[e[2]] : backlog'[e[2]][i] = e
    BY DEF Pending
  <2>3. i \in DOMAIN backlog[e[2]] /\ backlog[e[2]][i] = e
    BY <1>4, <1>5, <2>1, <2>2
  <2> QED BY <2>3 DEF Pending
<1>7. Requests' /\ StillClear
  <2>1. \A e \in End : Quieter(stream[e], stream'[e])
    BY QuieterItself
  <2> QED BY <1>6, <2>1, RequestsKept
<1>8. Backlogs'
  <2> SUFFICES ASSUME NEW m \in Node
               PROVE  /\ \A i \in DOMAIN backlog'[m] : backlog'[m][i] \in dialled' /\ backlog'[m][i][2] = m
                      /\ \A i, j \in DOMAIN backlog'[m] : backlog'[m][i] = backlog'[m][j] => i = j
    BY DEF Backlogs
  <2>1. /\ \A i \in DOMAIN backlog[m] : backlog[m][i] \in dialled /\ backlog[m][i][2] = m
        /\ \A i, j \in DOMAIN backlog[m] : backlog[m][i] = backlog[m][j] => i = j
    BY DEF Backlogs
  <2>2. CASE m # s
    BY <1>4, <2>1, <2>2
  <2>3. CASE m = s
    BY <1>1, <1>3, <1>4, <1>5, <2>1, <2>3
  <2> QED BY <2>2, <2>3
<1>9. Adds(entries[c], entries'[c], x)
  <2>1. \A i \in DOMAIN entries[c] : entries[c][i].end # x.end
    BY <1>1, <1>2, <1>3 DEF Ends, Placed
  <2> QED BY <1>2, <1>4, <2>1 DEF Adds
<1>10. Placed(c, x)'
  <2>1. x.end.conn = d /\ x.end.side = "out" /\ Owner(x.end) = c /\ x.known
    BY <1>1, <1>2
  <2> QED BY <1>4, <2>1 DEF Placed
<1> QED BY <1>2, <1>4, <1>6, <1>7, <1>8, <1>9, <1>10 DEF x, d

LEMMA DialKeeps ==
    ASSUME HInv, NEW i \in DOMAIN setting.peers, Dial(i)
    PROVE  HInv'
<1> USE DEF HInv
<1>1. PICK c \in Node, s \in Node :
        /\ << c, s >> \notin dialled /\ Connected(c, s)
        /\ UNCHANGED << setting, alive, stream, shut, acceptor, handler, greeted, mishaps, noise >>
  <2>1. setting.peers \in Seq({d \in Node \X Node : d[1] # d[2]})
    BY HandshakeAssumption DEF TypeOK
  <2>2. setting.peers[i] \in Node \X Node
    BY <2>1
  <2>3. setting.peers[i][1] \in Node /\ setting.peers[i][2] \in Node
    BY <2>2
  <2> QED BY <2>3 DEF Dial, CanConnect
<1>2. /\ entries' \in [Node -> Seq(Entry)] /\ backlog' \in [Node -> Seq(Conn)]
      /\ dialled' \subseteq Conn /\ dialled \subseteq dialled'
      /\ \A m \in Node \ {c} : entries'[m] = entries[m]
      /\ Growing /\ StillClear /\ Requests' /\ Backlogs'
      /\ \E x \in Entry : Adds(entries[c], entries'[c], x) /\ Placed(c, x)' /\ x.known
  BY <1>1, ConnectedFacts
<1>3. TypeOK'
  BY <1>1, <1>2 DEF TypeOK
<1>4. Elsewhere(c) /\ Listing(c)
  BY <1>1, <1>2 DEF Elsewhere, Listing
<1>5. entries[c] \in Seq(Entry) /\ entries'[c] \in Seq(Entry) /\ acceptor'[c] = acceptor[c]
  BY <1>1, <1>3 DEF TypeOK
<1>6. UnknownIn(entries'[c], acceptor'[c]) /\ WaitsIn(entries'[c], acceptor'[c])
  <2>1. UnknownIn(entries[c], acceptor[c]) /\ WaitsIn(entries[c], acceptor[c])
    BY DEF Unknown, AcceptorAt
  <2>2. PICK x \in Entry : Adds(entries[c], entries'[c], x) /\ x.known
    BY <1>2
  <2>3. WaitsIn(entries'[c], acceptor[c])
    BY <1>5, <2>1, <2>2, AddsFacts
  <2>4. UnknownIn(entries'[c], acceptor[c])
    BY <1>5, <2>1, <2>2, UnknownKept
  <2> QED BY <1>5, <2>3, <2>4
<1>7. PICK h \in Handler : h = handler[c]
  BY DEF TypeOK
<1>8. handler'[c] = h /\ Serving(c, h) /\ Lasts(entries[c], entries'[c])
  BY <1>1, <1>2, <1>5, <1>7, AddsFacts DEF Serves
<1>9. Serving(c, h)'
  BY <1>2, <1>3, <1>8, ServingKept
<1> QED BY <1>2, <1>3, <1>4, <1>6, <1>8, <1>9, StepKeeps

-----------------------------------------------------------------------------
(***************************************************************************)
(* The steps of a process and of its acceptor.                             *)
(***************************************************************************)

\* A step that leaves the backlogs and the connections alone.
LEMMA SameBacklogs ==
    ASSUME Backlogs, UNCHANGED << backlog, dialled >>
    PROVE  Backlogs' /\ Growing
BY DEF Backlogs, Growing, Pending

LEMMA LeaveKeeps ==
    ASSUME HInv, NEW n \in Node, Leave(n)
    PROVE  HInv'
<1> USE DEF HInv
<1>1. TypeOK'
  <2>1. /\ shut' \subseteq End /\ alive' \subseteq Node
        /\ entries' \in [Node -> Seq(Entry)] /\ backlog' \in [Node -> Seq(Conn)]
    BY DEF Leave, TypeOK
  <2>2. stream' \in [End -> Seq(Message)]
    BY DEF Leave, TypeOK
  <2>3. acceptor' \in [Node -> Acceptor] /\ handler' \in [Node -> Handler]
    BY IdleFacts DEF Leave, TypeOK
  <2> QED BY <2>1, <2>2, <2>3 DEF Leave, TypeOK
<1>2. /\ entries'[n] = << >> /\ acceptor'[n] = Idle /\ handler'[n] = Idle /\ Idle.pc = "idle"
      /\ Elsewhere(n)
  BY IdleFacts DEF Leave, TypeOK, Elsewhere
<1>3. \A e \in End : Quieter(stream[e], stream'[e])
  <2>1. \A e \in End : stream'[e] = << >> \/ stream'[e] = stream[e]
    BY DEF Leave
  <2> QED BY <2>1, QuieterItself, QuieterNothing
<1>4. \A m \in Node : backlog'[m] = << >> \/ backlog'[m] = backlog[m]
  BY DEF Leave, TypeOK
<1>5. Backlogs' /\ Growing
  <2>1. dialled' = dialled /\ DOMAIN << >> = {}
    BY DEF Leave
  <2>2. Backlogs'
    BY <1>4, <2>1 DEF Backlogs
  <2>3. ASSUME NEW d \in dialled, Pending(d)' PROVE Pending(d)
    <3>1. d[2] \in Node
      BY ConnEnds DEF TypeOK
    <3> QED BY <1>4, <2>1, <2>3, <3>1 DEF Pending
  <2> QED BY <2>1, <2>2, <2>3 DEF Growing
<1>6. Requests' /\ StillClear
  BY <1>3, <1>5, RequestsKept
<1>7. entries[n] \in Seq(Entry) /\ DOMAIN << >> = {}
  BY DEF TypeOK
<1>8. Listing(n)
  BY <1>2, <1>7, FromNothing DEF Listing
<1>9. UnknownIn(entries'[n], acceptor'[n]) /\ WaitsIn(entries'[n], acceptor'[n])
  BY <1>2, <1>7 DEF UnknownIn, WaitsIn
<1>10. Idle \in Handler /\ handler'[n] = Idle /\ Serving(n, Idle)'
  BY <1>2, IdleFacts DEF Serving
<1> QED BY <1>1, <1>2, <1>5, <1>6, <1>8, <1>9, <1>10, StepKeeps

LEMMA BroadcastKeeps ==
    ASSUME HInv, NEW n \in Node, Broadcast(n)
    PROVE  HInv'
<1> USE DEF HInv
<1>1. /\ stream \in [End -> Seq(Message)]
      /\ Plain("OTHER") \in Message /\ Plain("OTHER").type # "INFO_REQUEST"
      /\ \A e \in End : stream'[e] = Append(stream[e], Plain("OTHER")) \/ stream'[e] = stream[e]
      /\ stream' = [e \in End |-> stream'[e]]
  BY MessageFacts DEF Broadcast, TypeOK
<1>2. /\ stream' \in [End -> Seq(Message)]
      /\ \A e \in End : Quieter(stream[e], stream'[e])
  <2>1. ASSUME NEW e \in End
        PROVE  stream'[e] \in Seq(Message) /\ Quieter(stream[e], stream'[e])
    <3>1. PICK s \in Seq(Message) : s = stream[e]
      BY <1>1
    <3>2. PICK m \in Message : m = Plain("OTHER") /\ m.type # "INFO_REQUEST"
      BY <1>1
    <3>3. Append(s, m) \in Seq(Message) /\ Quieter(s, Append(s, m)) /\ Quieter(s, s)
      BY <3>2, QuieterAppend, QuieterItself
    <3>4. stream'[e] = Append(s, m) \/ stream'[e] = s
      BY <1>1, <3>1, <3>2
    <3> QED BY <3>1, <3>3, <3>4
  <2>2. \A e \in End : stream'[e] \in Seq(Message)
    BY <2>1
  <2> QED BY <1>1, <2>1, <2>2
<1>3. TypeOK'
  BY <1>2 DEF Broadcast, TypeOK
<1>4. Backlogs' /\ Growing
  BY SameBacklogs DEF Broadcast
<1>5. Requests' /\ StillClear
  BY <1>2, <1>4, RequestsKept
<1>6. Elsewhere(n) /\ entries'[n] = entries[n] /\ acceptor'[n] = acceptor[n] /\ handler'[n] = handler[n]
  BY DEF Broadcast, Elsewhere
<1>7. From(entries[n], entries[n]) /\ Lasts(entries[n], entries[n])
  BY FromItself DEF TypeOK
<1>8. Listing(n) /\ UnknownIn(entries'[n], acceptor'[n]) /\ WaitsIn(entries'[n], acceptor'[n])
  BY <1>6, <1>7 DEF Listing, Unknown, AcceptorAt
<1>9. PICK h \in Handler : h = handler[n]
  BY DEF TypeOK
<1>10. handler'[n] = h /\ Serving(n, h) /\ Lasts(entries[n], entries'[n])
  BY <1>6, <1>7, <1>9 DEF Serves
<1>11. Serving(n, h)'
  BY <1>3, <1>4, <1>5, <1>10, ServingKept
<1> QED BY <1>3, <1>4, <1>5, <1>6, <1>8, <1>10, <1>11, StepKeeps

LEMMA AcceptKeeps ==
    ASSUME HInv, NEW n \in Node, Accept(n)
    PROVE  HInv'
<1> USE DEF HInv
<1>1. PICK d \in Conn : d = Head(backlog[n])
  BY DEF Accept, TypeOK
<1> DEFINE e == InEnd(d)
           x == [end |-> e, known |-> FALSE, deaf |-> TRUE]
           a == [pc |-> "waiting", end |-> e]
           q == Plain("INFO_REQUEST")
<1>2. /\ e \in End /\ Far(e) = OutEnd(d) /\ OutEnd(d) \in End /\ e.conn = d /\ e.side = "in"
      /\ Owner(e) = d[2] /\ q \in Message /\ q.type = "INFO_REQUEST"
  BY ConnEnds, MessageFacts
<1>3. /\ x \in Entry /\ x.end = e /\ ~x.known /\ x.deaf
      /\ a \in Acceptor /\ a.pc = "waiting" /\ a.end = e
  BY <1>2 DEF Entry, Acceptor
<1>4. /\ acceptor[n] = Idle /\ backlog[n] # << >>
      /\ entries' = [entries EXCEPT ![n] = Append(@, x)]
      /\ backlog' = [backlog EXCEPT ![n] = Tail(@)]
      /\ stream' = IF Far(e) \in shut THEN stream
                   ELSE [stream EXCEPT ![Far(e)] = Append(@, q)]
      /\ acceptor' = [acceptor EXCEPT ![n] = a]
      /\ UNCHANGED << setting, alive, shut, handler, dialled, greeted, mishaps, noise >>
  BY <1>1 DEF Accept
<1> HIDE DEF x, a, q, e
<1>5. /\ entries[n] \in Seq(Entry) /\ backlog[n] \in Seq(Conn) /\ stream[OutEnd(d)] \in Seq(Message)
      /\ entries \in [Node -> Seq(Entry)] /\ backlog \in [Node -> Seq(Conn)]
      /\ stream \in [End -> Seq(Message)] /\ acceptor \in [Node -> Acceptor]
  BY <1>2 DEF TypeOK
<1>6. /\ entries' \in [Node -> Seq(Entry)] /\ entries'[n] = Append(entries[n], x)
      /\ backlog' \in [Node -> Seq(Conn)] /\ backlog'[n] = Tail(backlog[n])
      /\ acceptor' \in [Node -> Acceptor] /\ acceptor'[n] = a
      /\ \A m \in Node \ {n} : /\ entries'[m] = entries[m] /\ acceptor'[m] = acceptor[m]
                               /\ handler'[m] = handler[m] /\ backlog'[m] = backlog[m]
  <2>1. Append(entries[n], x) \in Seq(Entry) /\ Tail(backlog[n]) \in Seq(Conn)
    BY <1>3, <1>4, <1>5
  <2> QED BY <1>3, <1>4, <1>5, <2>1
<1>7. /\ stream' \in [End -> Seq(Message)]
      /\ \A c \in End : c # OutEnd(d) => stream'[c] = stream[c]
      /\ stream'[OutEnd(d)] = stream[OutEnd(d)] \/ stream'[OutEnd(d)] = Append(stream[OutEnd(d)], q)
  <2>1. Append(stream[OutEnd(d)], q) \in Seq(Message)
    BY <1>2, <1>5
  <2> QED BY <1>2, <1>4, <1>5, <2>1
<1>8. TypeOK'
  BY <1>4, <1>6, <1>7 DEF TypeOK
<1>9. /\ d = backlog[n][1] /\ 1 \in DOMAIN backlog[n] /\ d \in dialled /\ d[2] = n /\ Pending(d)
      /\ \A i \in DOMAIN Tail(backlog[n]) :
            i \in Nat \ {0} /\ i + 1 \in DOMAIN backlog[n] /\ Tail(backlog[n])[i] = backlog[n][i + 1]
  <2>1. /\ d = backlog[n][1] /\ 1 \in DOMAIN backlog[n]
        /\ \A i \in DOMAIN Tail(backlog[n]) :
            i \in Nat \ {0} /\ i + 1 \in DOMAIN backlog[n] /\ Tail(backlog[n])[i] = backlog[n][i + 1]
    BY <1>1, <1>4, <1>5, TailFacts
  <2> QED BY <2>1 DEF Backlogs, Pending
<1>10. Backlogs' /\ Growing /\ ~Pending(d)'
  <2>1. Backlogs'
    BY <1>4, <1>6, <1>9 DEF Backlogs
  <2>2. ASSUME NEW c \in dialled, Pending(c)' PROVE Pending(c)
    <3>1. PICK m \in Node : m = c[2]
      BY ConnEnds DEF TypeOK
    <3>2. PICK i \in DOMAIN backlog'[m] : backlog'[m][i] = c
      BY <2>2, <3>1 DEF Pending
    <3>3. \E j \in DOMAIN backlog[m] : backlog[m][j] = c
      <4>1. CASE m # n
        BY <1>6, <3>2, <4>1
      <4>2. CASE m = n
        BY <1>6, <1>9, <3>2, <4>2
      <4> QED BY <4>1, <4>2
    <3> QED BY <3>1, <3>3 DEF Pending
  <2>3. ASSUME Pending(d)' PROVE FALSE
    <3>0. PICK i \in DOMAIN backlog'[n] : backlog'[n][i] = d
      BY <1>9, <2>3 DEF Pending
    <3>1. i \in DOMAIN Tail(backlog[n]) /\ Tail(backlog[n])[i] = d
      BY <1>6, <3>0
    <3>2. i + 1 = 1 /\ i \in Nat \ {0}
      BY <1>9, <3>1 DEF Backlogs
    <3> QED BY <3>2
  <2> QED BY <1>4, <2>1, <2>2, <2>3 DEF Growing
<1>11. StillClear
  <2>1. ASSUME NEW c \in Conn, Clear(c) PROVE Quieter(stream[OutEnd(c)], stream'[OutEnd(c)])
    <3>1. c # d
      BY <1>9, <2>1 DEF Clear
    <3>2. OutEnd(c) \in End /\ OutEnd(c) # OutEnd(d)
      BY <3>1, ConnEnds
    <3> QED BY <1>7, <3>2, QuieterItself
  <2> QED BY <1>10, <2>1, ClearKept
<1>12. Requests'
  <2> SUFFICES ASSUME NEW c \in Conn
               PROVE  /\ Quiet(stream'[InEnd(c)], {"INFO_REQUEST"})
                      /\ c \notin dialled' \/ Pending(c)' => Quiet(stream'[OutEnd(c)], {"INFO_REQUEST"})
                      /\ Single(stream'[OutEnd(c)])
    BY DEF Requests
  <2>1. InEnd(c) \in End /\ OutEnd(c) \in End /\ InEnd(c) # OutEnd(d) /\ (c # d => OutEnd(c) # OutEnd(d))
    BY ConnEnds
  <2>2. stream'[InEnd(c)] = stream[InEnd(c)] /\ (c # d => stream'[OutEnd(c)] = stream[OutEnd(c)])
    BY <1>7, <2>1
  <2>3. CASE c # d
    BY <1>10, <2>2, <2>3 DEF Requests, Growing
  <2>4. CASE c = d
    <3>1. Quiet(stream[OutEnd(d)], {"INFO_REQUEST"})
      BY <1>9 DEF Requests
    <3>2. Single(stream'[OutEnd(d)])
      <4>1. CASE stream'[OutEnd(d)] = stream[OutEnd(d)]
        BY <4>1 DEF Requests
      <4>2. CASE stream'[OutEnd(d)] = Append(stream[OutEnd(d)], q)
        <5>1. \A i \in DOMAIN stream'[OutEnd(d)] :
                \/ i \in DOMAIN stream[OutEnd(d)] /\ stream'[OutEnd(d)][i] = stream[OutEnd(d)][i]
                \/ i = Len(stream[OutEnd(d)]) + 1
          BY <1>2, <1>5, <4>2, AppendFacts
        <5> QED BY <3>1, <5>1 DEF Quiet, Single
      <4> QED BY <1>7, <4>1, <4>2
    <3>3. d \in dialled' /\ ~Pending(d)'
      BY <1>4, <1>9, <1>10
    <3> QED BY <2>2, <2>4, <3>2, <3>3 DEF Requests
  <2> QED BY <2>3, <2>4
<1>13. Adds(entries[n], entries'[n], x) /\ Placed(n, x)'
  <2>1. \A i \in DOMAIN entries[n] : entries[n][i].end # x.end
    BY <1>2, <1>3, <1>9 DEF Ends, Placed
  <2>2. x.end.conn = d /\ x.end.side = "in" /\ Owner(x.end) = n
    BY <1>2, <1>3, <1>9
  <2>3. Placed(n, x)'
    BY <1>4, <1>9, <1>10, <2>2 DEF Placed
  <2> QED BY <1>3, <1>6, <2>1, <2>3 DEF Adds
<1>14. UnknownIn(entries'[n], acceptor'[n]) /\ WaitsIn(entries'[n], acceptor'[n])
  <2>1. UnknownIn(entries[n], Idle)
    BY <1>4 DEF Unknown
  <2>2. \A i \in DOMAIN entries[n] : entries[n][i].known
    BY <2>1, IdleFacts DEF UnknownIn
  <2>3. /\ \A j \in DOMAIN entries'[n] :
            (j \in DOMAIN entries[n] /\ entries'[n][j] = entries[n][j]) \/ j = Len(entries[n]) + 1
        /\ Len(entries[n]) + 1 \in DOMAIN entries'[n] /\ entries'[n][Len(entries[n]) + 1] = x
    BY <1>5, <1>13, AddsFacts
  <2> QED BY <1>3, <1>6, <2>2, <2>3 DEF UnknownIn, WaitsIn
<1>15. PICK h \in Handler : h = handler[n]
  BY DEF TypeOK
<1>16. handler'[n] = h /\ Serving(n, h) /\ Lasts(entries[n], entries'[n])
  BY <1>4, <1>5, <1>13, <1>15, AddsFacts DEF Serves
<1>17. Serving(n, h)'
  BY <1>8, <1>10, <1>11, <1>16, ServingKept
<1>18. Elsewhere(n) /\ Listing(n)
  BY <1>3, <1>6, <1>13 DEF Elsewhere, Listing
<1> QED BY <1>8, <1>10, <1>11, <1>12, <1>14, <1>16, <1>17, <1>18, StepKeeps

-----------------------------------------------------------------------------
(***************************************************************************)
(* What reading, writing and removing do.                                  *)
(***************************************************************************)

LEMMA ConsumedFacts ==
    ASSUME TypeOK, NEW e \in End, NEW k \in 1..setting.reads, k <= Len(stream[e])
    PROVE  /\ Consumed(e, k) \in [End -> Seq(Message)]
           /\ Head(stream[e]) \in Message /\ Head(stream[e]) = stream[e][1] /\ 1 \in DOMAIN stream[e]
           /\ Swallowed(e, k) \subseteq {"swallowed"}
           /\ \A c \in End : Quieter(stream[c], Consumed(e, k)[c])
           /\ Single(stream[e]) /\ Head(stream[e]).type = "INFO_REQUEST"
                => Quiet(Consumed(e, k)[e], {"INFO_REQUEST"})
<1>1. setting.reads \in Nat
  BY HandshakeAssumption DEF TypeOK
<1>2. PICK s \in Seq(Message) : s = stream[e]
  BY DEF TypeOK
<1>3. k \in 1..Len(s)
  BY <1>1, <1>2
<1> DEFINE t == SubSeq(s, k + 1, Len(s))
<1>4. /\ Quieter(s, t) /\ t \in Seq(Message)
      /\ Single(s) /\ s[1].type = "INFO_REQUEST" => Quiet(t, {"INFO_REQUEST"})
  BY <1>3, QuieterRest
<1>5. Head(s) \in Message /\ Head(s) = s[1] /\ 1 \in DOMAIN s
  BY <1>3
<1>6. /\ Consumed(e, k) = [stream EXCEPT ![e] = t]
      /\ stream \in [End -> Seq(Message)]
  BY <1>2 DEF Consumed, TypeOK
<1> HIDE DEF t
<1>7. /\ Consumed(e, k) \in [End -> Seq(Message)] /\ Consumed(e, k)[e] = t
      /\ \A c \in End : c # e => Consumed(e, k)[c] = stream[c]
  BY <1>4, <1>6
<1>8. \A c \in End : Quieter(stream[c], Consumed(e, k)[c])
  BY <1>2, <1>4, <1>7, QuieterItself
<1>9. Swallowed(e, k) \subseteq {"swallowed"}
  BY DEF Swallowed
<1> QED BY <1>2, <1>4, <1>5, <1>7, <1>8, <1>9

LEMMA WrittenFacts ==
    ASSUME NEW str \in [End -> Seq(Message)], NEW n \in Node, entries[n] \in Seq(Entry),
           NEW i \in 0..Len(entries[n]), NEW m \in Message
    PROVE  /\ Written(str, n, i, m) \in [End -> Seq(Message)]
           /\ \A e \in End :
                \/ Written(str, n, i, m)[e] = str[e]
                \/ /\ i \in DOMAIN entries[n] /\ e = Far(entries[n][i].end)
                   /\ Written(str, n, i, m)[e] = Append(str[e], m)
           /\ m.type # "INFO_REQUEST" => \A e \in End : Quieter(str[e], Written(str, n, i, m)[e])
<1> DEFINE w == Written(str, n, i, m)
<1>1. CASE w = str
  BY <1>1, QuieterItself
<1>2. CASE w # str
  <2>1. i \in DOMAIN entries[n] /\ w = [str EXCEPT ![Far(entries[n][i].end)] = Append(@, m)]
    BY <1>2 DEF Written
  <2>2. PICK c \in End : c = Far(entries[n][i].end)
    BY <2>1, EntryFacts, EndFacts
  <2>3. Append(str[c], m) \in Seq(Message)
    OBVIOUS
  <2> HIDE DEF w
  <2>4. /\ w \in [End -> Seq(Message)] /\ w[c] = Append(str[c], m)
        /\ \A e \in End : e # c => w[e] = str[e]
    BY <2>1, <2>2, <2>3
  <2>5. m.type # "INFO_REQUEST" => Quieter(str[c], w[c])
    BY <2>4, QuieterAppend
  <2>6. m.type # "INFO_REQUEST" => \A e \in End : Quieter(str[e], w[e])
    BY <2>4, <2>5, QuieterItself
  <2> QED BY <2>1, <2>2, <2>4, <2>6 DEF w
<1> QED BY <1>1, <1>2

LEMMA QuieterTwice ==
    ASSUME NEW r, NEW s, NEW t, Quieter(r, s), Quieter(s, t)
    PROVE  Quieter(r, t)
BY DEF Quieter

\* What removing an entry does.
LEMMA RemovedFacts ==
    ASSUME TypeOK, NEW n \in Node, NEW i \in DOMAIN entries[n], Removed(n, i)
    PROVE  /\ entries' \in [Node -> Seq(Entry)] /\ shut' \subseteq End /\ shut \subseteq shut'
           /\ entries[n][i].end \in shut' /\ stream' \in [End -> Seq(Message)]
           /\ \A m \in Node \ {n} : entries'[m] = entries[m]
           /\ From(entries[n], entries'[n])
           /\ ~entries[n][i].known => Lasts(entries[n], entries'[n])
           /\ \A j \in DOMAIN entries[n] : j # i =>
                \E k \in DOMAIN entries'[n] : entries'[n][k] = entries[n][j]
           /\ \A j \in DOMAIN entries'[n] :
                \E k \in DOMAIN entries[n] : k # i /\ entries'[n][j] = entries[n][k]
           /\ \A e \in End : stream'[e] = stream[e] \/ stream'[e] = << >>
           /\ \A e \in End : Quieter(stream[e], stream'[e])
<1>1. PICK s \in Seq(Entry) : s = entries[n]
  BY DEF TypeOK
<1>2. PICK e \in End : e = entries[n][i].end
  BY <1>1, EntryFacts
<1>3. i \in DOMAIN s
  BY <1>1
<1> DEFINE t == RemoveAt(s, i)
<1>4. /\ t \in Seq(Entry) /\ From(s, t)
      /\ ~s[i].known => Lasts(s, t)
      /\ \A j \in DOMAIN s : j # i => \E k \in DOMAIN t : t[k] = s[j]
      /\ \A j \in DOMAIN t : \E k \in DOMAIN s : k # i /\ t[j] = s[k]
  <2>1. LET u == RemoveAt(s, i)
        IN  /\ u \in Seq(Entry) /\ From(s, u)
            /\ ~s[i].known => Lasts(s, u)
            /\ \A j \in DOMAIN s : j # i => \E k \in DOMAIN u : u[k] = s[j]
            /\ \A j \in DOMAIN u : \E k \in DOMAIN s : k # i /\ u[j] = s[k]
    BY <1>3, FromRemove
  <2> QED BY <2>1
<1>5. /\ shut' = shut \union {e} /\ entries' = [entries EXCEPT ![n] = t]
      /\ stream' = [stream EXCEPT ![e] = << >>]
      /\ entries \in [Node -> Seq(Entry)] /\ shut \subseteq End /\ stream \in [End -> Seq(Message)]
  BY <1>1, <1>2 DEF Removed, TypeOK
<1> HIDE DEF t
<1>6. /\ entries' \in [Node -> Seq(Entry)] /\ entries'[n] = t
      /\ \A m \in Node \ {n} : entries'[m] = entries[m]
  BY <1>4, <1>5
<1>7. /\ stream' \in [End -> Seq(Message)]
      /\ \A c \in End : stream'[c] = stream[c] \/ stream'[c] = << >>
  BY <1>5
<1>8. \A c \in End : Quieter(stream[c], stream'[c])
  BY <1>7, QuieterItself, QuieterNothing
<1> QED BY <1>1, <1>2, <1>4, <1>5, <1>6, <1>7, <1>8

\* The end an acceptor waits on.
LEMMA AwaitedFacts ==
    ASSUME HInv, NEW n \in Node, acceptor[n].pc = "waiting"
    PROVE  /\ acceptor[n].end \in End /\ acceptor[n].end.conn \in dialled
           /\ acceptor[n].end.conn \in Conn /\ acceptor[n].end = InEnd(acceptor[n].end.conn)
           /\ IndexOfEnd(n, acceptor[n].end) \in DOMAIN entries[n]
           /\ entries[n][IndexOfEnd(n, acceptor[n].end)].end = acceptor[n].end
           /\ ~entries[n][IndexOfEnd(n, acceptor[n].end)].known
           /\ entries[n][IndexOfEnd(n, acceptor[n].end)].deaf
           /\ \A j \in DOMAIN entries[n] : entries[n][j].end = acceptor[n].end
                    => j = IndexOfEnd(n, acceptor[n].end)
<1> USE DEF HInv
<1>1. PICK e \in End : e = acceptor[n].end
  BY AcceptorFacts DEF TypeOK
<1>2. PICK i \in DOMAIN entries[n] :
        entries[n][i].end = e /\ ~entries[n][i].known /\ entries[n][i].deaf
  BY <1>1 DEF AcceptorAt, WaitsIn
<1>3. entries[n] \in Seq(Entry)
  BY DEF TypeOK
<1>4. IndexOfEnd(n, e) \in DOMAIN entries[n] /\ entries[n][IndexOfEnd(n, e)].end = e
  BY <1>2, <1>3, IndexOfEndFacts
<1>5. \A j \in DOMAIN entries[n] : entries[n][j].end = e => j = i
  BY <1>2 DEF Once, OnceIn
<1>6. e.conn \in dialled /\ e.side # "out"
  BY <1>2 DEF Ends, Placed
<1>7. e.conn \in Conn /\ e = InEnd(e.conn)
  BY <1>6, EndFacts
<1> QED BY <1>1, <1>2, <1>4, <1>5, <1>6, <1>7

\* What changing an entry does.
LEMMA SetFacts ==
    ASSUME TypeOK, NEW n \in Node, NEW i \in DOMAIN entries[n], NEW x \in Entry,
           x.end = entries[n][i].end, entries[n][i].known => x.known,
           entries' = [entries EXCEPT ![n] = [entries[n] EXCEPT ![i] = x]]
    PROVE  /\ entries' \in [Node -> Seq(Entry)]
           /\ \A m \in Node \ {n} : entries'[m] = entries[m]
           /\ From(entries[n], entries'[n]) /\ Lasts(entries[n], entries'[n])
           /\ DOMAIN entries'[n] = DOMAIN entries[n] /\ entries'[n][i] = x
           /\ \A j \in DOMAIN entries[n] : j # i => entries'[n][j] = entries[n][j]
           /\ WaitsOn(entries[n], entries'[n], x.end)
<1>1. PICK s \in Seq(Entry) : s = entries[n]
  BY DEF TypeOK
<1>2. i \in DOMAIN s /\ x.end = s[i].end /\ (s[i].known => x.known)
  BY <1>1
<1> DEFINE t == [s EXCEPT ![i] = x]
<1>3. /\ t \in Seq(Entry) /\ Len(t) = Len(s) /\ t[i] = x
      /\ \A j \in DOMAIN s : j # i => t[j] = s[j]
      /\ From(s, t) /\ Lasts(s, t)
      /\ \A a : WaitsIn(s, a) /\ a.end # x.end => WaitsIn(t, a)
  <2>1. LET u == [s EXCEPT ![i] = x]
        IN  /\ u \in Seq(Entry) /\ Len(u) = Len(s) /\ u[i] = x
            /\ \A j \in DOMAIN s : j # i => u[j] = s[j]
            /\ From(s, u) /\ Lasts(s, u)
            /\ \A a : WaitsIn(s, a) /\ a.end # x.end => WaitsIn(u, a)
    BY <1>2, FromSet
  <2> QED BY <2>1
<1>4. DOMAIN t = DOMAIN s
  OBVIOUS
<1>5. entries \in [Node -> Seq(Entry)] /\ entries' = [entries EXCEPT ![n] = t]
  BY <1>1 DEF TypeOK
<1> HIDE DEF t
<1>6. /\ entries' \in [Node -> Seq(Entry)] /\ entries'[n] = t
      /\ \A m \in Node \ {n} : entries'[m] = entries[m]
  BY <1>3, <1>5
<1>7. WaitsOn(s, t, x.end)
  BY <1>3 DEF WaitsOn
<1> QED BY <1>1, <1>3, <1>4, <1>6, <1>7

LEMMA EntryChanges ==
    ASSUME NEW x \in Entry
    PROVE  /\ \A b \in BOOLEAN : /\ [x EXCEPT !.deaf = b] \in Entry
                                 /\ [x EXCEPT !.deaf = b].end = x.end
                                 /\ [x EXCEPT !.deaf = b].known = x.known
           /\ [x EXCEPT !.known = TRUE] \in Entry /\ [x EXCEPT !.known = TRUE].end = x.end
           /\ [x EXCEPT !.known = TRUE].known
BY DEF Entry

-----------------------------------------------------------------------------
(***************************************************************************)
(* The steps of an acceptor that waits or has its answer.                  *)
(***************************************************************************)

LEMMA AcceptorReadsKeeps ==
    ASSUME HInv, NEW n \in Node, AcceptorReads(n)
    PROVE  HInv'
<1> USE DEF HInv
<1>1. PICK e \in End, i \in DOMAIN entries[n] :
        /\ e = acceptor[n].end /\ i = IndexOfEnd(n, e) /\ e.conn \in dialled
        /\ entries[n][i].end = e /\ ~entries[n][i].known
        /\ \A j \in DOMAIN entries[n] : entries[n][j].end = e => j = i
  BY AwaitedFacts DEF AcceptorReads
<1>2. PICK k \in 1..setting.reads :
        /\ k <= Len(stream[e])
        /\ IF Head(stream[e]).type = "INFO_ANSWER"
           THEN /\ entries' = [entries EXCEPT ![n][i].deaf = FALSE]
                /\ stream' = Consumed(e, k)
                /\ acceptor' = [acceptor EXCEPT ![n].pc = "answered"]
                /\ mishaps' = mishaps \union Swallowed(e, k)
                /\ UNCHANGED << shut, greeted >>
           ELSE /\ Removed(n, i)
                /\ acceptor' = [acceptor EXCEPT ![n] = Idle]
                /\ greeted' = Greeted(e, Head(stream[e]))
                /\ mishaps' = mishaps \union {"intruded"}
  BY <1>1 DEF AcceptorReads
<1>3. /\ acceptor[n].pc = "waiting" /\ acceptor[n] \in Acceptor
      /\ UNCHANGED << setting, alive, backlog, handler, dialled, noise >>
  BY DEF AcceptorReads, TypeOK
<1>4. acceptor[n] = [pc |-> "waiting", end |-> e]
  BY <1>1, <1>3, AcceptorFacts
<1>5. /\ Consumed(e, k) \in [End -> Seq(Message)] /\ Swallowed(e, k) \subseteq {"swallowed"}
      /\ \A c \in End : Quieter(stream[c], Consumed(e, k)[c])
  BY <1>2, ConsumedFacts
<1>6. Backlogs' /\ Growing
  BY <1>3, SameBacklogs
<1>7. PICK h \in Handler : h = handler[n]
  BY DEF TypeOK
<1>8. handler'[n] = h /\ Serving(n, h)
  BY <1>3, <1>7 DEF Serves
<1>9. entries[n] \in Seq(Entry) /\ UnknownIn(entries[n], acceptor[n])
  BY DEF TypeOK, Unknown
<1>10. CASE Head(stream[e]).type = "INFO_ANSWER"
  <2> DEFINE x == [entries[n][i] EXCEPT !.deaf = FALSE]
             a == [pc |-> "answered", end |-> e]
  <2>1. x \in Entry /\ x.end = e /\ ~x.known /\ a \in Acceptor /\ a.pc = "answered" /\ a.end = e
    <3>1. PICK y \in Entry : y = entries[n][i]
      BY <1>9
    <3>2. [y EXCEPT !.deaf = FALSE] \in Entry /\ [y EXCEPT !.deaf = FALSE].end = y.end
          /\ [y EXCEPT !.deaf = FALSE].known = y.known
      BY <3>1, EntryChanges
    <3>3. a \in Acceptor
      BY DEF Acceptor
    <3> QED BY <1>1, <3>1, <3>2, <3>3
  <2>2. /\ entries' = [entries EXCEPT ![n] = [entries[n] EXCEPT ![i] = x]]
        /\ stream' = Consumed(e, k) /\ acceptor' = [acceptor EXCEPT ![n] = a]
        /\ mishaps' = mishaps \union Swallowed(e, k) /\ UNCHANGED << shut, greeted >>
    BY <1>2, <1>4, <1>10 DEF TypeOK
  <2> HIDE DEF x, a
  <2>3. /\ entries' \in [Node -> Seq(Entry)]
        /\ \A m \in Node \ {n} : entries'[m] = entries[m]
        /\ From(entries[n], entries'[n]) /\ Lasts(entries[n], entries'[n])
    BY <1>1, <2>1, <2>2, SetFacts
  <2>4. TypeOK' /\ acceptor'[n] = a /\ \A m \in Node \ {n} : acceptor'[m] = acceptor[m]
    BY <1>3, <1>5, <2>1, <2>2, <2>3 DEF TypeOK
  <2>5. Requests' /\ StillClear
    BY <1>5, <1>6, <2>2, RequestsKept
  <2>6. UnknownIn(entries'[n], acceptor'[n]) /\ WaitsIn(entries'[n], acceptor'[n])
    <3>1. WaitsIn(entries'[n], acceptor'[n])
      BY <2>1, <2>4 DEF WaitsIn
    <3>2. a.pc # "idle" /\ a.end = acceptor[n].end /\ entries'[n] \in Seq(Entry)
      BY <1>1, <2>1, <2>3
    <3> QED BY <1>9, <2>3, <2>4, <3>1, <3>2, UnknownKept
  <2>7. Serving(n, h)'
    BY <1>6, <1>8, <2>3, <2>4, <2>5, ServingKept
  <2>8. Elsewhere(n) /\ Listing(n)
    BY <1>3, <2>3, <2>4 DEF Elsewhere, Listing
  <2> QED BY <1>6, <1>8, <2>4, <2>5, <2>6, <2>7, <2>8, StepKeeps
<1>11. CASE Head(stream[e]).type # "INFO_ANSWER"
  <2>1. /\ Removed(n, i) /\ acceptor' = [acceptor EXCEPT ![n] = Idle]
        /\ greeted' = Greeted(e, Head(stream[e])) /\ mishaps' = mishaps \union {"intruded"}
    BY <1>2, <1>11
  <2>2. /\ entries' \in [Node -> Seq(Entry)] /\ shut' \subseteq End /\ stream' \in [End -> Seq(Message)]
        /\ \A m \in Node \ {n} : entries'[m] = entries[m]
        /\ From(entries[n], entries'[n]) /\ Lasts(entries[n], entries'[n])
        /\ \A j \in DOMAIN entries'[n] :
                \E l \in DOMAIN entries[n] : l # i /\ entries'[n][j] = entries[n][l]
        /\ \A c \in End : Quieter(stream[c], stream'[c])
    BY <1>1, <2>1, RemovedFacts
  <2>3. /\ TypeOK' /\ acceptor'[n] = Idle /\ Idle.pc = "idle"
        /\ \A m \in Node \ {n} : acceptor'[m] = acceptor[m]
    BY <1>1, <1>3, <2>1, <2>2, IdleFacts DEF TypeOK, Greeted
  <2>4. Requests' /\ StillClear
    BY <1>6, <2>2, RequestsKept
  <2>5. UnknownIn(entries'[n], acceptor'[n]) /\ WaitsIn(entries'[n], acceptor'[n])
    <3>1. \A j \in DOMAIN entries'[n] : entries'[n][j].known
      BY <1>1, <1>9, <2>2 DEF UnknownIn
    <3> QED BY <2>3, <3>1 DEF UnknownIn, WaitsIn
  <2>6. Serving(n, h)'
    BY <1>6, <1>8, <2>2, <2>3, <2>4, ServingKept
  <2>7. Elsewhere(n) /\ Listing(n)
    BY <1>3, <2>2, <2>3 DEF Elsewhere, Listing
  <2> QED BY <1>6, <1>8, <2>3, <2>4, <2>5, <2>6, <2>7, StepKeeps
<1> QED BY <1>10, <1>11

LEMMA AcceptorHangsUpKeeps ==
    ASSUME HInv, NEW n \in Node, AcceptorHangsUp(n)
    PROVE  HInv'
<1> USE DEF HInv
<1>1. PICK e \in End, i \in DOMAIN entries[n] :
        /\ e = acceptor[n].end /\ i = IndexOfEnd(n, e)
        /\ entries[n][i].end = e /\ ~entries[n][i].known
        /\ \A j \in DOMAIN entries[n] : entries[n][j].end = e => j = i
  BY AwaitedFacts DEF AcceptorHangsUp
<1>2. /\ Removed(n, i) /\ acceptor' = [acceptor EXCEPT ![n] = Idle]
      /\ UNCHANGED << setting, alive, backlog, handler, dialled, greeted, mishaps, noise >>
  BY <1>1 DEF AcceptorHangsUp
<1>3. /\ entries' \in [Node -> Seq(Entry)] /\ shut' \subseteq End /\ stream' \in [End -> Seq(Message)]
      /\ \A m \in Node \ {n} : entries'[m] = entries[m]
      /\ From(entries[n], entries'[n]) /\ Lasts(entries[n], entries'[n])
      /\ \A j \in DOMAIN entries'[n] :
              \E l \in DOMAIN entries[n] : l # i /\ entries'[n][j] = entries[n][l]
      /\ \A c \in End : Quieter(stream[c], stream'[c])
  BY <1>1, <1>2, RemovedFacts
<1>4. /\ TypeOK' /\ acceptor'[n] = Idle /\ Idle.pc = "idle"
      /\ \A m \in Node \ {n} : acceptor'[m] = acceptor[m]
  BY <1>2, <1>3, IdleFacts DEF TypeOK
<1>5. Backlogs' /\ Growing
  BY <1>2, SameBacklogs
<1>6. Requests' /\ StillClear
  BY <1>3, <1>5, RequestsKept
<1>7. UnknownIn(entries'[n], acceptor'[n]) /\ WaitsIn(entries'[n], acceptor'[n])
  <2>1. UnknownIn(entries[n], acceptor[n])
    BY DEF Unknown
  <2>2. \A j \in DOMAIN entries'[n] : entries'[n][j].known
    BY <1>1, <1>3, <2>1 DEF UnknownIn
  <2> QED BY <1>4, <2>2 DEF UnknownIn, WaitsIn
<1>8. PICK h \in Handler : h = handler[n]
  BY DEF TypeOK
<1>9. handler'[n] = h /\ Serving(n, h)
  BY <1>2, <1>8 DEF Serves
<1>10. Serving(n, h)'
  BY <1>3, <1>4, <1>5, <1>6, <1>9, ServingKept
<1>11. Elsewhere(n) /\ Listing(n)
  BY <1>2, <1>3, <1>4 DEF Elsewhere, Listing
<1> QED BY <1>4, <1>5, <1>6, <1>7, <1>9, <1>10, <1>11, StepKeeps

LEMMA AcceptorUpdatesKeeps ==
    ASSUME HInv, NEW n \in Node, AcceptorUpdates(n)
    PROVE  HInv'
<1> USE DEF HInv
<1>1. PICK e \in End : e = acceptor[n].end
  BY AcceptorFacts DEF AcceptorUpdates, TypeOK
<1>2. entries[n] \in Seq(Entry) /\ acceptor \in [Node -> Acceptor]
  BY DEF TypeOK
<1>3. PICK i \in 0..Len(entries[n]) :
        /\ i = IndexOfEnd(n, e)
        /\ i # 0 => i \in DOMAIN entries[n] /\ entries[n][i].end = e
        /\ i = 0 => \A j \in DOMAIN entries[n] : entries[n][j].end # e
  BY <1>2, IndexOfEndFacts
<1>4. /\ entries' = IF i = 0 THEN entries ELSE [entries EXCEPT ![n][i].known = TRUE]
      /\ acceptor' = [acceptor EXCEPT ![n] = Idle]
      /\ UNCHANGED << setting, alive, backlog, stream, shut, handler, dialled, greeted, mishaps, noise >>
  BY <1>1, <1>3 DEF AcceptorUpdates
<1>5. \A j \in DOMAIN entries[n] : ~entries[n][j].known => j = i
  <2>1. UnknownIn(entries[n], acceptor[n]) /\ OnceIn(entries[n])
    BY DEF Unknown, Once
  <2> QED BY <1>1, <1>3, <2>1 DEF UnknownIn, OnceIn
<1>6. /\ entries' \in [Node -> Seq(Entry)]
      /\ \A m \in Node \ {n} : entries'[m] = entries[m]
      /\ From(entries[n], entries'[n]) /\ Lasts(entries[n], entries'[n])
      /\ \A j \in DOMAIN entries'[n] : entries'[n][j].known
  <2>1. CASE i = 0
    <3>1. entries' = entries /\ From(entries[n], entries[n]) /\ Lasts(entries[n], entries[n])
      BY <1>2, <1>4, <2>1, FromItself
    <3>2. \A j \in DOMAIN entries[n] : entries[n][j].known
      BY <1>5, <2>1, <1>2
    <3> QED BY <3>1, <3>2 DEF TypeOK
  <2>2. CASE i # 0
    <3> DEFINE x == [entries[n][i] EXCEPT !.known = TRUE]
    <3>1. /\ x \in Entry /\ x.end = entries[n][i].end /\ x.known
          /\ i \in DOMAIN entries[n]
      BY <1>2, <1>3, <2>2, EntryChanges
    <3>2. entries' = [entries EXCEPT ![n] = [entries[n] EXCEPT ![i] = x]]
      BY <1>4, <2>2
    <3> HIDE DEF x
    <3>3. /\ entries' \in [Node -> Seq(Entry)]
          /\ \A m \in Node \ {n} : entries'[m] = entries[m]
          /\ From(entries[n], entries'[n]) /\ Lasts(entries[n], entries'[n])
          /\ DOMAIN entries'[n] = DOMAIN entries[n] /\ entries'[n][i] = x
          /\ \A j \in DOMAIN entries[n] : j # i => entries'[n][j] = entries[n][j]
      BY <3>1, <3>2, SetFacts
    <3> QED BY <1>5, <3>1, <3>3
  <2> QED BY <2>1, <2>2
<1>7. /\ TypeOK' /\ acceptor'[n] = Idle /\ Idle.pc = "idle"
      /\ \A m \in Node \ {n} : acceptor'[m] = acceptor[m]
  BY <1>2, <1>4, <1>6, IdleFacts DEF TypeOK
<1>8. Backlogs' /\ Growing
  BY <1>4, SameBacklogs
<1>9. Requests' /\ StillClear
  BY <1>4, <1>8, QuieterItself, RequestsKept
<1>10. UnknownIn(entries'[n], acceptor'[n]) /\ WaitsIn(entries'[n], acceptor'[n])
  BY <1>6, <1>7 DEF UnknownIn, WaitsIn
<1>11. PICK h \in Handler : h = handler[n]
  BY DEF TypeOK
<1>12. handler'[n] = h /\ Serving(n, h)
  BY <1>4, <1>11 DEF Serves
<1>13. Serving(n, h)'
  BY <1>6, <1>7, <1>8, <1>9, <1>12, ServingKept
<1>14. Elsewhere(n) /\ Listing(n)
  BY <1>4, <1>6, <1>7 DEF Elsewhere, Listing
<1> QED BY <1>7, <1>8, <1>9, <1>10, <1>12, <1>13, <1>14, StepKeeps

-----------------------------------------------------------------------------
(***************************************************************************)
(* The steps of a message handler.                                         *)
(***************************************************************************)

\* The peers that are listed are nodes.
LEMMA ListedType ==
    ASSUME TypeOK, NEW n \in Node, NEW p
    PROVE  [type |-> "LIST_ANSWER", list |-> Listed(n, p)] \in Message
<1> DEFINE f == [i \in 1..Len(entries[n]) |->
                    LET x == entries[n][i]
                    IN  IF x.known /\ PeerOf(x) # p THEN << PeerOf(x).node >> ELSE << >>]
<1>1. entries[n] \in Seq(Entry) /\ Len(entries[n]) \in Nat
  BY DEF TypeOK
<1>2. \A i \in 1..Len(entries[n]) : PeerOf(entries[n][i]).node \in Node
  <2>1. \A x \in Entry : PeerOf(x).node \in Node
    BY EntryFacts DEF Peer
  <2> QED BY <1>1, <2>1
<1>3. f \in Seq(Seq(Node))
  <2>1. << >> \in Seq(Node) /\ \A m \in Node : << m >> \in Seq(Node)
    OBVIOUS
  <2>2. \A i \in 1..Len(entries[n]) : f[i] \in Seq(Node)
    BY <1>2, <2>1
  <2>3. PICK Z : Z = Seq(Node)
    OBVIOUS
  <2>4. \A i \in 1..Len(entries[n]) : f[i] \in Z
    BY <2>2, <2>3
  <2>5. f \in [1..Len(entries[n]) -> Z]
    BY <2>4
  <2> HIDE DEF f
  <2>6. f \in Seq(Z)
    <3>1. PICK N \in Nat : N = Len(entries[n])
      BY <1>1
    <3>2. f \in [1..N -> Z]
      BY <2>5, <3>1
    <3> QED BY <3>2
  <2> QED BY <2>3, <2>6
<1>4. Listed(n, p) = FlattenSeq(f)
  BY DEF Listed
<1> HIDE DEF f
<1>5. Listed(n, p) \in Seq(Node)
  BY <1>3, <1>4, FlattenType
<1> QED BY <1>5, MessageFacts

\* The first entry of the peer a handler serves, if there is one.
LEMMA IndexType ==
    ASSUME TypeOK, NEW n \in Node, NEW p
    PROVE  /\ Index(n, p) \in 0..Len(entries[n]) /\ entries[n] \in Seq(Entry)
           /\ NamedIn(entries[n], p) => Index(n, p) \in DOMAIN entries[n]
                                        /\ PeerOf(entries[n][Index(n, p)]) = p
BY IndexFacts DEF TypeOK, NamedIn

LEMMA HandlerReadsKeeps ==
    ASSUME HInv, NEW n \in Node, NEW i \in DOMAIN entries[n], HandlerReads(n, i)
    PROVE  HInv'
<1> USE DEF HInv
<1>1. PICK x \in Entry : x = entries[n][i]
  BY DEF TypeOK
<1>2. PICK e \in End : e = x.end
  BY <1>1, EntryFacts
<1>3. PICK k \in 1..setting.reads :
        /\ k <= Len(stream[e])
        /\ handler' = [handler EXCEPT ![n] =
                [pc |-> "processing", end |-> e, peer |-> PeerOf(x), msg |-> Head(stream[e])]]
        /\ stream' = Consumed(e, k) /\ mishaps' = mishaps \union Swallowed(e, k)
        /\ UNCHANGED << setting, alive, entries, backlog, shut, acceptor, dialled, greeted, noise >>
  BY <1>1, <1>2 DEF HandlerReads
<1>4. /\ Consumed(e, k) \in [End -> Seq(Message)]
      /\ Head(stream[e]) \in Message /\ Head(stream[e]) = stream[e][1] /\ 1 \in DOMAIN stream[e]
      /\ Swallowed(e, k) \subseteq {"swallowed"}
      /\ \A c \in End : Quieter(stream[c], Consumed(e, k)[c])
      /\ Single(stream[e]) /\ Head(stream[e]).type = "INFO_REQUEST"
                => Quiet(Consumed(e, k)[e], {"INFO_REQUEST"})
  BY <1>3, ConsumedFacts
<1>5. PICK m \in Message : m = Head(stream[e])
  BY <1>4
<1>6. PICK p \in Peer : p = PeerOf(x)
  BY EntryFacts
<1>7. p.node = Owner(Far(e)) /\ p.known = x.known
  BY <1>2, <1>6, EntryFacts
<1> DEFINE h == [pc |-> "processing", end |-> e, peer |-> p, msg |-> m]
<1>8. h \in Handler /\ h.pc = "processing" /\ h.end = e /\ h.peer = p /\ h.msg = m
  BY DEF Handler
<1>9. handler' = [handler EXCEPT ![n] = h]
  BY <1>3, <1>5, <1>6
<1> HIDE DEF h
<1>10. /\ handler' \in [Node -> Handler] /\ handler'[n] = h
       /\ \A o \in Node \ {n} : handler'[o] = handler[o]
  BY <1>8, <1>9 DEF TypeOK
<1>11. TypeOK'
  BY <1>3, <1>4, <1>10 DEF TypeOK
<1>12. Backlogs' /\ Growing
  BY <1>3, SameBacklogs
<1>13. Requests' /\ StillClear
  BY <1>3, <1>4, <1>12, RequestsKept
<1>14. Placed(n, x)
  BY <1>1 DEF Ends
<1>15. Owner(e) = n /\ e.conn \in dialled' /\ (e.side = "in" => ~Pending(e.conn)')
  BY <1>2, <1>12, <1>14 DEF Placed, Growing
<1>16. ASSUME m.type = "INFO_REQUEST"
       PROVE  e.side = "out" /\ p.known /\ NamedIn(entries[n], p)' /\ Clear(e.conn)'
  <2>1. e.conn \in Conn /\ (e.side = "out" => e = OutEnd(e.conn)) /\ (e.side = "in" => e = InEnd(e.conn))
        /\ e.side \in {"in", "out"}
    BY EndFacts
  <2>2. ~Quiet(stream[e], {"INFO_REQUEST"})
    BY <1>4, <1>5, <1>16 DEF Quiet
  <2>3. e.side = "out" /\ e = OutEnd(e.conn)
    BY <2>1, <2>2 DEF Requests
  <2>4. e.conn \in dialled /\ ~Pending(e.conn) /\ Single(stream[e])
    BY <2>1, <2>2, <2>3 DEF Requests
  <2>5. Quiet(stream'[OutEnd(e.conn)], {"INFO_REQUEST"})
    BY <1>3, <1>4, <1>5, <1>16, <2>3, <2>4
  <2>6. Clear(e.conn)'
    BY <1>12, <2>4, <2>5 DEF Clear, Growing
  <2>7. p.known
    BY <1>2, <1>7, <1>14, <2>3 DEF Placed
  <2>8. entries' = entries /\ PeerOf(entries[n][i]) = p
    BY <1>1, <1>3, <1>6
  <2>9. NamedIn(entries[n], p)'
    BY <2>8 DEF NamedIn
  <2> QED BY <2>3, <2>6, <2>7, <2>9
<1>17. Serving(n, h)'
  BY <1>7, <1>8, <1>15, <1>16 DEF Serving
<1>18. entries'[n] = entries[n] /\ acceptor'[n] = acceptor[n] /\ Elsewhere(n)
  BY <1>3, <1>10 DEF Elsewhere
<1>19. Listing(n)
  BY <1>18, FromItself DEF Listing, TypeOK
<1>20. UnknownIn(entries'[n], acceptor'[n]) /\ WaitsIn(entries'[n], acceptor'[n])
  BY <1>18 DEF Unknown, AcceptorAt
<1> QED BY <1>8, <1>10, <1>11, <1>12, <1>13, <1>17, <1>18, <1>19, <1>20, StepKeeps

LEMMA HandlerDropsKeeps ==
    ASSUME HInv, NEW n \in Node, NEW i \in DOMAIN entries[n], HandlerDrops(n, i)
    PROVE  HInv'
<1> USE DEF HInv
<1>1. /\ Removed(n, i) /\ ~entries[n][i].deaf /\ handler[n] = Idle
      /\ UNCHANGED << setting, alive, backlog, acceptor, handler, dialled, greeted, mishaps, noise >>
  BY DEF HandlerDrops
<1>2. /\ entries' \in [Node -> Seq(Entry)] /\ shut' \subseteq End /\ stream' \in [End -> Seq(Message)]
      /\ \A m \in Node \ {n} : entries'[m] = entries[m]
      /\ From(entries[n], entries'[n])
      /\ \A j \in DOMAIN entries[n] : j # i =>
              \E k \in DOMAIN entries'[n] : entries'[n][k] = entries[n][j]
      /\ \A c \in End : Quieter(stream[c], stream'[c])
  BY <1>1, RemovedFacts
<1>3. TypeOK'
  BY <1>1, <1>2 DEF TypeOK
<1>4. Backlogs' /\ Growing
  BY <1>1, SameBacklogs
<1>5. Requests' /\ StillClear
  BY <1>2, <1>4, RequestsKept
<1>6. UnknownIn(entries'[n], acceptor'[n]) /\ WaitsIn(entries'[n], acceptor'[n])
  <2>1. UnknownIn(entries[n], acceptor[n]) /\ WaitsIn(entries[n], acceptor[n])
        /\ acceptor'[n] = acceptor[n] /\ entries[n] \in Seq(Entry) /\ entries'[n] \in Seq(Entry)
    BY <1>1, <1>2 DEF Unknown, AcceptorAt, TypeOK
  <2>2. UnknownIn(entries'[n], acceptor'[n])
    BY <1>2, <2>1, UnknownKept
  <2>3. WaitsIn(entries'[n], acceptor'[n])
    BY <1>1, <1>2, <2>1 DEF WaitsIn
  <2> QED BY <2>2, <2>3
<1>7. Idle \in Handler /\ handler'[n] = Idle /\ Serving(n, Idle)'
  BY <1>1, IdleFacts DEF Serving
<1>8. Elsewhere(n) /\ Listing(n)
  BY <1>1, <1>2 DEF Elsewhere, Listing
<1> QED BY <1>3, <1>4, <1>5, <1>6, <1>7, <1>8, StepKeeps

LEMMA HandlerHangsUpKeeps ==
    ASSUME HInv, NEW n \in Node, HandlerHangsUp(n)
    PROVE  HInv'
<1> USE DEF HInv
<1>1. /\ handler' = [handler EXCEPT ![n] = Idle]
      /\ UNCHANGED << setting, alive, entries, backlog, stream, shut, acceptor, dialled, greeted,
                      mishaps, noise >>
  BY DEF HandlerHangsUp
<1>2. TypeOK' /\ handler'[n] = Idle /\ Elsewhere(n)
  BY <1>1, IdleFacts DEF TypeOK, Elsewhere
<1>3. Backlogs' /\ Growing
  BY <1>1, SameBacklogs
<1>4. Requests' /\ StillClear
  BY <1>1, <1>3, QuieterItself, RequestsKept
<1>5. Listing(n)
  BY <1>1, FromItself DEF Listing, TypeOK
<1>6. UnknownIn(entries'[n], acceptor'[n]) /\ WaitsIn(entries'[n], acceptor'[n])
  BY <1>1 DEF Unknown, AcceptorAt
<1>7. Idle \in Handler /\ Serving(n, Idle)'
  BY IdleFacts DEF Serving
<1> QED BY <1>2, <1>3, <1>4, <1>5, <1>6, <1>7, StepKeeps

LEMMA HandlerProcessesKeeps ==
    ASSUME HInv, NEW n \in Node, HandlerProcesses(n)
    PROVE  HInv'
<1> USE DEF HInv
<1>1. PICK h \in Handler : h = handler[n]
  BY DEF TypeOK
<1>2. PICK i \in 0..Len(entries[n]) : i = Index(n, h.peer)
  BY IndexType
<1>3. /\ h.pc = "processing"
      /\ \/ /\ h.msg.type = "INFO_REQUEST"
            /\ stream' = Written(stream, n, i, Plain("INFO_ANSWER"))
            /\ handler' = [handler EXCEPT ![n] = [pc |-> "asking", peer |-> h.peer]]
            /\ UNCHANGED << greeted, mishaps >>
         \/ /\ h.msg.type = "LIST_REQUEST"
            /\ stream' = Written(stream, n, i,
                  [type |-> "LIST_ANSWER", list |-> Listed(n, h.peer)])
            /\ handler' = [handler EXCEPT ![n] = Idle]
            /\ mishaps' = mishaps
                  \union (IF i = 0 THEN {"renamed"} ELSE {})
                  \union (IF acceptor[n] = [pc |-> "answered", end |-> h.end]
                          THEN {"early"} ELSE {})
            /\ UNCHANGED greeted
         \/ /\ h.msg.type \notin {"INFO_REQUEST", "LIST_REQUEST"}
            /\ greeted' = Greeted(h.end, h.msg)
            /\ handler' = [handler EXCEPT ![n] = Idle]
            /\ UNCHANGED << stream, mishaps >>
      /\ UNCHANGED << setting, alive, entries, backlog, shut, acceptor, dialled, noise >>
  BY <1>1, <1>2 DEF HandlerProcesses
<1>4. /\ stream \in [End -> Seq(Message)] /\ entries[n] \in Seq(Entry)
      /\ handler \in [Node -> Handler] /\ greeted \subseteq {c \in End : c.conn \in dialled}
  BY DEF TypeOK
<1>5. Serving(n, h)
  BY <1>1 DEF Serves
<1>6. /\ stream' \in [End -> Seq(Message)]
      /\ \A e \in End : Quieter(stream[e], stream'[e])
  <2>1. PICK m \in Message : m = Plain("INFO_ANSWER") /\ m.type # "INFO_REQUEST"
    BY MessageFacts
  <2>2. PICK l \in Message : l = [type |-> "LIST_ANSWER", list |-> Listed(n, h.peer)]
    BY ListedType
  <2>3. l.type # "INFO_REQUEST"
    BY <2>2
  <2>4. /\ Written(stream, n, i, m) \in [End -> Seq(Message)]
        /\ \A e \in End : Quieter(stream[e], Written(stream, n, i, m)[e])
    BY <1>4, <2>1, WrittenFacts
  <2>5. /\ Written(stream, n, i, l) \in [End -> Seq(Message)]
        /\ \A e \in End : Quieter(stream[e], Written(stream, n, i, l)[e])
    BY <1>4, <2>3, WrittenFacts
  <2>6. stream' = Written(stream, n, i, m) \/ stream' = Written(stream, n, i, l) \/ stream' = stream
    BY <1>3, <2>1, <2>2
  <2> QED BY <1>4, <2>4, <2>5, <2>6, QuieterItself
<1>7. \E g \in Handler :
        /\ handler' = [handler EXCEPT ![n] = g]
        /\ \/ g = Idle
           \/ h.msg.type = "INFO_REQUEST" /\ g.pc = "asking" /\ g.peer = h.peer
  <2>1. h.peer \in Peer
    BY <1>3, HandlerFacts
  <2>2. [pc |-> "asking", peer |-> h.peer] \in Handler
    BY <2>1 DEF Handler
  <2> QED BY <1>3, <2>2, IdleFacts
<1>8. PICK g \in Handler :
        /\ handler' = [handler EXCEPT ![n] = g]
        /\ \/ g = Idle
           \/ h.msg.type = "INFO_REQUEST" /\ g.pc = "asking" /\ g.peer = h.peer
  BY <1>7
<1>9. greeted' \subseteq {c \in End : c.conn \in dialled}
  <2>1. h.end \in End /\ h.end.conn \in dialled
    BY <1>3, <1>5, HandlerFacts DEF Serving
  <2> QED BY <1>3, <1>4, <2>1 DEF Greeted
<1>10. mishaps' \subseteq {"swallowed", "intruded", "renamed", "early"}
  BY <1>3 DEF TypeOK
<1>11. TypeOK' /\ handler'[n] = g /\ Elsewhere(n)
  BY <1>3, <1>4, <1>6, <1>8, <1>9, <1>10 DEF TypeOK, Elsewhere
<1>12. Backlogs' /\ Growing
  BY <1>3, SameBacklogs
<1>13. Requests' /\ StillClear
  BY <1>6, <1>12, RequestsKept
<1>14. Serving(n, g)'
  <2>1. CASE g = Idle
    BY <2>1, IdleFacts DEF Serving
  <2>2. CASE h.msg.type = "INFO_REQUEST" /\ g.pc = "asking" /\ g.peer = h.peer
    <3>1. /\ Owner(h.end) = n /\ h.peer.node = Owner(Far(h.end)) /\ h.end.side = "out"
          /\ h.peer.known /\ NamedIn(entries[n], h.peer) /\ Clear(h.end.conn)
      BY <1>3, <1>5, <2>2 DEF Serving
    <3>2. h.end.conn = << n, h.peer.node >> /\ h.end.conn \in Conn
      BY <1>3, <3>1, HandlerFacts, EndFacts
    <3>3. Clear(<< n, g.peer.node >>)'
      BY <1>13, <2>2, <3>1, <3>2 DEF StillClear
    <3>4. NamedIn(entries[n], g.peer)'
      BY <1>3, <2>2, <3>1 DEF NamedIn
    <3> QED BY <2>2, <3>1, <3>3, <3>4 DEF Serving
  <2> QED BY <1>8, <2>1, <2>2
<1>15. entries'[n] = entries[n] /\ acceptor'[n] = acceptor[n]
  BY <1>3
<1>16. Listing(n)
  BY <1>15, FromItself DEF Listing, TypeOK
<1>17. UnknownIn(entries'[n], acceptor'[n]) /\ WaitsIn(entries'[n], acceptor'[n])
  BY <1>15 DEF Unknown, AcceptorAt
<1> QED BY <1>11, <1>12, <1>13, <1>14, <1>16, <1>17, StepKeeps

LEMMA HandlerAsksKeeps ==
    ASSUME HInv, NEW n \in Node, HandlerAsks(n)
    PROVE  HInv'
<1> USE DEF HInv
<1>1. PICK h \in Handler : h = handler[n]
  BY DEF TypeOK
<1>2. h.pc = "asking" /\ Serving(n, h) /\ h.peer \in Peer
  BY <1>1, HandlerFacts DEF HandlerAsks, Serves
<1>3. PICK p \in Peer : p = h.peer
  BY <1>2
<1>4. p.known /\ NamedIn(entries[n], p) /\ Clear(<< n, p.node >>)
  BY <1>2, <1>3 DEF Serving
<1>5. PICK i \in DOMAIN entries[n] : i = Index(n, p) /\ PeerOf(entries[n][i]) = p
  BY <1>4, IndexType
<1>6. PICK y \in Entry : y = entries[n][i]
  BY DEF TypeOK
<1>7. PICK e \in End : e = y.end
  BY EntryFacts
<1>8. y.known /\ Owner(Far(e)) = p.node /\ PeerOf(y) = p
  BY <1>4, <1>5, <1>6, <1>7, EntryFacts
<1> DEFINE x == [y EXCEPT !.deaf = TRUE]
           g == [pc |-> "waiting", end |-> e, peer |-> p]
<1>9. x \in Entry /\ x.end = e /\ x.known
  <2>1. [y EXCEPT !.deaf = TRUE] \in Entry /\ [y EXCEPT !.deaf = TRUE].end = y.end
        /\ [y EXCEPT !.deaf = TRUE].known = y.known
    BY EntryChanges
  <2> QED BY <1>7, <1>8, <2>1
<1>10. g \in Handler /\ g.pc = "waiting" /\ g.end = e /\ g.peer = p
  BY DEF Handler
<1>11. /\ stream' = Written(stream, n, i, Plain("LIST_REQUEST"))
       /\ entries' = [entries EXCEPT ![n] = [entries[n] EXCEPT ![i] = x]]
       /\ handler' = [handler EXCEPT ![n] = g]
       /\ UNCHANGED << setting, alive, backlog, shut, acceptor, dialled, greeted, mishaps, noise >>
  BY <1>1, <1>3, <1>5, <1>6, <1>7 DEF HandlerAsks, TypeOK
<1> HIDE DEF x, g
<1>12. /\ entries' \in [Node -> Seq(Entry)]
       /\ \A m \in Node \ {n} : entries'[m] = entries[m]
       /\ From(entries[n], entries'[n]) /\ Lasts(entries[n], entries'[n])
       /\ DOMAIN entries'[n] = DOMAIN entries[n] /\ entries'[n][i] = x
       /\ WaitsOn(entries[n], entries'[n], x.end)
  <2>1. x.end = entries[n][i].end /\ (entries[n][i].known => x.known)
    BY <1>6, <1>7, <1>9
  <2>2. TypeOK
    OBVIOUS
  <2> QED BY <1>9, <1>11, <2>1, <2>2, SetFacts
<1>13. /\ stream' \in [End -> Seq(Message)]
       /\ \A c \in End : Quieter(stream[c], stream'[c])
  <2>1. PICK m \in Message : m = Plain("LIST_REQUEST") /\ m.type # "INFO_REQUEST"
    BY MessageFacts
  <2>2. i \in 0..Len(entries[n]) /\ entries[n] \in Seq(Entry) /\ stream \in [End -> Seq(Message)]
    BY DEF TypeOK
  <2>3. /\ Written(stream, n, i, m) \in [End -> Seq(Message)]
        /\ \A c \in End : Quieter(stream[c], Written(stream, n, i, m)[c])
    BY <2>1, <2>2, WrittenFacts
  <2> QED BY <1>11, <2>1, <2>3
<1>14. TypeOK' /\ handler'[n] = g /\ Elsewhere(n)
  BY <1>10, <1>11, <1>12, <1>13 DEF TypeOK, Elsewhere
<1>15. Backlogs' /\ Growing
  BY <1>11, SameBacklogs
<1>16. Requests' /\ StillClear
  BY <1>13, <1>15, RequestsKept
<1>17. Serving(n, g)'
  <2>1. ASSUME e.side = "out" PROVE Clear(e.conn)'
    <3>1. Owner(e) = n
      BY <1>6, <1>7 DEF Ends, Placed
    <3>2. e.conn = << n, p.node >> /\ e.conn \in Conn
      BY <1>8, <2>1, <3>1, EndFacts
    <3> QED BY <1>4, <1>16, <3>2 DEF StillClear
  <2>2. PeerOf(x) = p
    BY <1>7, <1>8, <1>9, EntryFacts
  <2>3. \E j \in DOMAIN entries'[n] : entries'[n][j].end = e /\ PeerOf(entries'[n][j]) = p
    BY <1>9, <1>12, <2>2
  <2> QED BY <1>4, <1>10, <2>1, <2>3 DEF Serving
<1>18. UnknownIn(entries'[n], acceptor'[n]) /\ WaitsIn(entries'[n], acceptor'[n])
  <2>1. UnknownIn(entries[n], acceptor[n]) /\ WaitsIn(entries[n], acceptor[n])
        /\ acceptor'[n] = acceptor[n] /\ entries[n] \in Seq(Entry) /\ entries'[n] \in Seq(Entry)
    BY <1>11, <1>12 DEF Unknown, AcceptorAt, TypeOK
  <2>2. UnknownIn(entries'[n], acceptor'[n])
    BY <1>12, <2>1, UnknownKept
  <2>3. acceptor[n].pc = "waiting" => acceptor[n].end # e
    BY <1>6, <1>7, <1>8, AwaitedFacts
  <2>4. acceptor[n].pc # "waiting" => WaitsIn(entries'[n], acceptor[n])
    BY DEF WaitsIn
  <2> QED BY <1>9, <1>12, <2>1, <2>2, <2>3, <2>4 DEF WaitsOn
<1>19. Listing(n)
  BY <1>12 DEF Listing
<1> QED BY <1>10, <1>14, <1>15, <1>16, <1>17, <1>18, <1>19, StepKeeps

LEMMA HandlerHearsKeeps ==
    ASSUME HInv, NEW n \in Node, HandlerHears(n)
    PROVE  HInv'
<1> USE DEF HInv
<1>1. PICK h \in Handler : h = handler[n]
  BY DEF TypeOK
<1>2. h.pc = "waiting" /\ Serving(n, h) /\ h.end \in End /\ h.peer \in Peer
  BY <1>1, HandlerFacts DEF HandlerHears, Serves
<1>3. PICK e \in End, p \in Peer : e = h.end /\ p = h.peer
  BY <1>2
<1>4. /\ p.known
      /\ \E j \in DOMAIN entries[n] : entries[n][j].end = e /\ PeerOf(entries[n][j]) = p
  BY <1>2, <1>3 DEF Serving
<1>5. PICK i \in DOMAIN entries[n] :
        i = IndexOfEnd(n, e) /\ entries[n][i].end = e /\ PeerOf(entries[n][i]) = p
  <2>1. entries[n] \in Seq(Entry) /\ OnceIn(entries[n])
    BY DEF TypeOK, Once
  <2> QED BY <1>4, <2>1, IndexOfEndFacts DEF OnceIn
<1>6. PICK y \in Entry : y = entries[n][i]
  BY DEF TypeOK
<1>7. y.end = e /\ y.known /\ Owner(Far(e)) = p.node /\ e.conn \in dialled
  BY <1>4, <1>5, <1>6, EntryFacts DEF Ends, Placed
<1> DEFINE x == [y EXCEPT !.deaf = FALSE]
           l == [type |-> "LIST_ANSWER", list |-> Listed(n, p)]
<1>8. x \in Entry /\ x.end = e /\ x.known
  <2>1. [y EXCEPT !.deaf = FALSE] \in Entry /\ [y EXCEPT !.deaf = FALSE].end = y.end
        /\ [y EXCEPT !.deaf = FALSE].known = y.known
    BY EntryChanges
  <2> QED BY <1>7, <2>1
<1>9. PICK k \in 1..setting.reads :
        /\ k <= Len(stream[e])
        /\ entries' = [entries EXCEPT ![n] = [entries[n] EXCEPT ![i] = x]]
        /\ \/ /\ Head(stream[e]).type = "LIST_ANSWER"
              /\ handler' = [handler EXCEPT ![n] =
                        [pc |-> "joining", peer |-> p, list |-> Head(stream[e]).list]]
              /\ stream' = Consumed(e, k) /\ mishaps' = mishaps \union Swallowed(e, k)
              /\ UNCHANGED greeted
           \/ /\ handler' = [handler EXCEPT ![n] = Idle]
              /\ stream' = Consumed(e, k) \/ stream' = Written(Consumed(e, k), n, Index(n, p), l)
              /\ greeted' = Greeted(e, Head(stream[e])) /\ mishaps' = mishaps \union {"intruded"}
  <2>1. PICK k \in 1..setting.reads :
            /\ k <= Len(stream[e])
            /\ entries' = [entries EXCEPT ![n][i].deaf = FALSE]
            /\ LET msg == Head(stream[e])
               IN  IF msg.type = "LIST_ANSWER"
                   THEN /\ handler' = [handler EXCEPT ![n] =
                              [pc |-> "joining", peer |-> p, list |-> msg.list]]
                        /\ stream' = Consumed(e, k)
                        /\ mishaps' = mishaps \union Swallowed(e, k)
                        /\ UNCHANGED greeted
                   ELSE /\ handler' = [handler EXCEPT ![n] = Idle]
                        /\ stream' = IF msg.type # "LIST_REQUEST" THEN Consumed(e, k)
                              ELSE Written(Consumed(e, k), n, Index(n, p), l)
                        /\ greeted' = Greeted(e, msg)
                        /\ mishaps' = mishaps \union {"intruded"}
    BY <1>1, <1>3, <1>5 DEF HandlerHears
  <2>2. entries' = [entries EXCEPT ![n] = [entries[n] EXCEPT ![i] = x]]
    BY <1>6, <2>1 DEF TypeOK
  <2> HIDE DEF x, l
  <2> QED BY <2>1, <2>2
<1>10. UNCHANGED << setting, alive, backlog, shut, acceptor, dialled, noise >>
  BY DEF HandlerHears
<1>11. l \in Message /\ l.type # "INFO_REQUEST"
  BY ListedType
<1> HIDE DEF x, l
<1>12. /\ Consumed(e, k) \in [End -> Seq(Message)] /\ Head(stream[e]) \in Message
       /\ Swallowed(e, k) \subseteq {"swallowed"}
       /\ \A c \in End : Quieter(stream[c], Consumed(e, k)[c])
  BY <1>9, ConsumedFacts
<1>13. /\ entries' \in [Node -> Seq(Entry)]
       /\ \A m \in Node \ {n} : entries'[m] = entries[m]
       /\ From(entries[n], entries'[n]) /\ Lasts(entries[n], entries'[n])
       /\ DOMAIN entries'[n] = DOMAIN entries[n] /\ entries'[n][i] = x
       /\ WaitsOn(entries[n], entries'[n], x.end)
  <2>1. x.end = entries[n][i].end /\ (entries[n][i].known => x.known)
    BY <1>6, <1>7, <1>8
  <2>2. TypeOK
    OBVIOUS
  <2> QED BY <1>8, <1>9, <2>1, <2>2, SetFacts
<1>14. /\ stream' \in [End -> Seq(Message)]
       /\ \A c \in End : Quieter(stream[c], stream'[c])
  <2>1. CASE stream' = Consumed(e, k)
    BY <1>12, <2>1
  <2>2. CASE stream' = Written(Consumed(e, k), n, Index(n, p), l)
    <3>1. PICK str \in [End -> Seq(Message)] : str = Consumed(e, k)
      BY <1>12
    <3>2. Index(n, p) \in 0..Len(entries[n]) /\ entries[n] \in Seq(Entry)
      BY IndexType
    <3>3. /\ Written(str, n, Index(n, p), l) \in [End -> Seq(Message)]
          /\ \A c \in End : Quieter(str[c], Written(str, n, Index(n, p), l)[c])
      BY <1>11, <3>2, WrittenFacts
    <3>4. \A c \in End : Quieter(stream[c], str[c])
      BY <1>12, <3>1
    <3> QED BY <2>2, <3>1, <3>3, <3>4, QuieterTwice
  <2> QED BY <1>9, <2>1, <2>2
<1>15. PICK g \in Handler :
        /\ handler' = [handler EXCEPT ![n] = g]
        /\ g = Idle \/ (g.pc = "joining" /\ g.peer = p)
  <2>1. ASSUME Head(stream[e]).type = "LIST_ANSWER"
        PROVE  [pc |-> "joining", peer |-> p, list |-> Head(stream[e]).list] \in Handler
    <3>1. Head(stream[e]).list \in Seq(Node)
      BY <1>12, <2>1, MessageFacts
    <3> QED BY <3>1 DEF Handler
  <2>2. CASE handler' = [handler EXCEPT ![n] = Idle]
    <3>1. Idle \in Handler
      BY IdleFacts
    <3> QED BY <2>2, <3>1, Zenon
  <2>3. CASE handler' # [handler EXCEPT ![n] = Idle]
    <3> DEFINE j == [pc |-> "joining", peer |-> p, list |-> Head(stream[e]).list]
    <3>1. handler' = [handler EXCEPT ![n] = j] /\ j \in Handler /\ j.pc = "joining" /\ j.peer = p
      BY <1>9, <2>1, <2>3
    <3> HIDE DEF j
    <3> QED BY <3>1
  <2> QED BY <2>2, <2>3
<1>16. greeted' \subseteq {c \in End : c.conn \in dialled} /\ mishaps' \subseteq {"swallowed", "intruded", "renamed", "early"}
  BY <1>7, <1>9, <1>12 DEF TypeOK, Greeted
<1>17. TypeOK' /\ handler'[n] = g /\ Elsewhere(n)
  BY <1>10, <1>13, <1>14, <1>15, <1>16 DEF TypeOK, Elsewhere
<1>18. Backlogs' /\ Growing
  BY <1>10, SameBacklogs
<1>19. Requests' /\ StillClear
  BY <1>14, <1>18, RequestsKept
<1>20. Serving(n, g)'
  <2>1. CASE g = Idle
    BY <2>1, IdleFacts DEF Serving
  <2>2. CASE g.pc = "joining" /\ g.peer = p
    <3>0. x.known = p.known
      BY <1>4, <1>8, EntryFacts DEF Peer
    <3>1. PeerOf(x) = p
      BY <1>7, <1>8, <3>0, EntryFacts
    <3>2. NamedIn(entries[n], p)'
      BY <1>13, <3>1 DEF NamedIn
    <3> QED BY <1>4, <2>2, <3>2 DEF Serving
  <2> QED BY <1>15, <2>1, <2>2
<1>21. UnknownIn(entries'[n], acceptor'[n]) /\ WaitsIn(entries'[n], acceptor'[n])
  <2>1. UnknownIn(entries[n], acceptor[n]) /\ WaitsIn(entries[n], acceptor[n])
        /\ acceptor'[n] = acceptor[n] /\ entries[n] \in Seq(Entry) /\ entries'[n] \in Seq(Entry)
    BY <1>10, <1>13 DEF Unknown, AcceptorAt, TypeOK
  <2>2. UnknownIn(entries'[n], acceptor'[n])
    BY <1>13, <2>1, UnknownKept
  <2>3. acceptor[n].pc = "waiting" => acceptor[n].end # e
    BY <1>5, <1>6, <1>7, AwaitedFacts
  <2>4. acceptor[n].pc # "waiting" => WaitsIn(entries'[n], acceptor[n])
    BY DEF WaitsIn
  <2> QED BY <1>8, <1>13, <2>1, <2>2, <2>3, <2>4 DEF WaitsOn
<1>22. Listing(n)
  BY <1>13 DEF Listing
<1> QED BY <1>17, <1>18, <1>19, <1>20, <1>21, <1>22, StepKeeps

LEMMA HandlerJoinsKeeps ==
    ASSUME HInv, NEW n \in Node, HandlerJoins(n)
    PROVE  HInv'
<1> USE DEF HInv
<1>1. PICK h \in Handler : h = handler[n]
  BY DEF TypeOK
<1>2. h.pc = "joining" /\ Serving(n, h) /\ h.list \in Seq(Node) /\ h.peer \in Peer
  BY <1>1, HandlerFacts DEF HandlerJoins, Serves
<1>3. PICK p \in Peer : p = h.peer /\ p.known /\ NamedIn(entries[n], p)
  BY <1>2 DEF Serving
<1>4. /\ entries[n] \in Seq(Entry) /\ acceptor[n] \in Acceptor
      /\ UnknownIn(entries[n], acceptor[n]) /\ WaitsIn(entries[n], acceptor[n])
  BY DEF TypeOK, Unknown, AcceptorAt
<1>5. CASE h.list = << >>
  <2>1. /\ stream' = Written(stream, n, Index(n, p), Plain("ACQUITED"))
        /\ handler' = [handler EXCEPT ![n] = Idle]
        /\ UNCHANGED << setting, alive, entries, backlog, shut, acceptor, dialled, greeted,
                        mishaps, noise >>
    BY <1>1, <1>3, <1>5 DEF HandlerJoins
  <2>2. /\ stream' \in [End -> Seq(Message)]
        /\ \A c \in End : Quieter(stream[c], stream'[c])
    <3>1. PICK m \in Message : m = Plain("ACQUITED") /\ m.type # "INFO_REQUEST"
      BY MessageFacts
    <3>2. Index(n, p) \in 0..Len(entries[n]) /\ stream \in [End -> Seq(Message)]
      BY IndexType DEF TypeOK
    <3>3. /\ Written(stream, n, Index(n, p), m) \in [End -> Seq(Message)]
          /\ \A c \in End : Quieter(stream[c], Written(stream, n, Index(n, p), m)[c])
      BY <1>4, <3>1, <3>2, WrittenFacts
    <3> QED BY <2>1, <3>1, <3>3
  <2>3. TypeOK' /\ handler'[n] = Idle /\ Elsewhere(n)
    BY <2>1, <2>2, IdleFacts DEF TypeOK, Elsewhere
  <2>4. Backlogs' /\ Growing
    BY <2>1, SameBacklogs
  <2>5. Requests' /\ StillClear
    BY <2>2, <2>4, RequestsKept
  <2>6. Listing(n)
    BY <1>4, <2>1, FromItself DEF Listing
  <2>7. UnknownIn(entries'[n], acceptor'[n]) /\ WaitsIn(entries'[n], acceptor'[n])
    BY <1>4, <2>1
  <2>8. Idle \in Handler /\ Serving(n, Idle)'
    BY IdleFacts DEF Serving
  <2> QED BY <2>3, <2>4, <2>5, <2>6, <2>7, <2>8, StepKeeps
<1>6. CASE h.list # << >>
  <2>1. PICK s \in Node : s = Head(h.list)
    BY <1>2, <1>6
  <2> DEFINE g == [h EXCEPT !.list = Tail(@)]
  <2>2. g \in Handler /\ g.pc = "joining" /\ g.peer = p
    <3>1. h \in [pc : {"joining"}, peer : Peer, list : Seq(Node)]
      BY <1>2 DEF Handler
    <3>2. Tail(h.list) \in Seq(Node)
      BY <1>2, <1>6, TailFacts
    <3>3. g \in [pc : {"joining"}, peer : Peer, list : Seq(Node)] /\ g.peer = h.peer
      BY <3>1, <3>2
    <3> HIDE DEF g
    <3> QED BY <1>3, <3>3 DEF Handler
  <2>3. /\ handler' = [handler EXCEPT ![n] = g]
        /\ \/ CanConnect(n, s) /\ Connected(n, s)
           \/ UNCHANGED << entries, backlog, dialled >>
        /\ UNCHANGED << setting, alive, stream, shut, acceptor, greeted, mishaps, noise >>
    BY <1>1, <1>6, <2>1 DEF HandlerJoins, TypeOK
  <2> HIDE DEF g
  <2>4. handler' \in [Node -> Handler] /\ handler'[n] = g
        /\ \A m \in Node \ {n} : handler'[m] = handler[m]
    BY <2>2, <2>3 DEF TypeOK
  <2>5. /\ entries' \in [Node -> Seq(Entry)] /\ backlog' \in [Node -> Seq(Conn)]
        /\ dialled' \subseteq Conn /\ greeted' \subseteq {c \in End : c.conn \in dialled'}
        /\ \A m \in Node \ {n} : entries'[m] = entries[m]
        /\ Growing /\ StillClear /\ Requests' /\ Backlogs' /\ Listing(n)
        /\ Lasts(entries[n], entries'[n])
        /\ UnknownIn(entries'[n], acceptor[n]) /\ WaitsIn(entries'[n], acceptor[n])
    <3>1. CASE UNCHANGED << entries, backlog, dialled >>
      <4>1. Backlogs' /\ Growing
        BY <3>1, SameBacklogs
      <4>2. Requests' /\ StillClear
        BY <2>3, <4>1, QuieterItself, RequestsKept
      <4>3. From(entries[n], entries[n]) /\ Lasts(entries[n], entries[n])
        BY <1>4, FromItself
      <4> QED BY <1>4, <2>3, <3>1, <4>1, <4>2, <4>3 DEF TypeOK, Listing
    <3>2. CASE CanConnect(n, s) /\ Connected(n, s)
      <4>1. << n, s >> \notin dialled
        BY <3>2 DEF CanConnect
      <4>2. /\ entries' \in [Node -> Seq(Entry)] /\ backlog' \in [Node -> Seq(Conn)]
            /\ dialled' \subseteq Conn /\ dialled \subseteq dialled'
            /\ \A m \in Node \ {n} : entries'[m] = entries[m]
            /\ Growing /\ StillClear /\ Requests' /\ Backlogs'
            /\ \E x \in Entry : Adds(entries[n], entries'[n], x) /\ Placed(n, x)' /\ x.known
        BY <2>3, <3>2, <4>1, ConnectedFacts
      <4>3. PICK x \in Entry : Adds(entries[n], entries'[n], x) /\ Placed(n, x)' /\ x.known
        BY <4>2
      <4>4. Lasts(entries[n], entries'[n]) /\ WaitsIn(entries'[n], acceptor[n])
        BY <1>4, <4>3, AddsFacts
      <4>5. UnknownIn(entries'[n], acceptor[n])
        <5>1. entries'[n] \in Seq(Entry)
          BY <4>2
        <5> QED BY <1>4, <4>3, <5>1, UnknownKept
      <4>6. Listing(n)
        BY <4>3 DEF Listing
      <4> QED BY <2>3, <4>2, <4>4, <4>5, <4>6 DEF TypeOK
    <3> QED BY <2>3, <3>1, <3>2
  <2>6. TypeOK' /\ Elsewhere(n) /\ acceptor'[n] = acceptor[n]
    BY <2>3, <2>4, <2>5 DEF TypeOK, Elsewhere
  <2>7. Serving(n, g)'
    <3>1. PICK i \in DOMAIN entries[n] : PeerOf(entries[n][i]) = p
      BY <1>3 DEF NamedIn
    <3>2. entries'[n] \in Seq(Entry)
      BY <2>5
    <3>3. \E j \in DOMAIN entries'[n] : PeerOf(entries'[n][j]) = p
      BY <1>3, <1>4, <2>5, <3>1, <3>2, NamedKept
    <3>4. NamedIn(entries[n], p)'
      BY <3>3 DEF NamedIn
    <3> QED BY <1>3, <2>2, <3>4 DEF Serving
  <2> QED BY <2>2, <2>4, <2>5, <2>6, <2>7, StepKeeps
<1> QED BY <1>5, <1>6

-----------------------------------------------------------------------------
(***************************************************************************)
(* The theorems.                                                           *)
(***************************************************************************)

LEMMA InitHInv == Init => HInv
<1> SUFFICES ASSUME Init PROVE HInv
  OBVIOUS
<1>1. TypeOK
  BY IdleFacts DEF Init, TypeOK
<1>2. /\ \A n \in Node : entries[n] = << >> /\ backlog[n] = << >> /\ acceptor[n] = Idle /\ handler[n] = Idle
      /\ \A e \in End : stream[e] = << >>
      /\ DOMAIN << >> = {} /\ Idle.pc = "idle"
  BY IdleFacts DEF Init
<1>3. Ends /\ Once /\ Unknown /\ AcceptorAt
  BY <1>2 DEF Ends, Once, OnceIn, Unknown, UnknownIn, AcceptorAt, WaitsIn
<1>4. Backlogs
  BY <1>2 DEF Backlogs
<1>5. Requests
  BY <1>2, ConnEnds DEF Requests, Quiet, Single
<1>6. Serves
  BY <1>2 DEF Serves, Serving
<1> QED BY <1>1, <1>3, <1>4, <1>5, <1>6 DEF HInv

LEMMA NextHInv == HInv /\ [Next]_vars => HInv'
<1> SUFFICES ASSUME HInv, [Next]_vars PROVE HInv'
  OBVIOUS
<1>1. CASE UNCHANGED vars
  <2>1. /\ setting' = setting /\ alive' = alive /\ entries' = entries /\ backlog' = backlog
        /\ stream' = stream /\ shut' = shut /\ acceptor' = acceptor /\ handler' = handler
        /\ dialled' = dialled /\ greeted' = greeted /\ mishaps' = mishaps /\ noise' = noise
    BY <1>1 DEF vars
  <2>2. TypeOK'
    BY <2>1 DEF HInv, TypeOK
  <2>3. Ends' /\ Once' /\ Unknown' /\ AcceptorAt'
    BY <2>1 DEF HInv, Ends, Placed, Pending, Once, Unknown, AcceptorAt
  <2>4. Backlogs' /\ Growing
    BY <2>1, SameBacklogs DEF HInv
  <2>5. Requests' /\ StillClear
    BY <2>1, <2>4, QuieterItself, RequestsKept DEF HInv
  <2>6. Serves'
    <3> SUFFICES ASSUME NEW n \in Node PROVE Serving(n, handler[n])'
      BY DEF Serves
    <3>1. PICK h \in Handler : h = handler[n]
      BY DEF HInv, TypeOK
    <3>2. handler'[n] = h /\ Serving(n, h) /\ Lasts(entries[n], entries'[n])
      BY <2>1, <3>1, FromItself DEF HInv, TypeOK, Serves
    <3>3. Serving(n, h)'
      BY <2>2, <2>4, <2>5, <3>2, ServingKept DEF HInv
    <3> QED BY <3>2, <3>3 DEF Serving
  <2> QED BY <2>2, <2>3, <2>4, <2>5, <2>6 DEF HInv
<1>2. ASSUME NEW i \in DOMAIN setting.peers, Dial(i) PROVE HInv'
  BY <1>2, DialKeeps
<1>3. ASSUME NEW n \in Node, Leave(n) \/ Broadcast(n) PROVE HInv'
  BY <1>3, LeaveKeeps, BroadcastKeeps
<1>4. ASSUME NEW n \in Node, AcceptorStep(n) PROVE HInv'
  BY <1>4, AcceptKeeps, AcceptorReadsKeeps, AcceptorHangsUpKeeps, AcceptorUpdatesKeeps
     DEF AcceptorStep
<1>5. ASSUME NEW n \in Node, HandlerStep(n) PROVE HInv'
  BY <1>5, HandlerProcessesKeeps, HandlerAsksKeeps, HandlerHearsKeeps, HandlerHangsUpKeeps,
     HandlerJoinsKeeps, HandlerReadsKeeps, HandlerDropsKeeps DEF HandlerStep
<1> QED BY <1>1, <1>2, <1>3, <1>4, <1>5 DEF Next

THEOREM InvariantHolds == Spec => []HInv
BY InitHInv, NextHInv, PTL DEF Spec

\* The variables have their types: no step writes for a peer without an entry
\* in the list, or takes a message from a stream that is empty.
THEOREM TypeCorrect == Spec => []TypeOK
<1>1. HInv => TypeOK
  BY DEF HInv
<1> QED BY <1>1, InvariantHolds, PTL

\* No thread that waits for an answer reads an information request in its
\* place (p2p_server.cpp:215, network_manager.cpp sendAndWait): a handshake is
\* never started inside another one.
THEOREM HandshakesDoNotNest == Spec => []NoNestedRequest
<1>1. HInv => NoNestedRequest
  <2> SUFFICES ASSUME HInv, NEW n \in Node
               PROVE  /\ acceptor[n].pc = "waiting" /\ stream[acceptor[n].end] # << >>
                            => Head(stream[acceptor[n].end]).type # "INFO_REQUEST"
                      /\ handler[n].pc = "waiting" /\ stream[handler[n].end] # << >>
                            => Head(stream[handler[n].end]).type # "INFO_REQUEST"
    BY DEF NoNestedRequest
  <2> USE DEF HInv
  <2>1. ASSUME NEW e \in End, Quiet(stream[e], {"INFO_REQUEST"}), stream[e] # << >>
        PROVE  Head(stream[e]).type # "INFO_REQUEST"
    <3>1. stream[e] \in Seq(Message)
      BY DEF TypeOK
    <3>2. 1 \in DOMAIN stream[e] /\ Head(stream[e]) = stream[e][1]
      BY <2>1, <3>1
    <3> QED BY <2>1, <3>2 DEF Quiet
  <2>2. ASSUME acceptor[n].pc = "waiting"
        PROVE  acceptor[n].end \in End /\ Quiet(stream[acceptor[n].end], {"INFO_REQUEST"})
    <3>1. PICK d \in Conn : acceptor[n].end = InEnd(d) /\ acceptor[n].end \in End
      BY <2>2, AwaitedFacts
    <3> QED BY <3>1 DEF Requests
  <2>3. ASSUME handler[n].pc = "waiting"
        PROVE  handler[n].end \in End /\ Quiet(stream[handler[n].end], {"INFO_REQUEST"})
    <3>1. PICK h \in Handler : h = handler[n] /\ h.pc = "waiting" /\ Serving(n, h)
      BY <2>3 DEF TypeOK, Serves
    <3>2. PICK e \in End : e = h.end
      BY <3>1, HandlerFacts
    <3>3. /\ e.conn \in Conn /\ e.side \in {"out", "in"}
          /\ (e.side = "out" => e = OutEnd(e.conn)) /\ (e.side = "in" => e = InEnd(e.conn))
      BY EndFacts
    <3>4. CASE e.side = "out"
      BY <3>1, <3>2, <3>3, <3>4 DEF Serving, Clear
    <3>5. CASE e.side = "in"
      BY <3>1, <3>2, <3>3, <3>5 DEF Requests
    <3> QED BY <3>3, <3>4, <3>5
  <2> QED BY <2>1, <2>2, <2>3
<1> QED BY <1>1, InvariantHolds, PTL

-----------------------------------------------------------------------------
(***************************************************************************)
(* What ACQUITED is worth: the invariant.                                  *)
(***************************************************************************)
Known(d) ==
    \E i \in DOMAIN entries[d[2]] : entries[d[2]][i].end = InEnd(d) /\ entries[d[2]][i].known

\* The node that accepted connection d knows the port of the one that made it.
Settled(d) == d \in dialled /\ (Open(d) /\ "early" \notin mishaps => Known(d))

\* The answers that tell of a settled connection, by the end they arrive at.
Binding(e, type) == type = "ACQUITED" \/ (type = "LIST_ANSWER" /\ e.side = "out")
Answers ==
    \A e \in End : \A i \in DOMAIN stream[e] :
        Binding(e, stream[e][i].type) => Settled(e.conn)

\* The first entry of peer p in s is the one for e.
FirstIs(s, p, e) ==
    \E i \in DOMAIN s : s[i].end = e /\ \A j \in DOMAIN s : j < i => PeerOf(s[j]) # p

\* A peer that is served before its port is known has been answered for; a
\* peer that is asked over the connection to it answers when that is settled.
Learning(n, h) ==
    /\ h.pc = "processing" =>
        /\ Binding(h.end, h.msg.type) => Settled(h.end.conn)
        /\ ~h.peer.known =>
            /\ h.end.side = "in"
            /\ acceptor[n].pc = "waiting" => acceptor[n].end # h.end
    /\ h.pc = "waiting" =>
        (FirstIs(entries[n], h.peer, OutEnd(<< n, h.peer.node >>))
            => h.end = OutEnd(<< n, h.peer.node >>))
    /\ h.pc = "joining" =>
        (FirstIs(entries[n], h.peer, OutEnd(<< n, h.peer.node >>))
            => Settled(<< n, h.peer.node >>))
Learns == \A n \in Node : Learning(n, handler[n])

KInv == Answers /\ Learns /\ \A c \in greeted : Settled(c.conn)

-----------------------------------------------------------------------------
(***************************************************************************)
(* What keeps that invariant.                                              *)
(***************************************************************************)

\* What was settled stays settled.
StillSettled == \A d \in Conn : Settled(d) => Settled(d)'

\* Nothing reopens, and who is known stays so while the socket is open.
Lasting ==
    /\ dialled \subseteq dialled' /\ shut \subseteq shut' /\ mishaps \subseteq mishaps'
    /\ \A n \in Node : \A i \in DOMAIN entries[n] : entries[n][i].known =>
        \/ \E j \in DOMAIN entries'[n] :
            entries'[n][j].end = entries[n][i].end /\ entries'[n][j].known
        \/ entries[n][i].end \in shut'

\* What is in a stream was there, or is of no consequence, or is true.
Truthful ==
    \A e \in End : \A j \in DOMAIN stream'[e] :
        \/ \E i \in DOMAIN stream[e] : stream[e][i] = stream'[e][j]
        \/ Binding(e, stream'[e][j].type) => Settled(e.conn)'

\* An acceptor starts to wait when it accepts a connection.
Awaiting(n) ==
    acceptor'[n].pc = "waiting" =>
        \/ acceptor[n].pc = "waiting" /\ acceptor'[n].end = acceptor[n].end
        \/ acceptor'[n].end.side = "in" /\ Pending(acceptor'[n].end.conn)

LEMMA SettledKept ==
    ASSUME Lasting
    PROVE  StillSettled
<1> SUFFICES ASSUME NEW d \in Conn, Settled(d) PROVE Settled(d)'
  BY DEF StillSettled
<1>1. d \in dialled' /\ d[2] \in Node
  BY ConnEnds DEF Settled, Lasting
<1>2. ASSUME Open(d)', "early" \notin mishaps' PROVE Known(d)'
  <2>1. {OutEnd(d), InEnd(d)} \cap shut' = {}
    BY <1>2 DEF Open
  <2>2. InEnd(d) \notin shut' /\ {OutEnd(d), InEnd(d)} \cap shut = {} /\ "early" \notin mishaps
    BY <1>2, <2>1 DEF Lasting
  <2>3. Known(d)
    BY <2>2 DEF Settled, Open
  <2>4. PICK i \in DOMAIN entries[d[2]] :
            entries[d[2]][i].end = InEnd(d) /\ entries[d[2]][i].known
    BY <2>3 DEF Known
  <2>5. \E j \in DOMAIN entries'[d[2]] : entries'[d[2]][j].end = InEnd(d) /\ entries'[d[2]][j].known
    BY <1>1, <2>2, <2>4 DEF Lasting
  <2> QED BY <2>5 DEF Known
<1> QED BY <1>1, <1>2 DEF Settled

LEMMA AnswersKept ==
    ASSUME Answers, StillSettled, Truthful
    PROVE  Answers'
<1> SUFFICES ASSUME NEW e \in End, NEW j \in DOMAIN stream'[e], Binding(e, stream'[e][j].type)
             PROVE  Settled(e.conn)'
  BY DEF Answers, Binding
<1>1. CASE \E i \in DOMAIN stream[e] : stream[e][i] = stream'[e][j]
  <2>1. Settled(e.conn) /\ e.conn \in Conn
    BY <1>1, EndFacts DEF Answers
  <2> QED BY <2>1 DEF StillSettled
<1>2. CASE ~\E i \in DOMAIN stream[e] : stream[e][i] = stream'[e][j]
  BY <1>2 DEF Truthful
<1> QED BY <1>1, <1>2

\* The first entry of a known peer was the first before.
LEMMA FirstKept ==
    ASSUME NEW s \in Seq(Entry), NEW t \in Seq(Entry), OnceIn(s), Lasts(s, t),
           From(s, t) \/ \E x : Adds(s, t, x),
           NEW p \in Peer, p.known, NamedIn(s, p), NEW e, FirstIs(t, p, e)
    PROVE  FirstIs(s, p, e)
<1>1. PICK k \in DOMAIN t : t[k].end = e /\ \A j \in DOMAIN t : j < k => PeerOf(t[j]) # p
  BY DEF FirstIs
<1>2. CASE From(s, t)
  <2>1. PICK f \in [DOMAIN t -> DOMAIN s] :
            /\ \A j \in DOMAIN t : t[j].end = s[f[j]].end
            /\ \A j, l \in DOMAIN t : j < l => f[j] < f[l]
    BY <1>2 DEF From
  <2>2. f[k] \in DOMAIN s /\ s[f[k]].end = e /\ f[k] \in Nat /\ k \in Nat
    BY <1>1, <2>1
  <2>3. ASSUME NEW i \in DOMAIN s, i < f[k], PeerOf(s[i]) = p PROVE FALSE
    <3>1. PICK j \in DOMAIN t : t[j].end = s[i].end /\ PeerOf(t[j]) = p
      BY <2>3, NamedKept
    <3>2. f[j] = i /\ j \in Nat
      BY <2>1, <3>1 DEF OnceIn
    <3>3. ~(j < k)
      BY <1>1, <3>1
    <3>4. j = k \/ k < j
      BY <2>2, <3>2, <3>3
    <3>5. ~(f[k] < f[j]) /\ f[j] # f[k]
      BY <2>2, <2>3, <3>2
    <3> QED BY <2>1, <3>4, <3>5
  <2> QED BY <2>2, <2>3 DEF FirstIs
<1>3. ASSUME NEW x, Adds(s, t, x) PROVE FirstIs(s, p, e)
  <2>1. /\ \A i \in DOMAIN s : i \in DOMAIN t /\ t[i] = s[i]
        /\ k \in DOMAIN s \/ k = Len(s) + 1
    BY <1>3, AddsFacts
  <2>2. PICK i \in DOMAIN s : PeerOf(s[i]) = p
    BY DEF NamedIn
  <2>3. k \in DOMAIN s
    BY <1>1, <2>1, <2>2
  <2> QED BY <1>1, <2>1, <2>3 DEF FirstIs
<1> QED BY <1>2, <1>3

LEMMA LearningKept ==
    ASSUME HInv, HInv', NEW n \in Node, NEW h \in Handler, Serving(n, h), Learning(n, h),
           h.pc # "idle" => Lasts(entries[n], entries'[n]), Listing(n), StillSettled, Awaiting(n)
    PROVE  Learning(n, h)'
<1> USE DEF HInv
<1>1. /\ entries[n] \in Seq(Entry) /\ entries'[n] \in Seq(Entry) /\ OnceIn(entries[n])
      /\ From(entries[n], entries'[n]) \/ \E x : Adds(entries[n], entries'[n], x)
  BY DEF TypeOK, Once, Listing
<1>2. CASE h.pc = "processing"
  <2>1. h.end \in End /\ h.end.conn \in Conn
    BY <1>2, HandlerFacts, EndFacts
  <2>2. Binding(h.end, h.msg.type) => Settled(h.end.conn)'
    BY <1>2, <2>1 DEF Learning, StillSettled
  <2>3. ASSUME ~h.peer.known
        PROVE  h.end.side = "in" /\ (acceptor'[n].pc = "waiting" => acceptor'[n].end # h.end)
    <3>1. h.end.side = "in" /\ ~Pending(h.end.conn) /\ (acceptor[n].pc = "waiting" => acceptor[n].end # h.end)
      BY <1>2, <2>3 DEF Learning, Serving
    <3> QED BY <3>1 DEF Awaiting
  <2> QED BY <1>2, <2>2, <2>3 DEF Learning, Binding
<1>3. ASSUME h.pc = "waiting" \/ h.pc = "joining",
             FirstIs(entries[n], h.peer, OutEnd(<< n, h.peer.node >>))'
      PROVE  FirstIs(entries[n], h.peer, OutEnd(<< n, h.peer.node >>))
  <2>1. PICK p \in Peer : p = h.peer
    BY <1>3, HandlerFacts
  <2>2. p.known /\ NamedIn(entries[n], p) /\ Lasts(entries[n], entries'[n])
    BY <1>3, <2>1 DEF Serving, NamedIn
  <2>3. PICK e : e = OutEnd(<< n, p.node >>)
    OBVIOUS
  <2>4. FirstIs(entries'[n], p, e)
    BY <1>3, <2>1, <2>3
  <2>5. FirstIs(entries[n], p, e)
    BY <1>1, <2>2, <2>4, FirstKept
  <2> QED BY <2>1, <2>3, <2>5
<1>4. CASE h.pc = "waiting"
  BY <1>3, <1>4 DEF Learning
<1>5. CASE h.pc = "joining"
  <2>1. << n, h.peer.node >> \in Conn
    BY <1>5, HandlerFacts DEF Conn
  <2> QED BY <1>3, <1>5, <2>1 DEF Learning, StillSettled
<1>6. CASE h.pc = "idle" \/ h.pc = "asking"
  BY <1>6 DEF Learning
<1> QED BY <1>2, <1>4, <1>5, <1>6, HandlerFacts

\* What a step of n has to keep, for this invariant to hold after it.
LEMMA LearnsStep ==
    ASSUME HInv, HInv', KInv, NEW n \in Node, Elsewhere(n), Lasting, Truthful,
           \A c \in greeted' : c \in greeted \/ Settled(c.conn)',
           NEW h \in Handler, handler'[n] = h, Learning(n, h)'
    PROVE  KInv'
<1> USE DEF HInv
<1>1. StillSettled
  BY SettledKept
<1>2. Answers'
  BY <1>1, AnswersKept DEF KInv
<1>3. \A c \in greeted' : Settled(c.conn)'
  <2>1. \A c \in greeted : c.conn \in Conn
    BY EndFacts DEF TypeOK
  <2> QED BY <1>1, <2>1 DEF KInv, StillSettled
<1>4. Learns'
  <2> SUFFICES ASSUME NEW m \in Node PROVE Learning(m, handler[m])'
    BY DEF Learns
  <2>1. CASE m = n
    <3>1. handler'[m] = h /\ Learning(m, h)'
      BY <2>1
    <3> QED BY <3>1 DEF Learning
  <2>2. CASE m # n
    <3>1. PICK g \in Handler : g = handler[m]
      BY DEF TypeOK
    <3>2. /\ handler'[m] = g /\ entries'[m] = entries[m] /\ acceptor'[m] = acceptor[m]
          /\ entries[m] \in Seq(Entry)
      BY <2>2, <3>1 DEF Elsewhere, TypeOK
    <3>3. Serving(m, g) /\ Learning(m, g)
      BY <3>1 DEF Serves, KInv, Learns
    <3>4. From(entries[m], entries[m]) /\ Lasts(entries[m], entries[m])
      BY <3>2, FromItself
    <3>5. Listing(m) /\ Awaiting(m) /\ Lasts(entries[m], entries'[m])
      BY <3>2, <3>4 DEF Listing, Awaiting
    <3>6. Learning(m, g)'
      BY <1>1, <3>3, <3>5, LearningKept
    <3> QED BY <3>2, <3>6 DEF Learning
  <2> QED BY <2>1, <2>2
<1> QED BY <1>2, <1>3, <1>4 DEF KInv

\* A known entry of a connection that was accepted settles it.
LEMMA KnownSettles ==
    ASSUME HInv, NEW n \in Node, NEW i \in DOMAIN entries[n], entries[n][i].known,
           entries[n][i].end.side = "in"
    PROVE  Settled(entries[n][i].end.conn) /\ entries[n][i].end.conn \in Conn
<1>1. PICK e \in End : e = entries[n][i].end
  BY EntryFacts DEF HInv, TypeOK
<1>2. PICK d \in Conn : d = e.conn /\ e = InEnd(d)
  BY <1>1, EndFacts
<1>3. d[2] = n /\ d \in dialled
  <2>1. Owner(e) = n /\ e.conn \in dialled
    BY <1>1 DEF HInv, Ends, Placed
  <2>2. Owner(InEnd(d)) = d[2]
    BY ConnEnds
  <2> QED BY <1>2, <2>1, <2>2
<1> QED BY <1>1, <1>2, <1>3 DEF Settled, Known

\* A step that changes the peers of n only.
LEMMA LastingStep ==
    ASSUME TypeOK, NEW n \in Node, Elsewhere(n),
           dialled \subseteq dialled', shut \subseteq shut', mishaps \subseteq mishaps',
           \/ Lasts(entries[n], entries'[n])
           \/ \A i \in DOMAIN entries[n] : entries[n][i].known =>
                \/ \E j \in DOMAIN entries'[n] :
                    entries'[n][j].end = entries[n][i].end /\ entries'[n][j].known
                \/ entries[n][i].end \in shut'
    PROVE  Lasting
<1> SUFFICES ASSUME NEW m \in Node, NEW i \in DOMAIN entries[m], entries[m][i].known
             PROVE  \/ \E j \in DOMAIN entries'[m] :
                        entries'[m][j].end = entries[m][i].end /\ entries'[m][j].known
                    \/ entries[m][i].end \in shut'
  BY DEF Lasting
<1>1. CASE m = n
  BY <1>1 DEF Lasts
<1>2. CASE m # n
  <2>1. entries'[m] = entries[m]
    BY <1>2 DEF Elsewhere
  <2> QED BY <2>1
<1> QED BY <1>1, <1>2

\* No message is written, though some may be read or lost.
Shrinking(str) ==
    \A c \in End : \A j \in DOMAIN str[c] : \E l \in DOMAIN stream[c] : stream[c][l] = str[c][j]

LEMMA ShrinkingStreams ==
    /\ Shrinking(stream)
    /\ \A str : (\A c \in End : str[c] = stream[c] \/ str[c] = << >>) => Shrinking(str)
    /\ Shrinking(stream') => Truthful
<1>1. DOMAIN << >> = {}
  OBVIOUS
<1> QED BY <1>1 DEF Shrinking, Truthful

LEMMA ShrinkingConsumed ==
    ASSUME TypeOK, NEW e \in End, NEW k \in 1..setting.reads, k <= Len(stream[e])
    PROVE  Shrinking(Consumed(e, k))
<1>1. setting.reads \in Nat
  BY HandshakeAssumption DEF TypeOK
<1>2. PICK s \in Seq(Message) : s = stream[e]
  BY DEF TypeOK
<1>3. k \in 1..Len(s)
  BY <1>1, <1>2
<1> DEFINE t == SubSeq(s, k + 1, Len(s))
<1>4. t \in Seq(Message) /\ \A i \in DOMAIN t : i + k \in DOMAIN s /\ t[i] = s[i + k]
  BY <1>3, RestFacts
<1>5. /\ Consumed(e, k) = [stream EXCEPT ![e] = t]
      /\ stream \in [End -> Seq(Message)]
  BY <1>2 DEF Consumed, TypeOK
<1> HIDE DEF t
<1>6. Consumed(e, k)[e] = t /\ \A c \in End : c # e => Consumed(e, k)[c] = stream[c]
  BY <1>4, <1>5
<1>7. \A i \in DOMAIN t : \E l \in DOMAIN s : s[l] = t[i]
  BY <1>4
<1> QED BY <1>2, <1>6, <1>7 DEF Shrinking

LEMMA TruthfulWritten ==
    ASSUME TypeOK, NEW n \in Node, NEW i \in 0..Len(entries[n]), NEW m \in Message,
           NEW str \in [End -> Seq(Message)], Shrinking(str), stream' = Written(str, n, i, m),
           \A c \in End :
                i \in DOMAIN entries[n] /\ c = Far(entries[n][i].end) /\ Binding(c, m.type)
                    => Settled(c.conn)'
    PROVE  Truthful
<1> SUFFICES ASSUME NEW e \in End, NEW j \in DOMAIN stream'[e]
             PROVE  \/ \E l \in DOMAIN stream[e] : stream[e][l] = stream'[e][j]
                    \/ Binding(e, stream'[e][j].type) => Settled(e.conn)'
  BY DEF Truthful
<1>1. entries[n] \in Seq(Entry) /\ str[e] \in Seq(Message)
  BY DEF TypeOK
<1>2. \/ stream'[e] = str[e]
      \/ /\ i \in DOMAIN entries[n] /\ e = Far(entries[n][i].end)
         /\ stream'[e] = Append(str[e], m)
  <2>1. \A c \in End :
            \/ Written(str, n, i, m)[c] = str[c]
            \/ /\ i \in DOMAIN entries[n] /\ c = Far(entries[n][i].end)
               /\ Written(str, n, i, m)[c] = Append(str[c], m)
    BY <1>1, WrittenFacts
  <2> QED BY <2>1
<1>3. CASE stream'[e] = str[e]
  BY <1>3 DEF Shrinking
<1>4. CASE /\ i \in DOMAIN entries[n] /\ e = Far(entries[n][i].end)
           /\ stream'[e] = Append(str[e], m)
  <2>1. (j \in DOMAIN str[e] /\ stream'[e][j] = str[e][j]) \/ stream'[e][j] = m
    BY <1>1, <1>4, AppendFacts
  <2>2. CASE j \in DOMAIN str[e] /\ stream'[e][j] = str[e][j]
    BY <2>2 DEF Shrinking
  <2>3. CASE stream'[e][j] = m
    BY <1>4, <2>3
  <2> QED BY <2>1, <2>2, <2>3
<1> QED BY <1>2, <1>3, <1>4

\* A step of which the handler of n takes no part, or only rests.
LEMMA LearnsResting ==
    ASSUME HInv, HInv', KInv, NEW n \in Node, Elsewhere(n), Lasting, Truthful,
           \A c \in greeted' : c \in greeted \/ Settled(c.conn)',
           handler'[n] = Idle \/ (/\ handler'[n] = handler[n] /\ Listing(n) /\ Awaiting(n)
                                  /\ Lasts(entries[n], entries'[n]))
    PROVE  KInv'
<1>1. CASE handler'[n] = Idle
  <2>1. Idle \in Handler /\ Learning(n, Idle)'
    BY IdleFacts DEF Learning
  <2> QED BY <1>1, <2>1, LearnsStep
<1>2. CASE /\ handler'[n] = handler[n] /\ Listing(n) /\ Awaiting(n)
           /\ Lasts(entries[n], entries'[n])
  <2>1. PICK h \in Handler : h = handler[n]
    BY DEF HInv, TypeOK
  <2>2. handler'[n] = h /\ Serving(n, h) /\ Learning(n, h)
    BY <1>2, <2>1 DEF HInv, Serves, KInv, Learns
  <2>3. Learning(n, h)'
    BY <1>2, <2>2, SettledKept, LearningKept
  <2> QED BY <2>2, <2>3, LearnsStep
<1> QED BY <1>1, <1>2

-----------------------------------------------------------------------------
(***************************************************************************)
(* The steps again, with what they make of ACQUITED: connecting, ending    *)
(* and accepting.                                                          *)
(***************************************************************************)

LEMMA DialLearns ==
    ASSUME HInv, HInv', KInv, NEW i \in DOMAIN setting.peers, Dial(i)
    PROVE  KInv'
<1> USE DEF HInv
<1>1. PICK c \in Node, s \in Node :
        /\ << c, s >> \notin dialled /\ Connected(c, s)
        /\ UNCHANGED << setting, alive, stream, shut, acceptor, handler, greeted, mishaps, noise >>
  <2>1. setting.peers \in Seq({d \in Node \X Node : d[1] # d[2]})
    BY HandshakeAssumption DEF TypeOK
  <2>2. setting.peers[i] \in Node \X Node
    BY <2>1
  <2>3. setting.peers[i][1] \in Node /\ setting.peers[i][2] \in Node
    BY <2>2
  <2> QED BY <2>3 DEF Dial, CanConnect
<1>2. /\ dialled \subseteq dialled' /\ \A m \in Node \ {c} : entries'[m] = entries[m]
      /\ \E x \in Entry : Adds(entries[c], entries'[c], x) /\ Placed(c, x)'
  BY <1>1, ConnectedFacts
<1>3. entries[c] \in Seq(Entry)
  BY DEF TypeOK
<1>4. Lasts(entries[c], entries'[c])
  BY <1>2, <1>3, AddsFacts
<1>5. Elsewhere(c) /\ Listing(c) /\ Awaiting(c)
  BY <1>1, <1>2 DEF Elsewhere, Listing, Awaiting
<1>6. Lasting
  BY <1>1, <1>2, <1>4, <1>5, LastingStep
<1>7. Truthful
  BY <1>1, ShrinkingStreams
<1> QED BY <1>1, <1>4, <1>5, <1>6, <1>7, LearnsResting

LEMMA LeaveLearns ==
    ASSUME HInv, HInv', KInv, NEW n \in Node, Leave(n)
    PROVE  KInv'
<1> USE DEF HInv
<1>1. /\ dialled \subseteq dialled' /\ shut \subseteq shut' /\ mishaps \subseteq mishaps'
      /\ greeted' = greeted /\ handler'[n] = Idle /\ Elsewhere(n)
  BY DEF Leave, TypeOK, Elsewhere
<1>2. \A i \in DOMAIN entries[n] : entries[n][i].end \in shut'
  <2> SUFFICES ASSUME NEW i \in DOMAIN entries[n] PROVE entries[n][i].end \in shut'
    OBVIOUS
  <2>1. PICK e \in End : e = entries[n][i].end
    BY EntryFacts DEF TypeOK
  <2>2. Owner(e) = n /\ e.conn \in dialled
    BY <2>1 DEF Ends, Placed
  <2> QED BY <2>1, <2>2 DEF Leave
<1>3. Lasting
  BY <1>1, <1>2, LastingStep
<1>4. \A e \in End : stream'[e] = stream[e] \/ stream'[e] = << >>
  BY DEF Leave
<1>5. Truthful
  BY <1>4, ShrinkingStreams
<1> QED BY <1>1, <1>3, <1>5, LearnsResting

LEMMA BroadcastLearns ==
    ASSUME HInv, HInv', KInv, NEW n \in Node, Broadcast(n)
    PROVE  KInv'
<1> USE DEF HInv
<1>1. /\ dialled' = dialled /\ shut' = shut /\ mishaps' = mishaps /\ greeted' = greeted
      /\ entries' = entries /\ acceptor' = acceptor /\ handler' = handler
  BY DEF Broadcast
<1>2. From(entries[n], entries'[n]) /\ Lasts(entries[n], entries'[n])
  BY <1>1, FromItself DEF TypeOK
<1>3. Elsewhere(n) /\ Listing(n) /\ Awaiting(n)
  BY <1>1, <1>2 DEF Elsewhere, Listing, Awaiting
<1>4. Lasting
  BY <1>1, <1>2, <1>3, LastingStep
<1>5. Truthful
  <2> SUFFICES ASSUME NEW e \in End, NEW j \in DOMAIN stream'[e]
               PROVE  \/ \E l \in DOMAIN stream[e] : stream[e][l] = stream'[e][j]
                      \/ ~Binding(e, stream'[e][j].type)
    BY DEF Truthful
  <2>1. PICK m \in Message : m = Plain("OTHER") /\ m.type = "OTHER"
    BY MessageFacts
  <2>2. PICK s \in Seq(Message) : s = stream[e]
    BY DEF TypeOK
  <2>3. stream'[e] = s \/ stream'[e] = Append(s, m)
    BY <2>1, <2>2 DEF Broadcast
  <2>4. (j \in DOMAIN s /\ stream'[e][j] = s[j]) \/ stream'[e][j] = m
    BY <2>3, AppendFacts
  <2> QED BY <2>1, <2>2, <2>4 DEF Binding
<1> QED BY <1>1, <1>2, <1>3, <1>4, <1>5, LearnsResting

LEMMA AcceptLearns ==
    ASSUME HInv, HInv', KInv, NEW n \in Node, Accept(n)
    PROVE  KInv'
<1> USE DEF HInv
<1>1. PICK d \in Conn : d = Head(backlog[n])
  BY DEF Accept, TypeOK
<1> DEFINE e == InEnd(d)
           x == [end |-> e, known |-> FALSE, deaf |-> TRUE]
           a == [pc |-> "waiting", end |-> e]
           q == Plain("INFO_REQUEST")
<1>2. /\ e \in End /\ Far(e) = OutEnd(d) /\ OutEnd(d) \in End /\ e.conn = d /\ e.side = "in"
      /\ q \in Message /\ q.type = "INFO_REQUEST" /\ x \in Entry /\ x.end = e
      /\ a.pc = "waiting" /\ a.end = e
  BY ConnEnds, MessageFacts DEF Entry
<1>3. /\ backlog[n] # << >>
      /\ entries' = [entries EXCEPT ![n] = Append(@, x)]
      /\ stream' = IF Far(e) \in shut THEN stream
                   ELSE [stream EXCEPT ![Far(e)] = Append(@, q)]
      /\ acceptor' = [acceptor EXCEPT ![n] = a]
      /\ UNCHANGED << setting, alive, shut, handler, dialled, greeted, mishaps, noise >>
  BY <1>1 DEF Accept
<1> HIDE DEF x, a, q, e
<1>4. /\ entries[n] \in Seq(Entry) /\ entries'[n] = Append(entries[n], x) /\ acceptor'[n] = a
      /\ Elsewhere(n)
  BY <1>3 DEF TypeOK, Elsewhere
<1>5. d[2] = n /\ Pending(d)
  <2>1. backlog[n] \in Seq(Conn)
    BY DEF TypeOK
  <2>2. d = backlog[n][1] /\ 1 \in DOMAIN backlog[n]
    BY <1>1, <1>3, <2>1
  <2> QED BY <2>2 DEF Backlogs, Pending
<1>6. Adds(entries[n], entries'[n], x)
  <2>1. \A i \in DOMAIN entries[n] : entries[n][i].end # x.end
    BY <1>2, <1>5 DEF Ends, Placed
  <2> QED BY <1>2, <1>4, <2>1 DEF Adds
<1>7. Placed(n, x)'
  <2>1. PICK j \in DOMAIN entries'[n] : entries'[n][j] = x
    BY <1>4, <1>6, AddsFacts
  <2>2. Placed(n, entries[n][j])'
    BY DEF Ends
  <2>3. entries'[n][j].end = e
    BY <1>2, <2>1
  <2>4. ~Pending(d)'
    BY <1>2, <2>2, <2>3 DEF Placed, Pending
  <2>5. x.end.conn = d /\ x.end.side = "in" /\ Owner(x.end) = n /\ d \in dialled'
    BY <1>2, <1>3, <1>5, ConnEnds DEF e, Backlogs, Pending
  <2> QED BY <1>2, <2>4, <2>5 DEF Placed
<1>8. Listing(n)
  BY <1>2, <1>6, <1>7 DEF Listing
<1>9. Lasts(entries[n], entries'[n])
  BY <1>4, <1>6, AddsFacts
<1>10. Awaiting(n)
  BY <1>2, <1>4, <1>5 DEF Awaiting
<1>11. Lasting
  BY <1>3, <1>4, <1>9, LastingStep
<1>12. Truthful
  <2> SUFFICES ASSUME NEW c \in End, NEW j \in DOMAIN stream'[c]
               PROVE  \/ \E l \in DOMAIN stream[c] : stream[c][l] = stream'[c][j]
                      \/ ~Binding(c, stream'[c][j].type)
    BY DEF Truthful
  <2>1. PICK s \in Seq(Message) : s = stream[c]
    BY DEF TypeOK
  <2>2. stream'[c] = s \/ stream'[c] = Append(s, q)
    BY <1>2, <1>3, <2>1 DEF TypeOK
  <2>3. (j \in DOMAIN s /\ stream'[c][j] = s[j]) \/ stream'[c][j] = q
    BY <1>2, <2>2, AppendFacts
  <2> QED BY <1>2, <2>1, <2>3 DEF Binding
<1> QED BY <1>3, <1>4, <1>8, <1>9, <1>10, <1>11, <1>12, LearnsResting

LEMMA AcceptorReadsLearns ==
    ASSUME HInv, HInv', KInv, NEW n \in Node, AcceptorReads(n)
    PROVE  KInv'
<1> USE DEF HInv
<1>1. PICK e \in End, i \in DOMAIN entries[n] :
        /\ e = acceptor[n].end /\ i = IndexOfEnd(n, e)
        /\ entries[n][i].end = e /\ ~entries[n][i].known
  BY AwaitedFacts DEF AcceptorReads
<1>2. PICK k \in 1..setting.reads :
        /\ k <= Len(stream[e])
        /\ IF Head(stream[e]).type = "INFO_ANSWER"
           THEN /\ entries' = [entries EXCEPT ![n][i].deaf = FALSE]
                /\ stream' = Consumed(e, k)
                /\ acceptor' = [acceptor EXCEPT ![n].pc = "answered"]
                /\ mishaps' = mishaps \union Swallowed(e, k)
                /\ UNCHANGED << shut, greeted >>
           ELSE /\ Removed(n, i)
                /\ acceptor' = [acceptor EXCEPT ![n] = Idle]
                /\ greeted' = Greeted(e, Head(stream[e]))
                /\ mishaps' = mishaps \union {"intruded"}
  BY <1>1 DEF AcceptorReads
<1>3. /\ acceptor[n].pc = "waiting" /\ acceptor[n] \in Acceptor /\ entries[n] \in Seq(Entry)
      /\ UNCHANGED << setting, alive, backlog, handler, dialled, noise >>
  BY DEF AcceptorReads, TypeOK
<1>4. acceptor[n] = [pc |-> "waiting", end |-> e]
  BY <1>1, <1>3, AcceptorFacts
<1>5. CASE Head(stream[e]).type = "INFO_ANSWER"
  <2>1. PICK y \in Entry : y = entries[n][i]
    BY <1>3
  <2> DEFINE x == [y EXCEPT !.deaf = FALSE]
             a == [pc |-> "answered", end |-> e]
  <2>2. x \in Entry /\ x.end = entries[n][i].end /\ (entries[n][i].known => x.known)
    <3>1. [y EXCEPT !.deaf = FALSE] \in Entry /\ [y EXCEPT !.deaf = FALSE].end = y.end
          /\ [y EXCEPT !.deaf = FALSE].known = y.known
      BY EntryChanges
    <3> QED BY <2>1, <3>1
  <2>3. /\ entries' = [entries EXCEPT ![n] = [entries[n] EXCEPT ![i] = x]]
        /\ stream' = Consumed(e, k) /\ acceptor' = [acceptor EXCEPT ![n] = a] /\ a.pc = "answered"
        /\ mishaps' = mishaps \union Swallowed(e, k) /\ UNCHANGED << shut, greeted >>
    BY <1>2, <1>4, <1>5, <2>1 DEF TypeOK
  <2> HIDE DEF x, a
  <2>4. /\ \A m \in Node \ {n} : entries'[m] = entries[m]
        /\ From(entries[n], entries'[n]) /\ Lasts(entries[n], entries'[n])
    <3>1. TypeOK
      OBVIOUS
    <3> QED BY <2>2, <2>3, <3>1, SetFacts
  <2>5. acceptor'[n].pc = "answered" /\ \A m \in Node \ {n} : acceptor'[m] = acceptor[m]
    BY <2>3 DEF TypeOK
  <2>6. Elsewhere(n) /\ Listing(n) /\ Awaiting(n)
    BY <1>3, <2>4, <2>5 DEF Elsewhere, Listing, Awaiting
  <2>7. Lasting
    BY <1>3, <2>3, <2>4, <2>6, LastingStep
  <2>8. Truthful
    BY <1>2, <2>3, ShrinkingConsumed, ShrinkingStreams
  <2> QED BY <1>3, <2>3, <2>4, <2>6, <2>7, <2>8, LearnsResting
<1>6. CASE Head(stream[e]).type # "INFO_ANSWER"
  <2>1. /\ Removed(n, i) /\ acceptor' = [acceptor EXCEPT ![n] = Idle]
        /\ greeted' = Greeted(e, Head(stream[e])) /\ mishaps' = mishaps \union {"intruded"}
    BY <1>2, <1>6
  <2>2. /\ shut \subseteq shut' /\ \A m \in Node \ {n} : entries'[m] = entries[m]
        /\ From(entries[n], entries'[n]) /\ Lasts(entries[n], entries'[n])
        /\ \A c \in End : stream'[c] = stream[c] \/ stream'[c] = << >>
    BY <1>1, <2>1, RemovedFacts
  <2>3. acceptor'[n].pc = "idle" /\ \A m \in Node \ {n} : acceptor'[m] = acceptor[m]
    BY <2>1, IdleFacts DEF TypeOK
  <2>4. Elsewhere(n) /\ Listing(n) /\ Awaiting(n)
    BY <1>3, <2>2, <2>3 DEF Elsewhere, Listing, Awaiting
  <2>5. Lasting
    BY <1>3, <2>1, <2>2, <2>4, LastingStep
  <2>6. Truthful
    BY <2>2, ShrinkingStreams
  <2>7. \A c \in greeted' : c \in greeted \/ Settled(c.conn)'
    <3> SUFFICES ASSUME Head(stream[e]).type = "ACQUITED" PROVE Settled(e.conn)'
      BY <2>1 DEF Greeted
    <3>1. Head(stream[e]) = stream[e][1] /\ 1 \in DOMAIN stream[e]
      BY <1>2, ConsumedFacts
    <3>2. Settled(e.conn) /\ e.conn \in Conn
      BY <3>1, EndFacts DEF KInv, Answers, Binding
    <3> QED BY <2>5, <3>2, SettledKept DEF StillSettled
  <2> QED BY <1>3, <2>2, <2>4, <2>5, <2>6, <2>7, LearnsResting
<1> QED BY <1>5, <1>6

LEMMA AcceptorHangsUpLearns ==
    ASSUME HInv, HInv', KInv, NEW n \in Node, AcceptorHangsUp(n)
    PROVE  KInv'
<1> USE DEF HInv
<1>1. PICK i \in DOMAIN entries[n] : i = IndexOfEnd(n, acceptor[n].end) /\ ~entries[n][i].known
  BY AwaitedFacts DEF AcceptorHangsUp
<1>2. /\ Removed(n, i) /\ acceptor' = [acceptor EXCEPT ![n] = Idle]
      /\ UNCHANGED << setting, alive, backlog, handler, dialled, greeted, mishaps, noise >>
  BY <1>1 DEF AcceptorHangsUp
<1>3. /\ shut \subseteq shut' /\ \A m \in Node \ {n} : entries'[m] = entries[m]
      /\ From(entries[n], entries'[n]) /\ Lasts(entries[n], entries'[n])
      /\ \A c \in End : stream'[c] = stream[c] \/ stream'[c] = << >>
  BY <1>1, <1>2, RemovedFacts
<1>4. acceptor'[n].pc = "idle" /\ \A m \in Node \ {n} : acceptor'[m] = acceptor[m]
  BY <1>2, IdleFacts DEF TypeOK
<1>5. Elsewhere(n) /\ Listing(n) /\ Awaiting(n)
  BY <1>2, <1>3, <1>4 DEF Elsewhere, Listing, Awaiting
<1>6. Lasting
  BY <1>2, <1>3, <1>5, LastingStep
<1>7. Truthful
  BY <1>3, ShrinkingStreams
<1> QED BY <1>2, <1>3, <1>5, <1>6, <1>7, LearnsResting

LEMMA AcceptorUpdatesLearns ==
    ASSUME HInv, HInv', KInv, NEW n \in Node, AcceptorUpdates(n)
    PROVE  KInv'
<1> USE DEF HInv
<1>1. PICK i \in 0..Len(entries[n]) :
        /\ i = IndexOfEnd(n, acceptor[n].end) /\ entries[n] \in Seq(Entry)
        /\ i # 0 => i \in DOMAIN entries[n]
  <2>1. entries[n] \in Seq(Entry)
    BY DEF TypeOK
  <2> QED BY <2>1, IndexOfEndFacts
<1>2. /\ entries' = IF i = 0 THEN entries ELSE [entries EXCEPT ![n][i].known = TRUE]
      /\ acceptor' = [acceptor EXCEPT ![n] = Idle]
      /\ UNCHANGED << setting, alive, backlog, stream, shut, handler, dialled, greeted, mishaps, noise >>
  BY <1>1 DEF AcceptorUpdates
<1>3. /\ \A m \in Node \ {n} : entries'[m] = entries[m]
      /\ From(entries[n], entries'[n]) /\ Lasts(entries[n], entries'[n])
  <2>1. CASE i = 0
    BY <1>1, <1>2, <2>1, FromItself
  <2>2. CASE i # 0
    <3>1. PICK y \in Entry : y = entries[n][i]
      BY <1>1, <2>2
    <3> DEFINE x == [y EXCEPT !.known = TRUE]
    <3>2. x \in Entry /\ x.end = entries[n][i].end /\ x.known
      <4>1. [y EXCEPT !.known = TRUE] \in Entry /\ [y EXCEPT !.known = TRUE].end = y.end
            /\ [y EXCEPT !.known = TRUE].known
        BY EntryChanges
      <4> QED BY <3>1, <4>1
    <3>3. entries' = [entries EXCEPT ![n] = [entries[n] EXCEPT ![i] = x]]
      BY <1>2, <2>2, <3>1
    <3> HIDE DEF x
    <3>4. TypeOK /\ i \in DOMAIN entries[n]
      BY <1>1, <2>2
    <3> QED BY <3>2, <3>3, <3>4, SetFacts
  <2> QED BY <2>1, <2>2
<1>4. acceptor'[n].pc = "idle" /\ \A m \in Node \ {n} : acceptor'[m] = acceptor[m]
  BY <1>2, IdleFacts DEF TypeOK
<1>5. Elsewhere(n) /\ Listing(n) /\ Awaiting(n)
  BY <1>2, <1>3, <1>4 DEF Elsewhere, Listing, Awaiting
<1>6. Lasting
  BY <1>2, <1>3, <1>5, LastingStep
<1>7. Truthful
  BY <1>2, ShrinkingStreams
<1> QED BY <1>2, <1>3, <1>5, <1>6, <1>7, LearnsResting

-----------------------------------------------------------------------------
(***************************************************************************)
(* The steps again: the message handler.                                   *)
(***************************************************************************)

LEMMA HandlerReadsLearns ==
    ASSUME HInv, HInv', KInv, NEW n \in Node, NEW i \in DOMAIN entries[n], HandlerReads(n, i)
    PROVE  KInv'
<1> USE DEF HInv
<1>1. PICK x \in Entry : x = entries[n][i]
  BY DEF TypeOK
<1>2. PICK e \in End : e = x.end /\ e.conn \in Conn
  BY <1>1, EntryFacts, EndFacts
<1>3. PICK k \in 1..setting.reads :
        /\ k <= Len(stream[e])
        /\ handler' = [handler EXCEPT ![n] =
                [pc |-> "processing", end |-> e, peer |-> PeerOf(x), msg |-> Head(stream[e])]]
        /\ stream' = Consumed(e, k) /\ mishaps' = mishaps \union Swallowed(e, k)
        /\ UNCHANGED << setting, alive, entries, backlog, shut, acceptor, dialled, greeted, noise >>
  BY <1>1, <1>2 DEF HandlerReads
<1>4. ~x.deaf
  BY <1>1 DEF HandlerReads
<1>5. PICK m \in Message : m = Head(stream[e]) /\ m = stream[e][1] /\ 1 \in DOMAIN stream[e]
  BY <1>3, ConsumedFacts
<1>6. PICK p \in Peer : p = PeerOf(x) /\ p.known = x.known
  BY EntryFacts
<1> DEFINE h == [pc |-> "processing", end |-> e, peer |-> p, msg |-> m]
<1>7. h \in Handler /\ h.pc = "processing" /\ h.end = e /\ h.peer = p /\ h.msg = m
  BY DEF Handler
<1>8. handler' = [handler EXCEPT ![n] = h]
  BY <1>3, <1>5, <1>6
<1> HIDE DEF h
<1>9. handler'[n] = h /\ \A o \in Node \ {n} : handler'[o] = handler[o]
  BY <1>8 DEF TypeOK
<1>10. Elsewhere(n)
  BY <1>3, <1>9 DEF Elsewhere
<1>11. Lasting
  <2>1. Lasts(entries[n], entries'[n])
    BY <1>3, FromItself DEF TypeOK
  <2> QED BY <1>3, <1>10, <2>1, LastingStep
<1>12. Truthful
  BY <1>3, ShrinkingConsumed, ShrinkingStreams
<1>13. Binding(e, m.type) => Settled(e.conn)'
  <2>1. Binding(e, m.type) => Settled(e.conn)
    BY <1>5 DEF KInv, Answers
  <2> QED BY <1>2, <1>11, <2>1, SettledKept DEF StillSettled
<1>14. ASSUME ~p.known
       PROVE  e.side = "in" /\ (acceptor'[n].pc = "waiting" => acceptor'[n].end # e)
  <2>1. e.side \in {"out", "in"} /\ e.side # "out"
    BY <1>1, <1>2, <1>6, <1>14, EndFacts DEF Ends, Placed
  <2>2. acceptor[n].pc = "waiting" => acceptor[n].end # e
    BY <1>1, <1>2, <1>4, AwaitedFacts
  <2> QED BY <1>3, <2>1, <2>2
<1>15. Learning(n, h)'
  BY <1>7, <1>13, <1>14 DEF Learning, Binding
<1>16. \A c \in greeted' : c \in greeted
  BY <1>3
<1> QED BY <1>7, <1>9, <1>10, <1>11, <1>12, <1>15, <1>16, LearnsStep

LEMMA HandlerDropsLearns ==
    ASSUME HInv, HInv', KInv, NEW n \in Node, NEW i \in DOMAIN entries[n], HandlerDrops(n, i)
    PROVE  KInv'
<1> USE DEF HInv
<1>1. /\ Removed(n, i) /\ handler[n] = Idle
      /\ UNCHANGED << setting, alive, backlog, acceptor, handler, dialled, greeted, mishaps, noise >>
  BY DEF HandlerDrops
<1>2. /\ shut \subseteq shut' /\ entries[n][i].end \in shut'
      /\ \A m \in Node \ {n} : entries'[m] = entries[m]
      /\ \A j \in DOMAIN entries[n] : j # i =>
              \E k \in DOMAIN entries'[n] : entries'[n][k] = entries[n][j]
      /\ \A c \in End : stream'[c] = stream[c] \/ stream'[c] = << >>
  BY <1>1, RemovedFacts
<1>3. Elsewhere(n)
  BY <1>1, <1>2 DEF Elsewhere
<1>4. \A j \in DOMAIN entries[n] : entries[n][j].known =>
        \/ \E k \in DOMAIN entries'[n] :
            entries'[n][k].end = entries[n][j].end /\ entries'[n][k].known
        \/ entries[n][j].end \in shut'
  <2> SUFFICES ASSUME NEW j \in DOMAIN entries[n], entries[n][j].known, j # i
               PROVE  \E k \in DOMAIN entries'[n] :
                        entries'[n][k].end = entries[n][j].end /\ entries'[n][k].known
    BY <1>2
  <2>1. PICK k \in DOMAIN entries'[n] : entries'[n][k] = entries[n][j]
    BY <1>2
  <2> QED BY <2>1
<1>5. Lasting
  <2>1. TypeOK
    OBVIOUS
  <2> QED BY <1>1, <1>2, <1>3, <1>4, <2>1, LastingStep
<1>6. Truthful
  BY <1>2, ShrinkingStreams
<1> QED BY <1>1, <1>3, <1>5, <1>6, LearnsResting

LEMMA HandlerHangsUpLearns ==
    ASSUME HInv, HInv', KInv, NEW n \in Node, HandlerHangsUp(n)
    PROVE  KInv'
<1> USE DEF HInv
<1>1. /\ handler' = [handler EXCEPT ![n] = Idle]
      /\ UNCHANGED << setting, alive, entries, backlog, stream, shut, acceptor, dialled, greeted,
                      mishaps, noise >>
  BY DEF HandlerHangsUp
<1>2. handler'[n] = Idle /\ Elsewhere(n)
  BY <1>1 DEF TypeOK, Elsewhere
<1>3. Lasting
  <2>1. Lasts(entries[n], entries'[n])
    BY <1>1, FromItself DEF TypeOK
  <2> QED BY <1>1, <1>2, <2>1, LastingStep
<1>4. Truthful
  BY <1>1, ShrinkingStreams
<1> QED BY <1>1, <1>2, <1>3, <1>4, LearnsResting

\* What a handler writes for a peer it knows is true: the peer is one that was
\* accepted, or the first of its name, to which ACQUITED is sent in time.
LEMMA WrittenToKnown ==
    ASSUME HInv, StillSettled, NEW n \in Node, NEW p \in Peer, p.known, NEW m \in Message,
           m.type = "ACQUITED" =>
                (FirstIs(entries[n], p, OutEnd(<< n, p.node >>)) => Settled(<< n, p.node >>)),
           NEW str \in [End -> Seq(Message)], Shrinking(str),
           stream' = Written(str, n, Index(n, p), m)
    PROVE  Truthful
<1> USE DEF HInv
<1>1. PICK i \in 0..Len(entries[n]) : i = Index(n, p)
  BY IndexType
<1>2. ASSUME i \in DOMAIN entries[n], NEW c \in End, c = Far(entries[n][i].end), Binding(c, m.type)
      PROVE  Settled(c.conn)'
  <2>1. /\ entries[n] \in Seq(Entry) /\ i \in Nat /\ i # 0
        /\ PeerOf(entries[n][i]) = p
        /\ \A j \in DOMAIN entries[n] : PeerOf(entries[n][j]) = p => i <= j
    <3>1. entries[n] \in Seq(Entry)
      BY DEF TypeOK
    <3> QED BY <1>1, <1>2, <3>1, IndexFacts
  <2>2. PICK e \in End : e = entries[n][i].end
    BY <2>1, <1>2, EntryFacts
  <2>3. /\ Owner(e) = n /\ Owner(Far(e)) = p.node /\ entries[n][i].known
    BY <1>2, <2>1, <2>2, EntryFacts DEF Ends, Placed
  <2>4. c.conn = e.conn /\ e.conn \in Conn
    BY <1>2, <2>2, EndFacts
  <2>5. Settled(e.conn)
    <3>1. CASE e.side = "in"
      BY <1>2, <2>2, <2>3, <3>1, KnownSettles
    <3>2. CASE e.side = "out"
      <4>1. c = InEnd(e.conn) /\ e = OutEnd(e.conn) /\ e.conn = << n, p.node >>
        BY <1>2, <2>2, <2>3, <3>2, EndFacts
      <4>2. c.side = "in"
        BY <4>1, <2>4, ConnEnds
      <4>3. m.type = "ACQUITED"
        BY <1>2, <4>2 DEF Binding
      <4>4. \A j \in DOMAIN entries[n] : j < i => PeerOf(entries[n][j]) # p
        <5> SUFFICES ASSUME NEW j \in DOMAIN entries[n], j < i, PeerOf(entries[n][j]) = p PROVE FALSE
          OBVIOUS
        <5>1. i <= j /\ j \in Nat
          BY <2>1
        <5> QED BY <2>1, <5>1
      <4>5. FirstIs(entries[n], p, e)
        BY <1>2, <2>2, <4>4 DEF FirstIs
      <4> QED BY <4>1, <4>3, <4>5
    <3> QED BY <3>1, <3>2, EndFacts
  <2> QED BY <2>4, <2>5 DEF StillSettled
<1>3. \A c \in End : i \in DOMAIN entries[n] /\ c = Far(entries[n][i].end) /\ Binding(c, m.type)
                        => Settled(c.conn)'
  BY <1>2
<1>4. TypeOK /\ stream' = Written(str, n, i, m)
  BY <1>1
<1> QED BY <1>3, <1>4, TruthfulWritten

LEMMA HandlerAsksLearns ==
    ASSUME HInv, HInv', KInv, NEW n \in Node, HandlerAsks(n)
    PROVE  KInv'
<1> USE DEF HInv
<1>1. PICK h \in Handler : h = handler[n]
  BY DEF TypeOK
<1>2. h.pc = "asking" /\ Serving(n, h) /\ h.peer \in Peer
  BY <1>1, HandlerFacts DEF HandlerAsks, Serves
<1>3. PICK p \in Peer : p = h.peer /\ p.known /\ NamedIn(entries[n], p)
  BY <1>2 DEF Serving
<1>4. PICK i \in DOMAIN entries[n] : i = Index(n, p) /\ PeerOf(entries[n][i]) = p
  BY <1>3, IndexType
<1>5. PICK y \in Entry : y = entries[n][i]
  BY DEF TypeOK
<1>6. PICK e \in End : e = y.end
  BY EntryFacts
<1> DEFINE x == [y EXCEPT !.deaf = TRUE]
           g == [pc |-> "waiting", end |-> e, peer |-> p]
<1>7. x \in Entry /\ x.end = entries[n][i].end /\ (entries[n][i].known => x.known)
  <2>1. [y EXCEPT !.deaf = TRUE] \in Entry /\ [y EXCEPT !.deaf = TRUE].end = y.end
        /\ [y EXCEPT !.deaf = TRUE].known = y.known
    BY EntryChanges
  <2> QED BY <1>5, <2>1
<1>8. g \in Handler /\ g.pc = "waiting" /\ g.end = e /\ g.peer = p
  BY DEF Handler
<1>9. /\ stream' = Written(stream, n, i, Plain("LIST_REQUEST"))
      /\ entries' = [entries EXCEPT ![n] = [entries[n] EXCEPT ![i] = x]]
      /\ handler' = [handler EXCEPT ![n] = g]
      /\ UNCHANGED << setting, alive, backlog, shut, acceptor, dialled, greeted, mishaps, noise >>
  BY <1>1, <1>3, <1>4, <1>5, <1>6 DEF HandlerAsks, TypeOK
<1> HIDE DEF x, g
<1>10. /\ \A m \in Node \ {n} : entries'[m] = entries[m]
       /\ From(entries[n], entries'[n]) /\ Lasts(entries[n], entries'[n])
  <2>1. TypeOK
    OBVIOUS
  <2> QED BY <1>7, <1>9, <2>1, SetFacts
<1>11. handler'[n] = g /\ Elsewhere(n)
  BY <1>9, <1>10 DEF Elsewhere, TypeOK
<1>12. Lasting
  <2>1. TypeOK
    OBVIOUS
  <2> QED BY <1>9, <1>10, <1>11, <2>1, LastingStep
<1>13. StillSettled
  BY <1>12, SettledKept
<1>14. Truthful
  <2>1. PICK m \in Message : m = Plain("LIST_REQUEST") /\ m.type = "LIST_REQUEST"
    BY MessageFacts
  <2>2. stream \in [End -> Seq(Message)] /\ stream' = Written(stream, n, Index(n, p), m)
    BY <1>4, <1>9, <2>1 DEF TypeOK
  <2> QED BY <1>3, <1>13, <2>1, <2>2, ShrinkingStreams, WrittenToKnown
<1>15. ASSUME FirstIs(entries[n], p, OutEnd(<< n, p.node >>))'
       PROVE  e = OutEnd(<< n, p.node >>)
  <2>1. PICK o : o = OutEnd(<< n, p.node >>)
    OBVIOUS
  <2>2. /\ entries[n] \in Seq(Entry) /\ entries'[n] \in Seq(Entry) /\ OnceIn(entries[n])
        /\ FirstIs(entries'[n], p, o)
    BY <1>15, <2>1 DEF TypeOK, Once
  <2>3. FirstIs(entries[n], p, o)
    BY <1>3, <1>10, <2>2, FirstKept
  <2>4. PICK j \in DOMAIN entries[n] :
            entries[n][j].end = o /\ \A l \in DOMAIN entries[n] : l < j => PeerOf(entries[n][l]) # p
    BY <2>3 DEF FirstIs
  <2>5. PeerOf(entries[n][j]) = p
    <3>1. PICK z \in Entry : z = entries[n][j]
      BY <2>2
    <3>2. << n, p.node >> \in Conn
      BY DEF Conn, Peer
    <3>3. o \in End /\ o.side = "out" /\ Far(o) = InEnd(<< n, p.node >>)
          /\ Owner(Far(o)) = p.node
      BY <2>1, <3>2, ConnEnds
    <3>4. z.known
      BY <2>4, <3>1, <3>3 DEF Ends, Placed
    <3>5. p.known = z.known
      BY <1>3, <3>4, EntryFacts DEF Peer
    <3> QED BY <2>4, <3>1, <3>3, <3>5, EntryFacts
  <2>6. i <= j /\ ~(i < j) /\ i \in Nat /\ j \in Nat
    <3>1. Index(n, p) # 0
      BY <1>4, <2>2
    <3>2. i <= j
      BY <1>4, <2>2, <2>5, <3>1, IndexFacts
    <3> QED BY <1>4, <2>2, <2>4, <3>2
  <2> QED BY <1>5, <1>6, <2>1, <2>2, <2>4, <2>6
<1>16. Learning(n, g)'
  BY <1>8, <1>15 DEF Learning
<1> QED BY <1>8, <1>9, <1>11, <1>12, <1>14, <1>16, LearnsStep

\* A request for peers is answered over an entry that is known, or before the
\* acceptor has made it known.
LEMMA AnsweredEarly ==
    ASSUME HInv, KInv, NEW n \in Node, NEW h \in Handler, h = handler[n], h.pc = "processing",
           ~h.peer.known, NEW i \in DOMAIN entries[n], i = Index(n, h.peer)
    PROVE  /\ entries[n][i].end = h.end /\ h.end \in End /\ h.end.conn \in dialled
           /\ acceptor[n] = [pc |-> "answered", end |-> h.end]
<1> USE DEF HInv
<1>1. Serving(n, h) /\ Learning(n, h) /\ h.end \in End /\ h.peer \in Peer
  BY HandlerFacts DEF Serves, KInv, Learns
<1>2. PICK e \in End, p \in Peer : e = h.end /\ p = h.peer
  BY <1>1
<1>3. /\ Owner(e) = n /\ Owner(Far(e)) = p.node /\ e.side = "in" /\ e.conn \in dialled /\ ~p.known
      /\ (acceptor[n].pc = "waiting" => acceptor[n].end # e)
  BY <1>1, <1>2 DEF Serving, Learning
<1>4. PICK y \in Entry : y = entries[n][i]
  BY DEF TypeOK
<1>5. PeerOf(y) = p /\ ~y.known /\ Owner(Far(y.end)) = p.node
  <2>1. PeerOf(entries[n][i]) = p
    <3>1. entries[n] \in Seq(Entry) /\ i # 0
      BY DEF TypeOK
    <3> QED BY <1>2, <3>1, IndexFacts
  <2> QED BY <1>3, <1>4, <2>1, EntryFacts
<1>6. PICK f \in End : f = y.end /\ Owner(f) = n /\ Owner(Far(f)) = p.node
  BY <1>4, <1>5, EntryFacts DEF Ends, Placed
<1>7. f.side = "in"
  <2>1. f.side \in {"out", "in"} /\ f.side # "out"
    BY <1>4, <1>5, <1>6, EndFacts DEF Ends, Placed
  <2> QED BY <2>1
<1>8. f = e
  BY <1>3, <1>6, <1>7, EndFacts
<1>9. acceptor[n].pc # "idle" /\ acceptor[n].end = e
  BY <1>4, <1>5, <1>6, <1>8 DEF Unknown, UnknownIn
<1>10. PICK a \in Acceptor : a = acceptor[n]
  BY DEF TypeOK
<1>11. a.pc = "answered" /\ a = [pc |-> "answered", end |-> e]
  BY <1>3, <1>9, <1>10, AcceptorFacts
<1> QED BY <1>2, <1>3, <1>4, <1>6, <1>8, <1>10, <1>11

LEMMA HandlerProcessesLearns ==
    ASSUME HInv, HInv', KInv, NEW n \in Node, HandlerProcesses(n)
    PROVE  KInv'
<1> USE DEF HInv
<1>1. PICK h \in Handler : h = handler[n]
  BY DEF TypeOK
<1>2. PICK i \in 0..Len(entries[n]) : i = Index(n, h.peer)
  BY IndexType
<1>3. /\ h.pc = "processing" /\ Serving(n, h) /\ Learning(n, h) /\ h.peer \in Peer
      /\ h.end \in End
      /\ UNCHANGED << setting, alive, entries, backlog, shut, acceptor, dialled, noise >>
  BY <1>1, HandlerFacts DEF HandlerProcesses, Serves, KInv, Learns
<1>4. PICK p \in Peer : p = h.peer
  BY <1>3
<1>5. PICK l \in Message : l = [type |-> "LIST_ANSWER", list |-> Listed(n, h.peer)]
                            /\ l.type = "LIST_ANSWER"
  <2>1. TypeOK
    OBVIOUS
  <2>2. [type |-> "LIST_ANSWER", list |-> Listed(n, h.peer)] \in Message
    BY <2>1, ListedType
  <2> QED BY <2>2
<1>6. PICK q \in Message : q = Plain("INFO_ANSWER") /\ q.type = "INFO_ANSWER"
  BY MessageFacts
<1>7. \/ /\ h.msg.type = "INFO_REQUEST"
         /\ stream' = Written(stream, n, i, q)
         /\ handler' = [handler EXCEPT ![n] = [pc |-> "asking", peer |-> p]]
         /\ UNCHANGED << greeted, mishaps >>
      \/ /\ stream' = Written(stream, n, i, l)
         /\ handler' = [handler EXCEPT ![n] = Idle]
         /\ mishaps' = mishaps
               \union (IF i = 0 THEN {"renamed"} ELSE {})
               \union (IF acceptor[n] = [pc |-> "answered", end |-> h.end]
                       THEN {"early"} ELSE {})
         /\ UNCHANGED greeted
      \/ /\ greeted' = Greeted(h.end, h.msg)
         /\ handler' = [handler EXCEPT ![n] = Idle]
         /\ UNCHANGED << stream, mishaps >>
  BY <1>1, <1>2, <1>4, <1>5, <1>6 DEF HandlerProcesses
<1>8. Elsewhere(n) /\ mishaps \subseteq mishaps'
  BY <1>3, <1>7 DEF Elsewhere, TypeOK
<1>9. Lasting /\ StillSettled
  <2>1. Lasts(entries[n], entries'[n])
    BY <1>3, FromItself DEF TypeOK
  <2> QED BY <1>3, <1>8, <2>1, LastingStep, SettledKept
<1>10. stream \in [End -> Seq(Message)] /\ handler \in [Node -> Handler]
  BY DEF TypeOK
<1>11. ASSUME h.msg.type = "INFO_REQUEST", stream' = Written(stream, n, i, q),
              handler' = [handler EXCEPT ![n] = [pc |-> "asking", peer |-> p]],
              greeted' = greeted
       PROVE  KInv'
  <2> DEFINE g == [pc |-> "asking", peer |-> p]
  <2>1. g \in Handler /\ g.pc = "asking"
    BY DEF Handler
  <2>2. handler'[n] = g
    BY <1>10, <1>11
  <2> HIDE DEF g
  <2>3. Learning(n, g)'
    BY <2>1 DEF Learning
  <2>4. p.known
    BY <1>3, <1>4, <1>11 DEF Serving
  <2>5. Truthful
    <3>1. stream' = Written(stream, n, Index(n, p), q)
      BY <1>2, <1>4, <1>11
    <3> QED BY <1>6, <1>9, <1>10, <2>4, <3>1, ShrinkingStreams, WrittenToKnown
  <2> QED BY <1>8, <1>9, <1>11, <2>1, <2>2, <2>3, <2>5, LearnsStep
<1>12. ASSUME stream' = Written(stream, n, i, l), handler'[n] = Idle, greeted' = greeted,
              acceptor[n] = [pc |-> "answered", end |-> h.end] => "early" \in mishaps'
       PROVE  KInv'
  <2>1. Truthful
    <3>1. CASE p.known
      <4>1. stream' = Written(stream, n, Index(n, p), l)
        BY <1>2, <1>4, <1>12
      <4> QED BY <1>5, <1>9, <1>10, <3>1, <4>1, ShrinkingStreams, WrittenToKnown
    <3>2. CASE ~p.known
      <4>1. ASSUME i \in DOMAIN entries[n], NEW c \in End, c = Far(entries[n][i].end)
            PROVE  Settled(c.conn)'
        <5>1. /\ entries[n][i].end = h.end /\ h.end.conn \in dialled
              /\ acceptor[n] = [pc |-> "answered", end |-> h.end]
          BY <1>1, <1>2, <1>3, <1>4, <3>2, <4>1, AnsweredEarly
        <5>2. c.conn = h.end.conn
          BY <1>3, <4>1, <5>1, EndFacts
        <5>3. c.conn \in dialled' /\ "early" \in mishaps'
          BY <1>3, <1>12, <5>1, <5>2
        <5> QED BY <5>3 DEF Settled
      <4>2. \A c \in End : i \in DOMAIN entries[n] /\ c = Far(entries[n][i].end)
                            /\ Binding(c, l.type) => Settled(c.conn)'
        BY <4>1
      <4>3. TypeOK
        OBVIOUS
      <4> QED BY <1>10, <1>12, <4>2, <4>3, ShrinkingStreams, TruthfulWritten
    <3> QED BY <3>1, <3>2
  <2> QED BY <1>8, <1>9, <1>12, <2>1, LearnsResting
<1>13. ASSUME greeted' = Greeted(h.end, h.msg), handler'[n] = Idle, stream' = stream
       PROVE  KInv'
  <2>1. Truthful
    BY <1>13, ShrinkingStreams
  <2>2. \A c \in greeted' : c \in greeted \/ Settled(c.conn)'
    <3> SUFFICES ASSUME h.msg.type = "ACQUITED" PROVE Settled(h.end.conn)'
      BY <1>13 DEF Greeted
    <3>1. Settled(h.end.conn) /\ h.end.conn \in Conn
      BY <1>3, EndFacts DEF Learning, Binding
    <3> QED BY <1>9, <3>1 DEF StillSettled
  <2> QED BY <1>8, <1>9, <1>13, <2>1, <2>2, LearnsResting
<1>14. [handler EXCEPT ![n] = Idle][n] = Idle
  BY <1>10
<1> QED BY <1>7, <1>11, <1>12, <1>13, <1>14

LEMMA HandlerHearsLearns ==
    ASSUME HInv, HInv', KInv, NEW n \in Node, HandlerHears(n)
    PROVE  KInv'
<1> USE DEF HInv
<1>1. PICK h \in Handler : h = handler[n]
  BY DEF TypeOK
<1>2. /\ h.pc = "waiting" /\ Serving(n, h) /\ Learning(n, h) /\ h.end \in End /\ h.peer \in Peer
  BY <1>1, HandlerFacts DEF HandlerHears, Serves, KInv, Learns
<1>3. PICK e \in End, p \in Peer : e = h.end /\ p = h.peer
  BY <1>2
<1>4. /\ p.known
      /\ \E j \in DOMAIN entries[n] : entries[n][j].end = e /\ PeerOf(entries[n][j]) = p
  BY <1>2, <1>3 DEF Serving
<1>5. PICK i \in DOMAIN entries[n] :
        i = IndexOfEnd(n, e) /\ entries[n][i].end = e /\ PeerOf(entries[n][i]) = p
  <2>1. entries[n] \in Seq(Entry) /\ OnceIn(entries[n])
    BY DEF TypeOK, Once
  <2> QED BY <1>4, <2>1, IndexOfEndFacts DEF OnceIn
<1>6. PICK y \in Entry : y = entries[n][i]
  BY DEF TypeOK
<1>7. PICK l \in Message : l = [type |-> "LIST_ANSWER", list |-> Listed(n, p)]
                            /\ l.type = "LIST_ANSWER"
  <2>1. TypeOK
    OBVIOUS
  <2>2. [type |-> "LIST_ANSWER", list |-> Listed(n, p)] \in Message
    BY <2>1, ListedType
  <2> QED BY <2>2
<1> DEFINE x == [y EXCEPT !.deaf = FALSE]
<1>8. x \in Entry /\ x.end = entries[n][i].end /\ (entries[n][i].known => x.known)
  <2>1. [y EXCEPT !.deaf = FALSE] \in Entry /\ [y EXCEPT !.deaf = FALSE].end = y.end
        /\ [y EXCEPT !.deaf = FALSE].known = y.known
    BY EntryChanges
  <2> QED BY <1>6, <2>1
<1>9. PICK k \in 1..setting.reads :
        /\ k <= Len(stream[e])
        /\ entries' = [entries EXCEPT ![n] = [entries[n] EXCEPT ![i] = x]]
        /\ \/ /\ Head(stream[e]).type = "LIST_ANSWER"
              /\ handler' = [handler EXCEPT ![n] =
                        [pc |-> "joining", peer |-> p, list |-> Head(stream[e]).list]]
              /\ stream' = Consumed(e, k) /\ mishaps' = mishaps \union Swallowed(e, k)
              /\ UNCHANGED greeted
           \/ /\ handler' = [handler EXCEPT ![n] = Idle]
              /\ stream' = Consumed(e, k) \/ stream' = Written(Consumed(e, k), n, Index(n, p), l)
              /\ greeted' = Greeted(e, Head(stream[e])) /\ mishaps' = mishaps \union {"intruded"}
  <2>1. PICK k \in 1..setting.reads :
            /\ k <= Len(stream[e])
            /\ entries' = [entries EXCEPT ![n][i].deaf = FALSE]
            /\ LET msg == Head(stream[e])
               IN  IF msg.type = "LIST_ANSWER"
                   THEN /\ handler' = [handler EXCEPT ![n] =
                              [pc |-> "joining", peer |-> p, list |-> msg.list]]
                        /\ stream' = Consumed(e, k)
                        /\ mishaps' = mishaps \union Swallowed(e, k)
                        /\ UNCHANGED greeted
                   ELSE /\ handler' = [handler EXCEPT ![n] = Idle]
                        /\ stream' = IF msg.type # "LIST_REQUEST" THEN Consumed(e, k)
                              ELSE Written(Consumed(e, k), n, Index(n, p), l)
                        /\ greeted' = Greeted(e, msg)
                        /\ mishaps' = mishaps \union {"intruded"}
    BY <1>1, <1>3, <1>5, <1>7 DEF HandlerHears
  <2>2. entries' = [entries EXCEPT ![n] = [entries[n] EXCEPT ![i] = x]]
    BY <1>6, <2>1 DEF TypeOK
  <2> HIDE DEF x
  <2> QED BY <2>1, <2>2
<1> HIDE DEF x
<1>10. UNCHANGED << setting, alive, backlog, shut, acceptor, dialled, noise >>
  BY DEF HandlerHears
<1>11. PICK m \in Message : m = Head(stream[e]) /\ m = stream[e][1] /\ 1 \in DOMAIN stream[e]
  BY <1>9, ConsumedFacts
<1>12. /\ \A o \in Node \ {n} : entries'[o] = entries[o]
       /\ From(entries[n], entries'[n]) /\ Lasts(entries[n], entries'[n])
  <2>1. TypeOK
    OBVIOUS
  <2> QED BY <1>8, <1>9, <2>1, SetFacts
<1>13. Elsewhere(n) /\ mishaps \subseteq mishaps' /\ handler \in [Node -> Handler]
  BY <1>9, <1>10, <1>12 DEF Elsewhere, TypeOK
<1>14. Lasting /\ StillSettled
  <2>1. TypeOK
    OBVIOUS
  <2> QED BY <1>10, <1>12, <1>13, <2>1, LastingStep, SettledKept
<1>15. Binding(e, m.type) => Settled(e.conn) /\ Settled(e.conn)' /\ e.conn \in Conn
  <2>1. Binding(e, m.type) => Settled(e.conn)
    BY <1>11 DEF KInv, Answers
  <2> QED BY <1>14, <2>1, EndFacts DEF StillSettled
<1>16. PICK str \in [End -> Seq(Message)] : str = Consumed(e, k) /\ Shrinking(str)
  BY <1>9, ConsumedFacts, ShrinkingConsumed
<1>17. ASSUME m.type = "LIST_ANSWER", stream' = str, greeted' = greeted,
              handler'[n] = [pc |-> "joining", peer |-> p, list |-> m.list]
       PROVE  KInv'
  <2> DEFINE g == [pc |-> "joining", peer |-> p, list |-> m.list]
  <2>1. g \in Handler /\ g.pc = "joining" /\ g.peer = p
    <3>1. m.list \in Seq(Node)
      BY <1>17, MessageFacts
    <3> QED BY <3>1 DEF Handler
  <2>2. handler'[n] = g
    BY <1>17
  <2> HIDE DEF g
  <2>3. Truthful
    BY <1>16, <1>17, ShrinkingStreams
  <2>4. ASSUME FirstIs(entries[n], p, OutEnd(<< n, p.node >>))'
        PROVE  Settled(<< n, p.node >>)'
    <3>1. PICK o : o = OutEnd(<< n, p.node >>)
      OBVIOUS
    <3>2. /\ entries[n] \in Seq(Entry) /\ entries'[n] \in Seq(Entry) /\ OnceIn(entries[n])
          /\ FirstIs(entries'[n], p, o)
      BY <2>4, <3>1 DEF TypeOK, Once
    <3>3. NamedIn(entries[n], p)
      BY <1>4 DEF NamedIn
    <3>4. FirstIs(entries[n], p, o)
      BY <1>4, <1>12, <3>2, <3>3, FirstKept
    <3>5. e = OutEnd(<< n, p.node >>)
      BY <1>2, <1>3, <3>1, <3>4 DEF Learning
    <3>6. << n, p.node >> \in Conn
      BY DEF Conn, Peer
    <3>7. e.side = "out" /\ e.conn = << n, p.node >>
      BY <3>5, <3>6, ConnEnds
    <3> QED BY <1>15, <1>17, <3>7 DEF Binding
  <2>5. Learning(n, g)'
    BY <2>1, <2>4 DEF Learning
  <2> QED BY <1>13, <1>14, <1>17, <2>1, <2>2, <2>3, <2>5, LearnsStep
<1>18. ASSUME stream' = str \/ stream' = Written(str, n, Index(n, p), l),
              greeted' = Greeted(e, m), handler'[n] = Idle
       PROVE  KInv'
  <2>1. Truthful
    <3>1. CASE stream' = str
      BY <1>16, <3>1, ShrinkingStreams
    <3>2. CASE stream' = Written(str, n, Index(n, p), l)
      BY <1>4, <1>7, <1>14, <1>16, <3>2, WrittenToKnown
    <3> QED BY <1>18, <3>1, <3>2
  <2>2. \A c \in greeted' : c \in greeted \/ Settled(c.conn)'
    <3> SUFFICES ASSUME m.type = "ACQUITED" PROVE Settled(e.conn)'
      BY <1>18 DEF Greeted
    <3> QED BY <1>15 DEF Binding
  <2> QED BY <1>13, <1>14, <1>18, <2>1, <2>2, LearnsResting
<1> DEFINE j == [pc |-> "joining", peer |-> p, list |-> m.list]
<1>19. \/ /\ m.type = "LIST_ANSWER" /\ stream' = str /\ greeted' = greeted
          /\ handler' = [handler EXCEPT ![n] = j]
       \/ /\ stream' = str \/ stream' = Written(str, n, Index(n, p), l)
          /\ greeted' = Greeted(e, m) /\ handler' = [handler EXCEPT ![n] = Idle]
  BY <1>9, <1>11, <1>16
<1>20. [handler EXCEPT ![n] = Idle][n] = Idle /\ [handler EXCEPT ![n] = j][n] = j
  BY <1>13
<1> QED BY <1>17, <1>18, <1>19, <1>20

LEMMA HandlerJoinsLearns ==
    ASSUME HInv, HInv', KInv, NEW n \in Node, HandlerJoins(n)
    PROVE  KInv'
<1> USE DEF HInv
<1>1. PICK h \in Handler : h = handler[n]
  BY DEF TypeOK
<1>2. /\ h.pc = "joining" /\ Serving(n, h) /\ Learning(n, h)
      /\ h.list \in Seq(Node) /\ h.peer \in Peer
      /\ entries[n] \in Seq(Entry) /\ stream \in [End -> Seq(Message)]
      /\ handler \in [Node -> Handler]
  BY <1>1, HandlerFacts DEF HandlerJoins, Serves, KInv, Learns, TypeOK
<1>3. PICK p \in Peer : p = h.peer /\ p.known
  BY <1>2 DEF Serving
<1>4. CASE h.list = << >>
  <2>1. /\ stream' = Written(stream, n, Index(n, p), Plain("ACQUITED"))
        /\ handler' = [handler EXCEPT ![n] = Idle]
        /\ UNCHANGED << setting, alive, entries, backlog, shut, acceptor, dialled, greeted,
                        mishaps, noise >>
    BY <1>1, <1>3, <1>4 DEF HandlerJoins
  <2>2. handler'[n] = Idle /\ Elsewhere(n)
    BY <1>2, <2>1 DEF Elsewhere
  <2>3. Lasting /\ StillSettled
    <3>1. Lasts(entries[n], entries'[n])
      BY <1>2, <2>1, FromItself
    <3> QED BY <2>1, <2>2, <3>1, LastingStep, SettledKept
  <2>4. Truthful
    <3>1. PICK m \in Message : m = Plain("ACQUITED")
      BY MessageFacts
    <3>2. FirstIs(entries[n], p, OutEnd(<< n, p.node >>)) => Settled(<< n, p.node >>)
      BY <1>2, <1>3 DEF Learning
    <3>3. stream' = Written(stream, n, Index(n, p), m)
      BY <2>1, <3>1
    <3> QED BY <1>2, <1>3, <2>3, <3>2, <3>3, ShrinkingStreams, WrittenToKnown
  <2> QED BY <2>1, <2>2, <2>3, <2>4, LearnsResting
<1>5. CASE h.list # << >>
  <2>1. PICK s \in Node : s = Head(h.list)
    BY <1>2, <1>5
  <2> DEFINE g == [h EXCEPT !.list = Tail(@)]
  <2>2. g \in Handler /\ g.pc = "joining" /\ g.peer = p
    <3>1. h \in [pc : {"joining"}, peer : Peer, list : Seq(Node)]
      BY <1>2 DEF Handler
    <3>2. Tail(h.list) \in Seq(Node)
      BY <1>2, <1>5, TailFacts
    <3>3. g \in [pc : {"joining"}, peer : Peer, list : Seq(Node)] /\ g.peer = h.peer
      BY <3>1, <3>2
    <3> HIDE DEF g
    <3> QED BY <1>3, <3>3 DEF Handler
  <2>3. /\ handler' = [handler EXCEPT ![n] = g]
        /\ \/ CanConnect(n, s) /\ Connected(n, s)
           \/ UNCHANGED << entries, backlog, dialled >>
        /\ UNCHANGED << setting, alive, stream, shut, acceptor, greeted, mishaps, noise >>
    BY <1>1, <1>5, <2>1 DEF HandlerJoins, TypeOK
  <2> HIDE DEF g
  <2>4. handler'[n] = g /\ \A m \in Node \ {n} : handler'[m] = handler[m]
    BY <1>2, <2>3
  <2>5. /\ dialled \subseteq dialled' /\ \A m \in Node \ {n} : entries'[m] = entries[m]
        /\ Listing(n) /\ Lasts(entries[n], entries'[n])
    <3>1. CASE UNCHANGED << entries, backlog, dialled >>
      <4>1. From(entries[n], entries[n]) /\ Lasts(entries[n], entries[n])
        BY <1>2, FromItself
      <4> QED BY <3>1, <4>1 DEF Listing
    <3>2. CASE CanConnect(n, s) /\ Connected(n, s)
      <4>1. << n, s >> \notin dialled
        BY <3>2 DEF CanConnect
      <4>2. /\ dialled \subseteq dialled' /\ \A m \in Node \ {n} : entries'[m] = entries[m]
            /\ \E x \in Entry : Adds(entries[n], entries'[n], x) /\ Placed(n, x)'
        BY <2>3, <3>2, <4>1, ConnectedFacts
      <4>3. Lasts(entries[n], entries'[n]) /\ Listing(n)
        BY <1>2, <4>2, AddsFacts DEF Listing
      <4> QED BY <4>2, <4>3
    <3> QED BY <2>3, <3>1, <3>2
  <2>6. Elsewhere(n) /\ Awaiting(n)
    BY <2>3, <2>4, <2>5 DEF Elsewhere, Awaiting
  <2>7. Lasting /\ StillSettled
    BY <2>3, <2>5, <2>6, LastingStep, SettledKept
  <2>8. Truthful
    BY <2>3, ShrinkingStreams
  <2>9. Learning(n, g)'
    <3>1. Learning(n, h)'
      BY <1>2, <2>5, <2>6, <2>7, LearningKept
    <3> QED BY <1>2, <1>3, <2>2, <3>1 DEF Learning
  <2>10. \A c \in greeted' : c \in greeted
    BY <2>3
  <2> QED BY <2>2, <2>4, <2>6, <2>7, <2>8, <2>9, <2>10, LearnsStep
<1> QED BY <1>4, <1>5

-----------------------------------------------------------------------------
(***************************************************************************)
(* The theorem about ACQUITED.                                             *)
(***************************************************************************)

LEMMA InitKInv == Init => KInv
<1> SUFFICES ASSUME Init PROVE KInv
  OBVIOUS
<1>1. /\ \A n \in Node : handler[n] = Idle
      /\ \A e \in End : stream[e] = << >>
      /\ greeted = {} /\ DOMAIN << >> = {} /\ Idle.pc = "idle"
  BY IdleFacts DEF Init
<1> QED BY <1>1 DEF KInv, Answers, Learns, Learning

LEMMA NextKInv == HInv /\ HInv' /\ KInv /\ [Next]_vars => KInv'
<1> SUFFICES ASSUME HInv, HInv', KInv, [Next]_vars PROVE KInv'
  OBVIOUS
<1>1. CASE UNCHANGED vars
  <2>1. /\ entries' = entries /\ stream' = stream /\ shut' = shut /\ acceptor' = acceptor
        /\ handler' = handler /\ dialled' = dialled /\ greeted' = greeted /\ mishaps' = mishaps
    BY <1>1 DEF vars
  <2>2. StillSettled
    BY <2>1 DEF StillSettled, Settled, Open, Known
  <2>3. Answers'
    BY <2>1, <2>2, ShrinkingStreams, AnswersKept DEF KInv
  <2>4. \A c \in greeted' : Settled(c.conn)'
    BY <2>1, <2>2 DEF KInv, HInv, TypeOK, StillSettled
  <2>5. Learns'
    <3> SUFFICES ASSUME NEW n \in Node PROVE Learning(n, handler[n])'
      BY DEF Learns
    <3>1. PICK h \in Handler : h = handler[n]
      BY DEF HInv, TypeOK
    <3>2. handler'[n] = h /\ Serving(n, h) /\ Learning(n, h)
      BY <2>1, <3>1 DEF HInv, KInv, Serves, Learns
    <3>3. Lasts(entries[n], entries'[n]) /\ Listing(n) /\ Awaiting(n)
      BY <2>1, FromItself DEF HInv, TypeOK, Listing, Awaiting
    <3>4. Learning(n, h)'
      BY <2>2, <3>2, <3>3, LearningKept
    <3> QED BY <3>2, <3>4 DEF Learning
  <2> QED BY <2>3, <2>4, <2>5 DEF KInv
<1>2. ASSUME NEW i \in DOMAIN setting.peers, Dial(i) PROVE KInv'
  BY <1>2, DialLearns
<1>3. ASSUME NEW n \in Node, Leave(n) \/ Broadcast(n) PROVE KInv'
  BY <1>3, LeaveLearns, BroadcastLearns
<1>4. ASSUME NEW n \in Node, AcceptorStep(n) PROVE KInv'
  BY <1>4, AcceptLearns, AcceptorReadsLearns, AcceptorHangsUpLearns, AcceptorUpdatesLearns
     DEF AcceptorStep
<1>5. ASSUME NEW n \in Node, HandlerStep(n) PROVE KInv'
  BY <1>5, HandlerProcessesLearns, HandlerAsksLearns, HandlerHearsLearns, HandlerHangsUpLearns,
     HandlerJoinsLearns, HandlerReadsLearns, HandlerDropsLearns DEF HandlerStep
<1> QED BY <1>1, <1>2, <1>3, <1>4, <1>5 DEF Next

\* Once a node has handled ACQUITED (p2p_server.cpp:177, 238) it knows the
\* listening port of the peer (:102), as long as the connection is open and no
\* handler was ahead of its acceptor.
THEOREM AcquitedMeansKnown == Spec => []AcquitedIsKnown
<1>1. KInv => AcquitedIsKnown
  BY DEF KInv, AcquitedIsKnown, Settled, Known
<1>2. Spec => []KInv
  BY InitKInv, NextKInv, InvariantHolds, PTL DEF Spec
<1> QED BY <1>1, <1>2, PTL

-----------------------------------------------------------------------------
(***************************************************************************)
(* Who meets whom: the invariant.                                          *)
(***************************************************************************)

\* When a connection is accepted, every earlier peer is known.
OrderedIn(s) == \A i, j \in DOMAIN s : i < j /\ s[j].end.side = "in" => s[i].known

\* c is a peer that the node which accepted k had by then, and still has.
Before(k, c) ==
    \E i, j \in DOMAIN entries[k[2]] :
        /\ i < j /\ entries[k[2]][j].end = InEnd(k)
        /\ Owner(Far(entries[k[2]][i].end)) = c /\ c # k[1]

\* Nothing is left to do about c for the node that made k.
Met(k, c) == c \notin alive \/ << c, k[1] >> \in dialled \/ << k[1], c >> \in dialled

\* The node that made k was told of the peers to meet: those not in l are met.
Fetched(k, l) ==
    /\ Clear(k)
    /\ \A c \in Node : Before(k, c) => Met(k, c) \/ \E i \in DOMAIN l : l[i] = c

\* What a message that was written for e stands for.
Sincere(e, m) ==
    /\ m.type = "LIST_REQUEST" => Clear(<< Owner(Far(e)), Owner(e) >>)
    /\ m.type = "LIST_ANSWER" => Fetched(<< Owner(e), Owner(Far(e)) >>, m.list)
    /\ m.type = "ACQUITED" => Fetched(<< Owner(Far(e)), Owner(e) >>, << >>)

\* A handler asks over a connection that is clear, and joins whom it was told of.
Meeting(n, h) ==
    /\ h.pc = "processing" => Sincere(h.end, h.msg)
    /\ h.pc = "waiting" => Clear(<< n, h.peer.node >>)
    /\ h.pc = "joining" => Fetched(<< n, h.peer.node >>, h.list)

MInv ==
    /\ \A n \in Node : OrderedIn(entries[n]) /\ Meeting(n, handler[n])
    /\ \A e \in End : \A i \in DOMAIN stream[e] : Sincere(e, stream[e][i])
    /\ \A e \in greeted : Fetched(<< Owner(Far(e)), Owner(e) >>, << >>)

-----------------------------------------------------------------------------
(***************************************************************************)
(* What keeps that invariant.                                              *)
(***************************************************************************)

\* n loses peers, or gets one more: by dialling it, or by accepting it, and
\* then it knows all the others.
Fresh(n) ==
    \/ From(entries[n], entries'[n])
    \/ \E x \in Entry :
        /\ Adds(entries[n], entries'[n], x)
        /\ \/ x.end.side = "out"
           \/ Pending(x.end.conn) /\ \A i \in DOMAIN entries[n] : entries[n][i].known

\* What is in a stream was there, or is sincere.
Sent ==
    \A e \in End : \A m \in Message :
        (\E j \in DOMAIN stream'[e] : stream'[e][j] = m)
            => (\E i \in DOMAIN stream[e] : stream[e][i] = m) \/ Sincere(e, m)'

\* A step of n that undoes nothing.
Steady(n) ==
    Elsewhere(n) /\ Growing /\ StillClear /\ Fresh(n) /\ alive' \subseteq alive

LEMMA FreshItself ==
    ASSUME TypeOK, NEW n \in Node, entries'[n] = entries[n]
    PROVE  Fresh(n)
<1>1. entries[n] \in Seq(Entry)
  BY DEF TypeOK
<1> QED BY <1>1, FromItself DEF Fresh

LEMMA OrderedKept ==
    ASSUME TypeOK, TypeOK', NEW n \in Node, Fresh(n), OrderedIn(entries[n])
    PROVE  OrderedIn(entries'[n])
<1>1. PICK s \in Seq(Entry), t \in Seq(Entry) : s = entries[n] /\ t = entries'[n]
  BY DEF TypeOK
<1> SUFFICES ASSUME NEW i \in DOMAIN t, NEW j \in DOMAIN t, i < j, t[j].end.side = "in"
             PROVE  t[i].known
  BY <1>1 DEF OrderedIn
<1>2. CASE From(s, t)
  <2>1. PICK f \in [DOMAIN t -> DOMAIN s] :
            /\ \A l \in DOMAIN t : t[l].end = s[f[l]].end /\ (s[f[l]].known => t[l].known)
            /\ \A l, o \in DOMAIN t : l < o => f[l] < f[o]
    BY <1>2 DEF From
  <2>2. f[i] \in DOMAIN s /\ f[j] \in DOMAIN s /\ f[i] < f[j] /\ s[f[j]].end.side = "in"
    BY <2>1
  <2>3. s[f[i]].known
    BY <1>1, <2>2 DEF OrderedIn
  <2> QED BY <2>1, <2>3
<1>3. ASSUME NEW x \in Entry, Adds(s, t, x),
             x.end.side = "out" \/ \A l \in DOMAIN s : s[l].known
      PROVE  t[i].known
  <2>1. /\ \A l \in DOMAIN t : (l \in DOMAIN s /\ t[l] = s[l]) \/ l = Len(s) + 1
        /\ t[Len(s) + 1] = x /\ Len(s) \in Nat /\ DOMAIN s = 1..Len(s)
        /\ Len(t) = Len(s) + 1
    BY <1>3, AppendFacts DEF Adds
  <2>2. i \in DOMAIN s /\ t[i] = s[i]
    <3>1. DOMAIN t = 1..(Len(s) + 1)
      BY <2>1
    <3>2. i # Len(s) + 1
      BY <2>1, <3>1
    <3> QED BY <2>1, <3>2
  <2>3. CASE j \in DOMAIN s /\ t[j] = s[j]
    BY <1>1, <2>2, <2>3 DEF OrderedIn
  <2>4. CASE j = Len(s) + 1
    BY <1>3, <2>1, <2>2, <2>4
  <2> QED BY <2>1, <2>3, <2>4
<1> QED BY <1>1, <1>2, <1>3 DEF Fresh

\* On a connection that is clear, no peer comes to be an earlier one.
LEMMA BeforeKept ==
    ASSUME TypeOK, TypeOK', NEW k \in Conn, Clear(k), Fresh(k[2]), NEW c, Before(k, c)'
    PROVE  Before(k, c)
<1>1. PICK n \in Node : n = k[2]
  BY ConnEnds
<1>2. PICK s \in Seq(Entry), t \in Seq(Entry) : s = entries[n] /\ t = entries'[n]
  BY DEF TypeOK
<1>3. PICK e : e = InEnd(k) /\ e.conn = k /\ e.side = "in"
  BY ConnEnds
<1>4. PICK i \in DOMAIN t, j \in DOMAIN t :
        i < j /\ t[j].end = e /\ Owner(Far(t[i].end)) = c /\ c # k[1]
  <2>1. \E i, j \in DOMAIN entries'[k[2]] :
            /\ i < j /\ entries'[k[2]][j].end = InEnd(k)
            /\ Owner(Far(entries'[k[2]][i].end)) = c /\ c # k[1]
    BY DEF Before
  <2> QED BY <1>1, <1>2, <1>3, <2>1
<1> SUFFICES \E l, o \in DOMAIN s : l < o /\ s[o].end = e /\ Owner(Far(s[l].end)) = c
  BY <1>1, <1>2, <1>3, <1>4 DEF Before
<1>5. CASE From(s, t)
  <2>1. PICK f \in [DOMAIN t -> DOMAIN s] :
            /\ \A l \in DOMAIN t : t[l].end = s[f[l]].end
            /\ \A l, o \in DOMAIN t : l < o => f[l] < f[o]
    BY <1>5 DEF From
  <2> QED BY <1>4, <2>1
<1>6. ASSUME NEW x \in Entry, Adds(s, t, x), x.end.side = "out" \/ Pending(x.end.conn)
      PROVE  \E l, o \in DOMAIN s : l < o /\ s[o].end = e /\ Owner(Far(s[l].end)) = c
  <2>1. /\ \A l \in DOMAIN t : (l \in DOMAIN s /\ t[l] = s[l]) \/ l = Len(s) + 1
        /\ t[Len(s) + 1] = x /\ Len(s) \in Nat /\ DOMAIN s = 1..Len(s)
        /\ Len(t) = Len(s) + 1
    BY <1>6, AppendFacts DEF Adds
  <2>2. x.end # e
    BY <1>3, <1>6 DEF Clear
  <2>3. j \in DOMAIN s /\ t[j] = s[j]
    BY <1>4, <2>1, <2>2
  <2>4. i \in DOMAIN s /\ t[i] = s[i]
    <3>1. DOMAIN t = 1..(Len(s) + 1)
      BY <2>1
    <3>2. i # Len(s) + 1
      BY <1>4, <2>1, <3>1
    <3> QED BY <2>1, <3>2
  <2> QED BY <1>4, <2>3, <2>4
<1> QED BY <1>1, <1>2, <1>5, <1>6 DEF Fresh

LEMMA FetchedKept ==
    ASSUME TypeOK, TypeOK', Growing, StillClear, \A n \in Node : Fresh(n), alive' \subseteq alive,
           NEW k \in Conn, NEW l, Fetched(k, l)
    PROVE  Fetched(k, l)'
<1>1. Clear(k) /\ Clear(k)' /\ k[2] \in Node
  BY ConnEnds DEF Fetched, StillClear
<1>2. ASSUME NEW c \in Node, Before(k, c)'
      PROVE  Met(k, c)' \/ \E i \in DOMAIN l : l[i] = c
  <2>1. Before(k, c)
    BY <1>1, <1>2, BeforeKept
  <2>2. Met(k, c) => Met(k, c)'
    BY DEF Met, Growing
  <2> QED BY <2>1, <2>2 DEF Fetched
<1> QED BY <1>1, <1>2 DEF Fetched

LEMMA SincereKept ==
    ASSUME TypeOK, TypeOK', Growing, StillClear, \A n \in Node : Fresh(n), alive' \subseteq alive,
           NEW e \in End, NEW m \in Message, Sincere(e, m)
    PROVE  Sincere(e, m)'
<1>1. << Owner(e), Owner(Far(e)) >> \in Conn /\ << Owner(Far(e)), Owner(e) >> \in Conn
  BY EndFacts DEF Conn
<1>2. m.type = "LIST_REQUEST" => Clear(<< Owner(Far(e)), Owner(e) >>)'
  BY <1>1 DEF Sincere, StillClear
<1>3. m.type = "LIST_ANSWER" => Fetched(<< Owner(e), Owner(Far(e)) >>, m.list)'
  BY <1>1, FetchedKept DEF Sincere
<1>4. m.type = "ACQUITED" => Fetched(<< Owner(Far(e)), Owner(e) >>, << >>)'
  BY <1>1, FetchedKept DEF Sincere
<1> QED BY <1>2, <1>3, <1>4 DEF Sincere

LEMMA MeetingKept ==
    ASSUME TypeOK, TypeOK', Growing, StillClear, \A n \in Node : Fresh(n), alive' \subseteq alive,
           NEW n \in Node, NEW h \in Handler, Meeting(n, h)
    PROVE  Meeting(n, h)'
<1>1. CASE h.pc = "processing"
  <2>1. Sincere(h.end, h.msg)'
    BY <1>1, HandlerFacts, SincereKept DEF Meeting
  <2> QED BY <1>1, <2>1 DEF Meeting
<1>2. CASE h.pc = "waiting" \/ h.pc = "joining"
  <2>1. << n, h.peer.node >> \in Conn
    BY <1>2, HandlerFacts DEF Conn
  <2>2. h.pc = "waiting" => Clear(<< n, h.peer.node >>)'
    BY <2>1 DEF Meeting, StillClear
  <2>3. h.pc = "joining" => Fetched(<< n, h.peer.node >>, h.list)'
    BY <2>1, FetchedKept DEF Meeting
  <2> QED BY <1>2, <2>2, <2>3 DEF Meeting
<1>3. CASE h.pc \notin {"processing", "waiting", "joining"}
  BY <1>3 DEF Meeting
<1> QED BY <1>1, <1>2, <1>3

\* What a step of n has to keep, for this invariant to hold after it.
LEMMA MeetsStep ==
    ASSUME TypeOK, TypeOK', MInv, NEW n \in Node, Steady(n), Sent,
           \A e \in greeted' : e \in greeted \/ Fetched(<< Owner(Far(e)), Owner(e) >>, << >>)',
           NEW h \in Handler, handler'[n] = h, Meeting(n, h)'
    PROVE  MInv'
<1>1. Growing /\ StillClear /\ alive' \subseteq alive /\ Elsewhere(n) /\ Fresh(n)
  BY DEF Steady
<1>2. \A m \in Node : Fresh(m)
  <2> SUFFICES ASSUME NEW m \in Node, m # n PROVE Fresh(m)
    BY <1>1
  <2>1. entries'[m] = entries[m]
    BY <1>1 DEF Elsewhere
  <2> QED BY <2>1, FreshItself
<1>3. \A m \in Node : OrderedIn(entries'[m])
  BY <1>2, OrderedKept DEF MInv
<1>4. ASSUME NEW m \in Node PROVE Meeting(m, handler[m])'
  <2>1. CASE m = n
    <3>1. handler'[m] = h /\ Meeting(m, h)'
      BY <2>1
    <3> QED BY <3>1 DEF Meeting
  <2>2. CASE m # n
    <3>1. PICK g \in Handler : g = handler[m]
      BY DEF TypeOK
    <3>2. handler'[m] = g /\ Meeting(m, g)
      BY <1>1, <2>2, <3>1 DEF Elsewhere, MInv
    <3>3. Meeting(m, g)'
      BY <1>1, <1>2, <3>2, MeetingKept
    <3> QED BY <3>2, <3>3 DEF Meeting
  <2> QED BY <2>1, <2>2
<1>5. ASSUME NEW e \in End, NEW j \in DOMAIN stream'[e] PROVE Sincere(e, stream[e][j])'
  <2>1. stream[e] \in Seq(Message) /\ stream'[e] \in Seq(Message)
    BY DEF TypeOK
  <2>2. PICK m \in Message : m = stream'[e][j]
    BY <2>1
  <2>3. Sincere(e, m)'
    <3>1. CASE \E i \in DOMAIN stream[e] : stream[e][i] = m
      <4>1. Sincere(e, m)
        BY <3>1 DEF MInv
      <4> QED BY <1>1, <1>2, <4>1, SincereKept
    <3>2. CASE ~\E i \in DOMAIN stream[e] : stream[e][i] = m
      BY <2>2, <3>2 DEF Sent
    <3> QED BY <3>1, <3>2
  <2> QED BY <2>2, <2>3 DEF Sincere
<1>6. ASSUME NEW e \in greeted' PROVE Fetched(<< Owner(Far(e)), Owner(e) >>, << >>)'
  <2>1. CASE e \in greeted
    <3>1. e \in End
      BY <2>1 DEF TypeOK
    <3>2. << Owner(Far(e)), Owner(e) >> \in Conn /\ Fetched(<< Owner(Far(e)), Owner(e) >>, << >>)
      BY <2>1, <3>1, EndFacts DEF Conn, MInv
    <3> QED BY <1>1, <1>2, <3>2, FetchedKept
  <2>2. CASE e \notin greeted
    BY <2>2
  <2> QED BY <2>1, <2>2
<1> QED BY <1>3, <1>4, <1>5, <1>6 DEF MInv

\* A step of which the handler of n takes no part, or only rests.
LEMMA MeetsResting ==
    ASSUME TypeOK, TypeOK', MInv, NEW n \in Node, Steady(n), Sent,
           \A e \in greeted' : e \in greeted \/ Fetched(<< Owner(Far(e)), Owner(e) >>, << >>)',
           handler'[n] = Idle \/ handler'[n] = handler[n]
    PROVE  MInv'
<1>1. CASE handler'[n] = Idle
  <2>1. Idle \in Handler /\ Meeting(n, Idle)'
    BY IdleFacts DEF Meeting
  <2> QED BY <1>1, <2>1, MeetsStep
<1>2. CASE handler'[n] = handler[n]
  <2>1. PICK h \in Handler : h = handler[n]
    BY DEF TypeOK
  <2>2. handler'[n] = h /\ Meeting(n, h)
    BY <1>2, <2>1 DEF MInv
  <2>3. \A m \in Node : Fresh(m)
    <3> SUFFICES ASSUME NEW m \in Node, m # n PROVE Fresh(m)
      BY DEF Steady
    <3>1. entries'[m] = entries[m]
      BY DEF Steady, Elsewhere
    <3> QED BY <3>1, FreshItself
  <2>4. Meeting(n, h)'
    BY <2>2, <2>3, MeetingKept DEF Steady
  <2> QED BY <2>2, <2>4, MeetsStep
<1> QED BY <1>1, <1>2

\* When no message is written, what was clear stays so and nothing new is sent.
LEMMA ShrinkingSent ==
    ASSUME Growing, Shrinking(stream')
    PROVE  StillClear /\ Sent
<1>1. Sent
  BY DEF Sent, Shrinking
<1>2. StillClear
  <2> SUFFICES ASSUME NEW d \in Conn, Clear(d) PROVE Clear(d)'
    BY DEF StillClear
  <2>1. PICK e \in End : e = OutEnd(d)
    BY ConnEnds
  <2>2. Quiet(stream'[e], {"INFO_REQUEST"})
    BY <2>1 DEF Clear, Quiet, Shrinking
  <2> QED BY <2>1, <2>2 DEF Clear, Growing
<1> QED BY <1>1, <1>2

\* A message that is no information request makes no connection unclear.
LEMMA WrittenClear ==
    ASSUME TypeOK, Growing, NEW n \in Node, NEW i \in 0..Len(entries[n]), NEW m \in Message,
           m.type # "INFO_REQUEST", NEW str \in [End -> Seq(Message)], Shrinking(str),
           stream' = Written(str, n, i, m)
    PROVE  StillClear
<1> SUFFICES ASSUME NEW d \in Conn, Clear(d) PROVE Clear(d)'
  BY DEF StillClear
<1>1. PICK e \in End : e = OutEnd(d)
  BY ConnEnds
<1>2. entries[n] \in Seq(Entry)
  BY DEF TypeOK
<1>3. Quiet(str[e], {"INFO_REQUEST"})
  BY <1>1 DEF Clear, Quiet, Shrinking
<1>4. Quiet(stream'[e], {"INFO_REQUEST"})
  <2>1. Quieter(str[e], stream'[e])
    BY <1>2, WrittenFacts
  <2> QED BY <1>3, <2>1 DEF Quieter
<1> QED BY <1>1, <1>4 DEF Clear, Growing

LEMMA WrittenSent ==
    ASSUME TypeOK, NEW n \in Node, NEW i \in 0..Len(entries[n]), NEW m \in Message,
           NEW str \in [End -> Seq(Message)], Shrinking(str), stream' = Written(str, n, i, m),
           \A c \in End : i \in DOMAIN entries[n] /\ c = Far(entries[n][i].end) => Sincere(c, m)'
    PROVE  Sent
<1> SUFFICES ASSUME NEW e \in End, NEW o \in Message, NEW j \in DOMAIN stream'[e],
                    stream'[e][j] = o
             PROVE  (\E l \in DOMAIN stream[e] : stream[e][l] = o) \/ Sincere(e, o)'
  BY DEF Sent
<1>1. entries[n] \in Seq(Entry) /\ str[e] \in Seq(Message)
  BY DEF TypeOK
<1>2. \/ stream'[e] = str[e]
      \/ /\ i \in DOMAIN entries[n] /\ e = Far(entries[n][i].end)
         /\ stream'[e] = Append(str[e], m)
  <2>1. \A c \in End :
            \/ Written(str, n, i, m)[c] = str[c]
            \/ /\ i \in DOMAIN entries[n] /\ c = Far(entries[n][i].end)
               /\ Written(str, n, i, m)[c] = Append(str[c], m)
    BY <1>1, WrittenFacts
  <2> QED BY <2>1
<1>3. CASE stream'[e] = str[e]
  BY <1>3 DEF Shrinking
<1>4. CASE /\ i \in DOMAIN entries[n] /\ e = Far(entries[n][i].end)
           /\ stream'[e] = Append(str[e], m)
  <2>1. (j \in DOMAIN str[e] /\ stream'[e][j] = str[e][j]) \/ stream'[e][j] = m
    BY <1>1, <1>4, AppendFacts
  <2>2. CASE j \in DOMAIN str[e] /\ stream'[e][j] = str[e][j]
    BY <2>2 DEF Shrinking
  <2>3. CASE stream'[e][j] = m
    <3>1. o = m /\ Sincere(e, m)'
      BY <1>4, <2>3
    <3> QED BY <3>1 DEF Sincere
  <2> QED BY <2>1, <2>2, <2>3
<1> QED BY <1>2, <1>3, <1>4

\* Every known peer but the one that asks is listed.
LEMMA ListedHolds ==
    ASSUME TypeOK, NEW n \in Node, NEW p, NEW i \in DOMAIN entries[n],
           entries[n][i].known, PeerOf(entries[n][i]) # p
    PROVE  \E k \in DOMAIN Listed(n, p) : Listed(n, p)[k] = PeerOf(entries[n][i]).node
<1> DEFINE f == [j \in 1..Len(entries[n]) |->
                    LET x == entries[n][j]
                    IN  IF x.known /\ PeerOf(x) # p THEN << PeerOf(x).node >> ELSE << >>]
<1>1. entries[n] \in Seq(Entry) /\ Len(entries[n]) \in Nat
  BY DEF TypeOK
<1>2. \A j \in 1..Len(entries[n]) : PeerOf(entries[n][j]).node \in Node
  <2>1. \A x \in Entry : PeerOf(x).node \in Node
    BY EntryFacts DEF Peer
  <2> QED BY <1>1, <2>1
<1>3. f \in Seq(Seq(Node))
  <2>1. << >> \in Seq(Node) /\ \A m \in Node : << m >> \in Seq(Node)
    OBVIOUS
  <2>2. \A j \in 1..Len(entries[n]) : f[j] \in Seq(Node)
    BY <1>2, <2>1
  <2>3. PICK Z : Z = Seq(Node)
    OBVIOUS
  <2>4. f \in [1..Len(entries[n]) -> Z]
    BY <2>2, <2>3
  <2> HIDE DEF f
  <2>5. PICK N \in Nat : N = Len(entries[n])
    BY <1>1
  <2>6. f \in [1..N -> Z]
    BY <2>4, <2>5
  <2>7. f \in Seq(Z)
    BY <2>6
  <2> QED BY <2>3, <2>7
<1>4. i \in DOMAIN f /\ f[i] = << PeerOf(entries[n][i]).node >>
  BY <1>1
<1>5. Listed(n, p) = FlattenSeq(f)
  BY DEF Listed
<1> HIDE DEF f
<1>6. 1 \in DOMAIN f[i] /\ f[i][1] = PeerOf(entries[n][i]).node
  BY <1>4
<1>7. \E k \in DOMAIN FlattenSeq(f) : FlattenSeq(f)[k] = f[i][1]
  BY <1>3, <1>4, <1>6, FlattenHolds
<1> QED BY <1>5, <1>6, <1>7

-----------------------------------------------------------------------------
(***************************************************************************)
(* The steps once more, with who has met whom: connecting, ending,         *)
(* accepting and the acceptor.                                             *)
(***************************************************************************)

LEMMA DialMeets ==
    ASSUME HInv, HInv', MInv, NEW i \in DOMAIN setting.peers, Dial(i)
    PROVE  MInv'
<1> USE DEF HInv
<1>1. PICK c \in Node, s \in Node :
        /\ << c, s >> \notin dialled /\ Connected(c, s)
        /\ UNCHANGED << setting, alive, stream, shut, acceptor, handler, greeted, mishaps, noise >>
  <2>1. setting.peers \in Seq({d \in Node \X Node : d[1] # d[2]})
    BY HandshakeAssumption DEF TypeOK
  <2>2. setting.peers[i] \in Node \X Node
    BY <2>1
  <2>3. setting.peers[i][1] \in Node /\ setting.peers[i][2] \in Node
    BY <2>2
  <2> QED BY <2>3 DEF Dial, CanConnect
<1>2. PICK x \in Entry :
        /\ Adds(entries[c], entries'[c], x)
        /\ x = [end |-> OutEnd(<< c, s >>), known |-> TRUE, deaf |-> FALSE]
  BY <1>1, ConnectedFacts
<1>3. /\ Growing /\ StillClear /\ \A m \in Node \ {c} : entries'[m] = entries[m]
  BY <1>1, ConnectedFacts
<1>4. x.end.side = "out"
  BY <1>2 DEF OutEnd
<1>5. Steady(c)
  BY <1>1, <1>2, <1>3, <1>4 DEF Steady, Elsewhere, Fresh
<1>6. Sent
  BY <1>1, <1>3, ShrinkingStreams, ShrinkingSent
<1> QED BY <1>1, <1>5, <1>6, MeetsResting

LEMMA LeaveMeets ==
    ASSUME HInv, HInv', MInv, NEW n \in Node, Leave(n)
    PROVE  MInv'
<1> USE DEF HInv
<1>1. /\ entries'[n] = << >> /\ handler'[n] = Idle /\ Elsewhere(n)
      /\ dialled' = dialled /\ greeted' = greeted /\ alive' \subseteq alive
      /\ \A m \in Node : backlog'[m] = << >> \/ backlog'[m] = backlog[m]
      /\ \A e \in End : stream'[e] = << >> \/ stream'[e] = stream[e]
  BY DEF Leave, TypeOK, Elsewhere
<1>2. Growing
  <2> SUFFICES ASSUME NEW d \in dialled, Pending(d)' PROVE Pending(d)
    BY <1>1 DEF Growing
  <2>1. d[2] \in Node /\ DOMAIN << >> = {}
    BY ConnEnds DEF TypeOK
  <2> QED BY <1>1, <2>1 DEF Pending
<1>3. StillClear /\ Sent
  BY <1>1, <1>2, ShrinkingStreams, ShrinkingSent
<1>4. Fresh(n)
  <2>1. entries[n] \in Seq(Entry)
    BY DEF TypeOK
  <2> QED BY <1>1, <2>1, FromNothing DEF Fresh
<1>5. Steady(n)
  BY <1>1, <1>2, <1>3, <1>4 DEF Steady
<1> QED BY <1>1, <1>3, <1>5, MeetsResting

LEMMA BroadcastMeets ==
    ASSUME HInv, HInv', MInv, NEW n \in Node, Broadcast(n)
    PROVE  MInv'
<1> USE DEF HInv
<1>1. UNCHANGED << setting, alive, entries, backlog, shut, acceptor, handler, dialled, greeted,
                   mishaps >>
  BY DEF Broadcast
<1>2. Growing
  BY <1>1, SameBacklogs
<1>3. PICK m \in Message : m = Plain("OTHER") /\ m.type = "OTHER"
  BY MessageFacts
<1>4. \A e \in End : stream'[e] = stream[e] \/ stream'[e] = Append(stream[e], m)
  BY <1>3 DEF Broadcast
<1>5. StillClear
  <2>1. ASSUME NEW e \in End PROVE Quieter(stream[e], stream'[e])
    <3>1. PICK s \in Seq(Message) : s = stream[e]
      BY DEF TypeOK
    <3> QED BY <1>3, <1>4, <3>1, QuieterAppend, QuieterItself
  <2> QED BY <1>2, <2>1, RequestsKept
<1>6. Sent
  <2> SUFFICES ASSUME NEW e \in End, NEW o \in Message, NEW j \in DOMAIN stream'[e],
                      stream'[e][j] = o
               PROVE  (\E i \in DOMAIN stream[e] : stream[e][i] = o) \/ o = m
    BY <1>3 DEF Sent, Sincere
  <2>1. PICK s \in Seq(Message) : s = stream[e]
    BY DEF TypeOK
  <2>2. stream'[e] = s \/ stream'[e] = Append(s, m)
    BY <1>4, <2>1
  <2>3. (j \in DOMAIN s /\ stream'[e][j] = s[j]) \/ stream'[e][j] = m
    BY <2>2, AppendFacts
  <2> QED BY <2>1, <2>3
<1>7. Steady(n)
  BY <1>1, <1>2, <1>5, FreshItself DEF Steady, Elsewhere
<1> QED BY <1>1, <1>6, <1>7, MeetsResting

LEMMA AcceptMeets ==
    ASSUME HInv, HInv', MInv, NEW n \in Node, Accept(n)
    PROVE  MInv'
<1> USE DEF HInv
<1>1. PICK d \in Conn : d = Head(backlog[n])
  BY DEF Accept, TypeOK
<1> DEFINE e == InEnd(d)
           x == [end |-> e, known |-> FALSE, deaf |-> TRUE]
           a == [pc |-> "waiting", end |-> e]
           q == Plain("INFO_REQUEST")
<1>2. /\ e \in End /\ Far(e) = OutEnd(d) /\ OutEnd(d) \in End /\ e.conn = d /\ e.side = "in"
      /\ q \in Message /\ q.type = "INFO_REQUEST" /\ x \in Entry /\ x.end = e
  BY ConnEnds, MessageFacts DEF Entry
<1>3. /\ backlog[n] # << >> /\ acceptor[n] = Idle
      /\ entries' = [entries EXCEPT ![n] = Append(@, x)]
      /\ backlog' = [backlog EXCEPT ![n] = Tail(@)]
      /\ stream' = IF Far(e) \in shut THEN stream
                   ELSE [stream EXCEPT ![Far(e)] = Append(@, q)]
      /\ acceptor' = [acceptor EXCEPT ![n] = a]
      /\ UNCHANGED << setting, alive, shut, handler, dialled, greeted, mishaps, noise >>
  BY <1>1 DEF Accept
<1> HIDE DEF x, a, q, e
<1>4. /\ entries[n] \in Seq(Entry) /\ entries'[n] = Append(entries[n], x)
      /\ backlog[n] \in Seq(Conn) /\ backlog'[n] = Tail(backlog[n])
      /\ \A m \in Node \ {n} : backlog'[m] = backlog[m]
      /\ Elsewhere(n)
  BY <1>3 DEF TypeOK, Elsewhere
<1>5. /\ d[2] = n /\ Pending(d)
      /\ \A i \in DOMAIN Tail(backlog[n]) :
            i \in Nat \ {0} /\ i + 1 \in DOMAIN backlog[n] /\ Tail(backlog[n])[i] = backlog[n][i + 1]
  <2>1. d = backlog[n][1] /\ 1 \in DOMAIN backlog[n]
    BY <1>1, <1>3, <1>4
  <2>2. \A i \in DOMAIN Tail(backlog[n]) :
            i \in Nat \ {0} /\ i + 1 \in DOMAIN backlog[n] /\ Tail(backlog[n])[i] = backlog[n][i + 1]
    BY <1>3, <1>4, TailFacts
  <2> QED BY <2>1, <2>2 DEF Backlogs, Pending
<1>6. Growing
  <2> SUFFICES ASSUME NEW c \in dialled, Pending(c)' PROVE Pending(c)
    BY <1>3 DEF Growing
  <2>1. PICK m \in Node : m = c[2]
    BY ConnEnds DEF TypeOK
  <2>2. PICK i \in DOMAIN backlog'[m] : backlog'[m][i] = c
    BY <2>1 DEF Pending
  <2>3. \E j \in DOMAIN backlog[m] : backlog[m][j] = c
    <3>1. CASE m # n
      BY <1>4, <2>2, <3>1
    <3>2. CASE m = n
      <4>1. i \in DOMAIN Tail(backlog[n]) /\ Tail(backlog[n])[i] = c
        BY <1>4, <2>2, <3>2
      <4>2. i + 1 \in DOMAIN backlog[n] /\ backlog[n][i + 1] = c
        BY <1>5, <4>1
      <4> QED BY <3>2, <4>2
    <3> QED BY <3>1, <3>2
  <2> QED BY <2>1, <2>3 DEF Pending
<1>7. /\ \A c \in End : c # OutEnd(d) => stream'[c] = stream[c]
      /\ stream'[OutEnd(d)] = stream[OutEnd(d)] \/ stream'[OutEnd(d)] = Append(stream[OutEnd(d)], q)
  BY <1>2, <1>3 DEF TypeOK
<1>8. StillClear
  <2>1. ASSUME NEW c \in Conn, Clear(c) PROVE Quieter(stream[OutEnd(c)], stream'[OutEnd(c)])
    <3>1. c # d
      BY <1>5, <2>1 DEF Clear
    <3>2. OutEnd(c) \in End /\ OutEnd(c) # OutEnd(d)
      BY <3>1, ConnEnds
    <3> QED BY <1>7, <3>2, QuieterItself
  <2> QED BY <1>6, <2>1, ClearKept
<1>9. Adds(entries[n], entries'[n], x)
  <2>1. \A i \in DOMAIN entries[n] : entries[n][i].end # x.end
    BY <1>2, <1>5 DEF Ends, Placed
  <2> QED BY <1>2, <1>4, <2>1 DEF Adds
<1>10. \A i \in DOMAIN entries[n] : entries[n][i].known
  BY <1>3, IdleFacts DEF Unknown, UnknownIn
<1>11. Steady(n)
  BY <1>2, <1>3, <1>4, <1>5, <1>6, <1>8, <1>9, <1>10 DEF Steady, Fresh
<1>12. Sent
  <2> SUFFICES ASSUME NEW c \in End, NEW o \in Message, NEW j \in DOMAIN stream'[c],
                      stream'[c][j] = o
               PROVE  (\E i \in DOMAIN stream[c] : stream[c][i] = o) \/ o = q
    BY <1>2 DEF Sent, Sincere
  <2>1. PICK s \in Seq(Message) : s = stream[c]
    BY DEF TypeOK
  <2>2. stream'[c] = s \/ stream'[c] = Append(s, q)
    BY <1>7, <2>1
  <2>3. (j \in DOMAIN s /\ stream'[c][j] = s[j]) \/ stream'[c][j] = q
    BY <1>2, <2>2, AppendFacts
  <2> QED BY <2>1, <2>3
<1> QED BY <1>3, <1>11, <1>12, MeetsResting

\* A step that changes entries of n but adds none, and writes nothing.
LEMMA ShrinkingMeets ==
    ASSUME HInv, NEW n \in Node, UNCHANGED << alive, backlog, dialled >>,
           From(entries[n], entries'[n]), Elsewhere(n), Shrinking(stream')
    PROVE  Steady(n) /\ Sent
<1>1. Growing
  BY SameBacklogs DEF HInv
<1>2. StillClear /\ Sent
  BY <1>1, ShrinkingSent
<1> QED BY <1>1, <1>2 DEF Steady, Fresh

\* A message that is read was sincere, and is so after the step.
LEMMA HeadSincere ==
    ASSUME HInv, HInv', MInv, NEW n \in Node, Steady(n), NEW e \in End, stream[e] # << >>,
           NEW m, m = Head(stream[e])
    PROVE  m \in Message /\ Sincere(e, m) /\ Sincere(e, m)'
<1> USE DEF HInv
<1>1. PICK s \in Seq(Message) : s = stream[e]
  BY DEF TypeOK
<1>2. m \in Message /\ m = s[1] /\ 1 \in DOMAIN s
  BY <1>1
<1>3. Sincere(e, m)
  BY <1>1, <1>2 DEF MInv
<1>4. \A o \in Node : Fresh(o)
  <2> SUFFICES ASSUME NEW o \in Node, o # n PROVE Fresh(o)
    BY DEF Steady
  <2>1. entries'[o] = entries[o]
    BY DEF Steady, Elsewhere
  <2> QED BY <2>1, FreshItself
<1>5. Sincere(e, m)'
  BY <1>2, <1>3, <1>4, SincereKept DEF Steady
<1> QED BY <1>2, <1>3, <1>5

LEMMA AcceptorReadsMeets ==
    ASSUME HInv, HInv', MInv, NEW n \in Node, AcceptorReads(n)
    PROVE  MInv'
<1> USE DEF HInv
<1>1. PICK e \in End, i \in DOMAIN entries[n] :
        /\ e = acceptor[n].end /\ i = IndexOfEnd(n, e)
        /\ entries[n][i].end = e /\ ~entries[n][i].known
  BY AwaitedFacts DEF AcceptorReads
<1>2. PICK k \in 1..setting.reads :
        /\ k <= Len(stream[e])
        /\ IF Head(stream[e]).type = "INFO_ANSWER"
           THEN /\ entries' = [entries EXCEPT ![n][i].deaf = FALSE]
                /\ stream' = Consumed(e, k)
                /\ acceptor' = [acceptor EXCEPT ![n].pc = "answered"]
                /\ mishaps' = mishaps \union Swallowed(e, k)
                /\ UNCHANGED << shut, greeted >>
           ELSE /\ Removed(n, i)
                /\ acceptor' = [acceptor EXCEPT ![n] = Idle]
                /\ greeted' = Greeted(e, Head(stream[e]))
                /\ mishaps' = mishaps \union {"intruded"}
  BY <1>1 DEF AcceptorReads
<1>3. /\ entries[n] \in Seq(Entry)
      /\ UNCHANGED << setting, alive, backlog, handler, dialled, noise >>
  BY DEF AcceptorReads, TypeOK
<1>4. CASE Head(stream[e]).type = "INFO_ANSWER"
  <2>1. PICK y \in Entry : y = entries[n][i]
    BY <1>3
  <2> DEFINE x == [y EXCEPT !.deaf = FALSE]
  <2>2. x \in Entry /\ x.end = entries[n][i].end /\ (entries[n][i].known => x.known)
    <3>1. [y EXCEPT !.deaf = FALSE] \in Entry /\ [y EXCEPT !.deaf = FALSE].end = y.end
          /\ [y EXCEPT !.deaf = FALSE].known = y.known
      BY EntryChanges
    <3> QED BY <2>1, <3>1
  <2>3. /\ entries' = [entries EXCEPT ![n] = [entries[n] EXCEPT ![i] = x]]
        /\ stream' = Consumed(e, k) /\ greeted' = greeted
        /\ \A m \in Node \ {n} : acceptor'[m] = acceptor[m]
    BY <1>2, <1>4, <2>1 DEF TypeOK
  <2> HIDE DEF x
  <2>4. /\ \A m \in Node \ {n} : entries'[m] = entries[m]
        /\ From(entries[n], entries'[n])
    <3>1. TypeOK
      OBVIOUS
    <3> QED BY <2>2, <2>3, <3>1, SetFacts
  <2>5. Steady(n) /\ Sent
    BY <1>2, <1>3, <2>3, <2>4, ShrinkingConsumed, ShrinkingMeets DEF Elsewhere
  <2> QED BY <1>3, <2>3, <2>5, MeetsResting
<1>5. CASE Head(stream[e]).type # "INFO_ANSWER"
  <2>1. /\ Removed(n, i) /\ acceptor' = [acceptor EXCEPT ![n] = Idle]
        /\ greeted' = Greeted(e, Head(stream[e]))
    BY <1>2, <1>5
  <2>2. /\ \A m \in Node \ {n} : entries'[m] = entries[m] /\ acceptor'[m] = acceptor[m]
        /\ From(entries[n], entries'[n])
        /\ \A c \in End : stream'[c] = stream[c] \/ stream'[c] = << >>
    BY <1>1, <2>1, RemovedFacts DEF TypeOK
  <2>3. Steady(n) /\ Sent
    BY <1>3, <2>2, ShrinkingStreams, ShrinkingMeets DEF Elsewhere
  <2>4. \A c \in greeted' : c \in greeted \/ Fetched(<< Owner(Far(c)), Owner(c) >>, << >>)'
    <3> SUFFICES ASSUME Head(stream[e]).type = "ACQUITED"
                 PROVE  Fetched(<< Owner(Far(e)), Owner(e) >>, << >>)'
      BY <2>1 DEF Greeted
    <3>1. PICK m : m = Head(stream[e])
      OBVIOUS
    <3>2. stream[e] # << >>
      <4>1. stream[e] \in Seq(Message) /\ 1 \in DOMAIN stream[e]
        BY <1>2, ConsumedFacts DEF TypeOK
      <4> QED BY <4>1
    <3>3. Sincere(e, m)'
      BY <2>3, <3>1, <3>2, HeadSincere
    <3> QED BY <3>1, <3>3 DEF Sincere
  <2> QED BY <1>3, <2>3, <2>4, MeetsResting
<1> QED BY <1>4, <1>5

LEMMA AcceptorHangsUpMeets ==
    ASSUME HInv, HInv', MInv, NEW n \in Node, AcceptorHangsUp(n)
    PROVE  MInv'
<1> USE DEF HInv
<1>1. PICK i \in DOMAIN entries[n] : i = IndexOfEnd(n, acceptor[n].end)
  BY AwaitedFacts DEF AcceptorHangsUp
<1>2. /\ Removed(n, i) /\ acceptor' = [acceptor EXCEPT ![n] = Idle]
      /\ UNCHANGED << setting, alive, backlog, handler, dialled, greeted, mishaps, noise >>
  BY <1>1 DEF AcceptorHangsUp
<1>3. /\ \A m \in Node \ {n} : entries'[m] = entries[m] /\ acceptor'[m] = acceptor[m]
      /\ From(entries[n], entries'[n])
      /\ \A c \in End : stream'[c] = stream[c] \/ stream'[c] = << >>
  BY <1>2, RemovedFacts DEF TypeOK
<1>4. Steady(n) /\ Sent
  BY <1>2, <1>3, ShrinkingStreams, ShrinkingMeets DEF Elsewhere
<1> QED BY <1>2, <1>4, MeetsResting

LEMMA AcceptorUpdatesMeets ==
    ASSUME HInv, HInv', MInv, NEW n \in Node, AcceptorUpdates(n)
    PROVE  MInv'
<1> USE DEF HInv
<1>1. PICK i \in 0..Len(entries[n]) :
        /\ i = IndexOfEnd(n, acceptor[n].end) /\ entries[n] \in Seq(Entry)
        /\ i # 0 => i \in DOMAIN entries[n]
  <2>1. entries[n] \in Seq(Entry)
    BY DEF TypeOK
  <2> QED BY <2>1, IndexOfEndFacts
<1>2. /\ entries' = IF i = 0 THEN entries ELSE [entries EXCEPT ![n][i].known = TRUE]
      /\ acceptor' = [acceptor EXCEPT ![n] = Idle]
      /\ UNCHANGED << setting, alive, backlog, stream, shut, handler, dialled, greeted, mishaps, noise >>
  BY <1>1 DEF AcceptorUpdates
<1>3. /\ \A m \in Node \ {n} : entries'[m] = entries[m]
      /\ From(entries[n], entries'[n])
  <2>1. CASE i = 0
    BY <1>1, <1>2, <2>1, FromItself
  <2>2. CASE i # 0
    <3>1. PICK y \in Entry : y = entries[n][i]
      BY <1>1, <2>2
    <3> DEFINE x == [y EXCEPT !.known = TRUE]
    <3>2. x \in Entry /\ x.end = entries[n][i].end /\ x.known
      <4>1. [y EXCEPT !.known = TRUE] \in Entry /\ [y EXCEPT !.known = TRUE].end = y.end
            /\ [y EXCEPT !.known = TRUE].known
        BY EntryChanges
      <4> QED BY <3>1, <4>1
    <3>3. entries' = [entries EXCEPT ![n] = [entries[n] EXCEPT ![i] = x]]
      BY <1>2, <2>2, <3>1
    <3> HIDE DEF x
    <3>4. TypeOK /\ i \in DOMAIN entries[n]
      BY <1>1, <2>2
    <3> QED BY <3>2, <3>3, <3>4, SetFacts
  <2> QED BY <2>1, <2>2
<1>4. Elsewhere(n)
  BY <1>2, <1>3 DEF TypeOK, Elsewhere
<1>5. Steady(n) /\ Sent
  BY <1>2, <1>3, <1>4, ShrinkingStreams, ShrinkingMeets
<1> QED BY <1>2, <1>5, MeetsResting

-----------------------------------------------------------------------------
(***************************************************************************)
(* And the message handler.                                                *)
(***************************************************************************)

LEMMA HandlerReadsMeets ==
    ASSUME HInv, HInv', MInv, NEW n \in Node, NEW i \in DOMAIN entries[n], HandlerReads(n, i)
    PROVE  MInv'
<1> USE DEF HInv
<1>1. PICK x \in Entry : x = entries[n][i]
  BY DEF TypeOK
<1>2. PICK e \in End : e = x.end
  BY <1>1, EntryFacts
<1>3. PICK k \in 1..setting.reads :
        /\ k <= Len(stream[e])
        /\ handler' = [handler EXCEPT ![n] =
                [pc |-> "processing", end |-> e, peer |-> PeerOf(x), msg |-> Head(stream[e])]]
        /\ stream' = Consumed(e, k)
        /\ UNCHANGED << setting, alive, entries, backlog, shut, acceptor, dialled, greeted, noise >>
  BY <1>1, <1>2 DEF HandlerReads
<1>4. PICK m \in Message : m = Head(stream[e]) /\ 1 \in DOMAIN stream[e]
  BY <1>3, ConsumedFacts
<1>5. PICK p \in Peer : p = PeerOf(x)
  BY EntryFacts
<1> DEFINE h == [pc |-> "processing", end |-> e, peer |-> p, msg |-> m]
<1>6. h \in Handler /\ h.pc = "processing" /\ h.end = e /\ h.msg = m
  BY DEF Handler
<1>7. handler' = [handler EXCEPT ![n] = h]
  BY <1>3, <1>4, <1>5
<1> HIDE DEF h
<1>8. handler'[n] = h /\ \A o \in Node \ {n} : handler'[o] = handler[o]
  BY <1>7 DEF TypeOK
<1>9. From(entries[n], entries'[n]) /\ Elsewhere(n)
  BY <1>3, <1>8, FromItself DEF TypeOK, Elsewhere
<1>10. Steady(n) /\ Sent
  BY <1>3, <1>9, ShrinkingConsumed, ShrinkingMeets
<1>11. Sincere(e, m)'
  <2>1. stream[e] # << >>
    <3>1. stream[e] \in Seq(Message)
      BY DEF TypeOK
    <3> QED BY <1>4, <3>1
  <2> QED BY <1>4, <1>10, <2>1, HeadSincere
<1>12. Meeting(n, h)'
  BY <1>6, <1>11 DEF Meeting
<1> QED BY <1>3, <1>6, <1>8, <1>10, <1>12, MeetsStep

LEMMA HandlerDropsMeets ==
    ASSUME HInv, HInv', MInv, NEW n \in Node, NEW i \in DOMAIN entries[n], HandlerDrops(n, i)
    PROVE  MInv'
<1> USE DEF HInv
<1>1. /\ Removed(n, i)
      /\ UNCHANGED << setting, alive, backlog, acceptor, handler, dialled, greeted, mishaps, noise >>
  BY DEF HandlerDrops
<1>2. /\ \A m \in Node \ {n} : entries'[m] = entries[m]
      /\ From(entries[n], entries'[n])
      /\ \A c \in End : stream'[c] = stream[c] \/ stream'[c] = << >>
  BY <1>1, RemovedFacts
<1>3. Steady(n) /\ Sent
  BY <1>1, <1>2, ShrinkingStreams, ShrinkingMeets DEF Elsewhere
<1> QED BY <1>1, <1>3, MeetsResting

LEMMA HandlerHangsUpMeets ==
    ASSUME HInv, HInv', MInv, NEW n \in Node, HandlerHangsUp(n)
    PROVE  MInv'
<1> USE DEF HInv
<1>1. /\ handler' = [handler EXCEPT ![n] = Idle]
      /\ UNCHANGED << setting, alive, entries, backlog, stream, shut, acceptor, dialled, greeted,
                      mishaps, noise >>
  BY DEF HandlerHangsUp
<1>2. handler'[n] = Idle /\ Elsewhere(n) /\ From(entries[n], entries'[n])
  BY <1>1, FromItself DEF TypeOK, Elsewhere
<1>3. Steady(n) /\ Sent
  BY <1>1, <1>2, ShrinkingStreams, ShrinkingMeets
<1> QED BY <1>1, <1>2, <1>3, MeetsResting

\* A step in which n answers p, or says something to it, and reads.
LEMMA WrittenSteady ==
    ASSUME HInv, NEW n \in Node, NEW p \in Peer, NEW m \in Message, m.type # "INFO_REQUEST",
           NEW str \in [End -> Seq(Message)], Shrinking(str),
           stream' = Written(str, n, Index(n, p), m), UNCHANGED << alive, backlog, dialled >>,
           From(entries[n], entries'[n]), Elsewhere(n)
    PROVE  Steady(n)
<1>1. Growing
  BY SameBacklogs DEF HInv
<1>2. PICK i \in 0..Len(entries[n]) : i = Index(n, p)
  BY IndexType DEF HInv
<1>3. StillClear
  BY <1>1, <1>2, WrittenClear DEF HInv
<1> QED BY <1>1, <1>3 DEF Steady, Fresh

LEMMA WrittenToPeer ==
    ASSUME HInv, NEW n \in Node, NEW p \in Peer, NEW m \in Message,
           NEW str \in [End -> Seq(Message)], Shrinking(str),
           stream' = Written(str, n, Index(n, p), m),
           \A c \in End : Owner(c) = p.node /\ Owner(Far(c)) = n => Sincere(c, m)'
    PROVE  Sent
<1> USE DEF HInv
<1>1. PICK i \in 0..Len(entries[n]) : i = Index(n, p)
  BY IndexType
<1>2. ASSUME i \in DOMAIN entries[n], NEW c \in End, c = Far(entries[n][i].end)
      PROVE  Sincere(c, m)'
  <2>1. entries[n] \in Seq(Entry)
    BY DEF TypeOK
  <2>2. PICK y \in Entry : y = entries[n][i]
    BY <1>2, <2>1
  <2>3. PeerOf(y) = p
    <3>1. i # 0
      BY <1>2, <2>1
    <3> QED BY <1>1, <2>1, <2>2, <3>1, IndexFacts
  <2>4. Owner(Far(y.end)) = p.node /\ y.end \in End /\ Owner(y.end) = n
    BY <1>2, <2>2, <2>3, EntryFacts DEF Ends, Placed
  <2>5. Owner(c) = p.node /\ Owner(Far(c)) = n
    BY <1>2, <2>2, <2>4, EndFacts
  <2> QED BY <2>5
<1>3. \A c \in End : i \in DOMAIN entries[n] /\ c = Far(entries[n][i].end) => Sincere(c, m)'
  BY <1>2
<1>4. TypeOK /\ stream' = Written(str, n, i, m)
  BY <1>1
<1> QED BY <1>3, <1>4, WrittenSent

\* Whom n lists are the peers that p has to meet.
LEMMA ListedFetched ==
    ASSUME HInv, HInv', MInv, NEW n \in Node, Steady(n), NEW p \in Peer, Clear(<< p.node, n >>),
           NEW l, l = Listed(n, p)
    PROVE  Fetched(<< p.node, n >>, l)'
<1> USE DEF HInv
<1>1. PICK k \in Conn : k = << p.node, n >> /\ k[1] = p.node /\ k[2] = n
  BY DEF Conn, Peer
<1>2. ASSUME NEW c \in Node, Before(k, c)
      PROVE  \E i \in DOMAIN l : l[i] = c
  <2>1. PICK s \in Seq(Entry) : s = entries[n]
    BY DEF TypeOK
  <2>2. PICK i \in DOMAIN s, j \in DOMAIN s :
            i < j /\ s[j].end = InEnd(k) /\ Owner(Far(s[i].end)) = c /\ c # p.node
    BY <1>1, <1>2, <2>1 DEF Before
  <2>3. s[i].known
    <3>1. OrderedIn(s) /\ s[j].end.side = "in"
      BY <2>1, <2>2, ConnEnds DEF MInv
    <3> QED BY <2>2, <3>1 DEF OrderedIn
  <2>4. PeerOf(s[i]).node = c
    BY <2>2, EntryFacts
  <2>5. PeerOf(s[i]) # p
    BY <2>2, <2>4
  <2>6. \E o \in DOMAIN Listed(n, p) : Listed(n, p)[o] = PeerOf(entries[n][i]).node
    <3>1. TypeOK /\ i \in DOMAIN entries[n] /\ entries[n][i].known /\ PeerOf(entries[n][i]) # p
      BY <2>1, <2>3, <2>5
    <3> QED BY <3>1, ListedHolds
  <2> QED BY <2>1, <2>4, <2>6
<1>3. Fetched(k, l)
  BY <1>1, <1>2 DEF Fetched
<1>4. \A o \in Node : Fresh(o)
  <2> SUFFICES ASSUME NEW o \in Node, o # n PROVE Fresh(o)
    BY DEF Steady
  <2>1. entries'[o] = entries[o]
    BY DEF Steady, Elsewhere
  <2> QED BY <2>1, FreshItself
<1>5. Fetched(k, l)'
  BY <1>3, <1>4, FetchedKept DEF Steady
<1> QED BY <1>1, <1>5

LEMMA HandlerProcessesMeets ==
    ASSUME HInv, HInv', MInv, NEW n \in Node, HandlerProcesses(n)
    PROVE  MInv'
<1> USE DEF HInv
<1>1. PICK h \in Handler : h = handler[n]
  BY DEF TypeOK
<1>2. /\ h.pc = "processing" /\ Serving(n, h) /\ Meeting(n, h) /\ h.peer \in Peer
      /\ h.end \in End /\ h.msg \in Message
      /\ UNCHANGED << setting, alive, entries, backlog, shut, acceptor, dialled, noise >>
  BY <1>1, HandlerFacts DEF HandlerProcesses, Serves, MInv
<1>3. PICK p \in Peer, e \in End, o \in Message : p = h.peer /\ e = h.end /\ o = h.msg
  BY <1>2
<1>4. Owner(e) = n /\ Owner(Far(e)) = p.node /\ Sincere(e, o)
  BY <1>2, <1>3 DEF Serving, Meeting
<1>5. PICK l \in Message : l = [type |-> "LIST_ANSWER", list |-> Listed(n, p)]
  <2>1. TypeOK
    OBVIOUS
  <2>2. [type |-> "LIST_ANSWER", list |-> Listed(n, p)] \in Message
    BY <2>1, ListedType
  <2> QED BY <2>2
<1>6. PICK q \in Message : q = Plain("INFO_ANSWER") /\ q.type = "INFO_ANSWER"
  BY MessageFacts
<1>7. \/ /\ stream' = Written(stream, n, Index(n, p), q)
         /\ handler' = [handler EXCEPT ![n] = [pc |-> "asking", peer |-> p]]
         /\ greeted' = greeted
      \/ /\ o.type = "LIST_REQUEST"
         /\ stream' = Written(stream, n, Index(n, p), l)
         /\ handler' = [handler EXCEPT ![n] = Idle]
         /\ greeted' = greeted
      \/ /\ greeted' = Greeted(e, o)
         /\ handler' = [handler EXCEPT ![n] = Idle]
         /\ stream' = stream
  BY <1>1, <1>3, <1>5, <1>6 DEF HandlerProcesses
<1>8. /\ Elsewhere(n) /\ From(entries[n], entries'[n])
      /\ stream \in [End -> Seq(Message)] /\ handler \in [Node -> Handler] /\ Shrinking(stream)
  BY <1>2, <1>7, FromItself, ShrinkingStreams DEF Elsewhere, TypeOK
<1>9. ASSUME stream' = Written(stream, n, Index(n, p), q), greeted' = greeted,
             handler' = [handler EXCEPT ![n] = [pc |-> "asking", peer |-> p]]
      PROVE  MInv'
  <2> DEFINE g == [pc |-> "asking", peer |-> p]
  <2>1. g \in Handler /\ g.pc = "asking"
    BY DEF Handler
  <2>2. handler'[n] = g
    BY <1>8, <1>9
  <2> HIDE DEF g
  <2>3. Meeting(n, g)'
    BY <2>1 DEF Meeting
  <2>4. Steady(n)
    BY <1>2, <1>6, <1>8, <1>9, WrittenSteady
  <2>5. Sent
    <3>1. \A c \in End : Sincere(c, q)'
      BY <1>6 DEF Sincere
    <3> QED BY <1>8, <1>9, <3>1, WrittenToPeer
  <2> QED BY <1>9, <2>1, <2>2, <2>3, <2>4, <2>5, MeetsStep
<1>10. ASSUME o.type = "LIST_REQUEST", stream' = Written(stream, n, Index(n, p), l),
              handler'[n] = Idle, greeted' = greeted
       PROVE  MInv'
  <2>1. l.type = "LIST_ANSWER" /\ l.list = Listed(n, p)
    BY <1>5
  <2>2. Steady(n)
    BY <1>2, <1>8, <1>10, <2>1, WrittenSteady
  <2>3. Clear(<< p.node, n >>)
    BY <1>4, <1>10 DEF Sincere
  <2>4. Fetched(<< p.node, n >>, l.list)'
    BY <2>1, <2>2, <2>3, ListedFetched
  <2>5. Sent
    <3>1. \A c \in End : Owner(c) = p.node /\ Owner(Far(c)) = n => Sincere(c, l)'
      BY <2>1, <2>4 DEF Sincere
    <3> QED BY <1>8, <1>10, <3>1, WrittenToPeer
  <2> QED BY <1>10, <2>2, <2>5, MeetsResting
<1>11. ASSUME greeted' = Greeted(e, o), handler'[n] = Idle, stream' = stream
       PROVE  MInv'
  <2>1. Steady(n) /\ Sent
    BY <1>2, <1>8, <1>11, ShrinkingMeets
  <2>2. Sincere(e, o)'
    <3>1. \A c \in Node : Fresh(c)
      <4> SUFFICES ASSUME NEW c \in Node, c # n PROVE Fresh(c)
        BY <2>1 DEF Steady
      <4>1. entries'[c] = entries[c]
        BY <1>2
      <4> QED BY <4>1, FreshItself
    <3> QED BY <1>4, <2>1, <3>1, SincereKept DEF Steady
  <2>3. \A c \in greeted' : c \in greeted \/ Fetched(<< Owner(Far(c)), Owner(c) >>, << >>)'
    BY <1>11, <2>2 DEF Greeted, Sincere
  <2> QED BY <1>11, <2>1, <2>3, MeetsResting
<1>12. [handler EXCEPT ![n] = Idle][n] = Idle
  BY <1>8
<1> QED BY <1>7, <1>9, <1>10, <1>11, <1>12

LEMMA HandlerAsksMeets ==
    ASSUME HInv, HInv', MInv, NEW n \in Node, HandlerAsks(n)
    PROVE  MInv'
<1> USE DEF HInv
<1>1. PICK h \in Handler : h = handler[n]
  BY DEF TypeOK
<1>2. h.pc = "asking" /\ Serving(n, h) /\ h.peer \in Peer
  BY <1>1, HandlerFacts DEF HandlerAsks, Serves
<1>3. PICK p \in Peer : p = h.peer /\ NamedIn(entries[n], p) /\ Clear(<< n, p.node >>)
  BY <1>2 DEF Serving
<1>4. PICK i \in DOMAIN entries[n] : i = Index(n, p)
  BY <1>3, IndexType
<1>5. PICK y \in Entry : y = entries[n][i]
  BY DEF TypeOK
<1>6. PICK e \in End : e = y.end
  BY EntryFacts
<1>7. PICK m \in Message : m = Plain("LIST_REQUEST") /\ m.type = "LIST_REQUEST"
  BY MessageFacts
<1> DEFINE x == [y EXCEPT !.deaf = TRUE]
           g == [pc |-> "waiting", end |-> e, peer |-> p]
<1>8. x \in Entry /\ x.end = entries[n][i].end /\ (entries[n][i].known => x.known)
  <2>1. [y EXCEPT !.deaf = TRUE] \in Entry /\ [y EXCEPT !.deaf = TRUE].end = y.end
        /\ [y EXCEPT !.deaf = TRUE].known = y.known
    BY EntryChanges
  <2> QED BY <1>5, <2>1
<1>9. g \in Handler /\ g.pc = "waiting" /\ g.peer = p
  BY DEF Handler
<1>10. /\ stream' = Written(stream, n, Index(n, p), m)
       /\ entries' = [entries EXCEPT ![n] = [entries[n] EXCEPT ![i] = x]]
       /\ handler' = [handler EXCEPT ![n] = g]
       /\ UNCHANGED << setting, alive, backlog, shut, acceptor, dialled, greeted, mishaps, noise >>
  BY <1>1, <1>3, <1>4, <1>5, <1>6, <1>7 DEF HandlerAsks, TypeOK
<1> HIDE DEF x, g
<1>11. /\ \A o \in Node \ {n} : entries'[o] = entries[o]
       /\ From(entries[n], entries'[n])
  <2>1. TypeOK
    OBVIOUS
  <2> QED BY <1>8, <1>10, <2>1, SetFacts
<1>12. /\ handler'[n] = g /\ Elsewhere(n)
       /\ stream \in [End -> Seq(Message)] /\ Shrinking(stream)
  BY <1>10, <1>11, ShrinkingStreams DEF Elsewhere, TypeOK
<1>13. Steady(n)
  BY <1>7, <1>10, <1>11, <1>12, WrittenSteady
<1>14. Clear(<< n, p.node >>)'
  <2>1. << n, p.node >> \in Conn
    BY DEF Conn, Peer
  <2> QED BY <1>3, <1>13, <2>1 DEF Steady, StillClear
<1>15. Sent
  <2>1. \A c \in End : Owner(c) = p.node /\ Owner(Far(c)) = n => Sincere(c, m)'
    BY <1>7, <1>14 DEF Sincere
  <2> QED BY <1>10, <1>12, <2>1, WrittenToPeer
<1>16. Meeting(n, g)'
  BY <1>9, <1>14 DEF Meeting
<1> QED BY <1>9, <1>10, <1>12, <1>13, <1>15, <1>16, MeetsStep

LEMMA HandlerHearsMeets ==
    ASSUME HInv, HInv', MInv, NEW n \in Node, HandlerHears(n)
    PROVE  MInv'
<1> USE DEF HInv
<1>1. PICK h \in Handler : h = handler[n]
  BY DEF TypeOK
<1>2. h.pc = "waiting" /\ Serving(n, h) /\ h.end \in End /\ h.peer \in Peer
  BY <1>1, HandlerFacts DEF HandlerHears, Serves
<1>3. PICK e \in End, p \in Peer : e = h.end /\ p = h.peer
  BY <1>2
<1>4. \E j \in DOMAIN entries[n] : entries[n][j].end = e /\ PeerOf(entries[n][j]) = p
  BY <1>2, <1>3 DEF Serving
<1>5. PICK i \in DOMAIN entries[n] :
        i = IndexOfEnd(n, e) /\ entries[n][i].end = e /\ PeerOf(entries[n][i]) = p
  <2>1. entries[n] \in Seq(Entry) /\ OnceIn(entries[n])
    BY DEF TypeOK, Once
  <2> QED BY <1>4, <2>1, IndexOfEndFacts DEF OnceIn
<1>6. PICK y \in Entry : y = entries[n][i]
  BY DEF TypeOK
<1>7. Owner(e) = n /\ Owner(Far(e)) = p.node
  BY <1>5, <1>6, EntryFacts DEF Ends, Placed
<1>8. PICK l \in Message : l = [type |-> "LIST_ANSWER", list |-> Listed(n, p)]
  <2>1. TypeOK
    OBVIOUS
  <2>2. [type |-> "LIST_ANSWER", list |-> Listed(n, p)] \in Message
    BY <2>1, ListedType
  <2> QED BY <2>2
<1> DEFINE x == [y EXCEPT !.deaf = FALSE]
<1>9. x \in Entry /\ x.end = entries[n][i].end /\ (entries[n][i].known => x.known)
  <2>1. [y EXCEPT !.deaf = FALSE] \in Entry /\ [y EXCEPT !.deaf = FALSE].end = y.end
        /\ [y EXCEPT !.deaf = FALSE].known = y.known
    BY EntryChanges
  <2> QED BY <1>6, <2>1
<1>10. PICK k \in 1..setting.reads :
        /\ k <= Len(stream[e])
        /\ entries' = [entries EXCEPT ![n] = [entries[n] EXCEPT ![i] = x]]
        /\ \/ /\ Head(stream[e]).type = "LIST_ANSWER"
              /\ handler' = [handler EXCEPT ![n] =
                        [pc |-> "joining", peer |-> p, list |-> Head(stream[e]).list]]
              /\ stream' = Consumed(e, k) /\ greeted' = greeted
           \/ /\ handler' = [handler EXCEPT ![n] = Idle]
              /\ \/ stream' = Consumed(e, k)
                 \/ /\ Head(stream[e]).type = "LIST_REQUEST"
                    /\ stream' = Written(Consumed(e, k), n, Index(n, p), l)
              /\ greeted' = Greeted(e, Head(stream[e]))
  <2>1. PICK k \in 1..setting.reads :
            /\ k <= Len(stream[e])
            /\ entries' = [entries EXCEPT ![n][i].deaf = FALSE]
            /\ LET msg == Head(stream[e])
               IN  IF msg.type = "LIST_ANSWER"
                   THEN /\ handler' = [handler EXCEPT ![n] =
                              [pc |-> "joining", peer |-> p, list |-> msg.list]]
                        /\ stream' = Consumed(e, k)
                        /\ mishaps' = mishaps \union Swallowed(e, k)
                        /\ UNCHANGED greeted
                   ELSE /\ handler' = [handler EXCEPT ![n] = Idle]
                        /\ stream' = IF msg.type # "LIST_REQUEST" THEN Consumed(e, k)
                              ELSE Written(Consumed(e, k), n, Index(n, p), l)
                        /\ greeted' = Greeted(e, msg)
                        /\ mishaps' = mishaps \union {"intruded"}
    BY <1>1, <1>3, <1>5, <1>8 DEF HandlerHears
  <2>2. entries' = [entries EXCEPT ![n] = [entries[n] EXCEPT ![i] = x]]
    BY <1>6, <2>1 DEF TypeOK
  <2> HIDE DEF x
  <2> QED BY <2>1, <2>2
<1> HIDE DEF x
<1>11. UNCHANGED << setting, alive, backlog, shut, acceptor, dialled, noise >>
  BY DEF HandlerHears
<1>12. PICK m \in Message : m = Head(stream[e]) /\ stream[e] # << >>
  <2>1. Head(stream[e]) \in Message /\ 1 \in DOMAIN stream[e]
    BY <1>10, ConsumedFacts
  <2>2. stream[e] \in Seq(Message)
    BY DEF TypeOK
  <2> QED BY <2>1, <2>2
<1>13. /\ \A o \in Node \ {n} : entries'[o] = entries[o]
       /\ From(entries[n], entries'[n])
  <2>1. TypeOK
    OBVIOUS
  <2> QED BY <1>9, <1>10, <2>1, SetFacts
<1>14. Elsewhere(n) /\ handler \in [Node -> Handler]
  BY <1>10, <1>11, <1>13 DEF Elsewhere, TypeOK
<1>15. PICK str \in [End -> Seq(Message)] : str = Consumed(e, k) /\ Shrinking(str)
  BY <1>10, ConsumedFacts, ShrinkingConsumed
<1>16. ASSUME m.type = "LIST_ANSWER", stream' = str, greeted' = greeted,
              handler'[n] = [pc |-> "joining", peer |-> p, list |-> m.list]
       PROVE  MInv'
  <2> DEFINE g == [pc |-> "joining", peer |-> p, list |-> m.list]
  <2>1. g \in Handler /\ g.pc = "joining" /\ g.peer = p /\ g.list = m.list
    <3>1. m.list \in Seq(Node)
      BY <1>16, MessageFacts
    <3> QED BY <3>1 DEF Handler
  <2>2. handler'[n] = g
    BY <1>16
  <2> HIDE DEF g
  <2>3. Steady(n) /\ Sent
    BY <1>11, <1>13, <1>14, <1>15, <1>16, ShrinkingMeets
  <2>4. Sincere(e, m)'
    BY <1>12, <2>3, HeadSincere
  <2>5. Fetched(<< n, p.node >>, m.list)'
    BY <1>7, <1>16, <2>4 DEF Sincere
  <2>6. Meeting(n, g)'
    BY <2>1, <2>5 DEF Meeting
  <2> QED BY <1>16, <2>1, <2>2, <2>3, <2>6, MeetsStep
<1>17. ASSUME \/ stream' = str
              \/ m.type = "LIST_REQUEST" /\ stream' = Written(str, n, Index(n, p), l),
              greeted' = Greeted(e, m), handler'[n] = Idle
       PROVE  MInv'
  <2>1. Steady(n) /\ Sent
    <3>1. CASE stream' = str
      BY <1>11, <1>13, <1>14, <1>15, <3>1, ShrinkingMeets
    <3>2. CASE m.type = "LIST_REQUEST" /\ stream' = Written(str, n, Index(n, p), l)
      <4>1. l.type = "LIST_ANSWER" /\ l.list = Listed(n, p)
        BY <1>8
      <4>2. Steady(n)
        BY <1>11, <1>13, <1>14, <1>15, <3>2, <4>1, WrittenSteady
      <4>3. Clear(<< p.node, n >>)
        <5>1. Sincere(e, m)
          BY <1>12, <4>2, HeadSincere
        <5> QED BY <1>7, <3>2, <5>1 DEF Sincere
      <4>4. Fetched(<< p.node, n >>, l.list)'
        BY <4>1, <4>2, <4>3, ListedFetched
      <4>5. \A c \in End : Owner(c) = p.node /\ Owner(Far(c)) = n => Sincere(c, l)'
        BY <4>1, <4>4 DEF Sincere
      <4> QED BY <1>15, <3>2, <4>2, <4>5, WrittenToPeer
    <3> QED BY <1>17, <3>1, <3>2
  <2>2. Sincere(e, m)'
    BY <1>12, <2>1, HeadSincere
  <2>3. \A c \in greeted' : c \in greeted \/ Fetched(<< Owner(Far(c)), Owner(c) >>, << >>)'
    BY <1>17, <2>2 DEF Greeted, Sincere
  <2> QED BY <1>17, <2>1, <2>3, MeetsResting
<1> DEFINE j == [pc |-> "joining", peer |-> p, list |-> m.list]
<1>18. \/ /\ m.type = "LIST_ANSWER" /\ stream' = str /\ greeted' = greeted
          /\ handler' = [handler EXCEPT ![n] = j]
       \/ /\ \/ stream' = str
             \/ m.type = "LIST_REQUEST" /\ stream' = Written(str, n, Index(n, p), l)
          /\ greeted' = Greeted(e, m) /\ handler' = [handler EXCEPT ![n] = Idle]
  BY <1>10, <1>12, <1>15
<1>19. [handler EXCEPT ![n] = Idle][n] = Idle /\ [handler EXCEPT ![n] = j][n] = j
  BY <1>14
<1> QED BY <1>16, <1>17, <1>18, <1>19

\* Whom n cannot connect to has left, or is connected with n.
LEMMA CannotConnect ==
    ASSUME HInv, NEW n \in Node, NEW s \in Node, ~CanConnect(n, s)
    PROVE  s \notin alive \/ << n, s >> \in dialled \/ << s, n >> \in dialled
<1> USE DEF HInv
<1> DEFINE p == [node |-> s, known |-> TRUE]
<1>1. CASE Index(n, p) # 0
  <2>1. PICK y \in Entry : PeerOf(y) = p /\ \E i \in DOMAIN entries[n] : y = entries[n][i]
    <3>1. entries[n] \in Seq(Entry)
      BY DEF TypeOK
    <3> QED BY <1>1, <3>1, IndexFacts
  <2>2. PICK e \in End : e = y.end
    BY EntryFacts
  <2>3. Owner(e) = n /\ e.conn \in dialled /\ Owner(Far(e)) = s
    BY <2>1, <2>2, EntryFacts DEF Ends, Placed
  <2> QED BY <2>3, EndFacts
<1>2. CASE Index(n, p) = 0
  BY <1>2 DEF CanConnect
<1> QED BY <1>1, <1>2

LEMMA HandlerJoinsMeets ==
    ASSUME HInv, HInv', MInv, NEW n \in Node, HandlerJoins(n)
    PROVE  MInv'
<1> USE DEF HInv
<1>1. PICK h \in Handler : h = handler[n]
  BY DEF TypeOK
<1>2. /\ h.pc = "joining" /\ h.list \in Seq(Node) /\ h.peer \in Peer
      /\ entries[n] \in Seq(Entry) /\ handler \in [Node -> Handler]
  BY <1>1, HandlerFacts DEF HandlerJoins, TypeOK
<1>3. PICK p \in Peer : p = h.peer
  BY <1>2
<1>4. Fetched(<< n, p.node >>, h.list)
  BY <1>1, <1>2, <1>3 DEF MInv, Meeting
<1>5. PICK k \in Conn : k = << n, p.node >> /\ k[1] = n
  <2>1. p.node \in Node
    BY DEF Peer
  <2>2. << n, p.node >> \in Conn
    BY <2>1 DEF Conn
  <2>3. << n, p.node >>[1] = n
    OBVIOUS
  <2> QED BY <2>2, <2>3
<1>6. ASSUME Steady(n)
      PROVE  Fetched(k, h.list)'
  <2>1. \A o \in Node : Fresh(o)
    <3> SUFFICES ASSUME NEW o \in Node, o # n PROVE Fresh(o)
      BY <1>6 DEF Steady
    <3>1. entries'[o] = entries[o]
      BY <1>6 DEF Steady, Elsewhere
    <3> QED BY <3>1, FreshItself
  <2>2. PICK l : l = h.list
    OBVIOUS
  <2>3. Fetched(k, l)'
    BY <1>4, <1>5, <1>6, <2>1, <2>2, FetchedKept DEF Steady
  <2> QED BY <2>2, <2>3
<1>7. CASE h.list = << >>
  <2>1. PICK m \in Message : m = Plain("ACQUITED") /\ m.type = "ACQUITED"
    BY MessageFacts
  <2>2. /\ stream' = Written(stream, n, Index(n, p), m)
        /\ handler' = [handler EXCEPT ![n] = Idle]
        /\ UNCHANGED << setting, alive, entries, backlog, shut, acceptor, dialled, greeted,
                        mishaps, noise >>
    BY <1>1, <1>3, <1>7, <2>1 DEF HandlerJoins
  <2>3. /\ handler'[n] = Idle /\ Elsewhere(n) /\ From(entries[n], entries'[n])
        /\ stream \in [End -> Seq(Message)] /\ Shrinking(stream)
    BY <1>2, <2>2, FromItself, ShrinkingStreams DEF Elsewhere, TypeOK
  <2>4. Steady(n)
    BY <2>1, <2>2, <2>3, WrittenSteady
  <2>5. Fetched(<< n, p.node >>, << >>)'
    BY <1>5, <1>6, <1>7, <2>4
  <2>6. Sent
    <3>1. \A c \in End : Owner(c) = p.node /\ Owner(Far(c)) = n => Sincere(c, m)'
      BY <2>1, <2>5 DEF Sincere
    <3> QED BY <2>2, <2>3, <3>1, WrittenToPeer
  <2> QED BY <2>2, <2>3, <2>4, <2>6, MeetsResting
<1>8. CASE h.list # << >>
  <2>1. PICK s \in Node : s = Head(h.list)
    BY <1>2, <1>8
  <2> DEFINE g == [h EXCEPT !.list = Tail(@)]
  <2>2. g \in Handler /\ g.pc = "joining" /\ g.peer = p /\ g.list = Tail(h.list)
    <3>1. h \in [pc : {"joining"}, peer : Peer, list : Seq(Node)]
      BY <1>2 DEF Handler
    <3>2. Tail(h.list) \in Seq(Node)
      BY <1>2, <1>8, TailFacts
    <3>3. g \in [pc : {"joining"}, peer : Peer, list : Seq(Node)] /\ g.peer = h.peer
          /\ g.list = Tail(h.list)
      BY <3>1, <3>2
    <3> HIDE DEF g
    <3> QED BY <1>3, <3>3 DEF Handler
  <2>3. /\ handler' = [handler EXCEPT ![n] = g]
        /\ \/ CanConnect(n, s) /\ Connected(n, s)
           \/ ~CanConnect(n, s) /\ UNCHANGED << entries, backlog, dialled >>
        /\ UNCHANGED << setting, alive, stream, shut, acceptor, greeted, mishaps, noise >>
    BY <1>1, <1>8, <2>1 DEF HandlerJoins, TypeOK
  <2> HIDE DEF g
  <2>4. handler'[n] = g /\ \A m \in Node \ {n} : handler'[m] = handler[m]
    BY <1>2, <2>3
  <2>5. Steady(n) /\ Sent /\ Met(k, s)'
    <3>1. CASE ~CanConnect(n, s) /\ UNCHANGED << entries, backlog, dialled >>
      <4>1. From(entries[n], entries'[n]) /\ Elsewhere(n) /\ Shrinking(stream')
        BY <1>2, <2>3, <2>4, <3>1, FromItself, ShrinkingStreams DEF Elsewhere
      <4>2. Met(k, s)'
        <5>1. s \notin alive \/ << n, s >> \in dialled \/ << s, n >> \in dialled
          BY <3>1, CannotConnect
        <5> QED BY <1>5, <2>3, <3>1, <5>1 DEF Met
      <4> QED BY <2>3, <3>1, <4>1, <4>2, ShrinkingMeets
    <3>2. CASE CanConnect(n, s) /\ Connected(n, s)
      <4>1. << n, s >> \notin dialled
        BY <3>2 DEF CanConnect
      <4>2. PICK x \in Entry :
                /\ Adds(entries[n], entries'[n], x)
                /\ x = [end |-> OutEnd(<< n, s >>), known |-> TRUE, deaf |-> FALSE]
        BY <2>3, <3>2, <4>1, ConnectedFacts
      <4>3. /\ Growing /\ StillClear /\ \A m \in Node \ {n} : entries'[m] = entries[m]
        BY <2>3, <3>2, <4>1, ConnectedFacts
      <4>4. x.end.side = "out"
        BY <4>2 DEF OutEnd
      <4>5. Steady(n)
        BY <2>3, <2>4, <4>2, <4>3, <4>4 DEF Steady, Elsewhere, Fresh
      <4>6. Sent
        BY <2>3, <4>3, ShrinkingStreams, ShrinkingSent
      <4>7. Met(k, s)'
        BY <1>5, <3>2 DEF Met, Connected
      <4> QED BY <4>5, <4>6, <4>7
    <3> QED BY <2>3, <3>1, <3>2
  <2>6. Fetched(k, Tail(h.list))'
    <3>1. PICK l \in Seq(Node) : l = h.list /\ l # << >> /\ Head(l) = s
      BY <1>2, <1>8, <2>1
    <3>2. Fetched(k, l)'
      BY <1>6, <2>5, <3>1
    <3>3. PICK t \in Seq(Node) : t = Tail(l)
      BY <3>1, TailFacts
    <3>4. \A i \in DOMAIN l : l[i] = s \/ \E o \in DOMAIN t : t[o] = l[i]
      <4>1. \A i \in DOMAIN l : i = 1 \/ (i - 1 \in DOMAIN t /\ t[i - 1] = l[i])
        BY <3>1, <3>3
      <4>2. l[1] = s
        BY <3>1
      <4> QED BY <4>1, <4>2
    <3>5. Fetched(k, t)'
      BY <2>5, <3>2, <3>4 DEF Fetched
    <3> QED BY <3>1, <3>3, <3>5
  <2>7. Meeting(n, g)'
    BY <1>5, <2>2, <2>6 DEF Meeting
  <2>8. \A c \in greeted' : c \in greeted
    BY <2>3
  <2> QED BY <2>2, <2>4, <2>5, <2>7, <2>8, MeetsStep
<1> QED BY <1>7, <1>8

-----------------------------------------------------------------------------
(***************************************************************************)
(* The theorem about newcomers.                                            *)
(***************************************************************************)

LEMMA InitMInv == Init => MInv
<1> SUFFICES ASSUME Init PROVE MInv
  OBVIOUS
<1>1. /\ \A n \in Node : handler[n] = Idle /\ entries[n] = << >>
      /\ \A e \in End : stream[e] = << >>
      /\ greeted = {} /\ DOMAIN << >> = {} /\ Idle.pc = "idle"
  BY IdleFacts DEF Init
<1> QED BY <1>1 DEF MInv, OrderedIn, Meeting

LEMMA NextMInv == HInv /\ HInv' /\ MInv /\ [Next]_vars => MInv'
<1> SUFFICES ASSUME HInv, HInv', MInv, [Next]_vars PROVE MInv'
  OBVIOUS
<1>1. CASE UNCHANGED vars
  <2>1. /\ alive' = alive /\ entries' = entries /\ backlog' = backlog /\ stream' = stream
        /\ handler' = handler /\ dialled' = dialled /\ greeted' = greeted
    BY <1>1 DEF vars
  <2>2. \A k : Clear(k)' <=> Clear(k)
    BY <2>1 DEF Clear, Pending
  <2>3. \A k, l : Fetched(k, l)' <=> Fetched(k, l)
    <3>1. \A k, c : (Before(k, c)' <=> Before(k, c)) /\ (Met(k, c)' <=> Met(k, c))
      BY <2>1 DEF Before, Met
    <3> QED BY <2>2, <3>1 DEF Fetched
  <2>4. \A e, m : Sincere(e, m)' <=> Sincere(e, m)
    BY <2>2, <2>3 DEF Sincere
  <2>5. \A n, h : Meeting(n, h)' <=> Meeting(n, h)
    BY <2>2, <2>3, <2>4 DEF Meeting
  <2>6. \A n \in Node : OrderedIn(entries'[n]) /\ Meeting(n, handler[n])'
    BY <2>1, <2>5 DEF MInv
  <2>7. \A e \in End : \A i \in DOMAIN stream'[e] : Sincere(e, stream[e][i])'
    BY <2>1, <2>4 DEF MInv
  <2>8. \A e \in greeted' : Fetched(<< Owner(Far(e)), Owner(e) >>, << >>)'
    BY <2>1, <2>3 DEF MInv
  <2> QED BY <2>6, <2>7, <2>8 DEF MInv
<1>2. ASSUME NEW i \in DOMAIN setting.peers, Dial(i) PROVE MInv'
  BY <1>2, DialMeets
<1>3. ASSUME NEW n \in Node, Leave(n) \/ Broadcast(n) PROVE MInv'
  BY <1>3, LeaveMeets, BroadcastMeets
<1>4. ASSUME NEW n \in Node, AcceptorStep(n) PROVE MInv'
  BY <1>4, AcceptMeets, AcceptorReadsMeets, AcceptorHangsUpMeets, AcceptorUpdatesMeets
     DEF AcceptorStep
<1>5. ASSUME NEW n \in Node, HandlerStep(n) PROVE MInv'
  BY <1>5, HandlerProcessesMeets, HandlerAsksMeets, HandlerHearsMeets, HandlerHangsUpMeets,
     HandlerJoinsMeets, HandlerReadsMeets, HandlerDropsMeets DEF HandlerStep
<1> QED BY <1>1, <1>2, <1>3, <1>4, <1>5 DEF Next

LEMMA MeetsMeans == HInv /\ MInv => NewcomersMeetPeers
<1> SUFFICES ASSUME HInv, MInv, NEW s \in Node,
                    NEW i \in DOMAIN entries[s], NEW j \in DOMAIN entries[s], i < j,
                    NEW c, c = Owner(Far(entries[s][i].end)),
                    NEW d, d = Owner(Far(entries[s][j].end)),
                    c # d, c \in alive,
                    entries[s][j].end.side = "in", entries[s][j].end \in greeted
             PROVE  << c, d >> \in dialled \/ << d, c >> \in dialled
  BY DEF NewcomersMeetPeers
<1> USE DEF HInv
<1>1. PICK e \in End : e = entries[s][j].end
  BY EntryFacts DEF TypeOK
<1>2. Owner(e) = s
  BY <1>1 DEF Ends, Placed
<1>3. PICK k \in Conn : k = << d, s >> /\ k[1] = d /\ k[2] = s /\ e = InEnd(k)
  <2>1. e.conn \in Conn /\ e = InEnd(e.conn) /\ e.conn = << Owner(Far(e)), Owner(e) >>
    BY <1>1, EndFacts
  <2>2. e.conn = << d, s >>
    BY <1>1, <1>2, <2>1
  <2> QED BY <2>1, <2>2
<1>4. Fetched(k, << >>)
  BY <1>1, <1>2, <1>3 DEF MInv
<1>5. Before(k, c)
  BY <1>1, <1>3 DEF Before
<1>6. c \in Node /\ DOMAIN << >> = {}
  BY DEF TypeOK
<1>7. Met(k, c)
  BY <1>4, <1>5, <1>6 DEF Fetched
<1> QED BY <1>3, <1>7 DEF Met

\* Who says ACQUITED (p2p_server.cpp:162) to a node that has accepted it has
\* connected to each peer the node had by then (:156, from the list that :222
\* makes), or was connected to by it, unless that peer has left, whatever else
\* goes wrong.
THEOREM NewcomersMeet == Spec => []NewcomersMeetPeers
<1>1. Spec => []MInv
  BY InitMInv, NextMInv, InvariantHolds, PTL DEF Spec
<1> QED BY <1>1, MeetsMeans, InvariantHolds, PTL
=============================================================================
