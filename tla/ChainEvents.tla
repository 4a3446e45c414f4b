----------------------------- MODULE ChainEvents -----------------------------
(***************************************************************************)
(* The event manager of src/chain/chainevent.cpp: objects that each have a *)
(* list of callbacks, a queue of events and a thread, the dispatcher, that *)
(* takes the oldest event, copies the list and calls each callback of the  *)
(* copy.                                                                   *)
(*                                                                         *)
(* One thread, the client, owns the objects: it creates, moves, destroys   *)
(* and registers, as Blockchain's constructors and the programs do.        *)
(* Events are sent by any thread and at any time.  The copy of the list is *)
(* made one element at a time, since nothing keeps others out of the list  *)
(* meanwhile; a push to the queue and a pop from it are one step each.     *)
(***************************************************************************)
EXTENDS Naturals, FiniteSets, SequencesExt

CONSTANTS
    Manager,    \* objects
    Callback,   \* functions, each registered at most once
    Setting     \* bounds: functions that are registered, events sent, and
                \* objects created

ASSUME EventsAssumption ==
    /\ IsFiniteSet(Callback)
    /\ Setting \subseteq [callbacks : SUBSET Callback, events : Nat, lives : Nat]

VARIABLES
    setting, \* the bounds of this behaviour
    obj,     \* per object: whether it is alive, and its members
    client,  \* idle, or in a call that joins a dispatcher
    ref,     \* the reference registerCallback returned, NoRef before
    sent,    \* counter: events sent, which are numbered
    lives,   \* counter: objects created
    heard,   \* history: the events each callback was called with
    owed,    \* history: the events sent to its manager since it was registered
    shifted, \* history: callbacks that moved down in their list
    crossed, \* history: the queue of a busy dispatcher was exchanged
    raced,   \* history: a list was changed while it was copied
    broken   \* an element that does not exist was used: anything may follow

count == << sent, lives >>
history == << heard, owed, shifted, crossed, raced, broken >>
vars == << setting, obj, client, ref, count, history >>

Event == UNION {1..s.events : s \in Setting}
NoRef == Cardinality(Callback) + 1

\* The thread of an object.  "ended": none, or one to be joined.  "copy":
\* copies the list of object src, which had n elements when it began.
\* "call": todo are the callbacks of the copy that are still to be called.
Ended == [at |-> "ended"]
Waiting == [at |-> "waiting"]
Thread ==
    {Ended, Waiting}
    \union [at : {"copy", "call"}, evt : Event, todo : Seq(Callback),
            src : Manager, n : Nat]

\* An object: _running, _registeredCallback, _eventBuffer (oldest first).
Object ==
    [alive : BOOLEAN, running : BOOLEAN, callbacks : Seq(Callback),
     buffer : Seq(Event), thread : Thread]
Nothing ==
    [alive |-> FALSE, running |-> FALSE, callbacks |-> << >>,
     buffer |-> << >>, thread |-> Ended]
Started == [Nothing EXCEPT !.alive = TRUE, !.running = TRUE, !.thread = Waiting]

Idle == [op |-> "idle"]
Client ==
    {Idle} \union [op : {"assign"}, to : Manager, from : Manager]
           \union [op : {"destroy"}, of : Manager]

Busy(m) == obj[m].thread.at \in {"copy", "call"}
Has(m) == ToSet(obj[m].callbacks)

\* Some dispatcher has still to copy a part of the list of m.
Copied(m) ==
    \E d \in Manager :
        LET w == obj[d].thread
        IN  w.at = "copy" /\ w.src = m /\ Len(w.todo) < w.n

-----------------------------------------------------------------------------
Init ==
    /\ setting \in Setting
    /\ obj = [m \in Manager |-> Nothing]
    /\ client = Idle
    /\ ref = [c \in Callback |-> NoRef]
    /\ sent = 0 /\ lives = 0
    /\ heard = [c \in Callback |-> << >>] /\ owed = [c \in Callback |-> << >>]
    /\ shifted = {}
    /\ crossed = FALSE /\ raced = FALSE /\ broken = FALSE

-----------------------------------------------------------------------------
(***************************************************************************)
(* The life of an object.                                                  *)
(***************************************************************************)
Run(m) ==
    /\ client = Idle /\ obj[m].alive /\ ~obj[m].running
    /\ obj' = [obj EXCEPT ![m].running = TRUE, ![m].thread = Waiting]
    /\ UNCHANGED << setting, client, ref, count, history >>

\* Blockchain(): the manager of a new chain runs.
New(m) ==
    /\ client = Idle /\ ~obj[m].alive /\ lives < setting.lives
    /\ lives' = lives + 1
    /\ obj' = [obj EXCEPT ![m] = Started]
    /\ UNCHANGED << setting, client, ref, sent, history >>

\* Faulty variant of Assign: the flag of the other object is left alone.
AssignOnly(m, o) ==
    /\ client = Idle /\ obj[m].alive /\ obj[o].alive /\ m # o
    /\ client' = [op |-> "assign", to |-> m, from |-> o]
    /\ UNCHANGED << setting, obj, ref, count, history >>

\* operator= up to the join: the other object's dispatcher is told to end.
Assign(m, o) ==
    /\ client = Idle /\ obj[m].alive /\ obj[o].alive /\ m # o
    /\ client' = [op |-> "assign", to |-> m, from |-> o]
    /\ obj' = [obj EXCEPT ![o].running = FALSE]
    /\ UNCHANGED << setting, ref, count, history >>

\* Blockchain(Blockchain &&): a manager that does not run is assigned to.
MoveConstruct(m, o) ==
    /\ client = Idle /\ ~obj[m].alive /\ obj[o].alive /\ lives < setting.lives
    /\ lives' = lives + 1
    /\ client' = [op |-> "assign", to |-> m, from |-> o]
    /\ obj' = [obj EXCEPT ![m].alive = TRUE, ![o].running = FALSE]
    /\ UNCHANGED << setting, ref, sent, history >>

\* The objects after the swap of lists and, if queues, of queues.  A copy
\* that is under way goes on from the storage that moved.
Swapped(m, o, queues) ==
    LET other(d) == IF d = m THEN o ELSE IF d = o THEN m ELSE d
        thread(d) ==
            IF Busy(d) THEN [obj[d].thread EXCEPT !.src = other(@)] ELSE obj[d].thread
    IN  [d \in Manager |->
            [obj[d] EXCEPT
                !.callbacks = obj[other(d)].callbacks,
                !.buffer = obj[IF queues THEN other(d) ELSE d].buffer,
                !.thread = thread(d)]]

\* Faulty variant of Exchange: the callbacks move, the events stay.
ExchangeCallbacks ==
    /\ client.op = "assign" /\ obj[client.from].thread = Ended
    /\ client' = Idle
    /\ obj' = Swapped(client.to, client.from, FALSE)
    /\ UNCHANGED << setting, ref, count, history >>

\* The join returns: lists and queues are swapped.  This object's own
\* dispatcher is not stopped; the event it is busy with moves all the same.
Exchange ==
    /\ client.op = "assign" /\ obj[client.from].thread = Ended
    /\ client' = Idle
    /\ obj' = Swapped(client.to, client.from, TRUE)
    /\ crossed' = (crossed \/ Busy(client.to))
    /\ UNCHANGED << setting, ref, count, heard, owed, shifted, raced, broken >>

\* ~ChainEventManager up to the join, and after it.
Destroy(m) ==
    /\ client = Idle /\ obj[m].alive
    /\ client' = [op |-> "destroy", of |-> m]
    /\ obj' = [obj EXCEPT ![m].running = FALSE]
    /\ UNCHANGED << setting, ref, count, history >>

Destroyed ==
    /\ client.op = "destroy" /\ obj[client.of].thread = Ended
    /\ client' = Idle
    /\ obj' = [obj EXCEPT ![client.of] = Nothing]
    /\ UNCHANGED << setting, ref, count, history >>

-----------------------------------------------------------------------------
(***************************************************************************)
(* Callbacks and events.                                                   *)
(***************************************************************************)

\* Faulty variant of Register: the reference is the size of the list.
RegisterAtSize(m, c) ==
    /\ client = Idle /\ obj[m].alive /\ ref[c] = NoRef
    /\ obj' = [obj EXCEPT ![m].callbacks = Append(@, c)]
    /\ ref' = [ref EXCEPT ![c] = Len(obj[m].callbacks) + 1]
    /\ UNCHANGED << setting, client, count, history >>

\* An event a dispatcher is already busy with is not owed to a new callback.
\* The list may have to be reallocated, under a dispatcher that copies it.
Register(m, c) ==
    /\ client = Idle /\ obj[m].alive /\ ref[c] = NoRef
    /\ obj' = [obj EXCEPT ![m].callbacks = Append(@, c)]
    /\ ref' = [ref EXCEPT ![c] = Len(obj[m].callbacks)]
    /\ owed' = [owed EXCEPT ![c] =
            IF Busy(m) /\ ~crossed THEN Tail(obj[m].buffer) ELSE obj[m].buffer]
    /\ raced' = (raced \/ Copied(m))
    /\ broken' \in {broken, broken \/ Copied(m)}
    /\ UNCHANGED << setting, client, count, heard, shifted, crossed >>

\* The client gives back the reference of c, on the object that has c.  What
\* the reference now names is erased; past the end, nothing is.
Unregister(m, c) ==
    LET cbs == obj[m].callbacks
        i == ref[c] + 1
    IN  /\ client = Idle /\ c \in Has(m)
        /\ i <= Len(cbs)
        /\ obj' = [obj EXCEPT ![m].callbacks = RemoveAt(@, i)]
        /\ shifted' = shifted \union ToSet(SubSeq(cbs, i + 1, Len(cbs)))
        /\ raced' = (raced \/ Copied(m))
        /\ UNCHANGED << setting, client, ref, count, heard, owed, crossed, broken >>

\* dispatchEvent, by any thread that still has the object.
DispatchEvent(m) ==
    /\ obj[m].alive /\ client # [op |-> "destroy", of |-> m]
    /\ sent < setting.events
    /\ sent' = sent + 1
    /\ obj' = [obj EXCEPT ![m].buffer = Append(@, sent + 1)]
    /\ owed' = [c \in Callback |-> IF c \in Has(m) THEN Append(owed[c], sent + 1) ELSE owed[c]]
    /\ UNCHANGED << setting, client, ref, lives, heard, shifted, crossed, raced, broken >>

-----------------------------------------------------------------------------
(***************************************************************************)
(* The dispatcher: _dispatchImpl.                                          *)
(***************************************************************************)
Leave(m) ==
    /\ obj[m].thread = Waiting /\ ~obj[m].running
    /\ obj' = [obj EXCEPT ![m].thread = Ended]
    /\ UNCHANGED << setting, client, ref, count, history >>

Take(m) ==
    /\ obj[m].thread = Waiting /\ obj[m].running /\ obj[m].buffer # << >>
    /\ obj' = [obj EXCEPT ![m].thread =
            [at |-> "copy", evt |-> Head(obj[m].buffer), todo |-> << >>,
             src |-> m, n |-> Len(obj[m].callbacks)]]
    /\ UNCHANGED << setting, client, ref, count, history >>

\* The next element is copied; it may no longer exist.
Copy(m) ==
    LET w == obj[m].thread
        i == Len(w.todo) + 1
    IN  /\ w.at = "copy" /\ ~broken
        /\ \/ /\ i > w.n
              /\ obj' = [obj EXCEPT ![m].thread.at = "call"]
              /\ UNCHANGED broken
           \/ /\ i <= w.n /\ i \in DOMAIN obj[w.src].callbacks
              /\ obj' = [obj EXCEPT ![m].thread.todo = Append(@, obj[w.src].callbacks[i])]
              /\ UNCHANGED broken
           \/ /\ i <= w.n /\ i \notin DOMAIN obj[w.src].callbacks
              /\ broken' = TRUE
              /\ UNCHANGED obj
        /\ UNCHANGED << setting, client, ref, count, heard, owed, shifted, crossed, raced >>

CallNext(m) ==
    LET w == obj[m].thread
    IN  /\ w.at = "call" /\ w.todo # << >>
        /\ heard' = [heard EXCEPT ![Head(w.todo)] = Append(@, w.evt)]
        /\ obj' = [obj EXCEPT ![m].thread.todo = Tail(@)]
        /\ UNCHANGED << setting, client, ref, count, owed, shifted, crossed, raced, broken >>

\* Faulty variant of Pop: the whole queue is cleared.
PopAll(m) ==
    /\ obj[m].thread.at = "call" /\ obj[m].thread.todo = << >> /\ ~broken
    /\ obj' = [obj EXCEPT ![m].thread = Waiting, ![m].buffer = << >>]
    /\ UNCHANGED << setting, client, ref, count, history >>

\* The oldest event leaves the queue, whichever that now is.
Pop(m) ==
    /\ obj[m].thread.at = "call" /\ obj[m].thread.todo = << >> /\ ~broken
    /\ IF obj[m].buffer # << >>
       THEN /\ obj' = [obj EXCEPT ![m].thread = Waiting, ![m].buffer = Tail(@)]
            /\ UNCHANGED broken
       ELSE broken' = TRUE /\ UNCHANGED obj
    /\ UNCHANGED << setting, client, ref, count, heard, owed, shifted, crossed, raced >>

-----------------------------------------------------------------------------
Turn(m) == Leave(m) \/ Take(m) \/ Copy(m) \/ CallNext(m) \/ Pop(m)

Next ==
    \/ \E m \in Manager :
        \/ Run(m) \/ New(m) \/ Destroy(m) \/ DispatchEvent(m) \/ Turn(m)
        \/ \E o \in Manager : Assign(m, o) \/ MoveConstruct(m, o)
        \/ \E c \in setting.callbacks : Register(m, c) \/ Unregister(m, c)
    \/ Exchange \/ Destroyed

\* Dispatchers go on, and so does a client once the join can return.
Fairness ==
    /\ \A m \in Manager : WF_vars(Turn(m))
    /\ WF_vars(Exchange) /\ WF_vars(Destroyed)

Spec == Init /\ [][Next]_vars /\ Fairness

-----------------------------------------------------------------------------
EventsTypeOK ==
    /\ setting \in Setting
    /\ obj \in [Manager -> Object]
    /\ client \in Client
    /\ ref \in [Callback -> (0..Cardinality(Callback) - 1) \union {NoRef}]
    /\ sent \in 0..setting.events /\ lives \in 0..setting.lives
    /\ {heard, owed} \subseteq [Callback -> Seq(Event)]
    /\ shifted \subseteq Callback
    /\ {crossed, raced, broken} \subseteq BOOLEAN

\* The callbacks that are in the copy, or will be, and not yet called.
ToCall(m) ==
    LET w == obj[m].thread
    IN  ToSet(w.todo) \union
            (IF w.at = "copy" THEN ToSet(SubSeq(obj[w.src].callbacks, Len(w.todo) + 1, w.n)) ELSE {})

\* What callback c of object m is still to hear: the queue, without the event
\* its dispatcher is busy with if c has heard it or came too late for it.
ToHear(m, c) ==
    IF Busy(m) /\ c \notin ToCall(m) THEN Tail(obj[m].buffer) ELSE obj[m].buffer

\* A registered callback hears each event sent to its manager since, once and
\* in order, and nothing is taken from an empty queue, whatever is registered,
\* unregistered and moved meanwhile; unless a manager is assigned to while it
\* is busy with an event (chainevent.cpp:61-75), or a list is changed while
\* the dispatcher copies it.
HearsAllUnlessRaced ==
    ~raced /\ ~crossed =>
        /\ ~broken
        /\ \A m \in Manager : \A c \in Has(m) : owed[c] = heard[c] \o ToHear(m, c)

\* Lists may change while dispatchers iterate: unless a busy manager was
\* assigned to, no element is used that does not exist (chainevent.cpp:113).
CopyIsThreadSafe == ~crossed => ~broken

\* A reference names its callback in whichever object has the callback now,
\* through moves and other registrations, until a callback before it goes.
RefsHoldUnlessShifted ==
    \A m \in Manager : \A c \in Has(m) \ shifted :
        /\ ref[c] < Len(obj[m].callbacks)
        /\ obj[m].callbacks[ref[c] + 1] = c

\* A move or a destructor that waits for a dispatcher comes back.
JoinsEnd == (client # Idle) ~> (client = Idle \/ broken)

\* A callback that is owed an event hears it, unless it is unregistered, or
\* its manager is stopped or destroyed: no event is left behind by a callback
\* that came or went, or by a move.
Served(c) == \E m \in Manager : c \in Has(m) /\ obj[m].running
OwedIsHeard ==
    \A c \in Callback, e \in Event :
        e \in ToSet(owed[c]) ~>
            (e \in ToSet(heard[c]) \/ ~Served(c) \/ crossed \/ raced)
=============================================================================
