-------------------------- MODULE ChainEventsProofs --------------------------
(***************************************************************************)
(* Theorems about ChainEvents, for any objects, any finite set of          *)
(* functions and any bounds.                                               *)
(***************************************************************************)
EXTENDS ChainEvents, FiniteSetTheorems, SequenceFacts

(***************************************************************************)
(* What holds always.                                                      *)
(***************************************************************************)

\* A callback is in one list at most, and once.
Lone ==
    \A m, o \in Manager :
        \A i \in DOMAIN obj[m].callbacks, j \in DOMAIN obj[o].callbacks :
            obj[m].callbacks[i] = obj[o].callbacks[j] => m = o /\ i = j

\* What is in a list or in a copy has been registered; what has not has heard
\* nothing.
Referred ==
    /\ \A m \in Manager : \A i \in DOMAIN obj[m].callbacks :
            ref[obj[m].callbacks[i]] # NoRef
    /\ \A m \in Manager : Busy(m) =>
            \A i \in DOMAIN obj[m].thread.todo : ref[obj[m].thread.todo[i]] # NoRef
    /\ \A c \in Callback : ref[c] = NoRef => heard[c] = << >>

\* A dispatcher that was told to end has ended, once its join has returned.
Joining(m) ==
    \/ client.op = "assign" /\ client.from = m
    \/ client.op = "destroy" /\ client.of = m
Stopped ==
    \A m \in Manager :
        /\ ~obj[m].alive => ~obj[m].running
        /\ ~obj[m].running /\ ~Joining(m) => obj[m].thread = Ended

\* A busy dispatcher is busy with the oldest event of its own queue, and copies
\* its own list, unless its manager was assigned to meanwhile.
Own ==
    ~crossed => \A m \in Manager : Busy(m) =>
        /\ obj[m].thread.src = m
        /\ obj[m].buffer # << >>
        /\ obj[m].thread.evt = Head(obj[m].buffer)

EInv == EventsTypeOK /\ Lone /\ Referred /\ Stopped /\ Own

(***************************************************************************)
(* What holds unless a list was changed while it was copied.               *)
(***************************************************************************)

\* A copy holds nothing twice, and nothing that another object has; one that
\* is under way is the first part of the list it is made from.
Faithful(m) ==
    LET w == obj[m].thread
    IN  /\ \A i, j \in DOMAIN w.todo : w.todo[i] = w.todo[j] => i = j
        /\ \A i \in DOMAIN w.todo : \A o \in Manager \ {m} :
                \A j \in DOMAIN obj[o].callbacks : w.todo[i] # obj[o].callbacks[j]
        /\ w.at = "copy" =>
            /\ Len(w.todo) <= w.n
            /\ Len(w.todo) < w.n =>
                /\ w.n = Len(obj[m].callbacks)
                /\ \A i \in DOMAIN w.todo : w.todo[i] = obj[m].callbacks[i]

Hearing ==
    ~raced /\ ~crossed =>
        /\ ~broken
        /\ \A m \in Manager : Busy(m) => Faithful(m)
        /\ \A m \in Manager : \A c \in Has(m) : owed[c] = heard[c] \o ToHear(m, c)

-----------------------------------------------------------------------------
(***************************************************************************)
(* Objects and their threads.                                              *)
(***************************************************************************)
LEMMA ObjectParts ==
    ASSUME NEW x \in Object
    PROVE  /\ x.alive \in BOOLEAN /\ x.running \in BOOLEAN
           /\ x.callbacks \in Seq(Callback) /\ x.buffer \in Seq(Event)
           /\ x.thread \in Thread
BY DEF Object

\* An object of which one member, or its buffer and its thread, were changed.
LEMMA ObjectChanges ==
    ASSUME NEW x \in Object
    PROVE  /\ \A b \in BOOLEAN : [x EXCEPT !.alive = b] \in Object
           /\ \A b \in BOOLEAN : [x EXCEPT !.running = b] \in Object
           /\ \A s \in Seq(Callback) : [x EXCEPT !.callbacks = s] \in Object
           /\ \A q \in Seq(Event) : [x EXCEPT !.buffer = q] \in Object
           /\ \A t \in Thread : [x EXCEPT !.thread = t] \in Object
BY DEF Object

\* An object whose dispatcher is told to end.
LEMMA Told ==
    ASSUME NEW x \in Object
    PROVE  LET y == [x EXCEPT !.running = FALSE]
           IN  /\ y \in Object /\ y.callbacks = x.callbacks /\ y.buffer = x.buffer
               /\ y.thread = x.thread /\ y.alive = x.alive /\ ~y.running
<1> DEFINE y == [x EXCEPT !.running = FALSE]
<1>1. y \in Object
  BY DEF Object
<1>2. y.callbacks = x.callbacks /\ y.buffer = x.buffer /\ y.thread = x.thread /\ y.alive = x.alive
  BY DEF Object
<1>3. ~y.running
  BY DEF Object
<1> QED BY <1>1, <1>2, <1>3

\* An object with another list, another queue, another state of its thread.
LEMMA OtherList ==
    ASSUME NEW x \in Object, NEW s \in Seq(Callback)
    PROVE  LET y == [x EXCEPT !.callbacks = s]
           IN  /\ y \in Object /\ y.callbacks = s /\ y.buffer = x.buffer
               /\ y.thread = x.thread /\ y.alive = x.alive /\ y.running = x.running
BY DEF Object

LEMMA OtherQueue ==
    ASSUME NEW x \in Object, NEW q \in Seq(Event)
    PROVE  LET y == [x EXCEPT !.buffer = q]
           IN  /\ y \in Object /\ y.callbacks = x.callbacks /\ y.buffer = q
               /\ y.thread = x.thread /\ y.alive = x.alive /\ y.running = x.running
BY DEF Object

LEMMA OtherThread ==
    ASSUME NEW x \in Object, NEW t \in Thread
    PROVE  LET y == [x EXCEPT !.thread = t]
           IN  /\ y \in Object /\ y.callbacks = x.callbacks /\ y.buffer = x.buffer
               /\ y.thread = t /\ y.alive = x.alive /\ y.running = x.running
BY DEF Object

LEMMA ObjectUpdate ==
    ASSUME NEW f \in [Manager -> Object], NEW m \in Manager, NEW x \in Object
    PROVE  LET g == [f EXCEPT ![m] = x]
           IN  /\ g \in [Manager -> Object] /\ g[m] = x
               /\ \A d \in Manager \ {m} : g[d] = f[d]
OBVIOUS

LEMMA Makers ==
    /\ Nothing \in Object /\ Started \in Object
    /\ Ended \in Thread /\ Waiting \in Thread
    /\ Ended.at = "ended" /\ Waiting.at = "waiting" /\ Ended # Waiting
    /\ \A e \in Event, m \in Manager, n \in Nat :
            [at |-> "copy", evt |-> e, todo |-> << >>, src |-> m, n |-> n] \in Thread
<1>1. Ended \in Thread /\ Waiting \in Thread
  BY DEF Thread
<1>2. Nothing \in Object
  BY <1>1 DEF Nothing, Object
<1>3. ASSUME NEW x \in Object
      PROVE  [x EXCEPT !.alive = TRUE, !.running = TRUE, !.thread = Waiting] \in Object
  BY <1>1 DEF Object
<1>4. Started \in Object
  BY <1>2, <1>3 DEF Started
<1>5. \A e \in Event, m \in Manager, n \in Nat :
          [at |-> "copy", evt |-> e, todo |-> << >>, src |-> m, n |-> n] \in Thread
  BY DEF Thread
<1>6. Ended.at = "ended" /\ Waiting.at = "waiting" /\ Ended # Waiting
  BY DEF Ended, Waiting
<1> QED BY <1>1, <1>2, <1>4, <1>5, <1>6

LEMMA ThreadParts ==
    ASSUME NEW t \in Thread, t.at \in {"copy", "call"}
    PROVE  /\ t.evt \in Event /\ t.todo \in Seq(Callback) /\ t.src \in Manager /\ t.n \in Nat
           /\ [t EXCEPT !.at = "call"] \in Thread
           /\ \A s \in Seq(Callback) : [t EXCEPT !.todo = s] \in Thread
           /\ \A d \in Manager : [t EXCEPT !.src = d] \in Thread
BY DEF Thread, Ended, Waiting

LEMMA OtherTodo ==
    ASSUME NEW t \in Thread, t.at \in {"copy", "call"}, NEW s \in Seq(Callback)
    PROVE  LET v == [t EXCEPT !.todo = s]
           IN  /\ v \in Thread /\ v.at = t.at /\ v.todo = s /\ v.evt = t.evt
               /\ v.src = t.src /\ v.n = t.n
<1>1. t \in [at : {"copy", "call"}, evt : Event, todo : Seq(Callback), src : Manager, n : Nat]
  BY DEF Thread, Ended, Waiting
<1> QED BY <1>1 DEF Thread

LEMMA OtherSource ==
    ASSUME NEW t \in Thread, t.at \in {"copy", "call"}, NEW d \in Manager
    PROVE  LET v == [t EXCEPT !.src = d]
           IN  /\ v \in Thread /\ v.at = t.at /\ v.todo = t.todo /\ v.evt = t.evt
               /\ v.src = d /\ v.n = t.n
<1>1. t \in [at : {"copy", "call"}, evt : Event, todo : Seq(Callback), src : Manager, n : Nat]
  BY DEF Thread, Ended, Waiting
<1> QED BY <1>1 DEF Thread

\* A thread that has ended or waits is not busy.
LEMMA NotBusy ==
    ASSUME NEW m \in Manager, obj[m].thread \in {Ended, Waiting}
    PROVE  ~Busy(m)
BY Makers DEF Busy

-----------------------------------------------------------------------------
(***************************************************************************)
(* What a step leaves as it is.                                            *)
(***************************************************************************)
LEMMA LoneSame ==
    ASSUME Lone, \A m \in Manager : obj'[m].callbacks \in {obj[m].callbacks, << >>}
    PROVE  Lone'
<1> SUFFICES ASSUME NEW m \in Manager, NEW o \in Manager,
                    NEW i \in DOMAIN obj'[m].callbacks, NEW j \in DOMAIN obj'[o].callbacks,
                    obj'[m].callbacks[i] = obj'[o].callbacks[j]
             PROVE  m = o /\ i = j
  BY DEF Lone
<1>1. obj'[m].callbacks = obj[m].callbacks /\ obj'[o].callbacks = obj[o].callbacks
  OBVIOUS
<1> QED BY <1>1 DEF Lone

LEMMA ReferredSame ==
    ASSUME Referred, UNCHANGED << ref, heard >>,
           \A m \in Manager : obj'[m].callbacks \in {obj[m].callbacks, << >>},
           \A m \in Manager : Busy(m)' => Busy(m) /\ obj'[m].thread.todo = obj[m].thread.todo
    PROVE  Referred'
<1>1. ASSUME NEW m \in Manager, NEW i \in DOMAIN obj'[m].callbacks
      PROVE  ref'[obj'[m].callbacks[i]] # NoRef
  BY DEF Referred
<1>2. ASSUME NEW m \in Manager, Busy(m)', NEW i \in DOMAIN obj'[m].thread.todo
      PROVE  ref'[obj'[m].thread.todo[i]] # NoRef
  BY <1>2 DEF Referred
<1>3. \A c \in Callback : ref'[c] = NoRef => heard'[c] = << >>
  BY DEF Referred
<1> QED BY <1>1, <1>2, <1>3 DEF Referred

LEMMA OwnSame ==
    ASSUME Own, crossed' = crossed,
           \A m \in Manager : Busy(m)' =>
                /\ Busy(m) /\ obj'[m].buffer = obj[m].buffer
                /\ obj'[m].thread.src = obj[m].thread.src
                /\ obj'[m].thread.evt = obj[m].thread.evt
    PROVE  Own'
BY DEF Own

\* A step that changes objects, and the client's call, only.
LEMMA TypeSame ==
    ASSUME EventsTypeOK, obj' \in [Manager -> Object], client' \in Client,
           UNCHANGED << setting, ref, sent, heard, owed, shifted >>,
           lives' \in 0..setting.lives, {crossed', raced', broken'} \subseteq BOOLEAN
    PROVE  EventsTypeOK'
BY DEF EventsTypeOK

-----------------------------------------------------------------------------
(***************************************************************************)
(* The life of an object.                                                  *)
(***************************************************************************)

\* A step of which no callback hears anything: an object either loses its list
\* and rests, or keeps its list, its queue and what it is busy with.
Calm ==
    /\ UNCHANGED << setting, ref, heard, owed, shifted, crossed, raced, broken >>
    /\ \A d \in Manager :
        \/ obj'[d].callbacks = << >> /\ ~Busy(d)'
        \/ /\ obj'[d].callbacks = obj[d].callbacks /\ obj'[d].buffer = obj[d].buffer
           /\ Busy(d)' <=> Busy(d)
           /\ Busy(d) => obj'[d].thread = obj[d].thread

\* One object changes; what its dispatcher is busy with does not.
LEMMA OneObject ==
    ASSUME EInv, NEW m \in Manager,
           obj' \in [Manager -> Object], \A d \in Manager \ {m} : obj'[d] = obj[d],
           obj'[m].callbacks \in {obj[m].callbacks, << >>},
           Busy(m)' => obj'[m].thread = obj[m].thread /\ obj'[m].buffer = obj[m].buffer,
           UNCHANGED << setting, ref, sent, heard, owed, shifted, crossed, raced, broken >>,
           client' \in Client, lives' \in 0..setting.lives
    PROVE  EventsTypeOK' /\ Lone' /\ Referred' /\ Own'
<1>1. EventsTypeOK'
  BY TypeSame DEF EInv, EventsTypeOK
<1>2. \A d \in Manager : obj'[d].callbacks \in {obj[d].callbacks, << >>}
  OBVIOUS
<1>3. \A d \in Manager : Busy(d)' =>
          Busy(d) /\ obj'[d].thread = obj[d].thread /\ obj'[d].buffer = obj[d].buffer
  BY DEF Busy
<1>4. Lone' /\ Referred'
  BY <1>2, <1>3, LoneSame, ReferredSame DEF EInv
<1>5. Own'
  BY <1>3, OwnSame DEF EInv
<1> QED BY <1>1, <1>4, <1>5

LEMMA RunE ==
    ASSUME EInv, NEW m \in Manager, Run(m)
    PROVE  EInv' /\ Calm
<1> DEFINE x == [obj[m] EXCEPT !.running = TRUE]
           y == [x EXCEPT !.thread = Waiting]
<1>1. /\ UNCHANGED << setting, client, ref, sent, lives, heard, owed, shifted, crossed, raced, broken >>
      /\ obj[m].alive
  BY DEF Run, count, history
<1>2. obj \in [Manager -> Object] /\ client' \in Client /\ lives' \in 0..setting.lives
  BY <1>1 DEF EInv, EventsTypeOK
<1>3. /\ y \in Object /\ y.callbacks = obj[m].callbacks /\ y.running /\ y.alive
      /\ y.thread = Waiting
  BY <1>1, <1>2, Makers, ObjectChanges DEF Object
<1>4. obj' = [obj EXCEPT ![m] = y]
  BY <1>2 DEF Run
<1> HIDE DEF y
<1>5. obj' \in [Manager -> Object] /\ obj'[m] = y /\ \A d \in Manager \ {m} : obj'[d] = obj[d]
  BY <1>2, <1>3, <1>4, ObjectUpdate
<1>6. ~Busy(m)'
  BY <1>3, <1>5, Makers DEF Busy
<1>7. EventsTypeOK' /\ Lone' /\ Referred' /\ Own'
  BY <1>1, <1>2, <1>3, <1>5, <1>6, OneObject
<1>8. Stopped'
  BY <1>1, <1>3, <1>5 DEF EInv, Stopped, Joining
<1>9. Calm
  <2>1. ~Busy(m)
    <3>1. ~obj[m].running /\ ~Joining(m)
      BY DEF Run, Joining, Idle
    <3>2. obj[m].thread = Ended
      BY <3>1 DEF EInv, Stopped
    <3> QED BY <3>2, Makers DEF Busy
  <2>2. obj'[m].buffer = obj[m].buffer
    BY <1>2, <1>5, ObjectParts DEF y, Object
  <2> QED BY <1>1, <1>3, <1>5, <1>6, <2>1, <2>2 DEF Calm, Busy
<1> QED BY <1>7, <1>8, <1>9 DEF EInv

LEMMA NewE ==
    ASSUME EInv, NEW m \in Manager, New(m)
    PROVE  EInv' /\ Calm
<1>1. UNCHANGED << setting, client, ref, sent, heard, owed, shifted, crossed, raced, broken >>
  BY DEF New, history
<1>2. obj \in [Manager -> Object] /\ client' \in Client /\ lives' \in 0..setting.lives
  BY <1>1, EventsAssumption DEF EInv, EventsTypeOK, New
<1>3. Started.callbacks = << >> /\ Started.alive /\ Started.thread = Waiting /\ Started.running
  BY DEF Started, Nothing
<1>4. obj' \in [Manager -> Object] /\ obj'[m] = Started /\ \A d \in Manager \ {m} : obj'[d] = obj[d]
  BY <1>2, Makers, ObjectUpdate DEF New
<1>5. ~Busy(m)'
  BY <1>3, <1>4, Makers DEF Busy
<1>6. EventsTypeOK' /\ Lone' /\ Referred' /\ Own'
  BY <1>1, <1>2, <1>3, <1>4, <1>5, OneObject
<1>7. Stopped'
  BY <1>1, <1>3, <1>4 DEF EInv, Stopped, Joining
<1>8. Calm
  BY <1>1, <1>3, <1>4, <1>5 DEF Calm, Busy
<1> QED BY <1>6, <1>7, <1>8 DEF EInv

\* A dispatcher is told to end, and the client waits for it.
LEMMA AssignE ==
    ASSUME EInv, NEW m \in Manager, NEW o \in Manager, Assign(m, o)
    PROVE  EInv' /\ Calm
<1> DEFINE y == [obj[o] EXCEPT !.running = FALSE]
<1>1. /\ UNCHANGED << setting, ref, sent, lives, heard, owed, shifted, crossed, raced, broken >>
      /\ client = Idle /\ client' = [op |-> "assign", to |-> m, from |-> o]
  BY DEF Assign, count, history
<1>2. obj \in [Manager -> Object] /\ client' \in Client /\ lives' \in 0..setting.lives
  BY <1>1 DEF EInv, EventsTypeOK, Client
<1>3. /\ y \in Object /\ y.callbacks = obj[o].callbacks /\ y.buffer = obj[o].buffer
      /\ y.thread = obj[o].thread /\ ~y.running
  BY <1>2, Told
<1>4. obj' = [obj EXCEPT ![o] = y]
  BY <1>2 DEF Assign
<1> HIDE DEF y
<1>5. obj' \in [Manager -> Object] /\ obj'[o] = y /\ \A d \in Manager \ {o} : obj'[d] = obj[d]
  BY <1>2, <1>3, <1>4, ObjectUpdate
<1>6. EventsTypeOK' /\ Lone' /\ Referred' /\ Own'
  BY <1>1, <1>2, <1>3, <1>5, OneObject
<1>7. Joining(o)' /\ \A d \in Manager : ~Joining(d)
  BY <1>1 DEF Joining, Idle
<1>8. Stopped'
  BY <1>3, <1>5, <1>7 DEF EInv, Stopped
<1>9. Calm
  BY <1>1, <1>3, <1>5 DEF Calm, Busy
<1> QED BY <1>6, <1>8, <1>9 DEF EInv

LEMMA DestroyE ==
    ASSUME EInv, NEW m \in Manager, Destroy(m)
    PROVE  EInv' /\ Calm
<1> DEFINE y == [obj[m] EXCEPT !.running = FALSE]
<1>1. /\ UNCHANGED << setting, ref, sent, lives, heard, owed, shifted, crossed, raced, broken >>
      /\ client = Idle /\ client' = [op |-> "destroy", of |-> m]
  BY DEF Destroy, count, history
<1>2. obj \in [Manager -> Object] /\ client' \in Client /\ lives' \in 0..setting.lives
  BY <1>1 DEF EInv, EventsTypeOK, Client
<1>3. /\ y \in Object /\ y.callbacks = obj[m].callbacks /\ y.buffer = obj[m].buffer
      /\ y.thread = obj[m].thread /\ ~y.running
  BY <1>2, Told
<1>4. obj' = [obj EXCEPT ![m] = y]
  BY <1>2 DEF Destroy
<1> HIDE DEF y
<1>5. obj' \in [Manager -> Object] /\ obj'[m] = y /\ \A d \in Manager \ {m} : obj'[d] = obj[d]
  BY <1>2, <1>3, <1>4, ObjectUpdate
<1>6. EventsTypeOK' /\ Lone' /\ Referred' /\ Own'
  BY <1>1, <1>2, <1>3, <1>5, OneObject
<1>7. Joining(m)' /\ \A d \in Manager : ~Joining(d)
  BY <1>1 DEF Joining, Idle
<1>8. Stopped'
  BY <1>3, <1>5, <1>7 DEF EInv, Stopped
<1>9. Calm
  BY <1>1, <1>3, <1>5 DEF Calm, Busy
<1> QED BY <1>6, <1>8, <1>9 DEF EInv

LEMMA MoveConstructE ==
    ASSUME EInv, NEW m \in Manager, NEW o \in Manager, MoveConstruct(m, o)
    PROVE  EInv' /\ Calm
<1> DEFINE x == [obj[m] EXCEPT !.alive = TRUE]
           y == [obj[o] EXCEPT !.running = FALSE]
<1>1. /\ UNCHANGED << setting, ref, sent, heard, owed, shifted, crossed, raced, broken >>
      /\ client = Idle /\ client' = [op |-> "assign", to |-> m, from |-> o] /\ m # o
  BY DEF MoveConstruct, history
<1>2. obj \in [Manager -> Object] /\ client' \in Client /\ lives' \in 0..setting.lives
  BY <1>1, EventsAssumption DEF EInv, EventsTypeOK, Client, MoveConstruct
<1>3. /\ y \in Object /\ y.callbacks = obj[o].callbacks /\ y.buffer = obj[o].buffer
      /\ y.thread = obj[o].thread /\ ~y.running
  BY <1>2, Told
<1>4. /\ x \in Object /\ x.callbacks = obj[m].callbacks /\ x.buffer = obj[m].buffer
      /\ x.thread = obj[m].thread /\ x.running = obj[m].running /\ x.alive
  BY <1>2, ObjectChanges DEF Object
<1>5. /\ obj' \in [Manager -> Object] /\ obj'[m] = x /\ obj'[o] = y
      /\ \A d \in Manager \ {m, o} : obj'[d] = obj[d]
  <2>1. obj' = [[obj EXCEPT ![m] = x] EXCEPT ![o] = y]
    BY <1>1, <1>2 DEF MoveConstruct
  <2> HIDE DEF x, y
  <2> QED BY <1>1, <1>2, <1>3, <1>4, <2>1
<1> HIDE DEF x, y
<1>6. \A d \in Manager : /\ obj'[d].callbacks = obj[d].callbacks
                          /\ obj'[d].buffer = obj[d].buffer /\ obj'[d].thread = obj[d].thread
  BY <1>3, <1>4, <1>5
<1>7. EventsTypeOK'
  BY <1>1, <1>2, <1>5, TypeSame DEF EInv, EventsTypeOK
<1>8. \A d \in Manager : Busy(d)' => Busy(d)
  BY <1>6 DEF Busy
<1>9. Lone' /\ Referred' /\ Own'
  BY <1>1, <1>6, <1>8, LoneSame, ReferredSame, OwnSame DEF EInv
<1>10. Joining(o)' /\ \A d \in Manager : ~Joining(d)
  BY <1>1 DEF Joining, Idle
<1>11. Stopped'
  BY <1>3, <1>4, <1>5, <1>10 DEF EInv, Stopped
<1>12. Calm
  BY <1>1, <1>6 DEF Calm, Busy
<1> QED BY <1>7, <1>9, <1>11, <1>12 DEF EInv

LEMMA DestroyedE ==
    ASSUME EInv, Destroyed
    PROVE  EInv' /\ Calm
<1>1. /\ UNCHANGED << setting, ref, sent, lives, heard, owed, shifted, crossed, raced, broken >>
      /\ client.op = "destroy" /\ client' = Idle
  BY DEF Destroyed, count, history
<1>2. /\ obj \in [Manager -> Object] /\ client' \in Client /\ lives' \in 0..setting.lives
      /\ client.of \in Manager
  BY <1>1 DEF EInv, EventsTypeOK, Client, Idle
<1> PICK m \in Manager : m = client.of
  BY <1>2
<1>3. Nothing.callbacks = << >> /\ ~Nothing.running /\ Nothing.thread = Ended
  BY DEF Nothing
<1>4. obj' \in [Manager -> Object] /\ obj'[m] = Nothing /\ \A d \in Manager \ {m} : obj'[d] = obj[d]
  BY <1>2, Makers, ObjectUpdate DEF Destroyed
<1>5. ~Busy(m)'
  BY <1>3, <1>4, Makers DEF Busy
<1>6. EventsTypeOK' /\ Lone' /\ Referred' /\ Own'
  BY <1>1, <1>2, <1>3, <1>4, <1>5, OneObject
<1>7. \A d \in Manager \ {m} : ~Joining(d)
  BY <1>1 DEF Joining
<1>8. Stopped'
  BY <1>3, <1>4, <1>7 DEF EInv, Stopped
<1>9. Calm
  BY <1>1, <1>3, <1>4, <1>5 DEF Calm, Busy
<1> QED BY <1>6, <1>8, <1>9 DEF EInv

LEMMA LeaveE ==
    ASSUME EInv, NEW m \in Manager, Leave(m)
    PROVE  EInv' /\ Calm
<1> DEFINE y == [obj[m] EXCEPT !.thread = Ended]
<1>1. UNCHANGED << setting, client, ref, sent, lives, heard, owed, shifted, crossed, raced, broken >>
  BY DEF Leave, count, history
<1>2. obj \in [Manager -> Object] /\ client' \in Client /\ lives' \in 0..setting.lives
  BY <1>1 DEF EInv, EventsTypeOK
<1>3. /\ y \in Object /\ y.callbacks = obj[m].callbacks /\ y.running = obj[m].running
      /\ y.alive = obj[m].alive /\ y.thread = Ended
  BY <1>2, Makers, ObjectChanges DEF Object
<1>4. obj' = [obj EXCEPT ![m] = y]
  BY <1>2 DEF Leave
<1> HIDE DEF y
<1>5. obj' \in [Manager -> Object] /\ obj'[m] = y /\ \A d \in Manager \ {m} : obj'[d] = obj[d]
  BY <1>2, <1>3, <1>4, ObjectUpdate
<1>6. ~Busy(m)'
  BY <1>3, <1>5, Makers DEF Busy
<1>7. EventsTypeOK' /\ Lone' /\ Referred' /\ Own'
  BY <1>1, <1>2, <1>3, <1>5, <1>6, OneObject
<1>8. Stopped'
  BY <1>1, <1>3, <1>5 DEF EInv, Stopped, Joining
<1>9. Calm
  <2>1. ~Busy(m)
    BY Makers DEF Leave, Busy
  <2>2. obj'[m].buffer = obj[m].buffer
    BY <1>2, <1>5, OtherThread, Makers DEF y
  <2> QED BY <1>1, <1>3, <1>5, <1>6, <2>1, <2>2 DEF Calm, Busy
<1> QED BY <1>7, <1>8, <1>9 DEF EInv

-----------------------------------------------------------------------------
(***************************************************************************)
(* Callbacks and events.                                                   *)
(***************************************************************************)

\* A list that a new callback is added to has room for a reference to it.
LEMMA ListBound ==
    ASSUME EInv, NEW m \in Manager, NEW c \in Callback, ref[c] = NoRef
    PROVE  /\ Len(obj[m].callbacks) \in 0..Cardinality(Callback) - 1
           /\ NoRef \in Nat /\ NoRef > Cardinality(Callback)
<1> DEFINE s == obj[m].callbacks
           T == Callback \ {c}
           f == [i \in 1..Len(s) |-> s[i]]
<1>1. s \in Seq(Callback)
  BY ObjectParts DEF EInv, EventsTypeOK
<1>2. /\ IsFiniteSet(Callback) /\ Cardinality(Callback) \in Nat
      /\ IsFiniteSet(T) /\ Cardinality(T) = Cardinality(Callback) - 1
  BY EventsAssumption, FS_RemoveElement, FS_CardinalityType
<1>3. \A i \in 1..Len(s) : s[i] \in T
  BY <1>1 DEF EInv, Referred
<1>4. \A i, j \in 1..Len(s) : s[i] = s[j] => i = j
  BY <1>1 DEF EInv, Lone
<1>5. f \in Injection(1..Len(s), T)
  BY <1>3, <1>4 DEF Injection, IsInjective
<1>6. Cardinality(1..Len(s)) <= Cardinality(T)
  BY <1>2, <1>5, FS_Injection
<1>7. Len(s) \in Nat /\ Cardinality(1..Len(s)) = Len(s)
  <2>1. Len(s) \in Nat
    BY <1>1
  <2>2. Cardinality(1..Len(s)) = IF 1 > Len(s) THEN 0 ELSE Len(s) - 1 + 1
    BY <2>1, FS_Interval
  <2> QED BY <2>1, <2>2
<1> QED BY <1>2, <1>6, <1>7 DEF NoRef

\* A callback is added at the end, where no list has it.
LEMMA RegisterE ==
    ASSUME EInv, NEW m \in Manager, NEW c \in setting.callbacks, Register(m, c)
    PROVE  /\ EInv' /\ c \in Callback /\ ref[c] = NoRef /\ ref' = [ref EXCEPT ![c] = Len(obj[m].callbacks)]
           /\ UNCHANGED << setting, heard, shifted, crossed >>
           /\ raced' = (raced \/ Copied(m)) /\ broken' \in {broken, broken \/ Copied(m)}
           /\ owed' = [owed EXCEPT ![c] =
                IF Busy(m) /\ ~crossed THEN Tail(obj[m].buffer) ELSE obj[m].buffer]
           /\ obj'[m].callbacks = Append(obj[m].callbacks, c)
           /\ \A d \in Manager \ {m} : obj'[d] = obj[d]
           /\ \A d \in Manager : obj'[d].buffer = obj[d].buffer /\ obj'[d].thread = obj[d].thread
<1> DEFINE s == obj[m].callbacks
           y == [obj[m] EXCEPT !.callbacks = Append(s, c)]
<1>1. /\ UNCHANGED << setting, client, sent, lives, heard, shifted, crossed >>
      /\ ref[c] = NoRef /\ ref' = [ref EXCEPT ![c] = Len(s)]
      /\ raced' = (raced \/ Copied(m)) /\ broken' \in {broken, broken \/ Copied(m)}
  BY DEF Register, count
<1>2. EventsTypeOK /\ obj \in [Manager -> Object] /\ c \in Callback
  BY EventsAssumption DEF EInv, EventsTypeOK
<1>3. s \in Seq(Callback) /\ Append(s, c) \in Seq(Callback) /\ Len(s) \in Nat
  BY <1>2, ObjectParts
<1>4. /\ y \in Object /\ y.callbacks = Append(s, c) /\ y.alive = obj[m].alive
      /\ y.running = obj[m].running /\ y.buffer = obj[m].buffer /\ y.thread = obj[m].thread
  BY <1>2, <1>3, OtherList
<1>5. obj' = [obj EXCEPT ![m] = y]
  BY <1>2 DEF Register
<1> HIDE DEF y
<1>6. obj' \in [Manager -> Object] /\ obj'[m] = y /\ \A d \in Manager \ {m} : obj'[d] = obj[d]
  BY <1>2, <1>4, <1>5, ObjectUpdate
<1>7. /\ Len(s) \in 0..Cardinality(Callback) - 1 /\ Len(s) # NoRef
      /\ Cardinality(Callback) \in Nat
  <2>1. Cardinality(Callback) \in Nat
    BY EventsAssumption, FS_CardinalityType
  <2> QED BY <1>1, <1>2, <2>1, ListBound
<1>8. ref' \in [Callback -> (0..Cardinality(Callback) - 1) \union {NoRef}]
  BY <1>1, <1>2, <1>7 DEF EventsTypeOK
<1>9. owed' \in [Callback -> Seq(Event)]
  <2>1. obj[m].buffer \in Seq(Event) /\ owed \in [Callback -> Seq(Event)]
    BY <1>2, ObjectParts DEF EventsTypeOK
  <2>2. Busy(m) /\ ~crossed => Tail(obj[m].buffer) \in Seq(Event)
    BY <2>1 DEF EInv, Own
  <2> QED BY <1>2, <2>1, <2>2 DEF Register
<1>10. EventsTypeOK'
  <2>1. Copied(m) \in BOOLEAN
    BY DEF Copied
  <2>2. raced' \in BOOLEAN /\ broken' \in BOOLEAN
    BY <1>1, <1>2, <2>1 DEF EventsTypeOK
  <2> QED BY <1>1, <1>2, <1>6, <1>8, <1>9, <2>2 DEF EventsTypeOK
<1>11. ASSUME NEW d \in Manager, NEW i \in DOMAIN obj'[d].callbacks
       PROVE  \/ i \in DOMAIN obj[d].callbacks /\ obj'[d].callbacks[i] = obj[d].callbacks[i]
              \/ d = m /\ i = Len(s) + 1 /\ obj'[d].callbacks[i] = c
  <2>1. CASE d = m
    <3>1. obj'[d].callbacks = Append(s, c) /\ obj[d].callbacks = s
      BY <1>4, <1>6, <2>1
    <3>2. Append(s, c)[Len(s) + 1] = c
      BY <1>2, <1>3, AppendFacts
    <3> QED BY <1>2, <1>3, <2>1, <3>1, <3>2, AppendFacts
  <2>2. CASE d # m
    BY <1>6, <2>2
  <2> QED BY <2>1, <2>2
<1>12. \A d \in Manager : \A i \in DOMAIN obj[d].callbacks :
          obj[d].callbacks[i] # c /\ ref[obj[d].callbacks[i]] # NoRef
  BY <1>1 DEF EInv, Referred
<1>13. Lone'
  <2> SUFFICES ASSUME NEW d \in Manager, NEW o \in Manager,
                      NEW i \in DOMAIN obj'[d].callbacks, NEW j \in DOMAIN obj'[o].callbacks,
                      obj'[d].callbacks[i] = obj'[o].callbacks[j]
               PROVE  d = o /\ i = j
    BY DEF Lone
  <2>1. CASE obj'[d].callbacks[i] = c
    <3>1. d = m /\ i = Len(s) + 1
      BY <1>11, <1>12, <2>1
    <3>2. o = m /\ j = Len(s) + 1
      BY <1>11, <1>12, <2>1
    <3> QED BY <3>1, <3>2
  <2>2. CASE obj'[d].callbacks[i] # c
    <3>1. /\ i \in DOMAIN obj[d].callbacks /\ obj'[d].callbacks[i] = obj[d].callbacks[i]
          /\ j \in DOMAIN obj[o].callbacks /\ obj'[o].callbacks[j] = obj[o].callbacks[j]
      BY <1>11, <2>2
    <3>2. obj[d].callbacks[i] = obj[o].callbacks[j]
      BY <3>1
    <3> QED BY <3>1, <3>2 DEF EInv, Lone
  <2> QED BY <2>1, <2>2
<1>14. \A d \in Manager : obj'[d].buffer = obj[d].buffer /\ obj'[d].thread = obj[d].thread
  BY <1>4, <1>6
<1>15. \A x \in Callback : (ref[x] # NoRef \/ x = c) => ref'[x] # NoRef
  BY <1>1, <1>2, <1>7 DEF EventsTypeOK
<1>16. Referred'
  <2>1. ASSUME NEW d \in Manager, NEW i \in DOMAIN obj'[d].callbacks
        PROVE  ref'[obj'[d].callbacks[i]] # NoRef
    <3>1. obj'[d].callbacks[i] \in Callback
      BY <1>6, ObjectParts
    <3> QED BY <1>11, <1>12, <1>15, <3>1
  <2>2. ASSUME NEW d \in Manager, Busy(d)', NEW i \in DOMAIN obj'[d].thread.todo
        PROVE  ref'[obj'[d].thread.todo[i]] # NoRef
    <3>1. Busy(d) /\ obj'[d].thread = obj[d].thread
      BY <1>14, <2>2 DEF Busy
    <3>2. obj[d].thread.todo \in Seq(Callback)
      BY <1>2, <3>1, ObjectParts, ThreadParts DEF Busy
    <3> QED BY <1>15, <3>1, <3>2 DEF EInv, Referred
  <2>3. \A x \in Callback : ref'[x] = NoRef => heard'[x] = << >>
    BY <1>1, <1>15 DEF EInv, Referred
  <2> QED BY <2>1, <2>2, <2>3 DEF Referred
<1>17. Own'
  <2>1. \A d \in Manager : Busy(d)' => Busy(d)
    BY <1>14 DEF Busy
  <2> QED BY <1>1, <1>14, <2>1, OwnSame DEF EInv
<1>18. Stopped'
  BY <1>1, <1>4, <1>6 DEF EInv, Stopped, Joining
<1>19. owed' = [owed EXCEPT ![c] =
           IF Busy(m) /\ ~crossed THEN Tail(obj[m].buffer) ELSE obj[m].buffer]
  BY DEF Register
<1> QED BY <1>1, <1>2, <1>4, <1>6, <1>10, <1>13, <1>14, <1>16, <1>17, <1>18, <1>19 DEF EInv

\* What a reference names is erased; what follows moves down.
LEMMA UnregisterE ==
    ASSUME EInv, NEW m \in Manager, NEW c \in setting.callbacks, Unregister(m, c)
    PROVE  LET s == obj[m].callbacks
               k == ref[c] + 1
           IN  /\ EInv' /\ k \in 1..Len(s) /\ UNCHANGED << ref, heard, owed, crossed, broken >>
               /\ raced' = (raced \/ Copied(m))
               /\ shifted' = shifted \union ToSet(SubSeq(s, k + 1, Len(s)))
               /\ obj'[m].callbacks = RemoveAt(s, k)
               /\ \A d \in Manager \ {m} : obj'[d] = obj[d]
               /\ \A d \in Manager : obj'[d].buffer = obj[d].buffer /\ obj'[d].thread = obj[d].thread
<1> DEFINE s == obj[m].callbacks
           k == ref[c] + 1
           y == [obj[m] EXCEPT !.callbacks = RemoveAt(s, k)]
<1>1. /\ UNCHANGED << setting, client, ref, sent, lives, heard, owed, crossed, broken >>
      /\ k <= Len(s) /\ raced' = (raced \/ Copied(m))
      /\ shifted' = shifted \union ToSet(SubSeq(s, k + 1, Len(s)))
  BY DEF Unregister, count
<1>2. EventsTypeOK /\ obj \in [Manager -> Object] /\ c \in Callback
  BY EventsAssumption DEF EInv, EventsTypeOK
<1>3. s \in Seq(Callback) /\ Len(s) \in Nat /\ k \in 1..Len(s)
  <2>1. s \in Seq(Callback) /\ Len(s) \in Nat
    BY <1>2, ObjectParts
  <2>2. ref[c] \in Nat
    <3>1. Cardinality(Callback) \in Nat
      BY EventsAssumption, FS_CardinalityType
    <3> QED BY <1>2, <3>1 DEF EventsTypeOK, NoRef
  <2> QED BY <1>1, <2>1, <2>2
<1> DEFINE r == RemoveAt(s, k)
<1>4. /\ r \in Seq(Callback) /\ Len(r) = Len(s) - 1
      /\ \A j \in 1..(Len(s) - 1) : r[j] = IF j < k THEN s[j] ELSE s[j + 1]
  BY <1>3, RemoveAtFacts
<1> HIDE DEF r
<1>5. /\ y \in Object /\ y.callbacks = r /\ y.alive = obj[m].alive
      /\ y.running = obj[m].running /\ y.buffer = obj[m].buffer /\ y.thread = obj[m].thread
  BY <1>2, <1>4, OtherList DEF r
<1>6. obj' = [obj EXCEPT ![m] = y]
  BY <1>2 DEF Unregister
<1> HIDE DEF y, k
<1>7. obj' \in [Manager -> Object] /\ obj'[m] = y /\ \A d \in Manager \ {m} : obj'[d] = obj[d]
  BY <1>2, <1>5, <1>6, ObjectUpdate
<1>8. EventsTypeOK'
  <2>1. raced' \in BOOLEAN
    BY <1>1, <1>2 DEF EventsTypeOK, Copied
  <2>2. ToSet(SubSeq(s, k + 1, Len(s))) \subseteq Callback
    BY <1>3 DEF ToSet
  <2> QED BY <1>1, <1>2, <1>7, <2>1, <2>2 DEF EventsTypeOK
<1> DEFINE up(d, i) == IF d = m /\ i >= k THEN i + 1 ELSE i
<1>9. ASSUME NEW d \in Manager, NEW i \in DOMAIN obj'[d].callbacks
      PROVE  /\ i \in Nat /\ up(d, i) \in DOMAIN obj[d].callbacks
             /\ obj'[d].callbacks[i] = obj[d].callbacks[up(d, i)]
  <2>1. CASE d = m
    <3>1. i \in 1..(Len(s) - 1) /\ obj'[d].callbacks = r
      BY <1>3, <1>4, <1>5, <1>7, <2>1
    <3> QED BY <1>3, <1>4, <2>1, <3>1
  <2>2. CASE d # m
    <3>1. obj'[d] = obj[d] /\ obj[d].callbacks \in Seq(Callback)
      BY <1>2, <1>7, <2>2, ObjectParts
    <3> QED BY <2>2, <3>1
  <2> QED BY <2>1, <2>2
<1>10. Lone'
  <2> SUFFICES ASSUME NEW d \in Manager, NEW o \in Manager,
                      NEW i \in DOMAIN obj'[d].callbacks, NEW j \in DOMAIN obj'[o].callbacks,
                      obj'[d].callbacks[i] = obj'[o].callbacks[j]
               PROVE  d = o /\ i = j
    BY DEF Lone
  <2>1. /\ i \in Nat /\ j \in Nat
        /\ up(d, i) \in DOMAIN obj[d].callbacks /\ up(o, j) \in DOMAIN obj[o].callbacks
        /\ obj[d].callbacks[up(d, i)] = obj[o].callbacks[up(o, j)]
    BY <1>9
  <2>2. d = o /\ up(d, i) = up(o, j)
    BY <2>1 DEF EInv, Lone
  <2> QED BY <1>3, <2>1, <2>2
<1>11. \A d \in Manager : obj'[d].buffer = obj[d].buffer /\ obj'[d].thread = obj[d].thread
  BY <1>5, <1>7
<1>12. \A d \in Manager : Busy(d)' => Busy(d)
  BY <1>11 DEF Busy
<1>13. Referred'
  <2>1. \A d \in Manager : \A i \in DOMAIN obj'[d].callbacks :
            ref'[obj'[d].callbacks[i]] # NoRef
    BY <1>1, <1>9 DEF EInv, Referred
  <2>2. \A d \in Manager : Busy(d)' => \A i \in DOMAIN obj'[d].thread.todo :
            ref'[obj'[d].thread.todo[i]] # NoRef
    BY <1>1, <1>11, <1>12 DEF EInv, Referred
  <2>3. \A x \in Callback : ref'[x] = NoRef => heard'[x] = << >>
    BY <1>1 DEF EInv, Referred
  <2> QED BY <2>1, <2>2, <2>3 DEF Referred
<1>14. Own'
  BY <1>1, <1>11, <1>12, OwnSame DEF EInv
<1>15. Stopped'
  BY <1>1, <1>5, <1>7 DEF EInv, Stopped, Joining
<1> QED BY <1>1, <1>3, <1>5, <1>7, <1>8, <1>10, <1>11, <1>13, <1>14, <1>15 DEF EInv, k, r

\* An event goes to the end of the queue, behind the one that is dispatched.
LEMMA DispatchEventE ==
    ASSUME EInv, NEW m \in Manager, DispatchEvent(m)
    PROVE  /\ EInv' /\ UNCHANGED << ref, heard, shifted, crossed, raced, broken >>
           /\ sent + 1 \in Event
           /\ \A d \in Manager : /\ obj'[d].callbacks = obj[d].callbacks
                                  /\ obj'[d].thread = obj[d].thread
           /\ obj'[m].buffer = Append(obj[m].buffer, sent + 1)
           /\ \A d \in Manager \ {m} : obj'[d] = obj[d]
           /\ owed' = [c \in Callback |->
                IF c \in Has(m) THEN Append(owed[c], sent + 1) ELSE owed[c]]
<1> DEFINE q == obj[m].buffer
           y == [obj[m] EXCEPT !.buffer = Append(q, sent + 1)]
<1>1. /\ UNCHANGED << setting, client, ref, lives, heard, shifted, crossed, raced, broken >>
      /\ sent < setting.events /\ sent' = sent + 1
  BY DEF DispatchEvent
<1>2. EventsTypeOK /\ obj \in [Manager -> Object] /\ setting \in Setting
  BY DEF EInv, EventsTypeOK
<1>3. sent' \in 0..setting.events /\ sent + 1 \in Event
  <2>1. setting.events \in Nat /\ sent \in 0..setting.events
    BY <1>2, EventsAssumption DEF EventsTypeOK
  <2>2. sent + 1 \in 1..setting.events
    BY <1>1, <2>1
  <2> QED BY <1>1, <1>2, <2>1, <2>2 DEF Event
<1>4. q \in Seq(Event) /\ Append(q, sent + 1) \in Seq(Event)
  BY <1>2, <1>3, ObjectParts
<1>5. /\ y \in Object /\ y.buffer = Append(q, sent + 1) /\ y.alive = obj[m].alive
      /\ y.running = obj[m].running /\ y.callbacks = obj[m].callbacks
      /\ y.thread = obj[m].thread
  BY <1>2, <1>4, OtherQueue
<1>6. obj' = [obj EXCEPT ![m] = y]
  BY <1>2 DEF DispatchEvent
<1> HIDE DEF y
<1>7. obj' \in [Manager -> Object] /\ obj'[m] = y /\ \A d \in Manager \ {m} : obj'[d] = obj[d]
  BY <1>2, <1>5, <1>6, ObjectUpdate
<1>8. owed' \in [Callback -> Seq(Event)]
  BY <1>2, <1>3 DEF EventsTypeOK, DispatchEvent
<1>9. EventsTypeOK'
  BY <1>1, <1>2, <1>3, <1>7, <1>8 DEF EventsTypeOK
<1>10. \A d \in Manager : /\ obj'[d].callbacks = obj[d].callbacks
                           /\ obj'[d].thread = obj[d].thread
  BY <1>5, <1>7
<1>11. \A d \in Manager : Busy(d)' => Busy(d)
  BY <1>10 DEF Busy
<1>12. Lone' /\ Referred'
  BY <1>1, <1>10, <1>11, LoneSame, ReferredSame DEF EInv
<1>13. Own'
  <2> SUFFICES ASSUME ~crossed, NEW d \in Manager, Busy(d)
               PROVE  /\ obj'[d].thread.src = d
                      /\ obj'[d].buffer # << >>
                      /\ obj'[d].thread.evt = Head(obj'[d].buffer)
    BY <1>1, <1>11 DEF Own
  <2>1. /\ obj[d].thread.src = d /\ obj[d].buffer # << >>
        /\ obj[d].thread.evt = Head(obj[d].buffer)
    BY DEF EInv, Own
  <2>2. CASE d = m
    BY <1>3, <1>4, <1>5, <1>7, <2>1, <2>2
  <2>3. CASE d # m
    BY <1>7, <2>1, <2>3
  <2> QED BY <2>2, <2>3
<1>14. Stopped'
  BY <1>1, <1>5, <1>7 DEF EInv, Stopped, Joining
<1>15. owed' = [c \in Callback |->
           IF c \in Has(m) THEN Append(owed[c], sent + 1) ELSE owed[c]]
  BY DEF DispatchEvent
<1> QED BY <1>1, <1>3, <1>5, <1>7, <1>9, <1>10, <1>12, <1>13, <1>14, <1>15 DEF EInv

-----------------------------------------------------------------------------
(***************************************************************************)
(* The dispatcher.                                                         *)
(***************************************************************************)
LEMMA TakeE ==
    ASSUME EInv, NEW m \in Manager, Take(m)
    PROVE  /\ EInv' /\ ~Busy(m) /\ UNCHANGED << ref, heard, owed, shifted, crossed, raced, broken >>
           /\ \A d \in Manager : /\ obj'[d].callbacks = obj[d].callbacks
                                  /\ obj'[d].buffer = obj[d].buffer
           /\ \A d \in Manager \ {m} : obj'[d] = obj[d]
           /\ obj'[m].thread.at = "copy" /\ obj'[m].thread.todo = << >>
           /\ obj'[m].thread.src = m /\ obj'[m].thread.n = Len(obj[m].callbacks)
<1> DEFINE t == [at |-> "copy", evt |-> Head(obj[m].buffer), todo |-> << >>,
                 src |-> m, n |-> Len(obj[m].callbacks)]
           y == [obj[m] EXCEPT !.thread = t]
<1>1. /\ UNCHANGED << setting, client, ref, sent, lives, heard, owed, shifted, crossed, raced, broken >>
      /\ obj[m].buffer # << >> /\ obj[m].running
  BY DEF Take, count, history
<1>2. /\ obj \in [Manager -> Object] /\ client' \in Client /\ lives' \in 0..setting.lives
      /\ EventsTypeOK
  BY <1>1 DEF EInv, EventsTypeOK
<1>3. t \in Thread
  <2>1. obj[m].buffer \in Seq(Event) /\ obj[m].callbacks \in Seq(Callback)
    BY <1>2, ObjectParts
  <2>2. Head(obj[m].buffer) \in Event /\ Len(obj[m].callbacks) \in Nat
    BY <1>1, <2>1
  <2> QED BY <2>2, Makers
<1>4. /\ t.src = m /\ t.evt = Head(obj[m].buffer) /\ DOMAIN t.todo = {}
  OBVIOUS
<1> HIDE DEF t
<1>5. /\ y \in Object /\ y.callbacks = obj[m].callbacks /\ y.buffer = obj[m].buffer
      /\ y.thread = t /\ y.alive = obj[m].alive /\ y.running = obj[m].running
  BY <1>2, <1>3, OtherThread
<1>6. obj' = [obj EXCEPT ![m] = y]
  BY <1>2 DEF Take, t
<1> HIDE DEF y
<1>7. obj' \in [Manager -> Object] /\ obj'[m] = y /\ \A d \in Manager \ {m} : obj'[d] = obj[d]
  BY <1>2, <1>5, <1>6, ObjectUpdate
<1>8. EventsTypeOK'
  BY <1>1, <1>2, <1>7, TypeSame DEF EventsTypeOK
<1>9. Lone'
  BY <1>5, <1>7, LoneSame DEF EInv
<1>10. Referred'
  <2>1. ASSUME NEW d \in Manager, NEW i \in DOMAIN obj'[d].callbacks
        PROVE  ref'[obj'[d].callbacks[i]] # NoRef
    <3>1. obj'[d].callbacks = obj[d].callbacks
      BY <1>5, <1>7
    <3> QED BY <1>1, <3>1 DEF EInv, Referred
  <2>2. ASSUME NEW d \in Manager, Busy(d)', NEW i \in DOMAIN obj'[d].thread.todo
        PROVE  ref'[obj'[d].thread.todo[i]] # NoRef
    <3>1. d # m
      BY <1>4, <1>5, <1>7, <2>2
    <3>2. obj'[d] = obj[d] /\ Busy(d)
      BY <1>7, <2>2, <3>1 DEF Busy
    <3> QED BY <1>1, <3>2 DEF EInv, Referred
  <2>3. \A x \in Callback : ref'[x] = NoRef => heard'[x] = << >>
    BY <1>1 DEF EInv, Referred
  <2> QED BY <2>1, <2>2, <2>3 DEF Referred
<1>11. Own'
  <2> SUFFICES ASSUME ~crossed, NEW d \in Manager, Busy(d)'
               PROVE  /\ obj'[d].thread.src = d
                      /\ obj'[d].buffer # << >>
                      /\ obj'[d].thread.evt = Head(obj'[d].buffer)
    BY <1>1 DEF Own
  <2>1. CASE d = m
    BY <1>1, <1>4, <1>5, <1>7, <2>1
  <2>2. CASE d # m
    <3>1. obj'[d] = obj[d] /\ Busy(d)
      BY <1>7, <2>2 DEF Busy
    <3> QED BY <3>1 DEF EInv, Own
  <2> QED BY <2>1, <2>2
<1>12. Stopped'
  BY <1>1, <1>5, <1>7 DEF EInv, Stopped, Joining
<1>13. ~Busy(m)
  BY NotBusy DEF Take
<1>14. t.at = "copy" /\ t.todo = << >> /\ t.src = m /\ t.n = Len(obj[m].callbacks)
  BY DEF t
<1> QED BY <1>1, <1>5, <1>7, <1>8, <1>9, <1>10, <1>11, <1>12, <1>13, <1>14 DEF EInv

LEMMA ThreadUpdate ==
    ASSUME NEW f \in [Manager -> Object], NEW m \in Manager, NEW t \in Thread
    PROVE  LET g == [f EXCEPT ![m] = [f[m] EXCEPT !.thread = t]]
           IN  /\ g \in [Manager -> Object] /\ g[m] \in Object
               /\ g[m].callbacks = f[m].callbacks
               /\ g[m].buffer = f[m].buffer /\ g[m].thread = t /\ g[m].alive = f[m].alive
               /\ g[m].running = f[m].running /\ \A d \in Manager \ {m} : g[d] = f[d]
<1> DEFINE y == [f[m] EXCEPT !.thread = t]
           g == [f EXCEPT ![m] = y]
<1>1. /\ y \in Object /\ y.callbacks = f[m].callbacks /\ y.buffer = f[m].buffer
      /\ y.thread = t /\ y.alive = f[m].alive /\ y.running = f[m].running
  BY OtherThread
<1> HIDE DEF y
<1>2. g \in [Manager -> Object] /\ g[m] = y /\ \A d \in Manager \ {m} : g[d] = f[d]
  BY <1>1, ObjectUpdate
<1> HIDE DEF g
<1>3. /\ g \in [Manager -> Object] /\ g[m] \in Object
      /\ g[m].callbacks = f[m].callbacks
      /\ g[m].buffer = f[m].buffer /\ g[m].thread = t /\ g[m].alive = f[m].alive
      /\ g[m].running = f[m].running /\ \A d \in Manager \ {m} : g[d] = f[d]
  BY <1>1, <1>2
<1> QED BY <1>3 DEF g, y

\* The thread of m is busy before the step and after it, with the same event,
\* and what it has still to call has been registered.
LEMMA BusyStep ==
    ASSUME EInv, NEW m \in Manager, Busy(m),
           obj' \in [Manager -> Object], \A d \in Manager \ {m} : obj'[d] = obj[d],
           obj'[m].callbacks = obj[m].callbacks, obj'[m].buffer = obj[m].buffer,
           obj'[m].alive = obj[m].alive, obj'[m].running = obj[m].running,
           obj'[m].thread.evt = obj[m].thread.evt, obj'[m].thread.src = obj[m].thread.src,
           \A i \in DOMAIN obj'[m].thread.todo : ref[obj'[m].thread.todo[i]] # NoRef,
           UNCHANGED << setting, client, ref, sent, lives, owed, shifted, crossed, raced >>,
           broken' \in BOOLEAN, heard' \in [Callback -> Seq(Event)],
           \A c \in Callback : ref[c] = NoRef => heard'[c] = heard[c]
    PROVE  EInv'
<1>1. obj \in [Manager -> Object] /\ EventsTypeOK
  BY DEF EInv, EventsTypeOK
<1>2. EventsTypeOK'
  BY <1>1 DEF EventsTypeOK
<1>3. Lone'
  BY LoneSame DEF EInv
<1>4. Referred'
  <2>1. ASSUME NEW d \in Manager, NEW i \in DOMAIN obj'[d].callbacks
        PROVE  ref'[obj'[d].callbacks[i]] # NoRef
    <3>1. obj'[d].callbacks = obj[d].callbacks
      OBVIOUS
    <3> QED BY <3>1 DEF EInv, Referred
  <2>2. ASSUME NEW d \in Manager, Busy(d)', NEW i \in DOMAIN obj'[d].thread.todo
        PROVE  ref'[obj'[d].thread.todo[i]] # NoRef
    <3>1. CASE d = m
      BY <2>2, <3>1
    <3>2. CASE d # m
      <4>1. obj'[d] = obj[d] /\ Busy(d)
        BY <2>2, <3>2 DEF Busy
      <4> QED BY <4>1 DEF EInv, Referred
    <3> QED BY <3>1, <3>2
  <2>3. \A x \in Callback : ref'[x] = NoRef => heard'[x] = << >>
    BY DEF EInv, Referred
  <2> QED BY <2>1, <2>2, <2>3 DEF Referred
<1>5. Own'
  <2>1. \A d \in Manager : Busy(d)' =>
            /\ Busy(d) /\ obj'[d].buffer = obj[d].buffer
            /\ obj'[d].thread.src = obj[d].thread.src
            /\ obj'[d].thread.evt = obj[d].thread.evt
    BY DEF Busy
  <2> QED BY <2>1, OwnSame DEF EInv
<1>6. Stopped'
  <2>1. obj[m].thread # Ended
    BY Makers DEF Busy
  <2> QED BY <2>1 DEF EInv, Stopped, Joining
<1> QED BY <1>2, <1>3, <1>4, <1>5, <1>6 DEF EInv

LEMMA CopyE ==
    ASSUME EInv, NEW m \in Manager, Copy(m)
    PROVE  LET w == obj[m].thread
               cbs == obj[w.src].callbacks
               i == Len(w.todo) + 1
               v == obj'[m].thread
           IN  /\ EInv' /\ w \in Thread /\ w.at = "copy" /\ cbs \in Seq(Callback)
               /\ \A d \in Manager : /\ obj'[d].callbacks = obj[d].callbacks
                                      /\ obj'[d].buffer = obj[d].buffer
               /\ \A d \in Manager \ {m} : obj'[d] = obj[d]
               /\ UNCHANGED << setting, client, ref, sent, lives, heard, owed, shifted,
                               crossed, raced >>
               /\ \/ /\ i > w.n /\ v.at = "call" /\ v.todo = w.todo
                     /\ broken' = broken
                  \/ /\ i <= w.n /\ i \in DOMAIN cbs /\ broken' = broken
                     /\ v.at = "copy" /\ v.n = w.n /\ v.todo = Append(w.todo, cbs[i])
                  \/ i <= w.n /\ i \notin DOMAIN cbs /\ obj' = obj
<1> DEFINE w == obj[m].thread
           cbs == obj[w.src].callbacks
           i == Len(w.todo) + 1
<1>1. /\ UNCHANGED << setting, client, ref, sent, lives, heard, owed, shifted, crossed, raced >>
      /\ w.at = "copy"
  BY DEF Copy, count
<1>2. EventsTypeOK /\ obj \in [Manager -> Object] /\ Busy(m) /\ heard \in [Callback -> Seq(Event)]
  BY <1>1 DEF EInv, EventsTypeOK, Busy
<1>3. w \in Thread /\ w.todo \in Seq(Callback) /\ w.src \in Manager
  BY <1>1, <1>2, ObjectParts, ThreadParts
<1>4. cbs \in Seq(Callback)
  BY <1>2, <1>3, ObjectParts
<1>5. broken \in BOOLEAN
  BY <1>2 DEF EventsTypeOK
<1>6. \A j \in DOMAIN w.todo : ref[w.todo[j]] # NoRef
  BY <1>2 DEF EInv, Referred
<1>7. ASSUME i > w.n, broken' = broken, obj' = [obj EXCEPT ![m].thread.at = "call"]
      PROVE  /\ EInv' /\ obj'[m].callbacks = obj[m].callbacks /\ obj'[m].buffer = obj[m].buffer
             /\ \A d \in Manager \ {m} : obj'[d] = obj[d]
             /\ obj'[m].thread.at = "call" /\ obj'[m].thread.todo = w.todo
  <2> DEFINE t == [w EXCEPT !.at = "call"]
  <2>1. t \in Thread /\ t.at = "call" /\ t.todo = w.todo /\ t.evt = w.evt /\ t.src = w.src
    BY <1>1, <1>3, ThreadParts DEF Thread, Ended, Waiting
  <2>2. obj' = [obj EXCEPT ![m] = [obj[m] EXCEPT !.thread = t]]
    BY <1>2, <1>7
  <2> HIDE DEF t
  <2>3. /\ obj' \in [Manager -> Object] /\ obj'[m].callbacks = obj[m].callbacks
        /\ obj'[m].buffer = obj[m].buffer /\ obj'[m].thread = t /\ obj'[m].alive = obj[m].alive
        /\ obj'[m].running = obj[m].running /\ \A d \in Manager \ {m} : obj'[d] = obj[d]
    BY <1>2, <2>1, <2>2, ThreadUpdate
  <2>4. /\ \A j \in DOMAIN obj'[m].thread.todo : ref[obj'[m].thread.todo[j]] # NoRef
        /\ obj'[m].thread.evt = w.evt /\ obj'[m].thread.src = w.src
        /\ broken' \in BOOLEAN /\ heard' \in [Callback -> Seq(Event)]
    BY <1>1, <1>2, <1>5, <1>6, <1>7, <2>1, <2>3
  <2>5. EInv'
    BY <1>1, <1>2, <2>3, <2>4, BusyStep
  <2> QED BY <2>1, <2>3, <2>5
<1>8. ASSUME i <= w.n, i \in DOMAIN cbs, broken' = broken,
             obj' = [obj EXCEPT ![m].thread.todo = Append(@, cbs[i])]
      PROVE  /\ EInv' /\ obj'[m].callbacks = obj[m].callbacks /\ obj'[m].buffer = obj[m].buffer
             /\ \A d \in Manager \ {m} : obj'[d] = obj[d]
             /\ obj'[m].thread.at = "copy" /\ obj'[m].thread.n = w.n
             /\ obj'[m].thread.todo = Append(w.todo, cbs[i])
  <2> DEFINE u == Append(w.todo, cbs[i])
             t == [w EXCEPT !.todo = u]
  <2>1. cbs[i] \in Callback /\ u \in Seq(Callback)
    BY <1>3, <1>4, <1>8
  <2>2. \A j \in DOMAIN u : ref[u[j]] # NoRef
    <3>1. ref[cbs[i]] # NoRef
      BY <1>3, <1>8 DEF EInv, Referred
    <3>2. u[Len(w.todo) + 1] = cbs[i]
      BY <1>3, <2>1, AppendFacts
    <3>3. ASSUME NEW j \in DOMAIN u
          PROVE  (j \in DOMAIN w.todo /\ u[j] = w.todo[j]) \/ j = Len(w.todo) + 1
      BY <1>3, <2>1, AppendFacts
    <3> QED BY <1>6, <3>1, <3>2, <3>3
  <2> HIDE DEF u
  <2>3. /\ t \in Thread /\ t.at = "copy" /\ t.todo = u /\ t.evt = w.evt /\ t.src = w.src
        /\ t.n = w.n
    BY <1>1, <1>3, <2>1, OtherTodo
  <2>4. obj' = [obj EXCEPT ![m] = [obj[m] EXCEPT !.thread = t]]
    BY <1>2, <1>8 DEF u
  <2> HIDE DEF t
  <2>5. /\ obj' \in [Manager -> Object] /\ obj'[m].callbacks = obj[m].callbacks
        /\ obj'[m].buffer = obj[m].buffer /\ obj'[m].thread = t /\ obj'[m].alive = obj[m].alive
        /\ obj'[m].running = obj[m].running /\ \A d \in Manager \ {m} : obj'[d] = obj[d]
    BY <1>2, <2>3, <2>4, ThreadUpdate
  <2>6. EInv'
    BY <1>1, <1>2, <1>5, <1>8, <2>2, <2>3, <2>5, BusyStep
  <2> QED BY <2>3, <2>5, <2>6 DEF u
<1>9. ASSUME i <= w.n, i \notin DOMAIN cbs, broken' = TRUE, UNCHANGED obj
      PROVE  EInv'
  BY <1>1, <1>2, <1>6, <1>9, BusyStep
<1>10. \/ i > w.n /\ broken' = broken /\ obj' = [obj EXCEPT ![m].thread.at = "call"]
       \/ /\ i <= w.n /\ i \in DOMAIN cbs /\ broken' = broken
          /\ obj' = [obj EXCEPT ![m].thread.todo = Append(@, cbs[i])]
       \/ i <= w.n /\ i \notin DOMAIN cbs /\ broken' = TRUE /\ UNCHANGED obj
  BY Zenon DEF Copy
<1>11. CASE i > w.n /\ broken' = broken /\ obj' = [obj EXCEPT ![m].thread.at = "call"]
  <2>1. \A d \in Manager : /\ obj'[d].callbacks = obj[d].callbacks
                           /\ obj'[d].buffer = obj[d].buffer
    BY <1>7, <1>11
  <2> QED BY <1>1, <1>3, <1>4, <1>7, <1>11, <2>1
<1>12. CASE /\ i <= w.n /\ i \in DOMAIN cbs /\ broken' = broken
            /\ obj' = [obj EXCEPT ![m].thread.todo = Append(@, cbs[i])]
  <2>1. \A d \in Manager : /\ obj'[d].callbacks = obj[d].callbacks
                           /\ obj'[d].buffer = obj[d].buffer
    BY <1>8, <1>12
  <2> QED BY <1>1, <1>3, <1>4, <1>8, <1>12, <2>1
<1>13. CASE i <= w.n /\ i \notin DOMAIN cbs /\ broken' = TRUE /\ UNCHANGED obj
  BY <1>1, <1>3, <1>4, <1>9, <1>13
<1> QED BY <1>10, <1>11, <1>12, <1>13

LEMMA CallNextE ==
    ASSUME EInv, NEW m \in Manager, CallNext(m)
    PROVE  LET w == obj[m].thread
           IN  /\ EInv' /\ w.at = "call" /\ w.todo \in Seq(Callback) /\ w.todo # << >>
               /\ \A d \in Manager : /\ obj'[d].callbacks = obj[d].callbacks
                                      /\ obj'[d].buffer = obj[d].buffer
               /\ \A d \in Manager \ {m} : obj'[d] = obj[d]
               /\ UNCHANGED << owed, crossed, raced, broken >>
               /\ obj'[m].thread.at = "call" /\ obj'[m].thread.todo = Tail(w.todo)
               /\ heard' = [heard EXCEPT ![Head(w.todo)] = Append(@, w.evt)]
<1> DEFINE w == obj[m].thread
<1>1. /\ UNCHANGED << setting, client, ref, sent, lives, owed, shifted, crossed, raced, broken >>
      /\ w.at = "call" /\ w.todo # << >>
      /\ heard' = [heard EXCEPT ![Head(w.todo)] = Append(@, w.evt)]
  BY DEF CallNext, count
<1>2. EventsTypeOK /\ obj \in [Manager -> Object] /\ Busy(m)
  BY <1>1 DEF EInv, EventsTypeOK, Busy
<1>3. w \in Thread /\ w.todo \in Seq(Callback) /\ w.evt \in Event
  BY <1>1, <1>2, ObjectParts, ThreadParts
<1>4. heard \in [Callback -> Seq(Event)] /\ broken' \in BOOLEAN
  BY <1>1, <1>2 DEF EventsTypeOK
<1> DEFINE u == Tail(w.todo)
           t == [w EXCEPT !.todo = u]
<1>5. /\ Head(w.todo) \in Callback /\ ref[Head(w.todo)] # NoRef /\ u \in Seq(Callback)
      /\ \A j \in DOMAIN u : ref[u[j]] # NoRef
  <2>1. \A j \in DOMAIN w.todo : ref[w.todo[j]] # NoRef
    BY <1>2 DEF EInv, Referred
  <2> QED BY <1>1, <1>3, <2>1
<1> HIDE DEF u
<1>6. t \in Thread /\ t.at = "call" /\ t.todo = u /\ t.evt = w.evt /\ t.src = w.src
  BY <1>1, <1>3, <1>5, OtherTodo
<1>7. obj' = [obj EXCEPT ![m] = [obj[m] EXCEPT !.thread = t]]
  BY <1>2 DEF CallNext, u
<1> HIDE DEF t
<1>8. /\ obj' \in [Manager -> Object] /\ obj'[m].callbacks = obj[m].callbacks
      /\ obj'[m].buffer = obj[m].buffer /\ obj'[m].thread = t /\ obj'[m].alive = obj[m].alive
      /\ obj'[m].running = obj[m].running /\ \A d \in Manager \ {m} : obj'[d] = obj[d]
  BY <1>2, <1>6, <1>7, ThreadUpdate
<1>9. /\ heard' \in [Callback -> Seq(Event)]
      /\ \A c \in Callback : ref[c] = NoRef => heard'[c] = heard[c]
  BY <1>1, <1>3, <1>4, <1>5
<1>10. EInv'
  BY <1>1, <1>2, <1>4, <1>5, <1>6, <1>8, <1>9, BusyStep
<1>11. \A d \in Manager : obj'[d].callbacks = obj[d].callbacks /\ obj'[d].buffer = obj[d].buffer
  BY <1>8
<1> QED BY <1>1, <1>3, <1>6, <1>8, <1>10, <1>11 DEF u

\* A dispatcher that has called all pops; what it finds to pop is there unless
\* its manager was assigned to.
LEMMA PopE ==
    ASSUME EInv, NEW m \in Manager, Pop(m)
    PROVE  /\ EInv' /\ obj[m].thread.at = "call" /\ obj[m].thread.todo = << >>
           /\ UNCHANGED << ref, heard, owed, crossed, raced >>
           /\ \A d \in Manager : obj'[d].callbacks = obj[d].callbacks
           /\ \A d \in Manager \ {m} : obj'[d] = obj[d]
           /\ obj[m].buffer # << >> =>
                /\ broken' = broken /\ obj'[m].thread = Waiting
                /\ obj'[m].buffer = Tail(obj[m].buffer)
<1> DEFINE q == Tail(obj[m].buffer)
           x == [obj[m] EXCEPT !.thread = Waiting]
           y == [x EXCEPT !.buffer = q]
<1>1. /\ UNCHANGED << setting, client, ref, sent, lives, heard, owed, shifted, crossed, raced >>
      /\ obj[m].thread.at = "call" /\ obj[m].thread.todo = << >>
  BY DEF Pop, count
<1>2. /\ EventsTypeOK /\ obj \in [Manager -> Object] /\ Busy(m) /\ obj[m].buffer \in Seq(Event)
      /\ client' \in Client /\ lives' \in 0..setting.lives
  BY <1>1, ObjectParts DEF EInv, EventsTypeOK, Busy
<1>3. CASE obj[m].buffer # << >>
  <2>1. q \in Seq(Event)
    BY <1>2, <1>3
  <2>2. /\ x \in Object /\ x.callbacks = obj[m].callbacks /\ x.alive = obj[m].alive
        /\ x.running = obj[m].running /\ x.thread = Waiting
    BY <1>2, Makers, OtherThread
  <2>3. broken' = broken /\ obj' = [obj EXCEPT ![m] = y]
    BY <1>2, <1>3 DEF Pop
  <2> HIDE DEF q, x
  <2>4. /\ y \in Object /\ y.callbacks = obj[m].callbacks /\ y.alive = obj[m].alive
        /\ y.running = obj[m].running /\ y.thread = Waiting /\ y.buffer = q
    BY <2>1, <2>2, OtherQueue
  <2> HIDE DEF y
  <2>5. obj' \in [Manager -> Object] /\ obj'[m] = y /\ \A d \in Manager \ {m} : obj'[d] = obj[d]
    BY <1>2, <2>3, <2>4, ObjectUpdate
  <2>6. ~Busy(m)'
    BY <2>4, <2>5, Makers DEF Busy
  <2>7. EventsTypeOK' /\ Lone' /\ Referred' /\ Own'
    BY <1>1, <1>2, <2>3, <2>4, <2>5, <2>6, OneObject
  <2>8. Stopped'
    <3>1. obj[m].thread # Ended
      BY <1>2, Makers DEF Busy
    <3> QED BY <1>1, <2>4, <2>5, <3>1 DEF EInv, Stopped, Joining
  <2> QED BY <1>1, <2>3, <2>4, <2>5, <2>7, <2>8 DEF EInv, q
<1>4. CASE obj[m].buffer = << >>
  <2>1. obj' = obj /\ broken' = TRUE
    BY <1>4 DEF Pop
  <2>2. EventsTypeOK' /\ Lone' /\ Referred' /\ Own' /\ Stopped'
    <3>1. EventsTypeOK'
      BY <1>1, <1>2, <2>1, TypeSame DEF EventsTypeOK
    <3>2. \A d \in Manager : Busy(d)' => Busy(d)
      BY <2>1 DEF Busy
    <3>3. Lone' /\ Referred' /\ Own'
      BY <1>1, <2>1, <3>2, LoneSame, ReferredSame, OwnSame DEF EInv
    <3>4. Stopped'
      BY <1>1, <2>1 DEF EInv, Stopped, Joining
    <3> QED BY <3>1, <3>3, <3>4
  <2> QED BY <1>1, <1>4, <2>1, <2>2 DEF EInv
<1> QED BY <1>3, <1>4

\* The object that d has the members of after the exchange of a and b.
Other(a, b, d) == IF d = a THEN b ELSE IF d = b THEN a ELSE d

\* Lists and queues change places; threads stay, and go on copying a list
\* wherever it is.
LEMMA ExchangeE ==
    ASSUME EInv, Exchange
    PROVE  /\ EInv' /\ client.to \in Manager /\ client.from \in Manager
           /\ obj[client.from].thread = Ended
           /\ UNCHANGED << ref, heard, owed, raced, broken >>
           /\ crossed' = (crossed \/ Busy(client.to))
           /\ \A d \in Manager :
                /\ Other(client.to, client.from, d) \in Manager
                /\ obj'[d].callbacks = obj[Other(client.to, client.from, d)].callbacks
                /\ obj'[d].buffer = obj[Other(client.to, client.from, d)].buffer
                /\ Busy(d)' <=> Busy(d)
                /\ obj'[d].thread.at = obj[d].thread.at
                /\ Busy(d) => /\ obj'[d].thread.todo = obj[d].thread.todo
                              /\ obj'[d].thread.n = obj[d].thread.n
<1> DEFINE o(d) == Other(client.to, client.from, d)
           w(d) == obj[d].thread
           t(d) == IF Busy(d) THEN [w(d) EXCEPT !.src = o(w(d).src)] ELSE w(d)
           y(d) == [obj[d] EXCEPT !.callbacks = obj[o(d)].callbacks,
                                  !.buffer = obj[o(d)].buffer, !.thread = t(d)]
<1>1. /\ UNCHANGED << setting, ref, sent, lives, heard, owed, shifted, raced, broken >>
      /\ crossed' = (crossed \/ Busy(client.to)) /\ client' = Idle
      /\ client.op = "assign" /\ obj[client.from].thread = Ended
  BY DEF Exchange, count
<1>2. /\ EventsTypeOK /\ obj \in [Manager -> Object] /\ client' \in Client
      /\ client.to \in Manager /\ client.from \in Manager
  BY <1>1 DEF EInv, EventsTypeOK, Client, Idle
<1>3. obj' = [d \in Manager |-> y(d)]
  BY DEF Exchange, Swapped, Other
<1>4. \A d \in Manager : o(d) \in Manager
  BY <1>2 DEF Other
<1>5. ASSUME NEW d \in Manager
      PROVE  /\ t(d) \in Thread /\ t(d).at = w(d).at
             /\ Busy(d) => /\ t(d).todo = w(d).todo /\ t(d).n = w(d).n /\ t(d).evt = w(d).evt
                           /\ t(d).src = o(w(d).src)
             /\ ~Busy(d) => t(d) = w(d)
  <2>1. w(d) \in Thread
    BY <1>2, ObjectParts
  <2>2. CASE ~Busy(d)
    BY <2>1, <2>2
  <2>3. CASE Busy(d)
    <3>1. w(d).at \in {"copy", "call"}
      BY <2>3 DEF Busy
    <3>2. o(w(d).src) \in Manager
      BY <1>4, <2>1, <3>1, ThreadParts
    <3>3. t(d) = [w(d) EXCEPT !.src = o(w(d).src)]
      BY <2>3
    <3> QED BY <2>1, <2>3, <3>1, <3>2, <3>3, OtherSource
  <2> QED BY <2>2, <2>3
<1> HIDE DEF t, o
<1>6. ASSUME NEW d \in Manager
      PROVE  /\ y(d) \in Object /\ y(d).callbacks = obj[o(d)].callbacks
             /\ y(d).buffer = obj[o(d)].buffer /\ y(d).thread = t(d)
             /\ y(d).alive = obj[d].alive /\ y(d).running = obj[d].running
  <2>1. obj[o(d)].callbacks \in Seq(Callback) /\ obj[o(d)].buffer \in Seq(Event)
    BY <1>2, <1>4, ObjectParts
  <2>2. obj[d] \in Object /\ t(d) \in Thread
    BY <1>2, <1>5
  <2> DEFINE x == obj[d]
             s == obj[o(d)].callbacks
             q == obj[o(d)].buffer
             u == t(d)
             z == [x EXCEPT !.callbacks = s, !.buffer = q, !.thread = u]
  <2>3. x \in Object /\ s \in Seq(Callback) /\ q \in Seq(Event) /\ u \in Thread
    BY <2>1, <2>2
  <2> HIDE DEF x, s, q, u
  <2>4. /\ z \in Object /\ z.callbacks = s /\ z.buffer = q
        /\ z.thread = u /\ z.alive = x.alive /\ z.running = x.running
    BY <2>3 DEF Object
  <2> HIDE DEF z
  <2>5. y(d) = z
    BY DEF x, s, q, u, z
  <2> HIDE DEF y
  <2> QED BY <2>4, <2>5 DEF x, s, q, u
<1> HIDE DEF y
<1>7. /\ obj' \in [Manager -> Object]
      /\ \A d \in Manager :
            /\ obj'[d].callbacks = obj[o(d)].callbacks /\ obj'[d].buffer = obj[o(d)].buffer
            /\ obj'[d].thread = t(d) /\ obj'[d].alive = obj[d].alive
            /\ obj'[d].running = obj[d].running
  BY <1>3, <1>6
<1>8. EventsTypeOK'
  <2>1. crossed' \in BOOLEAN
    BY <1>1, <1>2 DEF EventsTypeOK, Busy
  <2> QED BY <1>1, <1>2, <1>7, <2>1, TypeSame DEF EventsTypeOK
<1>9. \A d \in Manager : Busy(d)' <=> Busy(d)
  BY <1>5, <1>7 DEF Busy
<1>10. \A d, e \in Manager : o(d) = o(e) => d = e
  BY DEF o, Other
<1>11. Lone'
  <2> SUFFICES ASSUME NEW d \in Manager, NEW e \in Manager,
                      NEW i \in DOMAIN obj'[d].callbacks, NEW j \in DOMAIN obj'[e].callbacks,
                      obj'[d].callbacks[i] = obj'[e].callbacks[j]
               PROVE  d = e /\ i = j
    BY DEF Lone
  <2>1. /\ i \in DOMAIN obj[o(d)].callbacks /\ j \in DOMAIN obj[o(e)].callbacks
        /\ obj[o(d)].callbacks[i] = obj[o(e)].callbacks[j]
    BY <1>7
  <2>2. o(d) = o(e) /\ i = j
    BY <1>4, <2>1 DEF EInv, Lone
  <2> QED BY <1>10, <2>2
<1>12. Referred'
  <2>1. ASSUME NEW d \in Manager, NEW i \in DOMAIN obj'[d].callbacks
        PROVE  ref'[obj'[d].callbacks[i]] # NoRef
    BY <1>1, <1>4, <1>7 DEF EInv, Referred
  <2>2. ASSUME NEW d \in Manager, Busy(d)', NEW i \in DOMAIN obj'[d].thread.todo
        PROVE  ref'[obj'[d].thread.todo[i]] # NoRef
    BY <1>1, <1>5, <1>7, <1>9, <2>2 DEF EInv, Referred
  <2>3. \A x \in Callback : ref'[x] = NoRef => heard'[x] = << >>
    BY <1>1 DEF EInv, Referred
  <2> QED BY <2>1, <2>2, <2>3 DEF Referred
<1>13. Own'
  <2> SUFFICES ASSUME ~crossed, ~Busy(client.to), NEW d \in Manager, Busy(d)
               PROVE  /\ obj'[d].thread.src = d
                      /\ obj'[d].buffer # << >>
                      /\ obj'[d].thread.evt = Head(obj'[d].buffer)
    BY <1>1, <1>9 DEF Own
  <2>1. d # client.to /\ d # client.from
    BY <1>1, Makers DEF Busy
  <2>2. o(d) = d
    BY <2>1 DEF o, Other
  <2>3. /\ obj[d].thread.src = d /\ obj[d].buffer # << >>
        /\ obj[d].thread.evt = Head(obj[d].buffer)
    BY DEF EInv, Own
  <2> QED BY <1>5, <1>7, <2>2, <2>3
<1>14. Stopped'
  <2>1. \A d \in Manager : ~Busy(d) => obj'[d].thread = obj[d].thread
    BY <1>5, <1>7
  <2>2. \A d \in Manager : obj[d].thread = Ended => ~Busy(d)
    BY Makers DEF Busy
  <2>3. \A d \in Manager : Joining(d) => d = client.from
    BY <1>1 DEF Joining
  <2> QED BY <1>1, <1>7, <2>1, <2>2, <2>3 DEF EInv, Stopped
<1> QED BY <1>1, <1>2, <1>4, <1>5, <1>7, <1>8, <1>9, <1>11, <1>12, <1>13, <1>14 DEF EInv, o

-----------------------------------------------------------------------------
(***************************************************************************)
(* The first theorem.                                                      *)
(***************************************************************************)
LEMMA InitE == Init => EInv
<1> SUFFICES ASSUME Init PROVE EInv
  OBVIOUS
<1>1. \A m \in Manager : obj[m] = Nothing
  BY DEF Init
<1>2. \A m \in Manager : /\ obj[m].callbacks = << >> /\ ~obj[m].running
                          /\ obj[m].thread = Ended /\ ~Busy(m)
  BY <1>1, Makers DEF Nothing, Busy
<1>3. EventsTypeOK
  <2>1. obj \in [Manager -> Object]
    BY Makers DEF Init
  <2>2. setting.events \in Nat /\ setting.lives \in Nat /\ setting \in Setting
    BY EventsAssumption DEF Init
  <2>3. client \in Client /\ sent \in 0..setting.events /\ lives \in 0..setting.lives
    BY <2>2 DEF Init, Client
  <2>4. ref \in [Callback -> (0..Cardinality(Callback) - 1) \union {NoRef}]
    BY DEF Init
  <2>5. heard \in [Callback -> Seq(Event)] /\ owed \in [Callback -> Seq(Event)]
    BY DEF Init
  <2>6. shifted \subseteq Callback /\ {crossed, raced, broken} \subseteq BOOLEAN
    BY DEF Init
  <2> QED BY <2>1, <2>2, <2>3, <2>4, <2>5, <2>6 DEF EventsTypeOK
<1>4. Lone /\ Referred /\ Stopped /\ Own
  BY <1>2 DEF Lone, Referred, Stopped, Own, Init
<1> QED BY <1>3, <1>4 DEF EInv

LEMMA NextE == EInv /\ [Next]_vars => EInv'
<1> SUFFICES ASSUME EInv, [Next]_vars PROVE EInv'
  OBVIOUS
<1>1. CASE UNCHANGED vars
  <2>1. UNCHANGED << setting, obj, client, ref, sent, lives, heard, owed, shifted, crossed, raced, broken >>
    BY <1>1 DEF vars, count, history
  <2>2. EventsTypeOK'
    BY <2>1 DEF EInv, EventsTypeOK
  <2>3. \A d \in Manager : Busy(d)' => Busy(d)
    BY <2>1 DEF Busy
  <2>4. Lone' /\ Referred' /\ Own'
    BY <2>1, <2>3, LoneSame, ReferredSame, OwnSame DEF EInv
  <2>5. Stopped'
    BY <2>1 DEF EInv, Stopped, Joining
  <2> QED BY <2>2, <2>4, <2>5 DEF EInv
<1>2. ASSUME NEW m \in Manager, \/ Run(m) \/ New(m) \/ Destroy(m) \/ DispatchEvent(m)
                                \/ Turn(m)
      PROVE  EInv'
  BY <1>2, RunE, NewE, DestroyE, DispatchEventE, LeaveE, TakeE, CopyE, CallNextE, PopE DEF Turn
<1>3. ASSUME NEW m \in Manager, NEW o \in Manager, Assign(m, o) \/ MoveConstruct(m, o)
      PROVE  EInv'
  BY <1>3, AssignE, MoveConstructE
<1>4. ASSUME NEW m \in Manager, NEW c \in setting.callbacks, Register(m, c) \/ Unregister(m, c)
      PROVE  EInv'
  BY <1>4, RegisterE, UnregisterE
<1>5. ASSUME Exchange \/ Destroyed PROVE EInv'
  BY <1>5, ExchangeE, DestroyedE
<1> QED BY <1>1, <1>2, <1>3, <1>4, <1>5 DEF Next

LEMMA AlwaysE == Spec => []EInv
BY InitE, NextE, PTL DEF Spec

\* ChainEvents is correctly typed for any objects and any finite set of
\* functions: above all what a dispatcher copies and pops are callbacks and
\* events, wherever lists and queues have moved meanwhile, and a reference is
\* less than the number of functions, since no list holds one twice
\* (chainevent.cpp:94-106).
THEOREM TypeCorrect == Spec => []EventsTypeOK
<1>1. EInv => EventsTypeOK
  BY DEF EInv
<1> QED BY <1>1, AlwaysE, PTL

-----------------------------------------------------------------------------
(***************************************************************************)
(* References.                                                             *)
(***************************************************************************)
LEMMA RefsSame ==
    ASSUME RefsHoldUnlessShifted, UNCHANGED << ref, shifted >>,
           \A m \in Manager : obj'[m].callbacks \in {obj[m].callbacks, << >>}
    PROVE  RefsHoldUnlessShifted'
<1> SUFFICES ASSUME NEW m \in Manager, NEW c \in ToSet(obj'[m].callbacks) \ shifted
             PROVE  /\ ref[c] < Len(obj'[m].callbacks)
                    /\ obj'[m].callbacks[ref[c] + 1] = c
  BY DEF RefsHoldUnlessShifted, Has
<1>1. obj'[m].callbacks = obj[m].callbacks
  BY DEF ToSet
<1> QED BY <1>1 DEF RefsHoldUnlessShifted, Has

LEMMA RefsRegister ==
    ASSUME EInv, RefsHoldUnlessShifted, NEW m \in Manager, NEW c \in setting.callbacks,
           Register(m, c)
    PROVE  RefsHoldUnlessShifted'
<1> DEFINE s == obj[m].callbacks
<1>1. /\ c \in Callback /\ ref[c] = NoRef /\ ref' = [ref EXCEPT ![c] = Len(s)]
      /\ shifted' = shifted /\ obj'[m].callbacks = Append(s, c)
      /\ \A d \in Manager \ {m} : obj'[d] = obj[d]
  BY RegisterE
<1>2. EventsTypeOK /\ s \in Seq(Callback)
  BY ObjectParts DEF EInv, EventsTypeOK
<1>3. \A x \in Callback : ref'[x] = IF x = c THEN Len(s) ELSE ref[x]
  BY <1>1, <1>2 DEF EventsTypeOK
<1>4. \A d \in Manager : \A x \in Has(d) : x \in Callback /\ x # c
  <2> SUFFICES ASSUME NEW d \in Manager, NEW i \in DOMAIN obj[d].callbacks
               PROVE  obj[d].callbacks[i] \in Callback /\ obj[d].callbacks[i] # c
    BY DEF Has, ToSet
  <2>1. obj[d].callbacks \in Seq(Callback)
    BY <1>2, ObjectParts DEF EventsTypeOK
  <2> QED BY <1>1, <2>1 DEF EInv, Referred
<1> SUFFICES ASSUME NEW d \in Manager, NEW x \in ToSet(obj'[d].callbacks) \ shifted
             PROVE  /\ ref'[x] < Len(obj'[d].callbacks)
                    /\ obj'[d].callbacks[ref'[x] + 1] = x
  BY <1>1 DEF RefsHoldUnlessShifted, Has
<1>5. CASE d # m
  <2>1. obj'[d] = obj[d] /\ x \in Has(d)
    BY <1>1, <1>5 DEF Has
  <2>2. ref'[x] = ref[x]
    BY <1>3, <1>4, <2>1
  <2> QED BY <2>1, <2>2 DEF RefsHoldUnlessShifted
<1>6. CASE d = m
  <2>1. /\ Len(Append(s, c)) = Len(s) + 1 /\ Append(s, c)[Len(s) + 1] = c
        /\ \A i \in DOMAIN s : Append(s, c)[i] = s[i]
        /\ \A i \in DOMAIN Append(s, c) :
                (i \in DOMAIN s /\ Append(s, c)[i] = s[i]) \/ i = Len(s) + 1
    BY <1>1, <1>2, AppendFacts
  <2>2. PICK i \in DOMAIN Append(s, c) : x = Append(s, c)[i]
    BY <1>1, <1>6 DEF ToSet
  <2>3. CASE i = Len(s) + 1
    <3>1. x = c /\ ref'[x] = Len(s) /\ Len(s) \in Nat
      BY <1>1, <1>2, <1>3, <2>1, <2>2, <2>3
    <3> QED BY <1>1, <1>6, <2>1, <3>1
  <2>4. CASE i # Len(s) + 1
    <3>1. x \in Has(m)
      BY <2>1, <2>2, <2>4 DEF Has, ToSet
    <3>2. ref'[x] = ref[x] /\ x \in Callback
      BY <1>3, <1>4, <3>1
    <3>3. ref[x] < Len(s) /\ s[ref[x] + 1] = x
      BY <3>1 DEF RefsHoldUnlessShifted
    <3>4. ref[x] \in Nat
      <4>1. Cardinality(Callback) \in Nat
        BY EventsAssumption, FS_CardinalityType
      <4> QED BY <1>2, <3>2, <4>1 DEF EventsTypeOK, NoRef
    <3>5. ref[x] + 1 \in DOMAIN s /\ Len(s) \in Nat
      BY <1>2, <3>3, <3>4
    <3>6. Append(s, c)[ref[x] + 1] = x /\ ref[x] < Len(Append(s, c))
      BY <2>1, <3>3, <3>4, <3>5
    <3> QED BY <1>1, <1>6, <3>2, <3>6
  <2> QED BY <2>3, <2>4
<1> QED BY <1>5, <1>6

LEMMA RefsUnregister ==
    ASSUME EInv, RefsHoldUnlessShifted, NEW m \in Manager, NEW c \in setting.callbacks,
           Unregister(m, c)
    PROVE  RefsHoldUnlessShifted'
<1> DEFINE s == obj[m].callbacks
           k == ref[c] + 1
           r == RemoveAt(s, k)
<1>1. /\ k \in 1..Len(s) /\ ref' = ref
      /\ shifted' = shifted \union ToSet(SubSeq(s, k + 1, Len(s)))
      /\ obj'[m].callbacks = r /\ \A d \in Manager \ {m} : obj'[d] = obj[d]
  BY UnregisterE
<1>2. EventsTypeOK /\ s \in Seq(Callback) /\ Len(s) \in Nat
  BY ObjectParts DEF EInv, EventsTypeOK
<1> HIDE DEF k
<1>3. /\ r \in Seq(Callback) /\ Len(r) = Len(s) - 1
      /\ \A j \in 1..(Len(s) - 1) : r[j] = IF j < k THEN s[j] ELSE s[j + 1]
  BY <1>1, <1>2, RemoveAtFacts
<1> HIDE DEF r
<1> SUFFICES ASSUME NEW d \in Manager, NEW x \in ToSet(obj'[d].callbacks) \ shifted'
             PROVE  /\ ref[x] < Len(obj'[d].callbacks)
                    /\ obj'[d].callbacks[ref[x] + 1] = x
  BY <1>1 DEF RefsHoldUnlessShifted, Has
<1>4. CASE d # m
  <2>1. obj'[d] = obj[d] /\ x \in Has(d) \ shifted
    BY <1>1, <1>4 DEF Has
  <2> QED BY <2>1 DEF RefsHoldUnlessShifted
<1>5. CASE d = m
  <2>1. PICK j \in 1..(Len(s) - 1) : x = r[j]
    BY <1>1, <1>2, <1>3, <1>5 DEF ToSet
  <2>2. j < k /\ x = s[j]
    <3> SUFFICES ASSUME ~(j < k) PROVE FALSE
      BY <1>3, <2>1
    <3>1. x = s[j + 1] /\ j + 1 \in (k + 1)..Len(s)
      BY <1>1, <1>2, <1>3, <2>1
    <3>2. x \in ToSet(SubSeq(s, k + 1, Len(s)))
      <4>1. k + 1 \in Nat \ {0} /\ Len(s) \in 0..Len(s)
        BY <1>1, <1>2
      <4>2. ToSet(SubSeq(s, k + 1, Len(s))) = {s[i] : i \in (k + 1)..Len(s)}
        BY <1>2, <4>1, PartFacts
      <4> QED BY <3>1, <4>2
    <3> QED BY <1>1, <3>2
  <2>3. x \in Has(m) \ shifted
    BY <1>1, <1>2, <2>1, <2>2 DEF Has, ToSet
  <2>4. ref[x] < Len(s) /\ s[ref[x] + 1] = x
    BY <2>3 DEF RefsHoldUnlessShifted
  <2>5. ref[x] \in Nat
    <3>1. Cardinality(Callback) \in Nat /\ x \in Callback
      BY <1>2, <2>1, <2>2, EventsAssumption, FS_CardinalityType
    <3> QED BY <1>2, <3>1 DEF EventsTypeOK, NoRef
  <2>6. ref[x] + 1 = j
    BY <1>1, <1>2, <2>1, <2>2, <2>4, <2>5 DEF EInv, Lone
  <2> QED BY <1>1, <1>2, <1>3, <1>5, <2>1, <2>2, <2>5, <2>6
<1> QED BY <1>4, <1>5

LEMMA NextRefs == EInv /\ RefsHoldUnlessShifted /\ [Next]_vars => RefsHoldUnlessShifted'
<1> SUFFICES ASSUME EInv, RefsHoldUnlessShifted, [Next]_vars PROVE RefsHoldUnlessShifted'
  OBVIOUS
<1>1. CASE UNCHANGED vars
  BY <1>1, RefsSame DEF vars, history
<1>2. ASSUME Calm PROVE RefsHoldUnlessShifted'
  <2>1. \A m \in Manager : obj'[m].callbacks \in {obj[m].callbacks, << >>}
    BY <1>2 DEF Calm
  <2> QED BY <1>2, <2>1, RefsSame DEF Calm
<1>3. ASSUME NEW m \in Manager, \/ DispatchEvent(m) \/ Take(m) \/ Copy(m)
                                \/ CallNext(m) \/ Pop(m)
      PROVE  RefsHoldUnlessShifted'
  <2>1. \A d \in Manager : obj'[d].callbacks = obj[d].callbacks
    BY <1>3, DispatchEventE, TakeE, CopyE, CallNextE, PopE
  <2>2. UNCHANGED << ref, shifted >>
    BY <1>3 DEF DispatchEvent, Take, Copy, CallNext, Pop, history
  <2> QED BY <2>1, <2>2, RefsSame
<1>4. ASSUME Exchange PROVE RefsHoldUnlessShifted'
  <2>1. UNCHANGED << ref, shifted >>
    BY <1>4 DEF Exchange
  <2>2. \A d \in Manager : \E o \in Manager : obj'[d].callbacks = obj[o].callbacks
    BY <1>4, ExchangeE
  <2> QED BY <2>1, <2>2 DEF RefsHoldUnlessShifted, Has
<1>5. ASSUME NEW m \in Manager, Run(m) \/ New(m) \/ Destroy(m) \/ Leave(m)
      PROVE  RefsHoldUnlessShifted'
  BY <1>2, <1>5, RunE, NewE, DestroyE, LeaveE
<1>6. ASSUME NEW m \in Manager, NEW o \in Manager, Assign(m, o) \/ MoveConstruct(m, o)
      PROVE  RefsHoldUnlessShifted'
  BY <1>2, <1>6, AssignE, MoveConstructE
<1>7. ASSUME Destroyed PROVE RefsHoldUnlessShifted'
  BY <1>2, <1>7, DestroyedE
<1> QED BY <1>1, <1>3, <1>4, <1>5, <1>6, <1>7, RefsRegister, RefsUnregister DEF Next, Turn

\* The reference that registerCallback returned (chainevent.cpp:94-98) names its
\* callback in whichever object has the callback now, through moves of the
\* chain and other registrations, until unregisterCallback erases one before it
\* (chainevent.cpp:99-106).
THEOREM RefsHold == Spec => []RefsHoldUnlessShifted
<1>1. Init => RefsHoldUnlessShifted
  <2> SUFFICES ASSUME Init PROVE RefsHoldUnlessShifted
    OBVIOUS
  <2>1. \A m \in Manager : Has(m) = {}
    BY DEF Init, Nothing, Has, ToSet
  <2> QED BY <2>1 DEF RefsHoldUnlessShifted
<1>2. EInv /\ RefsHoldUnlessShifted /\ [Next]_vars => RefsHoldUnlessShifted'
  BY NextRefs
<1> QED BY <1>1, <1>2, AlwaysE, PTL DEF Spec

-----------------------------------------------------------------------------
(***************************************************************************)
(* What is heard.                                                          *)
(***************************************************************************)

\* What is still to call, when the dispatcher copies its own list.
LEMMA CallFacts ==
    ASSUME EInv, NEW m \in Manager, Busy(m), obj[m].thread.src = m,
           obj[m].thread.at = "copy" =>
                /\ Len(obj[m].thread.todo) <= obj[m].thread.n
                /\ Len(obj[m].thread.todo) < obj[m].thread.n =>
                        obj[m].thread.n = Len(obj[m].callbacks)
    PROVE  ToCall(m) = ToSet(obj[m].thread.todo) \union
                (IF /\ obj[m].thread.at = "copy"
                    /\ Len(obj[m].thread.todo) < obj[m].thread.n
                 THEN {obj[m].callbacks[i] : i \in (Len(obj[m].thread.todo) + 1)..obj[m].thread.n}
                 ELSE {})
<1> DEFINE w == obj[m].thread
           s == obj[m].callbacks
<1>1. /\ w \in Thread /\ w.todo \in Seq(Callback) /\ w.n \in Nat /\ s \in Seq(Callback)
  BY ObjectParts, ThreadParts DEF EInv, EventsTypeOK, Busy
<1>2. CASE w.at # "copy"
  BY <1>2 DEF ToCall
<1>3. CASE w.at = "copy" /\ Len(w.todo) = w.n
  <2>1. SubSeq(s, w.n + 1, w.n) = << >>
    BY <1>1
  <2>2. ToSet(<< >>) = {}
    BY DEF ToSet
  <2>3. ToSet(SubSeq(obj[w.src].callbacks, Len(w.todo) + 1, w.n)) = {}
    BY <1>3, <2>1, <2>2
  <2>4. ToCall(m) = ToSet(w.todo)
    BY <1>3, <2>3 DEF ToCall
  <2>5. ~(Len(w.todo) < w.n)
    BY <1>1, <1>3
  <2> QED BY <2>4, <2>5
<1>4. CASE w.at = "copy" /\ Len(w.todo) < w.n
  <2>1. Len(w.todo) + 1 \in Nat \ {0} /\ w.n \in 0..Len(s)
    BY <1>1, <1>4
  <2>2. ToSet(SubSeq(s, Len(w.todo) + 1, w.n)) = {s[i] : i \in (Len(w.todo) + 1)..w.n}
    BY <1>1, <2>1, PartFacts
  <2> QED BY <1>4, <2>2 DEF ToCall
<1>5. Len(w.todo) \in Nat
  BY <1>1
<1> QED BY <1>1, <1>2, <1>3, <1>4, <1>5

\* A dispatcher that goes on as before has the same to call.
LEMMA FaithfulKept ==
    ASSUME EInv, EInv', NEW d \in Manager, Busy(d), Faithful(d), Busy(d)',
           ~crossed, ~crossed',
           obj'[d].thread.at = obj[d].thread.at, obj'[d].thread.n = obj[d].thread.n,
           obj'[d].thread.todo = obj[d].thread.todo,
           \A o \in Manager \ {d} : \A j \in DOMAIN obj'[o].callbacks :
                \/ ref[obj'[o].callbacks[j]] = NoRef
                \/ \E p \in Manager \ {d} : \E k \in DOMAIN obj[p].callbacks :
                        obj'[o].callbacks[j] = obj[p].callbacks[k],
           obj[d].thread.at = "copy" /\ Len(obj[d].thread.todo) < obj[d].thread.n =>
                obj'[d].callbacks = obj[d].callbacks
    PROVE  Faithful(d)' /\ ToCall(d)' = ToCall(d)
<1>1. Faithful(d)'
  <2>1. ASSUME NEW i \in DOMAIN obj[d].thread.todo, NEW o \in Manager \ {d},
               NEW j \in DOMAIN obj'[o].callbacks
        PROVE  obj[d].thread.todo[i] # obj'[o].callbacks[j]
    BY DEF EInv, Referred, Faithful
  <2> QED BY <2>1 DEF Faithful
<1>2. obj[d].thread.src = d /\ obj'[d].thread.src = d
  BY DEF EInv, Own
<1>3. obj[d].thread.at = "copy" =>
          /\ Len(obj[d].thread.todo) <= obj[d].thread.n
          /\ Len(obj[d].thread.todo) < obj[d].thread.n =>
                  obj[d].thread.n = Len(obj[d].callbacks)
  BY DEF Faithful
<1>4. CASE obj[d].thread.at = "copy" /\ Len(obj[d].thread.todo) < obj[d].thread.n
  <2>1. obj'[d].callbacks = obj[d].callbacks
    BY <1>4
  <2> QED BY <1>1, <1>2, <2>1 DEF ToCall
<1>5. CASE ~(obj[d].thread.at = "copy" /\ Len(obj[d].thread.todo) < obj[d].thread.n)
  <2>1. ToCall(d) = ToSet(obj[d].thread.todo)
    BY <1>2, <1>3, <1>5, CallFacts
  <2>2. ToCall(d)' = ToSet(obj[d].thread.todo)
    <3>1. CASE obj[d].thread.at # "copy"
      BY <3>1 DEF ToCall
    <3>2. CASE obj[d].thread.at = "copy"
      <4>1. /\ Len(obj[d].thread.todo) = obj[d].thread.n /\ obj[d].thread.n \in Nat
            /\ obj'[d].callbacks \in Seq(Callback)
        <5>1. /\ obj[d].thread \in Thread /\ obj[d].thread.n \in Nat
              /\ obj[d].thread.todo \in Seq(Callback) /\ obj'[d].callbacks \in Seq(Callback)
          BY ObjectParts, ThreadParts DEF EInv, EventsTypeOK, Busy
        <5> QED BY <1>3, <1>5, <3>2, <5>1
      <4>2. SubSeq(obj'[d].callbacks, obj[d].thread.n + 1, obj[d].thread.n) = << >>
        BY <4>1
      <4>3. ToSet(<< >>) = {}
        BY DEF ToSet
      <4> QED BY <1>2, <3>2, <4>1, <4>2, <4>3 DEF ToCall
    <3> QED BY <3>1, <3>2
  <2> QED BY <1>1, <2>1, <2>2
<1> QED BY <1>4, <1>5

\* It is enough to look at what is owed.
LEMMA Heard ==
    ASSUME Hearing, ~raced, ~crossed, NEW m \in Manager, NEW c \in Has(m)
    PROVE  owed[c] = heard[c] \o ToHear(m, c)
BY DEF Hearing

LEMMA HearCalm ==
    ASSUME EInv, EInv', Hearing, Calm
    PROVE  Hearing'
<1> SUFFICES ASSUME ~raced, ~crossed
             PROVE  Hearing'
  BY DEF Hearing, Calm
<1>1. /\ UNCHANGED << ref, heard, owed, crossed, raced, broken >>
      /\ \A d \in Manager :
            \/ obj'[d].callbacks = << >> /\ ~Busy(d)'
            \/ /\ obj'[d].callbacks = obj[d].callbacks /\ obj'[d].buffer = obj[d].buffer
               /\ Busy(d)' <=> Busy(d)
               /\ Busy(d) => obj'[d].thread = obj[d].thread
  BY DEF Calm
<1>2. ~broken /\ \A d \in Manager : Busy(d) => Faithful(d)
  BY DEF Hearing
<1>3. ASSUME NEW d \in Manager, Busy(d)'
      PROVE  /\ Busy(d) /\ Faithful(d)' /\ ToCall(d)' = ToCall(d)
  <2>1. Busy(d) /\ obj'[d].callbacks = obj[d].callbacks /\ obj'[d].thread = obj[d].thread
    BY <1>1, <1>3
  <2>2. \A o \in Manager \ {d} : \A j \in DOMAIN obj'[o].callbacks :
            \E p \in Manager \ {d} : \E k \in DOMAIN obj[p].callbacks :
                    obj'[o].callbacks[j] = obj[p].callbacks[k]
    BY <1>1
  <2> QED BY <1>1, <1>2, <1>3, <2>1, <2>2, FaithfulKept
<1>4. ASSUME NEW d \in Manager, NEW c \in Has(d)'
      PROVE  owed'[c] = heard'[c] \o ToHear(d, c)'
  <2>1. obj'[d].callbacks # << >>
    BY <1>4 DEF Has, ToSet
  <2>2. /\ obj'[d].callbacks = obj[d].callbacks /\ obj'[d].buffer = obj[d].buffer
        /\ Busy(d)' <=> Busy(d)
    BY <1>1, <2>1
  <2>3. c \in Has(d)
    BY <1>4, <2>2 DEF Has
  <2>4. ToHear(d, c)' = ToHear(d, c)
    BY <1>3, <2>2 DEF ToHear
  <2> QED BY <1>1, <2>3, <2>4, Heard
<1> QED BY <1>1, <1>2, <1>3, <1>4 DEF Hearing

\* An object that keeps its list, its queue and its thread, while the lists of
\* the others stay: its callbacks have as much to hear as before.
LEMMA ObjectKept ==
    ASSUME EInv, EInv', Hearing, ~raced, ~crossed, ~crossed', NEW d \in Manager,
           obj'[d] = obj[d],
           \A o \in Manager \ {d} : \A j \in DOMAIN obj'[o].callbacks :
                \/ ref[obj'[o].callbacks[j]] = NoRef
                \/ \E p \in Manager \ {d} : \E k \in DOMAIN obj[p].callbacks :
                        obj'[o].callbacks[j] = obj[p].callbacks[k]
    PROVE  /\ Busy(d)' => Faithful(d)'
           /\ Has(d)' = Has(d) /\ \A c : ToHear(d, c)' = ToHear(d, c)
<1>1. Busy(d)' <=> Busy(d)
  BY DEF Busy
<1>2. Busy(d) => Faithful(d)' /\ ToCall(d)' = ToCall(d)
  BY <1>1, FaithfulKept DEF Hearing
<1> QED BY <1>1, <1>2 DEF Has, ToHear

\* An event that is taken is still to be heard by all.
LEMMA HearTake ==
    ASSUME EInv, EInv', Hearing, NEW m \in Manager, Take(m)
    PROVE  Hearing'
<1>1. /\ ~Busy(m) /\ UNCHANGED << ref, heard, owed, crossed, raced, broken >>
      /\ \A d \in Manager : /\ obj'[d].callbacks = obj[d].callbacks
                             /\ obj'[d].buffer = obj[d].buffer
      /\ \A d \in Manager \ {m} : obj'[d] = obj[d]
      /\ obj'[m].thread.at = "copy" /\ obj'[m].thread.todo = << >>
      /\ obj'[m].thread.src = m /\ obj'[m].thread.n = Len(obj[m].callbacks)
  BY TakeE
<1> SUFFICES ASSUME ~raced, ~crossed PROVE Hearing'
  BY <1>1 DEF Hearing
<1>2. ASSUME NEW d \in Manager \ {m}
      PROVE  /\ Busy(d)' => Faithful(d)'
             /\ Has(d)' = Has(d) /\ \A c : ToHear(d, c)' = ToHear(d, c)
  BY <1>1, ObjectKept
<1>3. obj[m].callbacks \in Seq(Callback) /\ Len(obj[m].callbacks) \in Nat
  BY ObjectParts DEF EInv, EventsTypeOK
<1>4. Len(<< >>) = 0 /\ DOMAIN << >> = {}
  OBVIOUS
<1>5. Busy(m)' /\ Faithful(m)'
  BY <1>1, <1>3, <1>4 DEF Busy, Faithful
<1>6. ASSUME NEW c \in Has(m)
      PROVE  ToHear(m, c)' = ToHear(m, c)
  <2>1. PICK i \in DOMAIN obj[m].callbacks : c = obj[m].callbacks[i]
    BY DEF Has, ToSet
  <2>2. c \in ToCall(m)'
    <3>1. ToCall(m)' = ToSet(<< >>) \union ToSet(SubSeq(obj[m].callbacks, 0 + 1, Len(obj[m].callbacks)))
      BY <1>1, <1>4 DEF ToCall
    <3>2. Len(obj[m].callbacks) \in 0..Len(obj[m].callbacks)
      BY <1>3
    <3>3. ToSet(SubSeq(obj[m].callbacks, 0 + 1, Len(obj[m].callbacks)))
            = {obj[m].callbacks[j] : j \in 1..Len(obj[m].callbacks)}
      BY <1>3, <3>2, PartFacts
    <3> QED BY <1>3, <2>1, <3>1, <3>3
  <2> QED BY <1>1, <1>5, <2>2 DEF ToHear
<1>7. ASSUME NEW d \in Manager, NEW c \in Has(d)'
      PROVE  owed'[c] = heard'[c] \o ToHear(d, c)'
  <2>1. c \in Has(d)
    BY <1>1 DEF Has
  <2>2. ToHear(d, c)' = ToHear(d, c)
    BY <1>2, <1>6, <2>1
  <2> QED BY <1>1, <2>1, <2>2, Heard
<1> QED BY <1>1, <1>2, <1>5, <1>7 DEF Hearing

\* The elements of a list from the n-th on.
Rest(s, n) == {s[j] : j \in n..Len(s)}

\* A first part of a list that is made longer by the next element.
LEMMA NextCopied ==
    \A s, t \in Seq(Callback) :
        Len(t) < Len(s) /\ (\A j \in DOMAIN t : t[j] = s[j]) =>
            LET u == Append(t, s[Len(t) + 1])
            IN  /\ u \in Seq(Callback) /\ Len(u) = Len(t) + 1
                /\ \A j \in DOMAIN u : j \in DOMAIN s /\ u[j] = s[j]
                /\ ToSet(t) \union Rest(s, Len(t) + 1) = ToSet(u) \union Rest(s, Len(u) + 1)
<1> TAKE s, t \in Seq(Callback)
<1> HAVE Len(t) < Len(s) /\ (\A j \in DOMAIN t : t[j] = s[j])
<1>0. PICK u : u = Append(t, s[Len(t) + 1])
  OBVIOUS
<1>1. PICK n \in Nat : n = Len(t)
  OBVIOUS
<1>2. /\ n + 1 \in DOMAIN s /\ s[n + 1] \in Callback /\ DOMAIN t = 1..n
      /\ DOMAIN s = 1..Len(s) /\ Len(s) \in Nat
  BY <1>1
<1>3. u \in Seq(Callback) /\ Len(u) = n + 1 /\ u[n + 1] = s[n + 1]
  BY <1>0, <1>1, <1>2, AppendFacts
<1>4. ASSUME NEW j \in DOMAIN t
      PROVE  j \in DOMAIN u /\ u[j] = t[j]
  BY <1>0, <1>1, <1>2, AppendFacts
<1>5. ASSUME NEW j \in DOMAIN u
      PROVE  j \in DOMAIN t \/ j = n + 1
  BY <1>2, <1>3
<1>6. \A j \in DOMAIN u : j \in DOMAIN s /\ u[j] = s[j]
  <2>1. \A j \in DOMAIN t : j \in DOMAIN s
    BY <1>2
  <2> QED BY <1>2, <1>3, <1>4, <1>5, <2>1
<1>7. n + 1 \in DOMAIN u
  BY <1>3
<1>8. ToSet(u) = ToSet(t) \union {s[n + 1]}
  BY <1>3, <1>4, <1>5, <1>7 DEF ToSet
<1>9. (n + 1)..Len(s) = {n + 1} \union ((n + 1) + 1)..Len(s)
  BY <1>2
<1>10. Rest(s, n + 1) = {s[n + 1]} \union Rest(s, (n + 1) + 1)
  <2> DEFINE a == (n + 1)..Len(s)
             b == ((n + 1) + 1)..Len(s)
  <2>1. a = {n + 1} \union b
    BY <1>9
  <2> HIDE DEF a, b
  <2>2. {s[j] : j \in a} = {s[n + 1]} \union {s[j] : j \in b}
    BY <2>1
  <2> QED BY <2>2 DEF a, b, Rest
<1> QED BY <1>0, <1>1, <1>3, <1>6, <1>8, <1>10

\* The next element is there to copy, and is one that the copy does not hold.
LEMMA HearCopy ==
    ASSUME EInv, EInv', Hearing, NEW m \in Manager, Copy(m)
    PROVE  Hearing'
<1> DEFINE w == obj[m].thread
           s == obj[m].callbacks
           v == obj'[m].thread
           i == Len(w.todo) + 1
<1> SUFFICES ASSUME ~raced, ~crossed PROVE Hearing'
  BY CopyE DEF Hearing
<1>1. Busy(m) /\ w.src = m
  BY CopyE DEF EInv, Own, Busy
<1>2. /\ w \in Thread /\ w.at = "copy" /\ s \in Seq(Callback)
      /\ \A d \in Manager : /\ obj'[d].callbacks = obj[d].callbacks
                             /\ obj'[d].buffer = obj[d].buffer
      /\ \A d \in Manager \ {m} : obj'[d] = obj[d]
      /\ UNCHANGED << ref, heard, owed, crossed, raced >>
      /\ \/ i > w.n /\ v.at = "call" /\ v.todo = w.todo /\ broken' = broken
         \/ /\ i <= w.n /\ i \in DOMAIN s /\ broken' = broken
            /\ v.at = "copy" /\ v.n = w.n /\ v.todo = Append(w.todo, s[i])
         \/ i <= w.n /\ i \notin DOMAIN s
  BY <1>1, CopyE
<1>3. /\ Faithful(m) /\ w.todo \in Seq(Callback) /\ w.n \in Nat /\ Len(w.todo) \in Nat
      /\ Len(w.todo) <= w.n /\ (Len(w.todo) < w.n => w.n = Len(s))
      /\ \A j, k \in DOMAIN w.todo : w.todo[j] = w.todo[k] => j = k
      /\ Len(w.todo) < w.n => \A j \in DOMAIN w.todo : w.todo[j] = s[j]
      /\ \A j \in DOMAIN w.todo : \A o \in Manager \ {m} :
            \A k \in DOMAIN obj[o].callbacks : w.todo[j] # obj[o].callbacks[k]
  <2>1. Faithful(m)
    BY <1>1 DEF Hearing
  <2>2. w.at \in {"copy", "call"}
    BY <1>2
  <2>3. w.todo \in Seq(Callback) /\ w.n \in Nat
    BY <1>2, <2>2, ThreadParts
  <2>4. Len(w.todo) \in Nat
    BY <2>3
  <2> QED BY <1>2, <2>1, <2>3, <2>4 DEF Faithful
<1>4. v.src = m /\ Busy(m)'
  <2>1. v.at \in {"copy", "call"}
    BY <1>2, <1>3
  <2>2. Busy(m)'
    BY <2>1 DEF Busy
  <2> QED BY <1>2, <2>2 DEF EInv, Own
<1>5. ASSUME NEW d \in Manager \ {m}
      PROVE  /\ Busy(d)' => Faithful(d)'
             /\ Has(d)' = Has(d) /\ \A c : ToHear(d, c)' = ToHear(d, c)
  BY <1>2, ObjectKept
<1>6. broken' = broken /\ Faithful(m)' /\ ToCall(m)' = ToCall(m)
  <2>1. CASE i > w.n /\ v.at = "call" /\ v.todo = w.todo /\ broken' = broken
    <3>1. Faithful(m)'
      BY <1>2, <1>3, <2>1 DEF Faithful
    <3>2. ~(Len(w.todo) < w.n)
      BY <1>3, <2>1
    <3>3. ToCall(m) = ToSet(w.todo)
      BY <1>1, <1>3, <3>2, CallFacts
    <3>4. ToCall(m)' = ToSet(w.todo)
      BY <2>1 DEF ToCall
    <3> QED BY <2>1, <3>1, <3>3, <3>4
  <2>2. CASE /\ i <= w.n /\ i \in DOMAIN s /\ broken' = broken
             /\ v.at = "copy" /\ v.n = w.n /\ v.todo = Append(w.todo, s[i])
    <3> DEFINE u == Append(w.todo, s[i])
    <3>1. w.n = Len(s) /\ Len(w.todo) < w.n /\ s[i] \in Callback
      BY <1>2, <1>3, <2>2
    <3>2. /\ Len(u) = i /\ \A j \in DOMAIN u : j \in DOMAIN s /\ u[j] = s[j]
          /\ ToSet(w.todo) \union {s[j] : j \in i..Len(s)}
                = ToSet(u) \union {s[j] : j \in (i + 1)..Len(s)}
      <4>1. /\ \A j \in DOMAIN u : j \in DOMAIN s /\ u[j] = s[j]
            /\ Len(u) = i
            /\ ToSet(w.todo) \union Rest(s, i) = ToSet(u) \union Rest(s, Len(u) + 1)
        <5>1. /\ s \in Seq(Callback) /\ w.todo \in Seq(Callback)
              /\ Len(w.todo) < Len(s) /\ \A j \in DOMAIN w.todo : w.todo[j] = s[j]
          BY <1>2, <1>3, <3>1
        <5>2. PICK t : t = w.todo
          OBVIOUS
        <5>3. PICK z : z = s
          OBVIOUS
        <5>4. PICK x : x = u
          OBVIOUS
        <5>5. x = Append(t, z[Len(t) + 1])
          BY <5>2, <5>3, <5>4
        <5>6. /\ z \in Seq(Callback) /\ t \in Seq(Callback)
              /\ Len(t) < Len(z) /\ \A j \in DOMAIN t : t[j] = z[j]
          BY <5>1, <5>2, <5>3
        <5>7. /\ \A j \in DOMAIN x : j \in DOMAIN z /\ x[j] = z[j]
              /\ Len(x) = Len(t) + 1
              /\ ToSet(t) \union Rest(z, Len(t) + 1) = ToSet(x) \union Rest(z, Len(x) + 1)
          <6>1. x \in Seq(Callback)
            BY <5>5, <5>6
          <6> QED BY <5>5, <5>6, <6>1, NextCopied
        <5> QED BY <5>2, <5>3, <5>4, <5>7
      <4> QED BY <4>1 DEF Rest
    <3>3. i \in Nat /\ i <= w.n
      BY <1>3, <2>2
    <3> HIDE DEF u
    <3>4. \A j, k \in DOMAIN u : u[j] = u[k] => j = k
      BY <3>2 DEF EInv, Lone
    <3>5. \A j \in DOMAIN u : \A o \in Manager \ {m} :
              \A k \in DOMAIN obj'[o].callbacks : u[j] # obj'[o].callbacks[k]
      BY <1>2, <3>2 DEF EInv, Lone
    <3>6. v.todo = u /\ Len(u) <= w.n
      BY <2>2, <3>2, <3>3 DEF u
    <3>7. Faithful(m)'
      BY <1>2, <2>2, <3>1, <3>2, <3>4, <3>5, <3>6 DEF Faithful
    <3>8. ToCall(m) = ToSet(w.todo) \union {s[j] : j \in i..w.n}
      BY <1>1, <1>2, <1>3, <3>1, CallFacts
    <3>9. ToCall(m)' = ToSet(u) \union {s[j] : j \in (i + 1)..w.n}
      <4> DEFINE n == w.n
                 l == i + 1
      <4>1. l \in Nat \ {0} /\ n \in 0..Len(s)
        BY <1>3, <3>1, <3>3
      <4>2. v.src = m /\ v.n = n /\ v.at = "copy" /\ Len(v.todo) + 1 = l
        BY <1>4, <2>2, <3>2, <3>6
      <4>3. ToCall(m)' = ToSet(u) \union ToSet(SubSeq(s, l, n))
        BY <1>2, <3>6, <4>2 DEF ToCall
      <4> HIDE DEF n, l, s
      <4>4. ToSet(SubSeq(s, l, n)) = {s[j] : j \in l..n}
        BY <1>2, <4>1, PartFacts
      <4> QED BY <4>3, <4>4 DEF n, l, s
    <3> QED BY <2>2, <3>1, <3>2, <3>7, <3>8, <3>9
  <2>3. CASE i <= w.n /\ i \notin DOMAIN s
    <3>1. w.n = Len(s)
      BY <1>3, <2>3
    <3> QED BY <1>2, <1>3, <2>3, <3>1
  <2> QED BY <1>2, <2>1, <2>2, <2>3
<1>7. ASSUME NEW d \in Manager, NEW c \in Has(d)'
      PROVE  owed'[c] = heard'[c] \o ToHear(d, c)'
  <2>1. c \in Has(d)
    BY <1>2 DEF Has
  <2>2. ToHear(m, c)' = ToHear(m, c)
    BY <1>1, <1>2, <1>4, <1>6 DEF ToHear
  <2>3. ToHear(d, c)' = ToHear(d, c)
    BY <1>5, <2>2
  <2> QED BY <1>2, <2>1, <2>3, Heard
<1> QED BY <1>5, <1>6, <1>7 DEF Hearing

LEMMA HasCallbacks ==
    ASSUME EInv, NEW d \in Manager, NEW c \in Has(d)
    PROVE  c \in Callback /\ heard[c] \in Seq(Event)
<1>1. obj[d].callbacks \in Seq(Callback) /\ heard \in [Callback -> Seq(Event)]
  BY ObjectParts DEF EInv, EventsTypeOK
<1>2. PICK i \in DOMAIN obj[d].callbacks : c = obj[d].callbacks[i]
  BY DEF Has, ToSet
<1> QED BY <1>1, <1>2

\* A callback that is called has heard what it had still to hear of the event;
\* no other callback notices.
LEMMA HearCallNext ==
    ASSUME EInv, EInv', Hearing, NEW m \in Manager, CallNext(m)
    PROVE  Hearing'
<1> DEFINE t == obj[m].thread.todo
           b == obj[m].buffer
<1>1. /\ obj[m].thread.at = "call" /\ t \in Seq(Callback) /\ t # << >>
      /\ \A d \in Manager : /\ obj'[d].callbacks = obj[d].callbacks
                             /\ obj'[d].buffer = obj[d].buffer
      /\ \A d \in Manager \ {m} : obj'[d] = obj[d]
      /\ UNCHANGED << owed, crossed, raced, broken >>
      /\ obj'[m].thread.at = "call" /\ obj'[m].thread.todo = Tail(t)
      /\ heard' = [heard EXCEPT ![Head(t)] = Append(@, obj[m].thread.evt)]
  BY CallNextE
<1> SUFFICES ASSUME ~raced, ~crossed PROVE Hearing'
  BY <1>1 DEF Hearing
<1>2. Busy(m) /\ Busy(m)' /\ Faithful(m)
  BY <1>1 DEF Busy, Hearing
<1>3. b # << >> /\ b \in Seq(Event) /\ obj[m].thread.evt = Head(b)
  BY <1>2, ObjectParts DEF EInv, Own, EventsTypeOK
<1>4. /\ Tail(t) \in Seq(Callback) /\ Head(t) \in Callback
      /\ 1 \in DOMAIN t /\ Head(t) = t[1] /\ ToSet(t) = {Head(t)} \union ToSet(Tail(t))
      /\ \A i \in DOMAIN Tail(t) : i \in Nat \ {0} /\ i + 1 \in DOMAIN t /\ Tail(t)[i] = t[i + 1]
  BY <1>1, TailFacts
<1>5. /\ \A i, j \in DOMAIN t : t[i] = t[j] => i = j
      /\ \A i \in DOMAIN t : \A o \in Manager \ {m} :
            \A j \in DOMAIN obj[o].callbacks : t[i] # obj[o].callbacks[j]
  BY <1>2 DEF Faithful
<1>6. Faithful(m)'
  <2>1. \A i, j \in DOMAIN Tail(t) : Tail(t)[i] = Tail(t)[j] => i = j
    <3> SUFFICES ASSUME NEW i \in DOMAIN Tail(t), NEW j \in DOMAIN Tail(t),
                        Tail(t)[i] = Tail(t)[j]
                 PROVE  i = j
      OBVIOUS
    <3>1. t[i + 1] = t[j + 1] /\ i + 1 \in DOMAIN t /\ j + 1 \in DOMAIN t
      BY <1>4
    <3>2. i + 1 = j + 1
      BY <1>5, <3>1
    <3> QED BY <1>4, <3>2
  <2>2. \A i \in DOMAIN Tail(t) : \A o \in Manager \ {m} :
            \A j \in DOMAIN obj'[o].callbacks : Tail(t)[i] # obj'[o].callbacks[j]
    BY <1>1, <1>4, <1>5
  <2> QED BY <1>1, <2>1, <2>2 DEF Faithful
<1>7. ASSUME NEW d \in Manager \ {m}
      PROVE  /\ Busy(d)' => Faithful(d)'
             /\ Has(d)' = Has(d) /\ \A c : ToHear(d, c)' = ToHear(d, c)
  BY <1>1, ObjectKept
<1>8. ToCall(m) = ToSet(t) /\ ToCall(m)' = ToSet(Tail(t))
  BY <1>1 DEF ToCall
<1>9. Head(t) \notin ToSet(Tail(t))
  <2> SUFFICES ASSUME NEW i \in DOMAIN Tail(t), Tail(t)[i] = Head(t) PROVE FALSE
    BY DEF ToSet
  <2>1. i \in Nat \ {0} /\ i + 1 \in DOMAIN t /\ t[i + 1] = t[1]
    BY <1>4
  <2>2. i + 1 = 1
    BY <1>4, <1>5, <2>1
  <2> QED BY <2>1, <2>2
<1>10. heard \in [Callback -> Seq(Event)]
  BY DEF EInv, EventsTypeOK
<1>11. ASSUME NEW d \in Manager, NEW c \in Has(d)'
       PROVE  owed'[c] = heard'[c] \o ToHear(d, c)'
  <2>1. c \in Has(d) /\ c \in Callback
    <3>1. c \in Has(d)
      BY <1>1 DEF Has
    <3> QED BY <3>1, HasCallbacks
  <2>2. CASE c = Head(t)
    <3>1. PICK j \in DOMAIN obj[d].callbacks : c = obj[d].callbacks[j]
      BY <2>1 DEF Has, ToSet
    <3>2. d = m
      BY <1>4, <1>5, <2>2, <3>1
    <3>3. ToHear(m, c) = b /\ ToHear(m, c)' = Tail(b)
      BY <1>1, <1>2, <1>4, <1>8, <1>9, <2>2 DEF ToHear
    <3>4. heard[c] \in Seq(Event) /\ heard'[c] = Append(heard[c], Head(b))
      BY <1>1, <1>3, <1>10, <2>1, <2>2
    <3>5. owed[c] = heard[c] \o b
      BY <2>1, <3>2, <3>3, Heard
    <3>6. heard'[c] \o Tail(b) = heard[c] \o b
      BY <1>3, <3>4, HeadMoves
    <3> QED BY <1>1, <3>2, <3>3, <3>5, <3>6
  <2>3. CASE c # Head(t)
    <3>1. heard'[c] = heard[c]
      BY <1>1, <1>10, <2>1, <2>3
    <3>2. ToHear(m, c)' = ToHear(m, c)
      BY <1>1, <1>2, <1>4, <1>8, <2>3 DEF ToHear
    <3>3. ToHear(d, c)' = ToHear(d, c)
      BY <1>7, <3>2
    <3> QED BY <1>1, <2>1, <3>1, <3>3, Heard
  <2> QED BY <2>2, <2>3
<1> QED BY <1>1, <1>6, <1>7, <1>11 DEF Hearing

\* The event that leaves the queue is one that all have heard who should.
LEMMA HearPop ==
    ASSUME EInv, EInv', Hearing, NEW m \in Manager, Pop(m)
    PROVE  Hearing'
<1> DEFINE b == obj[m].buffer
<1>1. /\ obj[m].thread.at = "call" /\ obj[m].thread.todo = << >>
      /\ UNCHANGED << ref, heard, owed, crossed, raced >>
      /\ \A d \in Manager : obj'[d].callbacks = obj[d].callbacks
      /\ \A d \in Manager \ {m} : obj'[d] = obj[d]
      /\ b # << >> => /\ broken' = broken /\ obj'[m].thread = Waiting /\ obj'[m].buffer = Tail(b)
  BY PopE
<1> SUFFICES ASSUME ~raced, ~crossed PROVE Hearing'
  BY <1>1 DEF Hearing
<1>2. Busy(m) /\ b # << >>
  BY <1>1 DEF Busy, EInv, Own
<1>3. ~Busy(m)'
  BY <1>1, <1>2 DEF Busy, Waiting
<1>4. ASSUME NEW d \in Manager \ {m}
      PROVE  /\ Busy(d)' => Faithful(d)'
             /\ Has(d)' = Has(d) /\ \A c : ToHear(d, c)' = ToHear(d, c)
  BY <1>1, ObjectKept
<1>5. ToCall(m) = {}
  BY <1>1 DEF ToCall, ToSet
<1>6. \A c : ToHear(m, c)' = ToHear(m, c)
  BY <1>1, <1>2, <1>3, <1>5 DEF ToHear
<1>7. ASSUME NEW d \in Manager, NEW c \in Has(d)'
      PROVE  owed'[c] = heard'[c] \o ToHear(d, c)'
  <2>1. c \in Has(d)
    BY <1>1 DEF Has
  <2>2. ToHear(d, c)' = ToHear(d, c)
    BY <1>4, <1>6
  <2> QED BY <1>1, <2>1, <2>2, Heard
<1>8. ~broken'
  BY <1>1, <1>2 DEF Hearing
<1> QED BY <1>3, <1>4, <1>7, <1>8 DEF Hearing

\* An event that is sent is owed to the callbacks of its manager, and is what
\* they have to hear last.
LEMMA HearDispatch ==
    ASSUME EInv, EInv', Hearing, NEW m \in Manager, DispatchEvent(m)
    PROVE  Hearing'
<1> DEFINE b == obj[m].buffer
           e == sent + 1
<1>1. /\ UNCHANGED << ref, heard, shifted, crossed, raced, broken >> /\ e \in Event
      /\ \A d \in Manager : /\ obj'[d].callbacks = obj[d].callbacks
                             /\ obj'[d].thread = obj[d].thread
      /\ obj'[m].buffer = Append(b, e)
      /\ \A d \in Manager \ {m} : obj'[d] = obj[d]
      /\ owed' = [c \in Callback |-> IF c \in Has(m) THEN Append(owed[c], e) ELSE owed[c]]
  BY DispatchEventE
<1> SUFFICES ASSUME ~raced, ~crossed PROVE Hearing'
  BY <1>1 DEF Hearing
<1>2. \A d \in Manager : Busy(d)' <=> Busy(d)
  BY <1>1 DEF Busy
<1>3. \A d \in Manager : Has(d)' = Has(d)
  BY <1>1 DEF Has
<1>4. ASSUME NEW d \in Manager, Busy(d)
      PROVE  Faithful(d)' /\ ToCall(d)' = ToCall(d)
  <2>1. Faithful(d)
    BY <1>4 DEF Hearing
  <2>2. \A o \in Manager \ {d} : \A j \in DOMAIN obj'[o].callbacks :
            \E p \in Manager \ {d} : \E k \in DOMAIN obj[p].callbacks :
                    obj'[o].callbacks[j] = obj[p].callbacks[k]
    BY <1>1
  <2> QED BY <1>1, <1>2, <1>4, <2>1, <2>2, FaithfulKept
<1>5. \A d \in Manager : Busy(d)' => Faithful(d)'
  BY <1>2, <1>4
<1>6. b \in Seq(Event)
  BY ObjectParts DEF EInv, EventsTypeOK
<1> HIDE DEF e
<1>7. ASSUME NEW c \in Has(m)
      PROVE  /\ ToHear(m, c) \in Seq(Event)
             /\ ToHear(m, c)' = Append(ToHear(m, c), e)
  <2>1. CASE Busy(m) /\ c \notin ToCall(m)
    <3>1. b # << >>
      BY <2>1 DEF EInv, Own
    <3>2. Tail(Append(b, e)) = Append(Tail(b), e) /\ Tail(b) \in Seq(Event)
      BY <1>1, <1>6, <3>1, AppendFacts, TailFacts
    <3> QED BY <1>1, <1>2, <1>4, <2>1, <3>2 DEF ToHear
  <2>2. CASE ~(Busy(m) /\ c \notin ToCall(m))
    BY <1>1, <1>2, <1>4, <1>6, <2>2 DEF ToHear
  <2> QED BY <2>1, <2>2
<1>8. ASSUME NEW d \in Manager, NEW c \in Has(d)'
      PROVE  owed'[c] = heard'[c] \o ToHear(d, c)'
  <2>1. c \in Has(d) /\ c \in Callback
    BY <1>3, HasCallbacks
  <2>2. heard[c] \in Seq(Event) /\ owed[c] = heard[c] \o ToHear(d, c)
    BY <2>1, Heard, HasCallbacks
  <2>3. CASE d = m
    <3>1. owed'[c] = Append(owed[c], e)
      BY <1>1, <2>1, <2>3
    <3>2. PICK x \in Seq(Event) : x = ToHear(m, c)
      BY <1>7, <2>1, <2>3
    <3>3. ToHear(m, c)' = Append(x, e)
      BY <1>7, <2>1, <2>3, <3>2
    <3>4. PICK h \in Seq(Event) : h = heard[c]
      BY <2>2
    <3>5. h \o Append(x, e) = Append(h \o x, e)
      BY <1>1, AppendConcat
    <3> QED BY <1>1, <2>2, <2>3, <3>1, <3>2, <3>3, <3>4, <3>5
  <2>4. CASE d # m
    <3>1. c \notin Has(m)
      BY <2>1, <2>4 DEF EInv, Lone, Has, ToSet
    <3>2. owed'[c] = owed[c]
      BY <1>1, <2>1, <3>1
    <3>3. ToHear(d, c)' = ToHear(d, c)
      BY <1>1, <1>2, <1>4, <2>4 DEF ToHear
    <3> QED BY <1>1, <2>2, <3>2, <3>3
  <2> QED BY <2>3, <2>4
<1> QED BY <1>1, <1>5, <1>8 DEF Hearing

\* A callback that is registered hears what is in the queue, and not the event
\* that the dispatcher is already busy with.
LEMMA HearRegister ==
    ASSUME EInv, EInv', Hearing, NEW m \in Manager, NEW c \in setting.callbacks, Register(m, c)
    PROVE  Hearing'
<1> DEFINE s == obj[m].callbacks
           b == obj[m].buffer
<1>1. /\ c \in Callback /\ ref[c] = NoRef /\ UNCHANGED << heard, crossed >>
      /\ raced' = (raced \/ Copied(m)) /\ broken' \in {broken, broken \/ Copied(m)}
      /\ owed' = [owed EXCEPT ![c] = IF Busy(m) /\ ~crossed THEN Tail(b) ELSE b]
      /\ obj'[m].callbacks = Append(s, c)
      /\ \A d \in Manager \ {m} : obj'[d] = obj[d]
      /\ \A d \in Manager : obj'[d].buffer = obj[d].buffer /\ obj'[d].thread = obj[d].thread
  BY RegisterE
<1> SUFFICES ASSUME ~raced, ~crossed, ~Copied(m) PROVE Hearing'
  BY <1>1 DEF Hearing
<1>2. s \in Seq(Callback) /\ b \in Seq(Event) /\ owed \in [Callback -> Seq(Event)]
  BY ObjectParts DEF EInv, EventsTypeOK
<1>3. /\ \A j \in DOMAIN Append(s, c) : (j \in DOMAIN s /\ Append(s, c)[j] = s[j]) \/ Append(s, c)[j] = c
  <2>1. Append(s, c)[Len(s) + 1] = c
    BY <1>1, <1>2, AppendFacts
  <2>2. ASSUME NEW j \in DOMAIN Append(s, c)
        PROVE  (j \in DOMAIN s /\ Append(s, c)[j] = s[j]) \/ j = Len(s) + 1
    BY <1>1, <1>2, AppendFacts
  <2> QED BY <2>1, <2>2
<1>4. ASSUME NEW d \in Manager \ {m}
      PROVE  /\ Busy(d)' => Faithful(d)'
             /\ Has(d)' = Has(d) /\ \A x : ToHear(d, x)' = ToHear(d, x)
  <2>1. \A o \in Manager \ {d} : \A j \in DOMAIN obj'[o].callbacks :
            \/ ref[obj'[o].callbacks[j]] = NoRef
            \/ \E p \in Manager \ {d} : \E k \in DOMAIN obj[p].callbacks :
                    obj'[o].callbacks[j] = obj[p].callbacks[k]
    <3>1. ASSUME NEW o \in Manager \ {d}, o # m, NEW j \in DOMAIN obj'[o].callbacks
          PROVE  /\ j \in DOMAIN obj[o].callbacks
                 /\ obj'[o].callbacks[j] = obj[o].callbacks[j]
      BY <1>1, <3>1
    <3>2. ASSUME NEW j \in DOMAIN obj'[m].callbacks
          PROVE  \/ ref[obj'[m].callbacks[j]] = NoRef
                 \/ /\ j \in DOMAIN obj[m].callbacks
                    /\ obj'[m].callbacks[j] = obj[m].callbacks[j]
      <4>1. j \in DOMAIN Append(s, c) /\ obj'[m].callbacks[j] = Append(s, c)[j]
        BY <1>1
      <4>2. CASE Append(s, c)[j] = c
        BY <1>1, <4>1, <4>2
      <4>3. CASE j \in DOMAIN s /\ Append(s, c)[j] = s[j]
        BY <4>1, <4>3
      <4> QED BY <1>3, <4>1, <4>2, <4>3
    <3> QED BY <3>1, <3>2
  <2> QED BY <1>1, <2>1, ObjectKept
<1>5. Busy(m)' <=> Busy(m)
  BY <1>1 DEF Busy
<1>6. Busy(m) => obj[m].thread.src = m
  BY DEF EInv, Own
<1>7. Busy(m) => ~(obj[m].thread.at = "copy" /\ Len(obj[m].thread.todo) < obj[m].thread.n)
  BY <1>6 DEF Copied
<1>8. Busy(m) => Faithful(m)' /\ ToCall(m)' = ToCall(m)
  <2> SUFFICES ASSUME Busy(m) PROVE Faithful(m)' /\ ToCall(m)' = ToCall(m)
    OBVIOUS
  <2>1. Faithful(m)
    BY DEF Hearing
  <2>2. \A o \in Manager \ {m} : \A j \in DOMAIN obj'[o].callbacks :
            \E p \in Manager \ {m} : \E k \in DOMAIN obj[p].callbacks :
                    obj'[o].callbacks[j] = obj[p].callbacks[k]
    BY <1>1
  <2> QED BY <1>1, <1>5, <1>7, <2>1, <2>2, FaithfulKept
<1>9. Busy(m) => c \notin ToCall(m)
  <2> SUFFICES ASSUME Busy(m), c \in ToCall(m) PROVE FALSE
    OBVIOUS
  <2>1. ToCall(m) = ToSet(obj[m].thread.todo)
    BY <1>6, <1>7, CallFacts DEF Hearing, Faithful
  <2>2. PICK i \in DOMAIN obj[m].thread.todo : c = obj[m].thread.todo[i]
    BY <2>1 DEF ToSet
  <2> QED BY <1>1, <2>2 DEF EInv, Referred
<1>10. ASSUME NEW d \in Manager, NEW x \in Has(d)
       PROVE  x \in Callback /\ x # c
  <2>1. PICK i \in DOMAIN obj[d].callbacks : x = obj[d].callbacks[i]
    BY DEF Has, ToSet
  <2>2. ref[x] # NoRef
    BY <2>1 DEF EInv, Referred
  <2> QED BY <1>1, <2>2, HasCallbacks
<1>11. \A x : ToHear(m, x)' = ToHear(m, x)
  BY <1>1, <1>5, <1>8 DEF ToHear
<1>12. ASSUME NEW d \in Manager, NEW x \in Has(d)'
       PROVE  owed'[x] = heard'[x] \o ToHear(d, x)'
  <2>1. ToHear(d, x)' = ToHear(d, x)
    BY <1>4, <1>11
  <2>2. CASE x \in Has(d)
    <3>1. owed'[x] = owed[x]
      BY <1>1, <1>2, <1>10, <2>2
    <3> QED BY <1>1, <2>1, <2>2, <3>1, Heard
  <2>3. CASE x \notin Has(d)
    <3>1. d = m
      BY <1>4, <2>3
    <3>2. x = c
      <4>1. PICK j \in DOMAIN Append(s, c) : x = Append(s, c)[j]
        BY <1>1, <3>1 DEF Has, ToSet
      <4> QED BY <1>3, <2>3, <3>1, <4>1 DEF Has, ToSet
    <3>3. heard[c] = << >>
      BY <1>1 DEF EInv, Referred
    <3>4. owed'[c] = ToHear(m, c)
      BY <1>1, <1>2, <1>9 DEF ToHear
    <3>5. ToHear(m, c) \in Seq(Event)
      <4>1. Busy(m) => Tail(b) \in Seq(Event)
        BY <1>2, TailFacts DEF EInv, Own
      <4> QED BY <1>2, <4>1 DEF ToHear
    <3>6. \A y \in Seq(Event) : << >> \o y = y
      OBVIOUS
    <3> QED BY <1>1, <2>1, <3>1, <3>2, <3>3, <3>4, <3>5, <3>6
  <2> QED BY <2>2, <2>3
<1>13. ~broken'
  BY <1>1 DEF Hearing
<1> QED BY <1>4, <1>5, <1>8, <1>12, <1>13 DEF Hearing

\* A callback that leaves takes nothing from what the others have to hear.
LEMMA HearUnregister ==
    ASSUME EInv, EInv', Hearing, NEW m \in Manager, NEW c \in setting.callbacks, Unregister(m, c)
    PROVE  Hearing'
<1> DEFINE s == obj[m].callbacks
           k == ref[c] + 1
<1>1. /\ k \in 1..Len(s) /\ UNCHANGED << ref, heard, owed, crossed, broken >>
      /\ raced' = (raced \/ Copied(m))
      /\ obj'[m].callbacks = RemoveAt(s, k)
      /\ \A d \in Manager \ {m} : obj'[d] = obj[d]
      /\ \A d \in Manager : obj'[d].buffer = obj[d].buffer /\ obj'[d].thread = obj[d].thread
  BY UnregisterE
<1> SUFFICES ASSUME ~raced, ~crossed, ~Copied(m) PROVE Hearing'
  BY <1>1 DEF Hearing
<1>2. s \in Seq(Callback)
  BY ObjectParts DEF EInv, EventsTypeOK
<1>3. ASSUME NEW j \in DOMAIN RemoveAt(s, k)
      PROVE  \E i \in DOMAIN s : RemoveAt(s, k)[j] = s[i]
  <2>1. PICK a \in 1..Len(s) : a = k
    BY <1>1
  <2> HIDE DEF k
  <2>2. /\ RemoveAt(s, a) \in Seq(Callback) /\ Len(RemoveAt(s, a)) = Len(s) - 1
        /\ \A i \in 1..(Len(s) - 1) : RemoveAt(s, a)[i] = IF i < a THEN s[i] ELSE s[i + 1]
    BY <1>2, RemoveAtFacts
  <2>3. j \in 1..(Len(s) - 1)
    BY <1>2, <1>3, <2>1, <2>2
  <2>4. j \in DOMAIN s /\ j + 1 \in DOMAIN s
    BY <1>2, <2>3
  <2> QED BY <2>1, <2>2, <2>3, <2>4
<1>4. ASSUME NEW d \in Manager \ {m}
      PROVE  /\ Busy(d)' => Faithful(d)'
             /\ Has(d)' = Has(d) /\ \A x : ToHear(d, x)' = ToHear(d, x)
  <2>1. \A o \in Manager \ {d} : \A j \in DOMAIN obj'[o].callbacks :
            \E p \in Manager \ {d} : \E i \in DOMAIN obj[p].callbacks :
                    obj'[o].callbacks[j] = obj[p].callbacks[i]
    BY <1>1, <1>3
  <2> QED BY <1>1, <2>1, ObjectKept
<1>5. Busy(m)' <=> Busy(m)
  BY <1>1 DEF Busy
<1>6. Busy(m) => Faithful(m)' /\ ToCall(m)' = ToCall(m)
  <2> SUFFICES ASSUME Busy(m) PROVE Faithful(m)' /\ ToCall(m)' = ToCall(m)
    OBVIOUS
  <2>1. Faithful(m)
    BY DEF Hearing
  <2>2. \A o \in Manager \ {m} : \A j \in DOMAIN obj'[o].callbacks :
            \E p \in Manager \ {m} : \E i \in DOMAIN obj[p].callbacks :
                    obj'[o].callbacks[j] = obj[p].callbacks[i]
    BY <1>1
  <2>3. ~(obj[m].thread.at = "copy" /\ Len(obj[m].thread.todo) < obj[m].thread.n)
    BY DEF EInv, Own, Copied
  <2> QED BY <1>1, <1>5, <2>1, <2>2, <2>3, FaithfulKept
<1>7. \A x : ToHear(m, x)' = ToHear(m, x)
  BY <1>1, <1>5, <1>6 DEF ToHear
<1>8. ASSUME NEW d \in Manager, NEW x \in Has(d)'
      PROVE  owed'[x] = heard'[x] \o ToHear(d, x)'
  <2>1. ToHear(d, x)' = ToHear(d, x)
    BY <1>4, <1>7
  <2>2. x \in Has(d)
    <3>1. CASE d = m
      <4>1. PICK j \in DOMAIN RemoveAt(s, k) : x = RemoveAt(s, k)[j]
        BY <1>1, <3>1 DEF Has, ToSet
      <4> QED BY <1>3, <3>1, <4>1 DEF Has, ToSet
    <3>2. CASE d # m
      BY <1>4, <3>2
    <3> QED BY <3>1, <3>2
  <2> QED BY <1>1, <2>1, <2>2, Heard
<1> QED BY <1>1, <1>4, <1>5, <1>6, <1>8 DEF Hearing

\* Callbacks that move keep what they have to hear, as the queue moves along.
LEMMA HearExchange ==
    ASSUME EInv, EInv', Hearing, Exchange
    PROVE  Hearing'
<1>1. PICK a \in Manager, b \in Manager : a = client.to /\ b = client.from
  BY ExchangeE
<1>2. /\ obj[b].thread = Ended /\ UNCHANGED << ref, heard, owed, raced, broken >>
      /\ crossed' = (crossed \/ Busy(a))
      /\ \A d \in Manager :
            /\ Other(a, b, d) \in Manager
            /\ obj'[d].callbacks = obj[Other(a, b, d)].callbacks
            /\ obj'[d].buffer = obj[Other(a, b, d)].buffer
            /\ Busy(d)' <=> Busy(d)
            /\ obj'[d].thread.at = obj[d].thread.at
            /\ Busy(d) => /\ obj'[d].thread.todo = obj[d].thread.todo
                          /\ obj'[d].thread.n = obj[d].thread.n
  BY <1>1, ExchangeE
<1> SUFFICES ASSUME ~raced, ~crossed, ~Busy(a) PROVE Hearing'
  BY <1>2 DEF Hearing
<1>3. ~Busy(b)
  BY <1>2 DEF Busy, Ended
<1>4. ASSUME NEW d \in Manager, Busy(d)
      PROVE  Other(a, b, d) = d /\ Faithful(d)' /\ ToCall(d)' = ToCall(d)
  <2>1. d # a /\ d # b
    BY <1>3, <1>4
  <2>2. Other(a, b, d) = d /\ \A o \in Manager \ {d} : Other(a, b, o) \in Manager \ {d}
    BY <2>1 DEF Other
  <2>3. Faithful(d)
    BY <1>4 DEF Hearing
  <2>4. \A o \in Manager \ {d} : \A j \in DOMAIN obj'[o].callbacks :
            \E p \in Manager \ {d} : \E k \in DOMAIN obj[p].callbacks :
                    obj'[o].callbacks[j] = obj[p].callbacks[k]
    BY <1>2, <2>2
  <2>5. obj'[d].callbacks = obj[d].callbacks
    BY <1>2, <2>2
  <2> QED BY <1>2, <1>4, <2>2, <2>3, <2>4, <2>5, FaithfulKept
<1>5. ASSUME NEW d \in Manager
      PROVE  \A x : ToHear(d, x)' = ToHear(Other(a, b, d), x)
  <2>1. CASE Busy(d)
    BY <1>2, <1>4, <2>1 DEF ToHear
  <2>2. CASE ~Busy(d)
    <3>1. ~Busy(Other(a, b, d))
      BY <1>3, <2>2 DEF Other
    <3> QED BY <1>2, <2>2, <3>1 DEF ToHear
  <2> QED BY <2>1, <2>2
<1>6. ASSUME NEW d \in Manager, NEW x \in Has(d)'
      PROVE  owed'[x] = heard'[x] \o ToHear(d, x)'
  <2>1. PICK o \in Manager : o = Other(a, b, d)
    BY <1>2
  <2>2. x \in Has(o)
    BY <1>2, <2>1 DEF Has
  <2>3. ToHear(d, x)' = ToHear(o, x)
    BY <1>5, <2>1
  <2> QED BY <1>2, <2>2, <2>3, Heard
<1>7. ~broken'
  BY <1>2 DEF Hearing
<1> QED BY <1>2, <1>4, <1>6, <1>7 DEF Hearing

LEMMA NextHears == EInv /\ EInv' /\ Hearing /\ [Next]_vars => Hearing'
<1> SUFFICES ASSUME EInv, EInv', Hearing, [Next]_vars PROVE Hearing'
  OBVIOUS
<1>1. CASE UNCHANGED vars
  <2>1. Calm
    BY <1>1 DEF vars, history, Calm, Busy
  <2> QED BY <2>1, HearCalm
<1>2. ASSUME NEW m \in Manager, Run(m) \/ New(m) \/ Destroy(m) \/ Leave(m)
      PROVE  Hearing'
  BY <1>2, RunE, NewE, DestroyE, LeaveE, HearCalm
<1>3. ASSUME NEW m \in Manager, NEW o \in Manager, Assign(m, o) \/ MoveConstruct(m, o)
      PROVE  Hearing'
  BY <1>3, AssignE, MoveConstructE, HearCalm
<1>4. ASSUME Destroyed PROVE Hearing'
  BY <1>4, DestroyedE, HearCalm
<1> QED BY <1>1, <1>2, <1>3, <1>4, HearTake, HearCopy, HearCallNext, HearPop, HearDispatch,
           HearRegister, HearUnregister, HearExchange DEF Next, Turn

\* A function that is registered (chainevent.cpp:94-98) is called with every
\* event sent to its manager from then on, once and in the order they were sent
\* (_dispatchImpl, chainevent.cpp:107-122), whatever else is registered,
\* unregistered, constructed and destroyed meanwhile, and also when the list and
\* the queue are moved to another manager; and the dispatcher takes nothing from
\* an empty queue and copies nothing that is not there.  The hypotheses are
\* those of the property: no list changed while it was copied, which nothing
\* locks, and operator= (chainevent.cpp:61-75) was not applied to a manager whose
\* dispatcher was busy.
THEOREM HearsAll == Spec => []HearsAllUnlessRaced
<1>1. Init => Hearing
  <2> SUFFICES ASSUME Init PROVE Hearing
    OBVIOUS
  <2>1. \A m \in Manager : Has(m) = {} /\ ~Busy(m)
    BY DEF Init, Nothing, Ended, Has, Busy, ToSet
  <2> QED BY <2>1 DEF Hearing, Init
<1>2. EInv /\ EInv' /\ Hearing /\ [Next]_vars => Hearing'
  BY NextHears
<1>3. Hearing => HearsAllUnlessRaced
  BY DEF Hearing, HearsAllUnlessRaced
<1> QED BY <1>1, <1>2, <1>3, AlwaysE, PTL DEF Spec
=============================================================================
