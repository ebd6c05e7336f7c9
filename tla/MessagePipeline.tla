--------------------------- MODULE MessagePipeline ----------------------------
(***************************************************************************)
(* MessagePipeline and Timer (src/worker/MessageTransfer.ts): the worker   *)
(* does not send a reply at once.  It keeps the replies in a Map, merges   *)
(* those of one request, drops those of an earlier request for the same    *)
(* type, and sends what is left when a timer fires.                        *)
(*                                                                         *)
(* The Map is the sequence of its entries, in the order of insertion.  A   *)
(* payload is the set of the items it carries.                             *)
(***************************************************************************)
EXTENDS Naturals, Sequences

CONSTANTS
  Type,     \* the types of replies
  Item,     \* what a reply can carry
  Stray     \* the type read back from the key of a message posted as a string

ASSUME PipelineAssumption == Stray \notin Type

VARIABLES
  messageQueue,  \* the replies to be sent
  handle,        \* Timer.handle is not null
  intervals,     \* the intervals that are running
  immediates,    \* calls of the timer's task that setImmediate has scheduled
  sent           \* the channel to the renderer

pipeline == <<messageQueue, handle, intervals, immediates, sent>>

Message == [type : Type \cup {Stray}, id : Nat, items : SUBSET Item]

PipelineInit ==
  /\ messageQueue = <<>>
  /\ handle = FALSE
  /\ intervals = 0
  /\ immediates = 0
  /\ sent = <<>>

\* Timer.start: the task runs in its own turn of the event loop; a second post
\* before it schedules it once more.
Start ==
  /\ immediates' = IF handle THEN immediates ELSE immediates + 1
  /\ UNCHANGED <<handle, intervals>>

\* The entry under the key of a type and an id.
KeyOf(q, type, id) == {i \in DOMAIN q : q[i].type = type /\ q[i].id = id}

\* The entries that remain: those of the same type and a smaller id go.
Later(q, type, id) ==
  LET kept[i \in 0 .. Len(q)] ==
        IF i = 0 THEN <<>>
        ELSE IF q[i].type = type /\ q[i].id < id THEN kept[i - 1]
        ELSE Append(kept[i - 1], q[i])
  IN kept[Len(q)]

\* Mutant of Put: an entry under the same key is replaced, not merged.
MutantPut(q, type, id, items) ==
  Append(Later(q, type, id + 1), [type |-> type, id |-> id, items |-> items])

\* What post does to the Map.  An entry of the same type and a larger id stays, beside
\* the new one.
Put(q, type, id, items) ==
  LET kept == Later(q, type, id)
  IN IF KeyOf(kept, type, id) = {}
     THEN Append(kept, [type |-> type, id |-> id, items |-> items])
     ELSE [i \in DOMAIN kept |->
             IF i \in KeyOf(kept, type, id)
             THEN [kept[i] EXCEPT !.items = @ \cup items] ELSE kept[i]]

\* post(msg)
Post(type, id, items) ==
  /\ messageQueue' = Put(messageQueue, type, id, items)
  /\ Start
  /\ UNCHANGED sent

\* post(type, list), as the parsers call it: the string is taken for the message,
\* and both parts of its key are "undefined".  While one waits, a second one finds
\* the key taken and throws before anything is changed.
StrayWaits == KeyOf(messageQueue, Stray, 0) # {}

PostStray ==
  /\ ~StrayWaits
  /\ messageQueue' = Append(messageQueue, [type |-> Stray, id |-> 0, items |-> {}])
  /\ Start
  /\ UNCHANGED sent

\* Mutant of Flush: the Map is not cleared.
MutantFlush ==
  /\ messageQueue # <<>>
  /\ sent' = sent \o messageQueue
  /\ UNCHANGED messageQueue

\* The function the timer calls, when there is something to send.
Flush ==
  /\ messageQueue # <<>>
  /\ sent' = sent \o messageQueue
  /\ messageQueue' = <<>>

\* Timer.stop, of a timer that runs.
Stop == handle' = FALSE /\ intervals' = intervals - 1

\* Mutant of Immediate: the task sets an interval without looking at the handle.
MutantImmediate ==
  /\ immediates > 0
  /\ immediates' = immediates - 1
  /\ \/ Flush
     \/ messageQueue = <<>> /\ UNCHANGED <<messageQueue, sent>>
  /\ handle' = TRUE
  /\ intervals' = intervals + 1

\* The task: func is called, and if it has no interval (it stops the one there is
\* when the Map is empty) it is given one.
Immediate ==
  /\ immediates > 0
  /\ immediates' = immediates - 1
  /\ \/ Flush
     \/ messageQueue = <<>> /\ UNCHANGED <<messageQueue, sent>>
  /\ handle' = TRUE
  /\ intervals' = IF handle THEN intervals ELSE intervals + 1

\* Mutant of Tick: stop clears the interval and keeps its handle.
MutantTick ==
  /\ intervals > 0
  /\ \/ Flush /\ UNCHANGED <<handle, intervals>>
     \/ /\ messageQueue = <<>>
        /\ intervals' = intervals - 1
        /\ UNCHANGED <<handle, messageQueue, sent>>
  /\ UNCHANGED immediates

\* The interval fires: it is stopped by the first call that finds the Map empty.
Tick ==
  /\ intervals > 0
  /\ \/ Flush /\ UNCHANGED <<handle, intervals>>
     \/ /\ messageQueue = <<>>
        /\ IF handle THEN Stop ELSE UNCHANGED <<handle, intervals>>
        /\ UNCHANGED <<messageQueue, sent>>
  /\ UNCHANGED immediates

-------------------------------------------------------------------------------
PipelineTypeOK ==
  /\ messageQueue \in Seq(Message)
  /\ handle \in BOOLEAN
  /\ intervals \in Nat
  /\ immediates \in Nat
  /\ sent \in Seq(Message)

\* There is one interval when the handle is set and none when it is not: tasks that
\* were scheduled twice, before the first of them ran, start one timer.
OneTimer == intervals = IF handle THEN 1 ELSE 0

\* A reply never waits for a timer that is not running: neither the stop of an empty
\* tick nor a task scheduled twice leaves a reply behind.
QueueIsServed == messageQueue # <<>> => intervals > 0 \/ immediates > 0
===============================================================================
