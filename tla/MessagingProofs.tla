--------------------------- MODULE MessagingProofs ----------------------------
(***************************************************************************)
(* Proofs about Messaging, for any types, requests and files, and callers  *)
(* that overlap or not: the timer of MessagePipeline; what post does to    *)
(* the Map, found by induction over its entries; that a reply is in one    *)
(* place at a time; and whom it answers.                                   *)
(***************************************************************************)
EXTENDS Messaging, SetInduction, SequenceTheorems

-------------------------------------------------------------------------------
\* The inductive invariant: a reply waits for a task that setImmediate has scheduled
\* or for the interval, and there is an interval exactly when the handle is set.
\* What the replies are does not matter, so the part of the type invariant that is
\* needed is that of the timer.
TimerInv ==
  /\ handle \in BOOLEAN /\ intervals \in Nat /\ immediates \in Nat
  /\ OneTimer
  /\ QueueIsServed

LEMMA InitTimerInv == Init => TimerInv
<1> SUFFICES ASSUME Init PROVE TimerInv
  OBVIOUS
<1>1. messageQueue = <<>> /\ handle = FALSE /\ intervals = 0 /\ immediates = 0
  BY DEF Init, PipelineInit
<1> QED BY <1>1 DEF TimerInv, OneTimer, QueueIsServed

\* Whatever is put into the Map, start leaves a task or an interval that sends it.
LEMMA StartServes ==
  ASSUME TimerInv, Start
  PROVE  TimerInv' /\ (intervals' > 0 \/ immediates' > 0)
  BY DEF TimerInv, Start, OneTimer, QueueIsServed

LEMMA PostKeeps ==
  ASSUME TimerInv, NEW type, NEW id, NEW items, Post(type, id, items)
  PROVE  TimerInv'
  BY StartServes DEF Post

LEMMA PostStrayKeeps ==
  ASSUME TimerInv, PostStray
  PROVE  TimerInv'
  BY StartServes DEF PostStray

LEMMA UnchangedKeeps ==
  ASSUME TimerInv, UNCHANGED pipeline
  PROVE  TimerInv'
  BY DEF pipeline, TimerInv, OneTimer, QueueIsServed

\* The task empties the Map before it looks for an interval.
LEMMA ImmediateKeeps ==
  ASSUME TimerInv, Immediate
  PROVE  TimerInv'
<1>1. messageQueue' = <<>>
  BY DEF Immediate, Flush
<1>2. handle' = TRUE /\ intervals' = 1 /\ immediates' \in Nat
  BY DEF Immediate, TimerInv, OneTimer
<1> QED BY <1>1, <1>2 DEF TimerInv, OneTimer, QueueIsServed

\* An interval stops itself only when it finds the Map empty.
LEMMA TickKeeps ==
  ASSUME TimerInv, Tick
  PROVE  TimerInv'
<1>1. messageQueue' = <<>> /\ immediates' = immediates
  BY DEF Tick, Flush
<1>2. handle = TRUE /\ intervals = 1
  BY DEF Tick, TimerInv, OneTimer
<1>3. CASE UNCHANGED <<handle, intervals>>
  BY <1>1, <1>2, <1>3 DEF TimerInv, OneTimer, QueueIsServed
<1>4. CASE handle' = FALSE /\ intervals' = intervals - 1
  <2>1. handle' = FALSE /\ intervals' = 0
    BY <1>2, <1>4
  <2>2. immediates' \in Nat /\ messageQueue' = <<>>
    BY <1>1 DEF TimerInv
  <2> QED BY <2>1, <2>2 DEF TimerInv, OneTimer, QueueIsServed
<1> QED BY <1>2, <1>3, <1>4 DEF Tick, Stop

LEMMA NextTimerInv == TimerInv /\ [Next]_vars => TimerInv'
<1> SUFFICES ASSUME TimerInv, [Next]_vars PROVE TimerInv'
  OBVIOUS
<1>1. ASSUME NEW type \in Served, Get(type) PROVE TimerInv'
  BY <1>1, UnchangedKeeps DEF Get
<1>2. ASSUME NEW F \in SUBSET File, NEW directory \in BOOLEAN, Import(F, directory)
      PROVE  TimerInv'
  BY <1>2, UnchangedKeeps DEF Import
<1>3. CASE Handle
  <2>1. \/ Post(Head(requests).type, Head(requests).id, {Head(requests).id})
        \/ UNCHANGED pipeline
    BY <1>3 DEF Handle
  <2> QED BY <2>1, PostKeeps, UnchangedKeeps
<1>4. ASSUME NEW f \in File, BeginRead(f) PROVE TimerInv'
  <2>1. PostStray \/ UNCHANGED pipeline
    BY <1>4 DEF BeginRead, Parse
  <2> QED BY <2>1, PostStrayKeeps, UnchangedKeeps
<1>5. ASSUME NEW f \in File, EndRead(f) PROVE TimerInv'
  <2>1. Post(Images, owner[f], {f}) \/ UNCHANGED pipeline
    BY <1>5 DEF EndRead
  <2> QED BY <2>1, PostKeeps, UnchangedKeeps
<1>6. CASE Timer
  BY <1>6, ImmediateKeeps, TickKeeps DEF Timer
<1>7. CASE Deliver
  BY <1>7 DEF Deliver, TimerInv, OneTimer, QueueIsServed
<1>8. CASE UNCHANGED vars
  BY <1>8, UnchangedKeeps DEF vars
<1>9. ASSUME NEW f \in File, ReadPath(f) PROVE TimerInv'
  <2>1. PostStray \/ UNCHANGED pipeline
    BY <1>9 DEF ReadPath, Parse
  <2> QED BY <2>1, PostStrayKeeps, UnchangedKeeps
<1> QED
  BY <1>1, <1>2, <1>3, <1>4, <1>5, <1>6, <1>7, <1>8, <1>9 DEF Next

\* At most one interval runs, although posts that come before the first task
\* schedule a task each (Timer.start of MessageTransfer.ts).
THEOREM OneTimerRuns == Spec => []OneTimer
<1>1. TimerInv => OneTimer
  BY DEF TimerInv
<1> QED BY <1>1, InitTimerInv, NextTimerInv, PTL DEF Spec

\* A reply never waits for a timer that is not running (post and Timer.stop of
\* MessageTransfer.ts).
THEOREM RepliesAreServed == Spec => []QueueIsServed
<1>1. TimerInv => QueueIsServed
  BY DEF TimerInv
<1> QED BY <1>1, InitTimerInv, NextTimerInv, PTL DEF Spec
-------------------------------------------------------------------------------
\* Later, entry by entry.

Dropped(m, type, id) == m.type = type /\ m.id < id

\* The equation of the function Later is taken from.
KeptFrom(k, q, type, id, n) ==
  [i \in 0 .. n |->
     IF i = 0 THEN <<>>
     ELSE IF Dropped(q[i], type, id) THEN k[i - 1]
     ELSE Append(k[i - 1], q[i])]

\* The function is there: it can be continued by one entry at a time.
LEMMA KeptExists ==
  ASSUME NEW q, NEW type, NEW id
  PROVE  \A n \in Nat : \E k : k = KeptFrom(k, q, type, id, n)
<1> DEFINE P == {n \in Nat : \E k : k = KeptFrom(k, q, type, id, n)}
<1>1. 0 \in P
  <2>1. [i \in 0 .. 0 |-> <<>>] = KeptFrom([i \in 0 .. 0 |-> <<>>], q, type, id, 0)
    BY DEF KeptFrom
  <2> QED BY <2>1
<1>2. ASSUME NEW n \in P PROVE n + 1 \in P
  <2>1. PICK k : k = KeptFrom(k, q, type, id, n)
    OBVIOUS
  <2> DEFINE l == [i \in 0 .. n + 1 |->
                     IF i \in 0 .. n THEN k[i]
                     ELSE IF Dropped(q[i], type, id) THEN k[i - 1]
                     ELSE Append(k[i - 1], q[i])]
  <2>2. \A i \in 0 .. n + 1 :
          l[i] = IF i = 0 THEN <<>>
                 ELSE IF Dropped(q[i], type, id) THEN l[i - 1]
                 ELSE Append(l[i - 1], q[i])
    <3> TAKE i \in 0 .. n + 1
    <3>1. CASE i = 0
      BY <3>1, <2>1 DEF KeptFrom
    <3>2. CASE i \in 1 .. n
      <4>1. i - 1 \in 0 .. n /\ i \in 0 .. n /\ i # 0
        BY <3>2
      <4>2. k[i] = IF Dropped(q[i], type, id) THEN k[i - 1] ELSE Append(k[i - 1], q[i])
        BY <4>1, <2>1 DEF KeptFrom
      <4>3. l[i] = k[i] /\ l[i - 1] = k[i - 1]
        BY <4>1
      <4> QED BY <4>1, <4>2, <4>3
    <3>3. CASE i = n + 1
      <4>1. i - 1 \in 0 .. n /\ i \notin 0 .. n /\ i # 0 /\ i - 1 \in 0 .. n + 1
        BY <3>3
      <4>2. l[i - 1] = k[i - 1]
        BY <4>1
      <4> QED BY <4>1, <4>2
    <3> QED BY <3>1, <3>2, <3>3
  <2>3. l = KeptFrom(l, q, type, id, n + 1)
    <3> HIDE DEF l
    <3>1. DOMAIN l = 0 .. n + 1 /\ l = [i \in DOMAIN l |-> l[i]]
      BY DEF l
    <3> QED BY <3>1, <2>2 DEF KeptFrom
  <2> QED BY <2>3
<1>3. P = Nat
  <2> HIDE DEF P
  <2>1. P \in SUBSET Nat
    BY DEF P
  <2> QED BY <1>1, <1>2, <2>1, Induction
<1> QED BY <1>3

LEMMA LaterIsKept ==
  ASSUME NEW q, Len(q) \in Nat, NEW type, NEW id
  PROVE  \E k : k = KeptFrom(k, q, type, id, Len(q)) /\ Later(q, type, id) = k[Len(q)]
<1> DEFINE K == CHOOSE k : k = KeptFrom(k, q, type, id, Len(q))
<1>1. K = KeptFrom(K, q, type, id, Len(q))
  BY KeptExists
<1>2. Later(q, type, id) = K[Len(q)]
  BY DEF Later, KeptFrom, Dropped
<1> QED BY <1>1, <1>2

\* w is a part of q, in the order of q, without entries that are dropped.
Part(e, w, q, n, type, id) ==
  /\ e \in [1 .. Len(w) -> 1 .. n]
  /\ \A i \in 1 .. Len(w) : w[i] = q[e[i]] /\ ~Dropped(q[e[i]], type, id)
  /\ \A i, j \in 1 .. Len(w) : i # j => e[i] # e[j]

\* The entries post leaves are entries that were there, each at most once.
LEMMA LaterIsPart ==
  ASSUME NEW S, NEW q \in Seq(S), NEW type, NEW id
  PROVE  /\ Later(q, type, id) \in Seq(S)
         /\ \E e : Part(e, Later(q, type, id), q, Len(q), type, id)
<1>1. Len(q) \in Nat
  OBVIOUS
<1>2. PICK k : k = KeptFrom(k, q, type, id, Len(q)) /\ Later(q, type, id) = k[Len(q)]
  BY <1>1, LaterIsKept
<1> DEFINE P == {n \in Nat : n <= Len(q) =>
                   k[n] \in Seq(S) /\ \E e : Part(e, k[n], q, n, type, id)}
<1>3. 0 \in P
  <2>1. k[0] = <<>>
    <3>1. 0 \in 0 .. Len(q)
      BY <1>1
    <3> QED BY <3>1, <1>2 DEF KeptFrom
  <2>2. ASSUME NEW w, Len(w) = 0 PROVE \E e : Part(e, w, q, 0, type, id)
    <3> DEFINE e == [i \in 1 .. 0 |-> i]
    <3>1. Part(e, w, q, 0, type, id)
      BY <2>2 DEF Part
    <3> QED BY <3>1
  <2>3. Len(k[0]) = 0 /\ k[0] \in Seq(S)
    BY <2>1
  <2> QED BY <2>2, <2>3
<1>4. ASSUME NEW n \in P PROVE n + 1 \in P
  <2> SUFFICES ASSUME n + 1 <= Len(q)
               PROVE  k[n + 1] \in Seq(S) /\ \E e : Part(e, k[n + 1], q, n + 1, type, id)
    OBVIOUS
  <2>1. n \in Nat /\ n <= Len(q) /\ n + 1 \in 1 .. Len(q) /\ q[n + 1] \in S
    BY <1>1
  <2>2. k[n] \in Seq(S)
    BY <2>1
  <2>3. PICK e : Part(e, k[n], q, n, type, id)
    BY <2>1
  <2>4. k[n + 1] = IF Dropped(q[n + 1], type, id) THEN k[n] ELSE Append(k[n], q[n + 1])
    <3>1. n + 1 \in 0 .. Len(q) /\ n + 1 # 0 /\ (n + 1) - 1 = n
      BY <2>1
    <3> QED BY <3>1, <1>2 DEF KeptFrom
  <2>5. CASE Dropped(q[n + 1], type, id)
    <3>1. Part(e, k[n], q, n + 1, type, id)
      BY <2>1, <2>2, <2>3 DEF Part
    <3> QED BY <2>2, <2>4, <2>5, <3>1
  <2>6. CASE ~Dropped(q[n + 1], type, id)
    <3> DEFINE w == Append(k[n], q[n + 1])
               d == [i \in 1 .. Len(w) |-> IF i \in 1 .. Len(k[n]) THEN e[i] ELSE n + 1]
    <3>1. /\ w \in Seq(S) /\ Len(w) = Len(k[n]) + 1 /\ Len(k[n]) \in Nat
          /\ \A i \in 1 .. Len(k[n]) : w[i] = k[n][i]
          /\ w[Len(k[n]) + 1] = q[n + 1]
      BY <2>1, <2>2
    <3> HIDE DEF w
    <3>2. e \in [1 .. Len(k[n]) -> 1 .. n]
      BY <2>3 DEF Part
    <3>3. \A i \in 1 .. Len(w) :
            \/ i \in 1 .. Len(k[n]) /\ d[i] = e[i] /\ e[i] \in 1 .. n
            \/ i = Len(k[n]) + 1 /\ d[i] = n + 1
      <4> TAKE i \in 1 .. Len(w)
      <4>1. CASE i \in 1 .. Len(k[n])
        BY <4>1, <3>2
      <4>2. CASE i \notin 1 .. Len(k[n])
        <5>1. i = Len(k[n]) + 1
          BY <4>2, <3>1
        <5> QED BY <4>2, <5>1
      <4> QED BY <4>1, <4>2
    <3>4. d \in [1 .. Len(w) -> 1 .. n + 1]
      BY <2>1, <3>3
    <3> HIDE DEF d
    <3>5. \A i \in 1 .. Len(w) : w[i] = q[d[i]] /\ ~Dropped(q[d[i]], type, id)
      BY <2>3, <2>6, <3>1, <3>3 DEF Part
    <3>6. \A i, j \in 1 .. Len(w) : i # j => d[i] # d[j]
      BY <2>1, <2>3, <3>3 DEF Part
    <3>7. Part(d, w, q, n + 1, type, id)
      BY <3>4, <3>5, <3>6 DEF Part
    <3> QED BY <2>4, <2>6, <3>1, <3>7 DEF w
  <2> QED BY <2>5, <2>6
<1>5. P = Nat
  <2> HIDE DEF P
  <2>1. P \in SUBSET Nat
    BY DEF P
  <2> QED BY <1>3, <1>4, <2>1, Induction
<1> QED BY <1>1, <1>2, <1>5

\* w is what is left of q, with a new message or with its items in the entry that has
\* its key; e[i] is 0 for the new message.
PutPart(e, w, q, type, id, items) ==
  /\ e \in [1 .. Len(w) -> 0 .. Len(q)]
  /\ \A i \in 1 .. Len(w) :
       \/ e[i] = 0 /\ w[i] = [type |-> type, id |-> id, items |-> items]
       \/ e[i] \in 1 .. Len(q) /\ w[i] = q[e[i]]
       \/ /\ e[i] \in 1 .. Len(q)
          /\ q[e[i]].type = type /\ q[e[i]].id = id
          /\ w[i] = [type |-> type, id |-> id, items |-> q[e[i]].items \cup items]
  /\ \A i, j \in 1 .. Len(w) : i # j => e[i] # e[j]

LEMMA PutIsPart ==
  ASSUME NEW q \in Seq(Message), NEW type \in Type, NEW id \in Nat, NEW items \in SUBSET Item
  PROVE  /\ Put(q, type, id, items) \in Seq(Message)
         /\ \E e : PutPart(e, Put(q, type, id, items), q, type, id, items)
<1> DEFINE kept == Later(q, type, id)
           new == [type |-> type, id |-> id, items |-> items]
<1>1. kept \in Seq(Message)
  BY LaterIsPart
<1>2. PICK e : Part(e, kept, q, Len(q), type, id)
  BY LaterIsPart
<1>3. Put(q, type, id, items) =
        IF KeyOf(kept, type, id) = {} THEN Append(kept, new)
        ELSE [i \in DOMAIN kept |->
                IF i \in KeyOf(kept, type, id)
                THEN [kept[i] EXCEPT !.items = @ \cup items] ELSE kept[i]]
  BY DEF Put
<1> HIDE DEF kept
<1>4. new \in Message
  BY DEF Message
<1>5. Len(q) \in Nat /\ Len(kept) \in Nat /\ DOMAIN kept = 1 .. Len(kept)
      /\ \A i \in 1 .. Len(kept) : kept[i] \in Message
  BY <1>1
<1>6. CASE KeyOf(kept, type, id) = {}
  <2> DEFINE w == Append(kept, new)
             d == [i \in 1 .. Len(w) |-> IF i \in 1 .. Len(kept) THEN e[i] ELSE 0]
  <2>1. /\ w \in Seq(Message) /\ Len(w) = Len(kept) + 1
        /\ \A i \in 1 .. Len(kept) : w[i] = kept[i]
        /\ w[Len(kept) + 1] = new
    BY <1>1, <1>4, AppendProperties
  <2> HIDE DEF w, new
  <2>2. \A i \in 1 .. Len(w) :
          \/ i \in 1 .. Len(kept) /\ d[i] = e[i] /\ e[i] \in 1 .. Len(q)
          \/ i = Len(kept) + 1 /\ d[i] = 0
    <3> TAKE i \in 1 .. Len(w)
    <3>1. CASE i \in 1 .. Len(kept)
      BY <3>1, <1>2 DEF Part
    <3>2. CASE i \notin 1 .. Len(kept)
      BY <3>2, <2>1, <1>5
    <3> QED BY <3>1, <3>2
  <2>3. d \in [1 .. Len(w) -> 0 .. Len(q)]
    BY <2>2, <1>5
  <2> HIDE DEF d
  <2>4. \A i \in 1 .. Len(w) :
          \/ d[i] = 0 /\ w[i] = new
          \/ d[i] \in 1 .. Len(q) /\ w[i] = q[d[i]]
    BY <2>1, <2>2, <1>2 DEF Part
  <2>5. \A i, j \in 1 .. Len(w) : i # j => d[i] # d[j]
    BY <2>2, <1>2, <1>5 DEF Part
  <2>6. PutPart(d, w, q, type, id, items)
    BY <2>3, <2>4, <2>5 DEF PutPart, new
  <2> QED BY <1>3, <1>6, <2>1, <2>6 DEF w
<1>7. CASE KeyOf(kept, type, id) # {}
  <2> DEFINE w == [i \in DOMAIN kept |->
                     IF i \in KeyOf(kept, type, id)
                     THEN [kept[i] EXCEPT !.items = @ \cup items] ELSE kept[i]]
  <2>1. \A i \in 1 .. Len(kept) :
          \/ w[i] = kept[i]
          \/ /\ kept[i].type = type /\ kept[i].id = id
             /\ w[i] = [type |-> type, id |-> id, items |-> kept[i].items \cup items]
    <3> TAKE i \in 1 .. Len(kept)
    <3>1. CASE i \in KeyOf(kept, type, id)
      <4>1. kept[i] \in Message /\ kept[i].type = type /\ kept[i].id = id
        BY <3>1, <1>5 DEF KeyOf
      <4>2. w[i] = [kept[i] EXCEPT !.items = @ \cup items]
        BY <3>1, <1>5
      <4> QED BY <4>1, <4>2 DEF Message
    <3>2. CASE i \notin KeyOf(kept, type, id)
      BY <3>2, <1>5
    <3> QED BY <3>1, <3>2
  <2>2. \A i \in 1 .. Len(kept) : w[i] \in Message
    BY <2>1, <1>5 DEF Message
  <2>3. w \in [1 .. Len(kept) -> Message]
    BY <2>2, <1>5
  <2> HIDE DEF w
  <2>4. w \in Seq(Message) /\ Len(w) = Len(kept)
    BY <2>3, <1>5
  <2>5. e \in [1 .. Len(w) -> 0 .. Len(q)]
    BY <2>4, <1>2, <1>5 DEF Part
  <2>6. \A i \in 1 .. Len(w) : kept[i] = q[e[i]] /\ e[i] \in 1 .. Len(q)
    BY <2>4, <1>2 DEF Part
  <2>7. \A i, j \in 1 .. Len(w) : i # j => e[i] # e[j]
    BY <2>4, <1>2 DEF Part
  <2>8. PutPart(e, w, q, type, id, items)
    BY <2>1, <2>4, <2>5, <2>6, <2>7 DEF PutPart
  <2> QED BY <1>3, <1>7, <2>4, <2>8 DEF w
<1> QED BY <1>6, <1>7

-------------------------------------------------------------------------------
\* Requests of the types the worker handles and replies to them, on their way: in the
\* channel to the worker, in the Map and in the channel to the renderer.

\* None of them has the id k.
Free(q, k) == \A i \in 1 .. Len(q) : q[i].type \in Served => q[i].id # k

\* Their ids are among the first n, and an id occurs once.
Once(q, n) ==
  /\ \A i \in 1 .. Len(q) : q[i].type \in Served => q[i].id \in 1 .. n
  /\ \A i, j \in 1 .. Len(q) :
       i # j /\ q[i].type \in Served /\ q[j].type \in Served => q[i].id # q[j].id

\* No id is in both.
Apart(p, q) == \A i \in 1 .. Len(p) : p[i].type \in Served => Free(q, p[i].id)

\* w has entries of q only, each at most once, with their keys.
Within(w, q) ==
  \E e \in [1 .. Len(w) -> 1 .. Len(q)] :
    /\ \A i \in 1 .. Len(w) : w[i].type = q[e[i]].type /\ w[i].id = q[e[i]].id
    /\ \A i, j \in 1 .. Len(w) : i # j => e[i] # e[j]

\* The same, beside one entry with the key of m.
WithinOr(w, q, m) ==
  \E e \in [1 .. Len(w) -> 0 .. Len(q)] :
    /\ \A i \in 1 .. Len(w) :
         \/ e[i] = 0 /\ w[i].type = m.type /\ w[i].id = m.id
         \/ e[i] \in 1 .. Len(q) /\ w[i].type = q[e[i]].type /\ w[i].id = q[e[i]].id
    /\ \A i, j \in 1 .. Len(w) : i # j => e[i] # e[j]

LEMMA WithinKeeps ==
  ASSUME NEW w, NEW q, Within(w, q), NEW n, Once(q, n)
  PROVE  /\ Once(w, n)
         /\ \A k : Free(q, k) => Free(w, k)
         /\ \A p : Apart(p, q) => Apart(p, w)
         /\ \A p : Apart(q, p) => Apart(w, p)
<1>1. PICK e \in [1 .. Len(w) -> 1 .. Len(q)] :
        /\ \A i \in 1 .. Len(w) : w[i].type = q[e[i]].type /\ w[i].id = q[e[i]].id
        /\ \A i, j \in 1 .. Len(w) : i # j => e[i] # e[j]
  BY DEF Within
<1>2. \A i \in 1 .. Len(w) : e[i] \in 1 .. Len(q)
  BY <1>1
<1>3. Once(w, n)
  <2>1. \A i \in 1 .. Len(w) : w[i].type \in Served => w[i].id \in 1 .. n
    BY <1>1, <1>2 DEF Once
  <2>2. ASSUME NEW i \in 1 .. Len(w), NEW j \in 1 .. Len(w), i # j,
               w[i].type \in Served, w[j].type \in Served
        PROVE  w[i].id # w[j].id
    <3>1. e[i] # e[j] /\ e[i] \in 1 .. Len(q) /\ e[j] \in 1 .. Len(q)
      BY <2>2, <1>1, <1>2
    <3>2. q[e[i]].id # q[e[j]].id
      BY <2>2, <3>1, <1>1 DEF Once
    <3> QED BY <3>2, <1>1
  <2> QED BY <2>1, <2>2 DEF Once
<1>4. \A k : Free(q, k) => Free(w, k)
  BY <1>1, <1>2 DEF Free
<1>5. \A p : Apart(p, q) => Apart(p, w)
  BY <1>4 DEF Apart
<1>6. \A p : Apart(q, p) => Apart(w, p)
  BY <1>1, <1>2 DEF Apart
<1> QED BY <1>3, <1>4, <1>5, <1>6

\* With a new entry whose id is free.
LEMMA WithinOrKeeps ==
  ASSUME NEW w, NEW q, NEW m, WithinOr(w, q, m), NEW n, Once(q, n),
         m.type \in Served => m.id \in 1 .. n /\ Free(q, m.id)
  PROVE  /\ Once(w, n)
         /\ \A k : Free(q, k) /\ (m.type \in Served => m.id # k) => Free(w, k)
         /\ \A p : Apart(p, q) /\ (m.type \in Served => Free(p, m.id)) => Apart(p, w)
         /\ \A p : Apart(q, p) /\ (m.type \in Served => Free(p, m.id)) => Apart(w, p)
<1>1. PICK e \in [1 .. Len(w) -> 0 .. Len(q)] :
        /\ \A i \in 1 .. Len(w) :
             \/ e[i] = 0 /\ w[i].type = m.type /\ w[i].id = m.id
             \/ e[i] \in 1 .. Len(q) /\ w[i].type = q[e[i]].type /\ w[i].id = q[e[i]].id
        /\ \A i, j \in 1 .. Len(w) : i # j => e[i] # e[j]
  BY DEF WithinOr
<1>2. \A i \in 1 .. Len(w) : w[i].type \in Served => w[i].id \in 1 .. n
  BY <1>1 DEF Once
<1>3. ASSUME NEW i \in 1 .. Len(w), NEW j \in 1 .. Len(w), i # j,
             w[i].type \in Served, w[j].type \in Served
      PROVE  w[i].id # w[j].id
  <2>1. CASE e[i] # 0 /\ e[j] # 0
    BY <1>1, <1>3, <2>1 DEF Once
  <2>2. CASE e[i] = 0
    BY <1>1, <1>3, <2>2 DEF Free
  <2>3. CASE e[j] = 0
    BY <1>1, <1>3, <2>3 DEF Free
  <2> QED BY <2>1, <2>2, <2>3
<1>4. Once(w, n)
  BY <1>2, <1>3 DEF Once
<1>5. \A k : Free(q, k) /\ (m.type \in Served => m.id # k) => Free(w, k)
  BY <1>1 DEF Free
<1>6. ASSUME NEW p, Apart(p, q), m.type \in Served => Free(p, m.id) PROVE Apart(p, w)
  <2> SUFFICES ASSUME NEW i \in 1 .. Len(p), p[i].type \in Served PROVE Free(w, p[i].id)
    BY DEF Apart
  <2>1. Free(q, p[i].id)
    BY <1>6 DEF Apart
  <2>2. m.type \in Served => m.id # p[i].id
    BY <1>6 DEF Free
  <2> QED BY <2>1, <2>2, <1>5
<1>7. ASSUME NEW p, Apart(q, p), m.type \in Served => Free(p, m.id) PROVE Apart(w, p)
  BY <1>1, <1>7 DEF Apart
<1> QED BY <1>4, <1>5, <1>6, <1>7

LEMMA TailIsWithin ==
  ASSUME NEW S, NEW q \in Seq(S), q # <<>>
  PROVE  /\ Within(Tail(q), q)
         /\ Len(q) \in Nat \ {0} /\ Head(q) = q[1] /\ Len(Tail(q)) = Len(q) - 1
         /\ \A i \in 1 .. Len(Tail(q)) : Tail(q)[i] = q[i + 1] /\ i + 1 \in 1 .. Len(q)
<1>1. /\ Len(q) \in Nat \ {0} /\ Head(q) = q[1] /\ Len(Tail(q)) = Len(q) - 1
      /\ \A i \in 1 .. Len(Tail(q)) : Tail(q)[i] = q[i + 1] /\ i + 1 \in 1 .. Len(q)
  BY HeadTailProperties, EmptySeq
<1> DEFINE e == [i \in 1 .. Len(Tail(q)) |-> i + 1]
<1>2. e \in [1 .. Len(Tail(q)) -> 1 .. Len(q)]
  BY <1>1
<1>3. \A i \in 1 .. Len(Tail(q)) : e[i] = i + 1
  OBVIOUS
<1> HIDE DEF e
<1>4. \A i, j \in 1 .. Len(Tail(q)) : i # j => e[i] # e[j]
  BY <1>1, <1>3
<1>5. Within(Tail(q), q)
  BY <1>1, <1>2, <1>3, <1>4 DEF Within
<1> QED BY <1>1, <1>5

\* The head is not in the tail.
LEMMA HeadIsFree ==
  ASSUME NEW S, NEW q \in Seq(S), q # <<>>, NEW n, Once(q, n), Head(q).type \in Served
  PROVE  Head(q).id \in 1 .. n /\ Free(Tail(q), Head(q).id)
<1>1. /\ Len(q) \in Nat \ {0} /\ Head(q) = q[1] /\ Len(Tail(q)) = Len(q) - 1
      /\ \A i \in 1 .. Len(Tail(q)) : Tail(q)[i] = q[i + 1] /\ i + 1 \in 1 .. Len(q)
  BY TailIsWithin
<1>2. 1 \in 1 .. Len(q) /\ \A i \in 1 .. Len(Tail(q)) : i + 1 # 1
  BY <1>1
<1> QED BY <1>1, <1>2 DEF Once, Free

LEMMA AppendIsWithinOr ==
  ASSUME NEW S, NEW q \in Seq(S), NEW m \in S
  PROVE  WithinOr(Append(q, m), q, m)
<1> DEFINE w == Append(q, m)
           e == [i \in 1 .. Len(w) |-> IF i = Len(w) THEN 0 ELSE i]
<1>1. /\ Len(q) \in Nat /\ Len(w) = Len(q) + 1
      /\ \A i \in 1 .. Len(q) : w[i] = q[i]
      /\ w[Len(q) + 1] = m
  BY AppendProperties
<1> HIDE DEF w
<1>2. \A i \in 1 .. Len(w) :
        \/ i = Len(w) /\ e[i] = 0 /\ w[i] = m
        \/ i \in 1 .. Len(q) /\ e[i] = i /\ w[i] = q[i]
  BY <1>1
<1>3. e \in [1 .. Len(w) -> 0 .. Len(q)]
  BY <1>1, <1>2
<1> HIDE DEF e
<1>4. \A i, j \in 1 .. Len(w) : i # j => e[i] # e[j]
  BY <1>1, <1>2
<1>5. WithinOr(w, q, m)
  BY <1>2, <1>3, <1>4 DEF WithinOr
<1> QED BY <1>5 DEF w

LEMMA PutIsWithinOr ==
  ASSUME NEW q \in Seq(Message), NEW type \in Type, NEW id \in Nat, NEW items \in SUBSET Item
  PROVE  WithinOr(Put(q, type, id, items), q, [type |-> type, id |-> id, items |-> items])
<1>1. PICK e : PutPart(e, Put(q, type, id, items), q, type, id, items)
  BY PutIsPart
<1> DEFINE w == Put(q, type, id, items)
           m == [type |-> type, id |-> id, items |-> items]
<1>2. m.type = type /\ m.id = id
  OBVIOUS
<1>3. PutPart(e, w, q, type, id, items)
  BY <1>1
<1> HIDE DEF w
<1>4. e \in [1 .. Len(w) -> 0 .. Len(q)] /\ \A i, j \in 1 .. Len(w) : i # j => e[i] # e[j]
  BY <1>3 DEF PutPart
<1>5. \A i \in 1 .. Len(w) :
        \/ e[i] = 0 /\ w[i].type = type /\ w[i].id = id
        \/ e[i] \in 1 .. Len(q) /\ w[i].type = q[e[i]].type /\ w[i].id = q[e[i]].id
  <2> TAKE i \in 1 .. Len(w)
  <2>1. CASE e[i] = 0 /\ w[i] = [type |-> type, id |-> id, items |-> items]
    BY <2>1
  <2>2. CASE e[i] \in 1 .. Len(q) /\ w[i] = q[e[i]]
    BY <2>2
  <2>3. CASE /\ e[i] \in 1 .. Len(q)
             /\ q[e[i]].type = type /\ q[e[i]].id = id
             /\ w[i] = [type |-> type, id |-> id, items |-> q[e[i]].items \cup items]
    BY <2>3
  <2> QED BY <1>3, <2>1, <2>2, <2>3 DEF PutPart
<1> HIDE DEF m
<1>6. WithinOr(w, q, m)
  BY <1>2, <1>4, <1>5 DEF WithinOr
<1> QED BY <1>6 DEF w, m

\* Two sequences that are apart, one behind the other.
LEMMA ConcatKeeps ==
  ASSUME NEW S, NEW p \in Seq(S), NEW q \in Seq(S), NEW n, Once(p, n), Once(q, n), Apart(p, q)
  PROVE  /\ Once(p \o q, n)
         /\ \A k : Free(p, k) /\ Free(q, k) => Free(p \o q, k)
         /\ \A r : Apart(r, p) /\ Apart(r, q) => Apart(r, p \o q)
<1> DEFINE w == p \o q
<1>1. /\ Len(p) \in Nat /\ Len(q) \in Nat /\ Len(w) = Len(p) + Len(q)
      /\ \A i \in 1 .. Len(p) + Len(q) : w[i] = IF i <= Len(p) THEN p[i] ELSE q[i - Len(p)]
  BY ConcatProperties
<1> HIDE DEF w
<1>2. \A i \in 1 .. Len(w) :
        \/ i \in 1 .. Len(p) /\ w[i] = p[i]
        \/ i - Len(p) \in 1 .. Len(q) /\ w[i] = q[i - Len(p)]
  BY <1>1
<1>3. \A i \in 1 .. Len(w) : w[i].type \in Served => w[i].id \in 1 .. n
  BY <1>2 DEF Once
<1>4. ASSUME NEW i \in 1 .. Len(w), NEW j \in 1 .. Len(w), i # j,
             w[i].type \in Served, w[j].type \in Served
      PROVE  w[i].id # w[j].id
  <2>1. CASE i \in 1 .. Len(p) /\ w[i] = p[i] /\ j \in 1 .. Len(p) /\ w[j] = p[j]
    BY <1>4, <2>1 DEF Once
  <2>2. CASE /\ i - Len(p) \in 1 .. Len(q) /\ w[i] = q[i - Len(p)]
             /\ j - Len(p) \in 1 .. Len(q) /\ w[j] = q[j - Len(p)]
    <3>1. i - Len(p) # j - Len(p)
      BY <1>1, <1>4
    <3> QED BY <1>4, <2>2, <3>1 DEF Once
  <2>3. CASE /\ i \in 1 .. Len(p) /\ w[i] = p[i]
             /\ j - Len(p) \in 1 .. Len(q) /\ w[j] = q[j - Len(p)]
    BY <1>4, <2>3 DEF Apart, Free
  <2>4. CASE /\ j \in 1 .. Len(p) /\ w[j] = p[j]
             /\ i - Len(p) \in 1 .. Len(q) /\ w[i] = q[i - Len(p)]
    BY <1>4, <2>4 DEF Apart, Free
  <2> QED BY <1>2, <2>1, <2>2, <2>3, <2>4
<1>5. Once(w, n)
  BY <1>3, <1>4 DEF Once
<1>6. \A k : Free(p, k) /\ Free(q, k) => Free(w, k)
  BY <1>2 DEF Free
<1>7. \A r : Apart(r, p) /\ Apart(r, q) => Apart(r, w)
  BY <1>6 DEF Apart
<1> QED BY <1>5, <1>6, <1>7 DEF w

-------------------------------------------------------------------------------
\* The inductive invariant.

\* A message is the reply to one request, or announces files, or is a stray.
Sound(q) ==
  \A i \in 1 .. Len(q) :
    /\ q[i].type \in Served \cup {Images, Stray}
    /\ q[i].type = Images => q[i].items \subseteq File
    /\ q[i].type \in Served => q[i].items = {q[i].id}

\* An id is in one place of one channel.
Channels ==
  /\ Sound(messageQueue) /\ Sound(sent)
  /\ Once(requests, requestID) /\ Once(messageQueue, requestID) /\ Once(sent, requestID)
  /\ Apart(requests, messageQueue) /\ Apart(requests, sent) /\ Apart(sent, messageQueue)

Spent(k) == Free(requests, k) /\ Free(messageQueue, k) /\ Free(sent, k)

\* A get was answered with the reply to a request that is on its way no more.
AnswersAreSpent ==
  \A r \in Request : answer[r] # {} =>
    \E k \in 1 .. requestID : answer[r] = {k} /\ Spent(k)

\* What is on its way for gets that take turns is waited for.
Waited(W, q) ==
  \A i \in 1 .. Len(q) :
    q[i].type \in Served \ Overlap => q[i].type \in W[q[i].id]

Turns ==
  /\ \A r \in Request : \A t, u \in waiting[r] : t = u /\ t \in Served
  /\ \A r, s \in Request : \A t \in waiting[r] \cap waiting[s] : t \in Overlap \/ r = s
  /\ Waited(waiting, requests) /\ Waited(waiting, messageQueue) /\ Waited(waiting, sent)

ReplyInv == TypeOK /\ Channels /\ AnswersAreSpent /\ Turns

\* Replies have the types of requests; strays and announcements have others.
LEMMA TypesDiffer ==
  /\ Served \subseteq Type /\ Images \in Type /\ Images \notin Served
  /\ Stray \notin Served /\ Stray # Images
  /\ MaxRequest \in Nat /\ File \subseteq Item /\ Request \subseteq Item
BY MessagingAssumption, PipelineAssumption DEF Request

LEMMA ApartIsMutual ==
  ASSUME NEW p, NEW q, Apart(p, q) PROVE Apart(q, p)
BY DEF Apart, Free

LEMMA NothingIsApart ==
  /\ \A n : Once(<<>>, n)
  /\ \A k : Free(<<>>, k)
  /\ \A p : Apart(p, <<>>) /\ Apart(<<>>, p)
  /\ Sound(<<>>)
<1>1. ASSUME NEW q, Len(q) = 0
      PROVE  /\ \A n : Once(q, n)
             /\ \A k : Free(q, k)
             /\ \A p : Apart(p, q) /\ Apart(q, p)
             /\ Sound(q)
  BY <1>1 DEF Once, Free, Apart, Sound
<1>2. Len(<<>>) = 0
  OBVIOUS
<1> QED BY <1>1, <1>2

\* The next id is new.
LEMMA NextIsNew ==
  ASSUME NEW q, NEW n \in Nat, Once(q, n)
  PROVE  Once(q, n + 1) /\ Free(q, n + 1)
<1>1. \A i \in 1 .. n : i \in 1 .. n + 1 /\ i # n + 1
  OBVIOUS
<1> QED BY <1>1 DEF Once, Free

LEMMA SoundPut ==
  ASSUME NEW q \in Seq(Message), Sound(q),
         NEW type \in Type, NEW id \in Nat, NEW items \in SUBSET Item,
         \/ type = Images /\ items \subseteq File
         \/ type \in Served /\ items = {id}
  PROVE  Sound(Put(q, type, id, items))
<1>1. PICK e : PutPart(e, Put(q, type, id, items), q, type, id, items)
  BY PutIsPart
<1> DEFINE w == Put(q, type, id, items)
<1>2. PutPart(e, w, q, type, id, items)
  BY <1>1
<1> HIDE DEF w
<1>3. ASSUME NEW i \in 1 .. Len(w)
      PROVE  /\ w[i].type \in Served \cup {Images, Stray}
             /\ w[i].type = Images => w[i].items \subseteq File
             /\ w[i].type \in Served => w[i].items = {w[i].id}
  <2>1. CASE w[i] = [type |-> type, id |-> id, items |-> items]
    <3>1. w[i].type = type /\ w[i].id = id /\ w[i].items = items
      BY <2>1
    <3> QED BY <3>1, TypesDiffer
  <2>2. CASE e[i] \in 1 .. Len(q) /\ w[i] = q[e[i]]
    BY <2>2 DEF Sound
  <2>3. CASE /\ e[i] \in 1 .. Len(q)
             /\ q[e[i]].type = type /\ q[e[i]].id = id
             /\ w[i] = [type |-> type, id |-> id, items |-> q[e[i]].items \cup items]
    <3>1. w[i].type = type /\ w[i].id = id /\ w[i].items = q[e[i]].items \cup items
      BY <2>3
    <3>2. /\ type = Images => q[e[i]].items \subseteq File
          /\ type \in Served => q[e[i]].items = {id}
      BY <2>3 DEF Sound
    <3> QED BY <3>1, <3>2, TypesDiffer
  <2> QED BY <1>2, <2>1, <2>2, <2>3 DEF PutPart
<1>4. Sound(w)
  BY <1>3 DEF Sound
<1> QED BY <1>4 DEF w

LEMMA InitReplyInv == Init => ReplyInv
<1> SUFFICES ASSUME Init PROVE ReplyInv
  OBVIOUS
<1> USE DEF Init, PipelineInit
<1>1. TypeOK
  <2>1. PipelineTypeOK
    <3>1. <<>> \in Seq(Message)
      BY EmptySeq
    <3> QED BY <3>1 DEF PipelineTypeOK
  <2>2. requestID \in 0 .. MaxRequest /\ requests \in Seq([type : Type, id : Request])
    BY TypesDiffer
  <2>3. waiting \in [Request -> SUBSET Type] /\ answer \in [Request -> SUBSET Item]
    OBVIOUS
  <2>4. stage \in [File -> Stage] /\ owner \in [File -> 0 .. MaxRequest]
    BY TypesDiffer DEF Stage
  <2>5. inOrder \subseteq Request /\ shown \subseteq File
    OBVIOUS
  <2> QED BY <2>1, <2>2, <2>3, <2>4, <2>5 DEF TypeOK
<1>2. Channels
  BY NothingIsApart DEF Channels
<1>3. AnswersAreSpent
  BY DEF AnswersAreSpent
<1>4. Waited(waiting, <<>>)
  <2>1. ASSUME NEW q, Len(q) = 0 PROVE Waited(waiting, q)
    BY <2>1 DEF Waited
  <2>2. Len(<<>>) = 0
    OBVIOUS
  <2> QED BY <2>1, <2>2
<1>5. Turns
  BY <1>4 DEF Turns
<1> QED BY <1>1, <1>2, <1>3, <1>5 DEF ReplyInv

\* What is put into the Map, whether its type is that of a get or not.
LEMMA PostChannels ==
  ASSUME TypeOK, Channels,
         NEW type \in Type, NEW id \in Nat, NEW items \in SUBSET Item,
         \/ type = Images /\ items \subseteq File
         \/ type \in Served /\ items = {id},
         Post(type, id, items),
         type \in Served => id \in 1 .. requestID /\ Free(messageQueue, id) /\ Free(sent, id),
         NEW R, Once(R, requestID), Apart(R, messageQueue), type \in Served => Free(R, id)
  PROVE  /\ messageQueue' \in Seq(Message) /\ sent' = sent
         /\ Sound(messageQueue') /\ Once(messageQueue', requestID)
         /\ Apart(R, messageQueue') /\ Apart(sent, messageQueue')
         /\ \A k : Free(messageQueue, k) /\ (type \in Served => id # k)
                    => Free(messageQueue', k)
<1> DEFINE m == [type |-> type, id |-> id, items |-> items]
<1>1. m.type = type /\ m.id = id
  OBVIOUS
<1>2. messageQueue' = Put(messageQueue, type, id, items) /\ sent' = sent
  BY DEF Post
<1>3. messageQueue \in Seq(Message)
  BY DEF TypeOK, PipelineTypeOK
<1>4. messageQueue' \in Seq(Message)
  BY <1>2, <1>3, PutIsPart
<1>5. WithinOr(messageQueue', messageQueue, m)
  BY <1>2, <1>3, PutIsWithinOr
<1>6. Sound(messageQueue')
  BY <1>2, <1>3, SoundPut DEF Channels
<1> HIDE DEF m
<1>7. /\ Once(messageQueue', requestID)
      /\ \A k : Free(messageQueue, k) /\ (m.type \in Served => m.id # k)
                => Free(messageQueue', k)
      /\ \A p : Apart(p, messageQueue) /\ (m.type \in Served => Free(p, m.id))
                => Apart(p, messageQueue')
  BY <1>1, <1>5, WithinOrKeeps DEF Channels
<1> QED BY <1>1, <1>2, <1>4, <1>6, <1>7 DEF Channels

-------------------------------------------------------------------------------
\* Types.

LEMMA StartTypes ==
  ASSUME PipelineTypeOK, Start
  PROVE  handle' \in BOOLEAN /\ intervals' \in Nat /\ immediates' \in Nat
BY DEF PipelineTypeOK, Start

LEMMA PostTypes ==
  ASSUME PipelineTypeOK, NEW type \in Type, NEW id \in Nat, NEW items \in SUBSET Item,
         Post(type, id, items)
  PROVE  PipelineTypeOK'
<1>1. messageQueue' \in Seq(Message) /\ sent' \in Seq(Message)
  BY PutIsPart DEF Post, PipelineTypeOK
<1> QED BY <1>1, StartTypes DEF Post, PipelineTypeOK

LEMMA PostStrayTypes ==
  ASSUME PipelineTypeOK, PostStray
  PROVE  PipelineTypeOK'
<1>1. [type |-> Stray, id |-> 0, items |-> {}] \in Message
  BY DEF Message
<1>2. messageQueue' \in Seq(Message) /\ sent' \in Seq(Message)
  BY <1>1 DEF PostStray, PipelineTypeOK
<1> QED BY <1>2, StartTypes DEF PostStray, PipelineTypeOK

\* The timer sends what is in the Map, or nothing.
LEMMA FlushTypes ==
  ASSUME PipelineTypeOK, Flush \/ UNCHANGED <<messageQueue, sent>>
  PROVE  messageQueue' \in Seq(Message) /\ sent' \in Seq(Message)
<1>1. messageQueue \in Seq(Message) /\ sent \in Seq(Message)
  BY DEF PipelineTypeOK
<1>2. sent \o messageQueue \in Seq(Message) /\ <<>> \in Seq(Message)
  BY <1>1, ConcatProperties, EmptySeq
<1> QED BY <1>1, <1>2 DEF Flush

LEMMA TimerTypes ==
  ASSUME PipelineTypeOK, TimerInv, Timer
  PROVE  PipelineTypeOK'
<1>1. Flush \/ UNCHANGED <<messageQueue, sent>>
  BY DEF Timer, Immediate, Tick
<1>2. TimerInv'
  BY ImmediateKeeps, TickKeeps DEF Timer
<1> QED BY <1>1, <1>2, FlushTypes DEF PipelineTypeOK, TimerInv

LEMMA SendTypes ==
  ASSUME TypeOK, NEW type \in Type, Send(type)
  PROVE  /\ requestID + 1 \in Request /\ requestID' = requestID + 1
         /\ requestID' \in 0 .. MaxRequest
         /\ [type |-> type, id |-> requestID + 1] \in [type : Type, id : Request]
         /\ requests' = Append(requests, [type |-> type, id |-> requestID + 1])
         /\ requests' \in Seq([type : Type, id : Request])
<1>1. requestID + 1 \in Request /\ requestID' = requestID + 1 /\ requestID' \in 0 .. MaxRequest
  BY TypesDiffer DEF TypeOK, Send, Request
<1>2. [type |-> type, id |-> requestID + 1] \in [type : Type, id : Request]
  BY <1>1
<1>3. requests' = Append(requests, [type |-> type, id |-> requestID + 1])
  BY DEF Send
<1>4. requests' \in Seq([type : Type, id : Request])
  BY <1>2, <1>3, AppendProperties DEF TypeOK
<1> QED BY <1>1, <1>2, <1>3, <1>4

LEMMA AbandonTypes ==
  ASSUME TypeOK, NEW f, Abandon(f)
  PROVE  stage' \in [File -> Stage]
BY DEF TypeOK, Abandon, Stage

LEMMA ParseTypes ==
  ASSUME TypeOK, NEW f \in File, NEW then \in Stage, Parse(f, then)
  PROVE  stage' \in [File -> Stage] /\ PipelineTypeOK'
<1>1. stage' \in [File -> Stage]
  <2>1. Abandon(f) \/ stage' = [stage EXCEPT ![f] = then]
    BY DEF Parse
  <2> QED BY <2>1, AbandonTypes DEF TypeOK
<1>2. PipelineTypeOK'
  <2>1. PostStray \/ UNCHANGED pipeline
    BY DEF Parse
  <2> QED BY <2>1, PostStrayTypes DEF TypeOK, PipelineTypeOK, pipeline
<1> QED BY <1>1, <1>2

LEMMA NextTypeOK ==
  ASSUME TypeOK, TimerInv, Channels, [Next]_vars
  PROVE  TypeOK'
<1>1. ASSUME NEW type \in Served, Get(type) PROVE TypeOK'
  <2>1. type \in Type
    BY MessagingAssumption
  <2>2. Send(type)
    BY <1>1 DEF Get
  <2>3. waiting' \in [Request -> SUBSET Type]
    BY <1>1, <2>1 DEF Get, TypeOK
  <2> QED BY <1>1, <2>1, <2>2, <2>3, SendTypes
          DEF Get, TypeOK, PipelineTypeOK, pipeline, imports
<1>2. ASSUME NEW F \in SUBSET File, NEW directory \in BOOLEAN, Import(F, directory)
      PROVE  TypeOK'
  <2>1. Send(Images) /\ Images \in Type
    BY <1>2, TypesDiffer DEF Import
  <2>2. requestID + 1 \in Request /\ requestID + 1 \in 0 .. MaxRequest
    BY <2>1, SendTypes
  <2>3. stage' \in [File -> Stage]
    BY <1>2 DEF Import, TypeOK, Stage
  <2>4. owner' \in [File -> 0 .. MaxRequest]
    BY <1>2, <2>2 DEF Import, TypeOK
  <2>5. inOrder' \subseteq Request
    BY <1>2, <2>2 DEF Import, TypeOK
  <2> QED BY <1>2, <2>1, <2>3, <2>4, <2>5, SendTypes
          DEF Import, TypeOK, PipelineTypeOK, pipeline
<1>3. CASE Handle
  <2>1. /\ requests' = Tail(requests) /\ requests # <<>>
        /\ Head(requests) \in [type : Type, id : Request]
        /\ Tail(requests) \in Seq([type : Type, id : Request])
    BY <1>3, HeadTailProperties DEF Handle, TypeOK
  <2>2. Head(requests).type \in Type /\ Head(requests).id \in Request
    BY <2>1
  <2>3. Head(requests).id \in Nat /\ {Head(requests).id} \in SUBSET Item
    BY <2>2, TypesDiffer DEF Request
  <2>4. CASE Post(Head(requests).type, Head(requests).id, {Head(requests).id})
             /\ UNCHANGED <<imports, refused>>
    <3>1. PipelineTypeOK'
      BY <2>2, <2>3, <2>4, PostTypes DEF TypeOK
    <3> QED BY <1>3, <2>1, <2>4, <3>1 DEF Handle, TypeOK, imports
  <2>5. CASE /\ stage' = [f \in File |-> IF owner[f] = Head(requests).id THEN "queued"
                                         ELSE stage[f]]
             /\ UNCHANGED <<owner, inOrder, refused, pipeline>>
    <3>1. stage' \in [File -> Stage]
      BY <2>5 DEF TypeOK, Stage
    <3> QED BY <1>3, <2>1, <2>5, <3>1 DEF Handle, TypeOK, PipelineTypeOK, pipeline
  <2>6. CASE refused' = refused \cup {Head(requests).id} /\ UNCHANGED <<imports, pipeline>>
    <3>1. refused' \subseteq Request
      BY <2>2, <2>6 DEF TypeOK
    <3> QED BY <1>3, <2>1, <2>6, <3>1 DEF Handle, TypeOK, PipelineTypeOK, pipeline, imports
  <2> QED BY <1>3, <2>4, <2>5, <2>6 DEF Handle
<1>4. ASSUME NEW f \in File, BeginRead(f) PROVE TypeOK'
  <2>1. Parse(f, "reading") /\ "reading" \in Stage
    BY <1>4 DEF BeginRead, Stage
  <2>2. stage' \in [File -> Stage] /\ PipelineTypeOK'
    BY <2>1, ParseTypes
  <2> QED BY <1>4, <2>2 DEF BeginRead, TypeOK, renderer
<1>5. ASSUME NEW f \in File, EndRead(f) PROVE TypeOK'
  <2>1. stage' \in [File -> Stage]
    <3>1. Abandon(f) \/ stage' = [stage EXCEPT ![f] = "posted"]
      BY <1>5 DEF EndRead
    <3> QED BY <3>1, AbandonTypes DEF TypeOK, Stage
  <2>2. PipelineTypeOK'
    <3>1. Post(Images, owner[f], {f}) \/ UNCHANGED pipeline
      BY <1>5 DEF EndRead
    <3>2. Images \in Type /\ owner[f] \in Nat /\ {f} \in SUBSET Item
      BY TypesDiffer DEF TypeOK
    <3> QED BY <3>1, <3>2, PostTypes DEF TypeOK, PipelineTypeOK, pipeline
  <2> QED BY <1>5, <2>1, <2>2 DEF EndRead, TypeOK, renderer
<1>6. CASE Timer
  <2>1. PipelineTypeOK'
    BY <1>6, TimerTypes DEF TypeOK
  <2> QED BY <1>6, <2>1 DEF Timer, TypeOK, renderer, imports
<1>7. CASE Deliver
  <2>1. sent # <<>> /\ sent' = Tail(sent) /\ sent \in Seq(Message)
    BY <1>7 DEF Deliver, TypeOK, PipelineTypeOK
  <2>2. Head(sent) \in Message /\ sent' \in Seq(Message)
    BY <2>1, HeadTailProperties
  <2>3. Head(sent).items \in SUBSET Item
    BY <2>2 DEF Message
  <2>4. Head(sent).type = Images => Head(sent).items \subseteq File
    BY <2>1, TailIsWithin DEF Channels, Sound
  <2>5. waiting' \in [Request -> SUBSET Type] /\ answer' \in [Request -> SUBSET Item]
    BY <1>7, <2>3 DEF Deliver, TypeOK
  <2>6. shown' \subseteq File
    BY <1>7, <2>4 DEF Deliver, TypeOK
  <2> QED BY <1>7, <2>2, <2>5, <2>6 DEF Deliver, TypeOK, PipelineTypeOK, imports
<1>8. CASE UNCHANGED vars
  BY <1>8 DEF vars, renderer, imports, pipeline, TypeOK, PipelineTypeOK
<1>9. ASSUME NEW f \in File, ReadPath(f) PROVE TypeOK'
  <2>1. Parse(f, "named") /\ "named" \in Stage
    BY <1>9 DEF ReadPath, Stage
  <2>2. stage' \in [File -> Stage] /\ PipelineTypeOK'
    BY <2>1, ParseTypes
  <2> QED BY <1>9, <2>2 DEF ReadPath, TypeOK, renderer
<1> QED
  BY <1>1, <1>2, <1>3, <1>4, <1>5, <1>6, <1>7, <1>8, <1>9 DEF Next

-------------------------------------------------------------------------------
\* One lemma for each action.

Kept == Channels' /\ AnswersAreSpent' /\ Turns'

\* An answer given before stays spent when its id does not come back.
LEMMA SpentStays ==
  ASSUME AnswersAreSpent, answer' = answer,
         \A k \in 1 .. requestID : k \in 1 .. requestID' /\ (Spent(k) => Spent(k)')
  PROVE  AnswersAreSpent'
BY DEF AnswersAreSpent

LEMMA WaitedWithin ==
  ASSUME NEW W, NEW w, NEW q, Within(w, q), Waited(W, q)
  PROVE  Waited(W, w)
BY DEF Within, Waited

LEMMA WaitedWithinOr ==
  ASSUME NEW W, NEW w, NEW q, NEW m, WithinOr(w, q, m), Waited(W, q),
         m.type \in Served \ Overlap => m.type \in W[m.id]
  PROVE  Waited(W, w)
BY DEF WithinOr, Waited

LEMMA NothingSent ==
  ASSUME ReplyInv, UNCHANGED <<requestID, requests, messageQueue, sent, waiting, answer>>
  PROVE  Kept
BY DEF ReplyInv, Kept, Channels, AnswersAreSpent, Spent, Turns

\* A request: its id is new to all three channels.
LEMMA SendKeeps ==
  ASSUME ReplyInv, NEW type \in Type, Send(type), UNCHANGED <<messageQueue, sent>>
  PROVE  /\ Channels'
         /\ \A k \in 1 .. requestID : k \in 1 .. requestID' /\ (Spent(k) => Spent(k)')
         /\ \A W : Waited(W, requests)
                    /\ (type \in Served \ Overlap => type \in W[requestID + 1])
                    => Waited(W, requests')
<1> DEFINE m == [type |-> type, id |-> requestID + 1]
<1>1. /\ requestID \in Nat /\ requestID' = requestID + 1
      /\ requests' = Append(requests, m) /\ m \in [type : Type, id : Request]
      /\ m.type = type /\ m.id = requestID + 1
      /\ requests \in Seq([type : Type, id : Request])
  BY SendTypes DEF ReplyInv, TypeOK
<1>2. WithinOr(requests', requests, m)
  BY <1>1, AppendIsWithinOr
<1> HIDE DEF m
<1>3. /\ Once(requests, requestID') /\ Once(messageQueue, requestID') /\ Once(sent, requestID')
      /\ Free(requests, m.id) /\ Free(messageQueue, m.id) /\ Free(sent, m.id)
  BY <1>1, NextIsNew DEF ReplyInv, Channels
<1>4. m.id \in 1 .. requestID'
  BY <1>1
<1>5. /\ Once(requests', requestID')
      /\ \A k : Free(requests, k) /\ (m.type \in Served => m.id # k) => Free(requests', k)
      /\ \A p : Apart(requests, p) /\ (m.type \in Served => Free(p, m.id))
                => Apart(requests', p)
  BY <1>2, <1>3, <1>4, WithinOrKeeps
<1>6. Channels'
  BY <1>3, <1>5 DEF ReplyInv, Channels
<1>7. \A k \in 1 .. requestID : k \in 1 .. requestID' /\ k # m.id
  BY <1>1
<1>8. \A k \in 1 .. requestID : Spent(k) => Spent(k)'
  BY <1>5, <1>7 DEF Spent
<1>9. \A W : Waited(W, requests) /\ (type \in Served \ Overlap => type \in W[requestID + 1])
             => Waited(W, requests')
  BY <1>1, <1>2, WaitedWithinOr
<1> QED BY <1>6, <1>7, <1>8, <1>9

LEMMA GetKeeps ==
  ASSUME ReplyInv, NEW type \in Served, Get(type)
  PROVE  Kept
<1>1. type \in Type /\ Send(type) /\ UNCHANGED <<messageQueue, sent>> /\ answer' = answer
  BY MessagingAssumption DEF Get, pipeline
<1>2. requestID + 1 \in Request /\ requestID \in Nat
  <2>1. requestID \in Nat
    BY DEF ReplyInv, TypeOK
  <2>2. requestID + 1 \in Request
    BY <1>1, SendTypes DEF ReplyInv
  <2> QED BY <2>1, <2>2
<1>3. Channels' /\ AnswersAreSpent'
  BY <1>1, SendKeeps, SpentStays DEF ReplyInv
<1>4. /\ waiting' = [waiting EXCEPT ![requestID + 1] = {type}]
      /\ waiting \in [Request -> SUBSET Type]
  BY DEF Get, ReplyInv, TypeOK
<1>5. \A r \in Request : waiting'[r] = IF r = requestID + 1 THEN {type} ELSE waiting[r]
  BY <1>4
<1>6. \A r \in Request : \A t, u \in waiting'[r] : t = u /\ t \in Served
  BY <1>5 DEF ReplyInv, Turns
<1>7. type \in Overlap \/ \A r \in Request : type \notin waiting[r]
  BY DEF Get
<1>8. \A r, s \in Request : \A t \in waiting'[r] \cap waiting'[s] : t \in Overlap \/ r = s
  BY <1>5, <1>7 DEF ReplyInv, Turns
<1>9. ASSUME NEW q, Once(q, requestID), Waited(waiting, q) PROVE Waited(waiting', q)
  <2>1. \A i \in 1 .. requestID : i \in Request /\ i # requestID + 1
    BY <1>2, TypesDiffer DEF Request
  <2>2. \A i \in 1 .. requestID : waiting'[i] = waiting[i]
    BY <2>1, <1>5
  <2> QED BY <1>9, <2>2 DEF Once, Waited
<1>10. /\ Waited(waiting', requests) /\ Waited(waiting', messageQueue)
       /\ Waited(waiting', sent)
  BY <1>9 DEF ReplyInv, Channels, Turns
<1>11. Waited(waiting', requests')
  BY <1>1, <1>2, <1>5, <1>10, SendKeeps
<1>12. Turns'
  BY <1>1, <1>6, <1>8, <1>10, <1>11 DEF Turns
<1> QED BY <1>3, <1>12 DEF Kept

LEMMA ImportKeeps ==
  ASSUME ReplyInv, NEW F \in SUBSET File, NEW directory \in BOOLEAN, Import(F, directory)
  PROVE  Kept
<1>1. /\ Images \in Type /\ Images \notin Served /\ Send(Images)
      /\ UNCHANGED <<messageQueue, sent, waiting, answer>>
  BY TypesDiffer DEF Import, pipeline
<1>2. Channels' /\ AnswersAreSpent'
  BY <1>1, SendKeeps, SpentStays DEF ReplyInv
<1>3. Waited(waiting, requests')
  BY <1>1, SendKeeps DEF ReplyInv, Turns
<1>4. Turns'
  BY <1>1, <1>3 DEF ReplyInv, Turns
<1> QED BY <1>2, <1>4 DEF Kept

LEMMA HandleKeeps ==
  ASSUME ReplyInv, Handle
  PROVE  Kept
<1> DEFINE req == Head(requests)
<1>1. /\ requests # <<>> /\ requests' = Tail(requests)
      /\ requests \in Seq([type : Type, id : Request])
      /\ UNCHANGED <<requestID, waiting, answer>>
  BY DEF Handle, ReplyInv, TypeOK
<1>2. /\ Within(requests', requests)
      /\ req = requests[1] /\ 1 \in 1 .. Len(requests)
      /\ req \in [type : Type, id : Request]
  <2>1. Within(Tail(requests), requests)
    BY <1>1, TailIsWithin
  <2>2. Len(requests) \in Nat \ {0} /\ Head(requests) = requests[1]
    BY <1>1, TailIsWithin
  <2>3. Head(requests) \in [type : Type, id : Request]
    BY <1>1, HeadTailProperties
  <2> QED BY <1>1, <2>1, <2>2, <2>3
<1>3. /\ Once(requests', requestID)
      /\ \A k : Free(requests, k) => Free(requests', k)
      /\ Apart(requests', messageQueue) /\ Apart(requests', sent)
      /\ Waited(waiting, requests')
  BY <1>2, WithinKeeps, WaitedWithin DEF ReplyInv, Channels, Turns
<1>4. CASE UNCHANGED pipeline
  <2>1. UNCHANGED <<messageQueue, sent>>
    BY <1>4 DEF pipeline
  <2>2. Channels'
    BY <1>1, <1>3, <2>1 DEF ReplyInv, Channels
  <2>3. AnswersAreSpent'
    BY <1>1, <1>3, <2>1, SpentStays DEF ReplyInv, Spent
  <2>4. Turns'
    BY <1>1, <1>3, <2>1 DEF ReplyInv, Turns
  <2> QED BY <2>2, <2>3, <2>4 DEF Kept
<1>5. CASE req.type \in Served /\ Post(req.type, req.id, {req.id})
  <2>1. /\ req.type \in Type /\ req.id \in Nat /\ {req.id} \in SUBSET Item
    BY <1>2, TypesDiffer DEF Request
  <2>2. /\ req.id \in 1 .. requestID /\ Free(requests', req.id)
    BY <1>1, <1>5, HeadIsFree DEF ReplyInv, Channels
  <2>3. Free(messageQueue, req.id) /\ Free(sent, req.id)
    BY <1>2, <1>5 DEF ReplyInv, Channels, Apart
  <2>4. /\ messageQueue' \in Seq(Message) /\ sent' = sent
        /\ Sound(messageQueue') /\ Once(messageQueue', requestID)
        /\ Apart(requests', messageQueue') /\ Apart(sent, messageQueue')
        /\ \A k : Free(messageQueue, k) /\ (req.type \in Served => req.id # k)
                  => Free(messageQueue', k)
    BY <1>3, <1>5, <2>1, <2>2, <2>3, PostChannels DEF ReplyInv
  <2>5. Channels'
    BY <1>1, <1>3, <2>4 DEF ReplyInv, Channels
  <2>6. \A k : Spent(k) => req.id # k
    BY <1>2, <1>5 DEF Spent, Free
  <2>7. AnswersAreSpent'
    <3>1. \A k : Spent(k) => Spent(k)'
      BY <1>3, <2>4, <2>6 DEF Spent
    <3> QED BY <1>1, <3>1, SpentStays DEF ReplyInv
  <2>8. Waited(waiting, messageQueue')
    <3> DEFINE m == [type |-> req.type, id |-> req.id, items |-> {req.id}]
    <3>1. m.type = req.type /\ m.id = req.id
      OBVIOUS
    <3>2. WithinOr(messageQueue', messageQueue, m)
      BY <1>5, <2>1, PutIsWithinOr DEF Post, ReplyInv, TypeOK, PipelineTypeOK
    <3>3. req.type \in Served \ Overlap => req.type \in waiting[req.id]
      BY <1>2 DEF ReplyInv, Turns, Waited
    <3> HIDE DEF m
    <3> QED BY <3>1, <3>2, <3>3, WaitedWithinOr DEF ReplyInv, Turns
  <2>9. Turns'
    BY <1>1, <1>3, <2>4, <2>8 DEF ReplyInv, Turns
  <2> QED BY <2>5, <2>7, <2>9 DEF Kept
<1> QED BY <1>4, <1>5 DEF Handle

\* Files are posted and strays, of types no get waits for.
LEMMA ReadKeeps ==
  ASSUME ReplyInv, NEW m \in Message, m.type \notin Served, WithinOr(messageQueue', messageQueue, m),
         Sound(messageQueue'), UNCHANGED <<renderer, sent>>
  PROVE  Kept
<1>1. UNCHANGED <<requestID, requests, waiting, answer, sent>>
  BY DEF renderer
<1>2. /\ Once(messageQueue', requestID)
      /\ \A k : Free(messageQueue, k) => Free(messageQueue', k)
      /\ \A p : Apart(p, messageQueue) => Apart(p, messageQueue')
  BY WithinOrKeeps DEF ReplyInv, Channels
<1>3. Channels'
  BY <1>1, <1>2 DEF ReplyInv, Channels
<1>4. AnswersAreSpent'
  BY <1>1, <1>2, SpentStays DEF ReplyInv, Spent
<1>5. Waited(waiting, messageQueue')
  BY WaitedWithinOr DEF ReplyInv, Turns
<1>6. Turns'
  BY <1>1, <1>5 DEF ReplyInv, Turns
<1> QED BY <1>3, <1>4, <1>6 DEF Kept

LEMMA ParseKeeps ==
  ASSUME ReplyInv, NEW f, NEW then, Parse(f, then), UNCHANGED renderer
  PROVE  Kept
<1>1. CASE UNCHANGED pipeline
  BY <1>1, NothingSent DEF renderer, pipeline
<1>2. CASE PostStray
  <2> DEFINE m == [type |-> Stray, id |-> 0, items |-> {}]
  <2>1. m \in Message /\ m.type = Stray
    BY DEF Message
  <2>2. messageQueue' = Append(messageQueue, m) /\ UNCHANGED <<renderer, sent>>
    BY <1>2 DEF PostStray
  <2> HIDE DEF m
  <2>3. messageQueue \in Seq(Message)
    BY DEF ReplyInv, TypeOK, PipelineTypeOK
  <2>4. WithinOr(messageQueue', messageQueue, m)
    BY <2>1, <2>2, <2>3, AppendIsWithinOr
  <2>5. Sound(messageQueue')
    <3>1. /\ Len(messageQueue) \in Nat /\ Len(messageQueue') = Len(messageQueue) + 1
          /\ \A i \in 1 .. Len(messageQueue) : messageQueue'[i] = messageQueue[i]
          /\ messageQueue'[Len(messageQueue) + 1] = m
      BY <2>1, <2>2, <2>3, AppendProperties
    <3>2. \A i \in 1 .. Len(messageQueue') :
            i \in 1 .. Len(messageQueue) \/ messageQueue'[i] = m
      BY <3>1
    <3> QED BY <2>1, <3>1, <3>2, TypesDiffer DEF ReplyInv, Channels, Sound
  <2> QED BY <2>1, <2>2, <2>4, <2>5, TypesDiffer, ReadKeeps
<1> QED BY <1>1, <1>2 DEF Parse

LEMMA EndReadKeeps ==
  ASSUME ReplyInv, NEW f \in File, EndRead(f)
  PROVE  Kept
<1>1. CASE UNCHANGED pipeline
  BY <1>1, NothingSent DEF EndRead, renderer, pipeline
<1>2. CASE Post(Images, owner[f], {f})
  <2> DEFINE m == [type |-> Images, id |-> owner[f], items |-> {f}]
  <2>1. /\ Images \in Type /\ owner[f] \in Nat /\ {f} \in SUBSET Item /\ {f} \subseteq File
        /\ Images \notin Served
    BY TypesDiffer DEF ReplyInv, TypeOK
  <2>2. m \in Message /\ m.type = Images
    BY <2>1 DEF Message
  <2>3. messageQueue \in Seq(Message) /\ Sound(messageQueue)
    BY DEF ReplyInv, TypeOK, PipelineTypeOK, Channels
  <2>4. messageQueue' = Put(messageQueue, Images, owner[f], {f}) /\ UNCHANGED <<renderer, sent>>
    BY <1>2 DEF Post, EndRead
  <2>5. WithinOr(messageQueue', messageQueue, m)
    BY <2>1, <2>3, <2>4, PutIsWithinOr
  <2>6. Sound(messageQueue')
    BY <2>1, <2>3, <2>4, SoundPut
  <2> HIDE DEF m
  <2> QED BY <2>1, <2>2, <2>4, <2>5, <2>6, ReadKeeps
<1> QED BY <1>1, <1>2 DEF EndRead

LEMMA TimerKeeps ==
  ASSUME ReplyInv, Timer
  PROVE  Kept
<1>1. UNCHANGED <<requestID, requests, waiting, answer>>
  BY DEF Timer, renderer
<1>2. CASE UNCHANGED <<messageQueue, sent>>
  BY <1>1, <1>2, NothingSent
<1>3. CASE Flush
  <2>1. sent' = sent \o messageQueue /\ messageQueue' = <<>>
    BY <1>3 DEF Flush
  <2>2. messageQueue \in Seq(Message) /\ sent \in Seq(Message)
    BY DEF ReplyInv, TypeOK, PipelineTypeOK
  <2>3. /\ Once(sent', requestID)
        /\ \A k : Free(sent, k) /\ Free(messageQueue, k) => Free(sent', k)
        /\ Apart(requests, sent')
    BY <2>1, <2>2, ConcatKeeps DEF ReplyInv, Channels
  <2>4. /\ Len(sent) \in Nat /\ Len(messageQueue) \in Nat
        /\ Len(sent') = Len(sent) + Len(messageQueue)
        /\ \A i \in 1 .. Len(sent') :
             sent'[i] = IF i <= Len(sent) THEN sent[i] ELSE messageQueue[i - Len(sent)]
    BY <2>1, <2>2, ConcatProperties
  <2>5. \A i \in 1 .. Len(sent') :
          \/ i \in 1 .. Len(sent) /\ sent'[i] = sent[i]
          \/ i - Len(sent) \in 1 .. Len(messageQueue) /\ sent'[i] = messageQueue[i - Len(sent)]
    BY <2>4
  <2>6. Sound(sent') /\ Waited(waiting, sent')
    <3>1. /\ Sound(sent) /\ Sound(messageQueue)
          /\ Waited(waiting, sent) /\ Waited(waiting, messageQueue)
      BY DEF ReplyInv, Channels, Turns
    <3>2. Sound(sent')
      BY <2>5, <3>1 DEF Sound
    <3>3. Waited(waiting, sent')
      BY <2>5, <3>1 DEF Waited
    <3> QED BY <3>2, <3>3
  <2>7. Channels'
    <3>1. /\ Sound(messageQueue') /\ Once(messageQueue', requestID')
          /\ Apart(requests', messageQueue') /\ Apart(sent', messageQueue')
      BY <2>1, NothingIsApart
    <3> QED BY <1>1, <2>3, <2>6, <3>1 DEF ReplyInv, Channels
  <2>8. AnswersAreSpent'
    BY <1>1, <2>1, <2>3, NothingIsApart, SpentStays DEF ReplyInv, Spent
  <2>9. Waited(waiting, messageQueue')
    <3>1. Len(messageQueue') = 0
      BY <2>1
    <3> QED BY <3>1 DEF Waited
  <2>10. Turns'
    BY <1>1, <2>6, <2>9 DEF ReplyInv, Turns
  <2> QED BY <2>7, <2>8, <2>10 DEF Kept
<1> QED BY <1>2, <1>3 DEF Timer, Immediate, Tick

\* What reaches a get: a reply to one request, which is then on its way no more.
LEMMA DeliverAnswers ==
  ASSUME ReplyInv, Deliver
  PROVE  LET msg == Head(sent)
         IN /\ msg = sent[1] /\ 1 \in 1 .. Len(sent)
            /\ Within(sent', sent)
            /\ \A r \in Request :
                 /\ msg.type \in waiting[r] =>
                      /\ msg.type \in Served /\ msg.id \in 1 .. requestID
                      /\ waiting'[r] = {} /\ answer'[r] = {msg.id}
                 /\ msg.type \notin waiting[r] =>
                      waiting'[r] = waiting[r] /\ answer'[r] = answer[r]
            /\ msg.type \in Served =>
                 Free(requests, msg.id) /\ Free(messageQueue, msg.id) /\ Free(sent', msg.id)
<1> DEFINE msg == Head(sent)
<1>1. sent # <<>> /\ sent' = Tail(sent) /\ sent \in Seq(Message)
  BY DEF Deliver, ReplyInv, TypeOK, PipelineTypeOK
<1>2. Within(sent', sent) /\ msg = sent[1] /\ 1 \in 1 .. Len(sent)
  <2>1. Within(Tail(sent), sent) /\ Len(sent) \in Nat \ {0} /\ Head(sent) = sent[1]
    BY <1>1, TailIsWithin
  <2> QED BY <1>1, <2>1
<1>3. msg.type \in Served => msg.id \in 1 .. requestID /\ Free(sent', msg.id)
  BY <1>1, HeadIsFree DEF ReplyInv, Channels
<1>4. msg.type \in Served => Free(requests, msg.id) /\ Free(messageQueue, msg.id)
  <2>1. Apart(sent, requests) /\ Apart(sent, messageQueue)
    BY ApartIsMutual DEF ReplyInv, Channels
  <2> QED BY <1>2, <2>1 DEF Apart
<1>5. /\ msg.type \in Served \cup {Images, Stray}
      /\ msg.type \in Served => msg.items = {msg.id}
  BY <1>2 DEF ReplyInv, Channels, Sound
<1>6. ASSUME NEW r \in Request, msg.type \in waiting[r] PROVE msg.type \in Served
  <2>1. msg.type \in Served
    BY <1>6 DEF ReplyInv, Turns
  <2> QED BY <1>5, <2>1, TypesDiffer
<1>7. \A r \in Request :
        /\ waiting'[r] = IF msg.type \in waiting[r] THEN {} ELSE waiting[r]
        /\ answer'[r] = IF msg.type \in waiting[r] THEN msg.items ELSE answer[r]
  BY DEF Deliver
<1> QED BY <1>2, <1>3, <1>4, <1>5, <1>6, <1>7

LEMMA DeliverKeeps ==
  ASSUME ReplyInv, Deliver
  PROVE  Kept
<1> DEFINE msg == Head(sent)
<1>1. /\ msg = sent[1] /\ 1 \in 1 .. Len(sent)
      /\ Within(sent', sent)
      /\ \A r \in Request :
           /\ msg.type \in waiting[r] =>
                /\ msg.type \in Served /\ msg.id \in 1 .. requestID
                /\ waiting'[r] = {} /\ answer'[r] = {msg.id}
           /\ msg.type \notin waiting[r] =>
                waiting'[r] = waiting[r] /\ answer'[r] = answer[r]
      /\ msg.type \in Served =>
           Free(requests, msg.id) /\ Free(messageQueue, msg.id) /\ Free(sent', msg.id)
  BY DeliverAnswers
<1> HIDE DEF msg
<1>2. UNCHANGED <<requestID, requests, messageQueue>>
  BY DEF Deliver
<1>3. /\ Once(sent', requestID)
      /\ \A k : Free(sent, k) => Free(sent', k)
      /\ Apart(requests, sent') /\ Apart(sent', messageQueue)
  BY <1>1, WithinKeeps DEF ReplyInv, Channels
<1>4. Sound(sent')
  <2>1. sent # <<>> /\ sent' = Tail(sent) /\ sent \in Seq(Message)
    BY DEF Deliver, ReplyInv, TypeOK, PipelineTypeOK
  <2>2. \A i \in 1 .. Len(sent') : sent'[i] = sent[i + 1] /\ i + 1 \in 1 .. Len(sent)
    BY <2>1, TailIsWithin
  <2> QED BY <2>2 DEF ReplyInv, Channels, Sound
<1>5. Channels'
  BY <1>2, <1>3, <1>4 DEF ReplyInv, Channels
<1>6. AnswersAreSpent'
  <2> SUFFICES ASSUME NEW r \in Request, answer'[r] # {}
               PROVE  \E k \in 1 .. requestID' : answer'[r] = {k} /\ Spent(k)'
    BY DEF AnswersAreSpent
  <2>1. CASE msg.type \in waiting[r]
    <3>1. PICK k \in 1 .. requestID : k = msg.id
      BY <2>1, <1>1
    <3>2. Spent(k)' /\ answer'[r] = {k} /\ k \in 1 .. requestID'
      BY <2>1, <3>1, <1>1, <1>2 DEF Spent
    <3> QED BY <3>2
  <2>2. CASE msg.type \notin waiting[r]
    <3>1. PICK k \in 1 .. requestID : answer[r] = {k} /\ Spent(k)
      BY <2>2, <1>1 DEF ReplyInv, AnswersAreSpent
    <3>2. Spent(k)'
      BY <3>1, <1>2, <1>3 DEF Spent
    <3> QED BY <2>2, <3>1, <3>2, <1>1, <1>2
  <2> QED BY <2>1, <2>2
<1>7. \A i \in 1 .. requestID : i \in Request
  BY TypesDiffer DEF ReplyInv, TypeOK, Request
<1>8. ASSUME NEW q, Waited(waiting, q), Once(q, requestID),
             msg.type \in Served => Free(q, msg.id)
      PROVE  Waited(waiting', q)
  <2> SUFFICES ASSUME NEW i \in 1 .. Len(q), q[i].type \in Served \ Overlap
               PROVE  q[i].type \in waiting'[q[i].id]
    BY DEF Waited
  <2>1. q[i].id \in Request /\ q[i].type \in waiting[q[i].id]
    BY <1>7, <1>8 DEF Waited, Once
  <2>2. ASSUME msg.type \in waiting[q[i].id] PROVE FALSE
    <3>1. msg.type = q[i].type /\ msg.type \in Served \ Overlap
      BY <2>1, <2>2 DEF ReplyInv, Turns
    <3>2. msg.id \in Request /\ msg.type \in waiting[msg.id]
      BY <2>1, <2>2, <3>1, <1>1, <1>7 DEF ReplyInv, Turns, Waited
    <3>3. msg.id = q[i].id
      BY <2>1, <2>2, <3>1, <3>2 DEF ReplyInv, Turns
    <3> QED BY <3>1, <3>3, <1>8 DEF Free
  <2> QED BY <2>1, <2>2, <1>1
<1>9. Waited(waiting, sent')
  BY <1>1, WaitedWithin DEF ReplyInv, Turns
<1>10. /\ Waited(waiting', requests) /\ Waited(waiting', messageQueue)
       /\ Waited(waiting', sent')
  BY <1>1, <1>3, <1>8, <1>9 DEF ReplyInv, Channels, Turns
<1>11. \A r \in Request : waiting'[r] \subseteq waiting[r]
  BY <1>1
<1>12. Turns'
  BY <1>2, <1>10, <1>11 DEF ReplyInv, Turns
<1> QED BY <1>5, <1>6, <1>12 DEF Kept

-------------------------------------------------------------------------------
LEMMA NextReplyInv == TimerInv /\ ReplyInv /\ [Next]_vars => ReplyInv'
<1> SUFFICES ASSUME TimerInv, ReplyInv, [Next]_vars PROVE ReplyInv'
  OBVIOUS
<1>1. TypeOK'
  BY NextTypeOK DEF ReplyInv
<1>2. ASSUME NEW type \in Served, Get(type) PROVE Kept
  BY <1>2, GetKeeps
<1>3. ASSUME NEW F \in SUBSET File, NEW directory \in BOOLEAN, Import(F, directory)
      PROVE  Kept
  BY <1>3, ImportKeeps
<1>4. ASSUME Handle PROVE Kept
  BY <1>4, HandleKeeps
<1>5. ASSUME NEW f \in File, BeginRead(f) PROVE Kept
  BY <1>5, ParseKeeps DEF BeginRead
<1>6. ASSUME NEW f \in File, EndRead(f) PROVE Kept
  BY <1>6, EndReadKeeps
<1>7. ASSUME Timer PROVE Kept
  BY <1>7, TimerKeeps
<1>8. ASSUME Deliver PROVE Kept
  BY <1>8, DeliverKeeps
<1>9. ASSUME UNCHANGED vars PROVE Kept
  BY <1>9, NothingSent DEF vars, renderer, pipeline
<1>10. ASSUME NEW f \in File, ReadPath(f) PROVE Kept
  BY <1>10, ParseKeeps DEF ReadPath
<1>11. Kept
  BY <1>2, <1>3, <1>4, <1>5, <1>6, <1>7, <1>8, <1>9, <1>10 DEF Next
<1> QED BY <1>1, <1>11 DEF Kept, ReplyInv

\* Types, one timer, and no reply without one (post of MessageTransfer.ts), for gets
\* and imports that overlap or not.
THEOREM Invariance == Spec => []Inv
<1>1. TimerInv /\ ReplyInv => Inv
  BY DEF TimerInv, ReplyInv, Inv
<1> QED BY <1>1, InitTimerInv, NextTimerInv, InitReplyInv, NextReplyInv, PTL DEF Spec

LEMMA OnlyDeliverAnswers ==
  ASSUME [Next]_vars, answer' # answer
  PROVE  Deliver
BY DEF Next, vars, renderer, Get, Import, Handle, BeginRead, ReadPath, EndRead, Timer

\* A caller whose gets of a type take turns is given the reply to its own request
\* (get of Service.js), whatever gets of other types and imports do beside it.
THEOREM AnswerIsOwn == Spec => OwnAnswer
<1>1. ASSUME ReplyInv, [Next]_vars, NEW r \in Request,
             waiting[r] \cap Overlap = {}, answer'[r] # answer[r]
      PROVE  answer'[r] = {r}
  <2>1. Deliver
    BY <1>1, OnlyDeliverAnswers
  <2> DEFINE msg == Head(sent)
  <2>2. /\ msg = sent[1] /\ 1 \in 1 .. Len(sent)
        /\ msg.type \in waiting[r] /\ msg.type \in Served /\ msg.id \in 1 .. requestID
        /\ answer'[r] = {msg.id}
    BY <1>1, <2>1, DeliverAnswers
  <2> HIDE DEF msg
  <2>3. msg.type \in Served \ Overlap /\ msg.type \in waiting[msg.id]
    BY <1>1, <2>2 DEF ReplyInv, Turns, Waited
  <2>4. msg.id \in Request
    BY <1>1, <2>2, TypesDiffer DEF ReplyInv, TypeOK, Request
  <2>5. msg.id = r
    BY <1>1, <2>2, <2>3, <2>4 DEF ReplyInv, Turns
  <2> QED BY <2>2, <2>5
<1> DEFINE Own == \A r \in Request :
                    waiting[r] \cap Overlap = {} /\ answer'[r] # answer[r] => answer'[r] = {r}
<1>2. ReplyInv /\ [Next]_vars => [Own]_vars
  BY <1>1
<1>3. OwnAnswer <=> [][Own]_vars
  BY DEF OwnAnswer
<1> HIDE DEF Own
<1> QED BY <1>2, <1>3, InitTimerInv, NextTimerInv, InitReplyInv, NextReplyInv, PTL DEF Spec

\* No get is answered with a reply that has answered an earlier one (get of Service.js
\* and post of MessageTransfer.ts), for gets that overlap too.
THEOREM AnswerIsNews == Spec => AnswersAreNews
<1>1. ASSUME ReplyInv, [Next]_vars, NEW r \in Request, NEW s \in Request,
             answer[r] = {}, answer'[r] # {}
      PROVE  answer[s] # answer'[r]
  <2>1. Deliver
    BY <1>1, OnlyDeliverAnswers
  <2> DEFINE msg == Head(sent)
  <2>2. /\ msg = sent[1] /\ 1 \in 1 .. Len(sent) /\ msg.type \in Served
        /\ answer'[r] = {msg.id}
    BY <1>1, <2>1, DeliverAnswers
  <2> HIDE DEF msg
  <2>3. ~Free(sent, msg.id)
    BY <2>2 DEF Free
  <2>4. ASSUME answer[s] = {msg.id} PROVE FALSE
    <3>1. PICK k \in 1 .. requestID : answer[s] = {k} /\ Spent(k)
      BY <1>1, <2>4 DEF ReplyInv, AnswersAreSpent
    <3>2. k = msg.id
      BY <2>4, <3>1
    <3> QED BY <2>3, <3>1, <3>2 DEF Spent
  <2> QED BY <2>2, <2>4
<1> DEFINE News == \A r, s \in Request :
                     answer[r] = {} /\ answer'[r] # {} => answer[s] # answer'[r]
<1>2. ReplyInv /\ [Next]_vars => [News]_vars
  BY <1>1
<1>3. AnswersAreNews <=> [][News]_vars
  BY DEF AnswersAreNews
<1> HIDE DEF News
<1> QED BY <1>2, <1>3, InitTimerInv, NextTimerInv, InitReplyInv, NextReplyInv, PTL DEF Spec
===============================================================================
