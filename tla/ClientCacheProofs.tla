-------------------------- MODULE ClientCacheProofs ---------------------------
(***************************************************************************)
(* Proofs about the store of the renderer, for any libraries, any number   *)
(* of files in them before the start and given later, and any number of    *)
(* messages on their way.                                                  *)
(***************************************************************************)
EXTENDS ClientCache, SetInduction, FiniteSetTheorems, SequenceTheorems

-------------------------------------------------------------------------------
\* Messages of a type in a channel.

Absent(q, type) == \A m \in ToSet(q) : m.type # type

AtMostOne(q, type) ==
  \A i, j \in DOMAIN q : q[i].type = type /\ q[j].type = type => i = j

\* The files with an id that messages of a type are about.
Of(q, type) == {f \in FileID : \E m \in ToSet(q) : m.type = type /\ f \in m.ids}

Removing == Of(requests, "remove")

Stored == {f \in FileID : \E u \in unread : u[2] = f}

\* The files of the library that are to be announced, and those that never will be too.
Pending == Stored \cup Of(replies, "images")

Coming == Pending \cup lost

-------------------------------------------------------------------------------
\* The parts of the inductive invariant.

RequestType == {"counts", "snap", "info", "query", "remove", "reinit"}

Request == [type : RequestType, library : Library \cup {None}, ids : SUBSET Key]

Answered == [type : Reply, library : Library, ids : SUBSET Key]

\* Types, and ids of files there are were given.
Types ==
  /\ TypeOK
  /\ requests \in Seq(Request) /\ replies \in Seq(Answered)
  /\ \A m \in ToSet(requests) : m.type = "reinit" => m.library \in Library
  /\ gathered \in [unclasses : SUBSET Key, filesSnap : SUBSET Key]
  /\ \A l \in Library : held[l] \subseteq 1 .. lastID[l]

\* What init and query wait for is on its way once, and nothing else of its type.
Questions ==
  /\ \A type \in {"reinit", "snap", "info", "query"} :
       /\ AtMostOne(requests, type) /\ AtMostOne(replies, type)
       /\ Absent(requests, type) \/ Absent(replies, type)
  /\ \A type \in {"reinit", "snap", "info"} :
       init # type => Absent(requests, type) /\ Absent(replies, type)
  /\ ~querying => Absent(requests, "query") /\ Absent(replies, "query")
  /\ \A m \in ToSet(replies) : m.type = "info" => m.library = open

\* The library has no files but those of F, those in the cache, those the worker is to
\* remove and those that are to be announced or never will be.
Covers(F) == held[open] \subseteq F \cup Known \cup Removing \cup Coming

\* When init has ended, and from the answer to its question for the files on, the cache
\* has or is about to have the files there are.
AnswersCover ==
  "query" \notin raced =>
    /\ init = "idle" => Covers({})
    /\ \A m \in ToSet(replies) : m.type \in {"snap", "info"} => Covers(m.ids)
    /\ \A m \in ToSet(requests) : m.type = "info" => Covers(m.ids)

NoRemovalBehind(q) ==
  \A i, j \in DOMAIN q : i < j /\ q[i].type = "query" => q[j].type # "remove"

\* While a query that overlaps nothing waits, the cache keeps the files it will find.
QueryIsKnown ==
  querying /\ "query" \notin raced =>
    /\ init = "idle" /\ Pending = {}
    /\ \A m \in ToSet(replies) : m.type = "query" => m.ids \subseteq Known
    /\ NoRemovalBehind(requests)

\* A file that could not be read stays in the cache.
StaysKnown == "query" \notin raced /\ "stays" \in raced => NoID \in Known

ViewInv == Types /\ Questions /\ AnswersCover /\ QueryIsKnown /\ StaysKnown /\ ViewIsOfCache

Followed == raced \subseteq {"switch", "removal", "stays"}

\* S is what the library holds, but for files that are to be announced or never will be.
IsSnapshot(S) == S \subseteq held[open] /\ held[open] \subseteq S \cup Coming

\* While init waits.
InitFollows ==
  init # "idle" =>
    /\ Removing = {}
    /\ "switch" \notin raced => Known = {} /\ init # "reinit"
    /\ \A m \in ToSet(replies) : m.type = "snap" => IsSnapshot(m.ids)
    /\ init = "info" =>
         /\ IsSnapshot(gathered.filesSnap)
         /\ \A m \in ToSet(requests) : m.type = "info" => m.ids = gathered.filesSnap
         /\ \A m \in ToSet(replies) : m.type = "info" => m.ids = gathered.filesSnap

\* In the library of the start.
StartFollows ==
  "switch" \notin raced =>
    /\ \A f \in Key : files[f] \in {None, open}
    /\ \A u \in unread : u[1] = open
    /\ \A m \in ToSet(replies) : m.type = "images" => m.library = open
    /\ Pending \subseteq held[open] \ Removing
    /\ Removing \subseteq 1 .. lastID[open]
    /\ Known \ {NoID} \subseteq held[open] \ Removing
    /\ init = "idle" /\ "stays" \notin raced => allCount = Cardinality(Known)

\* In the library of a switch.
SwitchFollows ==
  "switch" \in raced =>
    /\ unread = {} /\ Coming = {}
    /\ init = "idle" =>
         /\ \A f \in held[open] \ Removing : files[f] = open
         /\ raced = {"switch"} /\ NoID \notin Known => allCount = Cardinality(held[open])

CacheInv ==
  Followed =>
    /\ InitFollows /\ StartFollows /\ SwitchFollows
    /\ "removal" \notin raced => Removing = {}

AnnouncedBehind(q, i, f) == \E j \in DOMAIN q : j > i /\ q[j].type = "images" /\ f \in q[j].ids

\* An answer to a question for the counts misses only files whose announcement is
\* behind it, or that have none.
CountsMiss ==
  \A i \in DOMAIN replies : replies[i].type = "counts" =>
    /\ replies[i].ids \subseteq held[open]
    /\ \A f \in held[open] \ replies[i].ids :
         f \in Stored \/ f \in lost \/ AnnouncedBehind(replies, i, f)

CountsInv ==
  raced = {} =>
    /\ CountsMiss
    /\ init # "idle" => ~counting
    /\ init \in {"snap", "info"} => IsSnapshot(gathered.unclasses)
    /\ init = "idle" /\ ~counting =>
         \E U \in SUBSET Key : IsSnapshot(U) /\ unclasses = Cardinality(U)

\* The inductive invariant.
IndInv == ViewInv /\ CacheInv /\ CountsInv

-------------------------------------------------------------------------------
\* The channels: what Append and Tail do to the messages of a type.

LEMMA InToSet ==
  ASSUME NEW S, NEW q \in Seq(S)
  PROVE  /\ \A i \in DOMAIN q : q[i] \in ToSet(q) /\ q[i] \in S
         /\ \A m \in ToSet(q) : m \in S /\ \E i \in DOMAIN q : q[i] = m
         /\ DOMAIN q = 1 .. Len(q) /\ Len(q) \in Nat
<1>1. DOMAIN q = 1 .. Len(q) /\ Len(q) \in Nat /\ \A i \in 1 .. Len(q) : q[i] \in S
  BY LenProperties, ElementOfSeq
<1> QED BY <1>1 DEF ToSet

LEMMA Appended ==
  ASSUME NEW S, NEW q \in Seq(S), NEW m \in S
  PROVE  /\ Append(q, m) \in Seq(S)
         /\ DOMAIN Append(q, m) = 1 .. Len(q) + 1
         /\ \A i \in DOMAIN q : Append(q, m)[i] = q[i]
         /\ Append(q, m)[Len(q) + 1] = m
         /\ ToSet(Append(q, m)) = ToSet(q) \cup {m}
<1>1. /\ Append(q, m) \in Seq(S)
      /\ Len(Append(q, m)) = Len(q) + 1
      /\ \A i \in 1 .. Len(q) : Append(q, m)[i] = q[i]
      /\ Append(q, m)[Len(q) + 1] = m
  BY AppendProperties
<1>2. DOMAIN q = 1 .. Len(q) /\ Len(q) \in Nat
  BY LenProperties
<1>3. DOMAIN Append(q, m) = 1 .. Len(q) + 1
  BY <1>1, LenProperties
<1>4. 1 .. Len(q) + 1 = 1 .. Len(q) \cup {Len(q) + 1}
  BY <1>2
<1>5. ToSet(Append(q, m)) = {Append(q, m)[i] : i \in 1 .. Len(q) \cup {Len(q) + 1}}
  BY <1>3, <1>4 DEF ToSet
<1>6. ToSet(Append(q, m)) = {Append(q, m)[i] : i \in 1 .. Len(q)} \cup {m}
  BY <1>5, <1>1
<1>7. {Append(q, m)[i] : i \in 1 .. Len(q)} = ToSet(q)
  BY <1>1, <1>2 DEF ToSet
<1> QED BY <1>1, <1>2, <1>3, <1>6, <1>7

LEMMA Taken ==
  ASSUME NEW S, NEW q \in Seq(S), q # <<>>
  PROVE  /\ Head(q) \in S /\ Tail(q) \in Seq(S)
         /\ Head(q) = q[1] /\ 1 \in DOMAIN q
         /\ DOMAIN Tail(q) = 1 .. Len(q) - 1
         /\ \A i \in DOMAIN Tail(q) : i + 1 \in DOMAIN q /\ Tail(q)[i] = q[i + 1]
         /\ ToSet(q) = ToSet(Tail(q)) \cup {Head(q)}
<1>1. /\ Head(q) \in S /\ Tail(q) \in Seq(S) /\ Len(Tail(q)) = Len(q) - 1
      /\ \A i \in 1 .. Len(Tail(q)) : Tail(q)[i] = q[i + 1]
  BY HeadTailProperties
<1>2. DOMAIN q = 1 .. Len(q) /\ Len(q) \in Nat
  BY LenProperties
<1>3. Len(q) \in Nat \ {0}
  BY EmptySeq
<1>4. Head(q) = q[1]
  OBVIOUS
<1>5. DOMAIN Tail(q) = 1 .. Len(q) - 1
  BY <1>1, LenProperties
<1>6. \A i \in DOMAIN Tail(q) : i + 1 \in DOMAIN q /\ Tail(q)[i] = q[i + 1]
  BY <1>1, <1>2, <1>5
<1>7. \A i \in DOMAIN q : q[i] \in ToSet(Tail(q)) \cup {Head(q)}
  <2> TAKE i \in DOMAIN q
  <2>1. CASE i = 1
    BY <2>1, <1>4
  <2>2. CASE i # 1
    <3>1. i - 1 \in DOMAIN Tail(q) /\ (i - 1) + 1 = i
      BY <2>2, <1>2, <1>5
    <3> QED BY <3>1, <1>6 DEF ToSet
  <2> QED BY <2>1, <2>2
<1>8. \A i \in DOMAIN Tail(q) : Tail(q)[i] \in ToSet(q)
  BY <1>6 DEF ToSet
<1>9. 1 \in DOMAIN q
  BY <1>2, <1>3
<1>10. ToSet(q) \subseteq ToSet(Tail(q)) \cup {Head(q)}
  BY <1>7 DEF ToSet
<1>11. ToSet(Tail(q)) \subseteq ToSet(q)
  BY <1>8 DEF ToSet
<1>12. Head(q) \in ToSet(q)
  BY <1>4, <1>9 DEF ToSet
<1> QED BY <1>1, <1>4, <1>5, <1>6, <1>9, <1>10, <1>11, <1>12

LEMMA OfAppended ==
  ASSUME NEW S, NEW q \in Seq(S), NEW m \in S, NEW type
  PROVE  /\ Absent(Append(q, m), type) <=> Absent(q, type) /\ m.type # type
         /\ AtMostOne(q, type) /\ (m.type = type => Absent(q, type)) =>
              AtMostOne(Append(q, m), type)
         /\ Of(Append(q, m), type) =
              Of(q, type) \cup {f \in FileID : m.type = type /\ f \in m.ids}
<1> DEFINE r == Append(q, m)
<1>1. /\ DOMAIN r = 1 .. Len(q) + 1
      /\ \A i \in DOMAIN q : r[i] = q[i]
      /\ r[Len(q) + 1] = m
      /\ ToSet(r) = ToSet(q) \cup {m}
  BY Appended
<1>2. /\ \A i \in DOMAIN q : q[i] \in ToSet(q)
      /\ DOMAIN q = 1 .. Len(q) /\ Len(q) \in Nat
  BY InToSet
<1> HIDE DEF r
<1>3. Absent(r, type) <=> Absent(q, type) /\ m.type # type
  BY <1>1 DEF Absent
<1>4. ASSUME AtMostOne(q, type), m.type = type => Absent(q, type)
      PROVE  AtMostOne(r, type)
  <2> SUFFICES ASSUME NEW i \in DOMAIN r, NEW j \in DOMAIN r,
                      r[i].type = type, r[j].type = type
               PROVE  i = j
    BY DEF AtMostOne
  <2>1. CASE m.type = type
    <3>1. \A k \in DOMAIN q : r[k].type # type
      BY <2>1, <1>4, <1>1, <1>2 DEF Absent
    <3> QED BY <3>1, <1>1, <1>2
  <2>2. CASE m.type # type
    <3>1. i \in DOMAIN q /\ j \in DOMAIN q
      BY <2>2, <1>1, <1>2
    <3> QED BY <3>1, <1>1, <1>4 DEF AtMostOne
  <2> QED BY <2>1, <2>2
<1>5. Of(r, type) = Of(q, type) \cup {f \in FileID : m.type = type /\ f \in m.ids}
  BY <1>1 DEF Of
<1> QED BY <1>3, <1>4, <1>5 DEF r

LEMMA OfTaken ==
  ASSUME NEW S, NEW q \in Seq(S), q # <<>>, NEW type
  PROVE  /\ Absent(q, type) <=> Absent(Tail(q), type) /\ Head(q).type # type
         /\ AtMostOne(q, type) =>
              /\ AtMostOne(Tail(q), type)
              /\ Head(q).type = type => Absent(Tail(q), type)
         /\ Of(q, type) =
              Of(Tail(q), type) \cup {f \in FileID : Head(q).type = type /\ f \in Head(q).ids}
<1> DEFINE t == Tail(q)
           m == Head(q)
<1>1. /\ m = q[1] /\ 1 \in DOMAIN q /\ t \in Seq(S)
      /\ DOMAIN t = 1 .. Len(q) - 1
      /\ \A i \in DOMAIN t : i + 1 \in DOMAIN q /\ t[i] = q[i + 1]
      /\ ToSet(q) = ToSet(t) \cup {m}
  BY Taken
<1>2. Len(q) \in Nat
  BY LenProperties
<1> HIDE DEF t, m
<1>3. Absent(q, type) <=> Absent(t, type) /\ m.type # type
  BY <1>1 DEF Absent
<1>4. ASSUME AtMostOne(q, type)
      PROVE  /\ AtMostOne(t, type)
             /\ m.type = type => Absent(t, type)
  <2>1. AtMostOne(t, type)
    <3> SUFFICES ASSUME NEW i \in DOMAIN t, NEW j \in DOMAIN t,
                        t[i].type = type, t[j].type = type
                 PROVE  i = j
      BY DEF AtMostOne
    <3>1. i + 1 = j + 1
      BY <1>1, <1>4 DEF AtMostOne
    <3> QED BY <3>1, <1>1
  <2>2. ASSUME m.type = type, NEW i \in DOMAIN t, t[i].type = type
        PROVE  FALSE
    <3>1. 1 = i + 1
      BY <2>2, <1>1, <1>4 DEF AtMostOne
    <3> QED BY <3>1, <1>1
  <2>3. m.type = type => \A i \in DOMAIN t : t[i].type # type
    BY <2>2
  <2> QED BY <2>1, <2>3 DEF Absent, ToSet
<1>5. Of(q, type) = Of(t, type) \cup {f \in FileID : m.type = type /\ f \in m.ids}
  BY <1>1 DEF Of
<1> QED BY <1>3, <1>4, <1>5 DEF t, m
-------------------------------------------------------------------------------
\* The files of a set in ascending order.

Ascending(s) == \A i, j \in DOMAIN s : i < j => s[i] < s[j]

\* Such a list is there: a largest file goes behind the list of the others.
LEMMA ListExists ==
  \A n \in Nat : \A F \in SUBSET (0 .. n - 1) :
    \E s \in [1 .. Cardinality(F) -> F] : Ascending(s)
<1> DEFINE P == {n \in Nat : \A F \in SUBSET (0 .. n - 1) :
                   \E s \in [1 .. Cardinality(F) -> F] : Ascending(s)}
<1>1. 0 \in P
  <2>1. ASSUME NEW F \in SUBSET (0 .. 0 - 1)
        PROVE  \E s \in [1 .. Cardinality(F) -> F] : Ascending(s)
    <3>1. F = {} /\ Cardinality(F) = 0
      <4>1. F = {}
        OBVIOUS
      <4> QED BY <4>1, FS_EmptySet
    <3>2. [i \in 1 .. 0 |-> 0] \in [1 .. Cardinality(F) -> F]
      BY <3>1
    <3>3. Ascending([i \in 1 .. 0 |-> 0])
      BY DEF Ascending
    <3> QED BY <3>2, <3>3
  <2> QED BY <2>1
<1>2. ASSUME NEW n \in P PROVE n + 1 \in P
  <2> SUFFICES ASSUME NEW F \in SUBSET (0 .. n)
               PROVE  \E s \in [1 .. Cardinality(F) -> F] : Ascending(s)
    <3>1. n \in Nat /\ (n + 1) - 1 = n /\ n + 1 \in Nat
      OBVIOUS
    <3> QED BY <3>1
  <2>1. CASE n \notin F
    <3>1. F \in SUBSET (0 .. n - 1)
      BY <2>1
    <3> QED BY <3>1
  <2>2. CASE n \in F
    <3> DEFINE G == F \ {n}
    <3>1. G \in SUBSET (0 .. n - 1)
      OBVIOUS
    <3>2. PICK s \in [1 .. Cardinality(G) -> G] : Ascending(s)
      BY <3>1
    <3>3. IsFiniteSet(0 .. n)
      BY FS_Interval
    <3>4. IsFiniteSet(F)
      BY <3>3, FS_Subset
    <3>5. Cardinality(G) = Cardinality(F) - 1
      BY <3>4, <2>2, FS_RemoveElement
    <3>6. IsFiniteSet(G)
      BY <3>4, FS_Subset
    <3>7. Cardinality(G) \in Nat
      BY <3>6, FS_CardinalityType
    <3>8. Cardinality(F) \in Nat
      BY <3>4, FS_CardinalityType
    <3> DEFINE c == Cardinality(G)
               r == [i \in 1 .. Cardinality(F) |-> IF i \in 1 .. c THEN s[i] ELSE n]
    <3> HIDE DEF c, G
    <3>9. \A i \in 1 .. c : s[i] \in F /\ s[i] \in 0 .. n - 1
      BY <3>1, <3>2 DEF c, G
    <3>10. Cardinality(F) = c + 1 /\ c \in Nat
      BY <3>5, <3>7, <3>8 DEF c
    <3>11. r \in [1 .. Cardinality(F) -> F]
      BY <3>9, <2>2
    <3>12. Ascending(r)
      <4> SUFFICES ASSUME NEW i \in 1 .. c + 1, NEW j \in 1 .. c + 1, i < j
                   PROVE  r[i] < r[j]
        BY <3>10 DEF Ascending
      <4>1. i \in 1 .. c /\ r[i] = s[i]
        BY <3>10
      <4>2. CASE j \in 1 .. c
        <5>1. s[i] < s[j]
          BY <4>1, <4>2, <3>2 DEF Ascending, c
        <5> QED BY <5>1, <4>1, <4>2, <3>10
      <4>3. CASE j \notin 1 .. c
        <5>1. r[j] = n
          BY <4>3, <3>10
        <5> QED BY <5>1, <4>1, <3>9
      <4> QED BY <4>2, <4>3
    <3> QED BY <3>11, <3>12
  <2> QED BY <2>1, <2>2
<1>3. P = Nat
  <2> HIDE DEF P
  <2>1. P \in SUBSET Nat
    BY DEF P
  <2> QED BY <2>1, <1>1, <1>2, Induction
<1> QED BY <1>3

LEMMA Keys ==
  /\ Key = 0 .. MaxFile /\ MaxFile \in Nat
  /\ FileID \subseteq Key /\ Key \subseteq Nat
  /\ NoID \in Key /\ FileID = Key \ {NoID} /\ Hole \notin Key
  BY CacheAssumption DEF Key, FileID, NoID, Hole

LEMMA FilesAreFinite ==
  ASSUME NEW F \in SUBSET Key
  PROVE  IsFiniteSet(F) /\ Cardinality(F) \in Nat
<1>1. IsFiniteSet(Key)
  BY Keys, FS_Interval
<1>2. IsFiniteSet(F)
  BY <1>1, FS_Subset
<1> QED BY <1>2, FS_CardinalityType

\* The keys of an object are each file of the set once.
LEMMA ListedProperties ==
  ASSUME NEW F \in SUBSET Key
  PROVE  /\ Listed(F) \in Seq(F)
         /\ Len(Listed(F)) = Cardinality(F)
         /\ IsInjective(Listed(F))
         /\ ToSet(Listed(F)) = F
<1> DEFINE n == Cardinality(F)
           s == Listed(F)
<1>1. IsFiniteSet(F) /\ n \in Nat
  BY FilesAreFinite
<1>2. \E t \in [1 .. n -> F] : Ascending(t)
  <2>1. MaxFile + 1 \in Nat /\ F \in SUBSET (0 .. (MaxFile + 1) - 1)
    BY Keys
  <2> QED BY <2>1, ListExists
<1>3. s \in [1 .. n -> F] /\ Ascending(s)
  <2> DEFINE D == [1 .. n -> F]
  <2>1. s = CHOOSE t \in D : Ascending(t)
    BY DEF Listed, Ascending
  <2>2. PICK t \in D : Ascending(t)
    BY <1>2
  <2> HIDE DEF D, n, s
  <2>3. s \in D /\ Ascending(s)
    BY <2>1, <2>2
  <2> QED BY <2>3 DEF D
<1> HIDE DEF n, s
<1>4. \A i \in 1 .. n : s[i] \in Nat
  BY <1>3, Keys
<1>5. IsInjective(s)
  <2> SUFFICES ASSUME NEW i \in 1 .. n, NEW j \in 1 .. n, s[i] = s[j], i # j
               PROVE  FALSE
    BY <1>3 DEF IsInjective
  <2>1. i < j \/ j < i
    BY <1>1
  <2> QED BY <2>1, <1>3, <1>4 DEF Ascending
<1>6. s \in Injection(1 .. n, F)
  BY <1>3, <1>5 DEF Injection
<1>7. IsFiniteSet(1 .. n) /\ Cardinality(1 .. n) = n
  BY <1>1, FS_Interval
<1>8. s \in Surjection(1 .. n, F)
  BY <1>1, <1>6, <1>7, FS_Injection DEF n
<1>9. ToSet(s) = F
  BY <1>3, <1>8 DEF ToSet, Surjection
<1>10. s \in Seq(F) /\ Len(s) = n
  BY <1>1, <1>3
<1> QED BY <1>5, <1>9, <1>10 DEF n, s
-------------------------------------------------------------------------------
\* The view: what the mutations do to a list without repeats.

Item == Key \cup {Hole}

LEMMA ListedAreItems ==
  ASSUME NEW F \in SUBSET Key
  PROVE  Listed(F) \in Seq(Item)
<1>1. Listed(F) \in Seq(F) /\ F \subseteq Item
  BY ListedProperties DEF Item
<1> QED BY <1>1, SeqMonotonic

LEMMA DisplayType ==
  ASSUME NEW F \in SUBSET Key, NEW items \in Seq(Item)
  PROVE  Display(F, items) \in Seq(Item)
<1>1. Listed(F) \in Seq(Item) /\ Len(Listed(F)) \in Nat
  BY ListedAreItems, LenProperties
<1>2. Len(items) \in Nat /\ \A i \in Len(Listed(F)) + 1 .. Len(items) : items[i] \in Item
  BY <1>1, InToSet
<1>3. SubSeq(items, Len(Listed(F)) + 1, Len(items)) \in Seq(Item)
  BY <1>1, <1>2, SubSeqProperties
<1> QED BY <1>1, <1>3, ConcatProperties DEF Display

\* A list of files of F is not longer than that of F: nothing is left behind it.
LEMMA DisplayShows ==
  ASSUME NEW F \in SUBSET Key, NEW items \in Seq(Item),
         IsInjective(items), ToSet(items) \subseteq F
  PROVE  Display(F, items) = Listed(F)
<1> DEFINE all == Listed(F)
           n == Len(items)
<1>1. n \in Nat /\ DOMAIN items = 1 .. n /\ \A i \in 1 .. n : items[i] \in F
  BY InToSet
<1>2. items \in Injection(1 .. n, F)
  <2>1. items \in [1 .. n -> Item]
    BY LenProperties
  <2>2. items \in [1 .. n -> F]
    BY <1>1, <2>1
  <2> QED BY <2>2 DEF Injection
<1>3. Cardinality(1 .. n) = n
  BY <1>1, FS_Interval
<1>4. n <= Cardinality(F)
  BY <1>2, <1>3, FilesAreFinite, FS_Injection
<1>5. Len(all) = Cardinality(F) /\ Len(all) \in Nat /\ all \in Seq(Item)
  BY ListedProperties, FilesAreFinite, ListedAreItems
<1>6. SubSeq(items, Len(all) + 1, n) = <<>>
  <2> HIDE DEF all, n
  <2> QED BY <1>1, <1>4, <1>5, SubSeqEmpty
<1>7. all \o <<>> = all
  BY <1>5, ConcatEmptySeq
<1> QED BY <1>6, <1>7 DEF Display

LEMMA Removed ==
  ASSUME NEW S, NEW s \in Seq(S), NEW i \in DOMAIN s
  PROVE  /\ RemoveAt(s, i) \in Seq(S)
         /\ IsInjective(s) => /\ IsInjective(RemoveAt(s, i))
                              /\ ToSet(RemoveAt(s, i)) = ToSet(s) \ {s[i]}
<1> DEFINE n == Len(s)
           a == SubSeq(s, 1, i - 1)
           b == SubSeq(s, i + 1, n)
           r == RemoveAt(s, i)
<1>1. DOMAIN s = 1 .. n /\ n \in Nat /\ i \in 1 .. n /\ \A j \in 1 .. n : s[j] \in S
  BY InToSet
<1> HIDE DEF n
<1>2. a \in Seq(S) /\ Len(a) = i - 1 /\ \A j \in 1 .. i - 1 : a[j] = s[j]
  <2>1. \A j \in 1 .. i - 1 : s[j] \in S
    BY <1>1
  <2>2. /\ a \in Seq(S)
        /\ Len(a) = IF 1 <= i - 1 THEN (i - 1) - 1 + 1 ELSE 0
        /\ \A j \in 1 .. (i - 1) - 1 + 1 : a[j] = s[1 + j - 1]
    BY <1>1, <2>1, SubSeqProperties
  <2> HIDE DEF a
  <2>3. \A j \in 1 .. i - 1 : 1 + j - 1 = j /\ j \in 1 .. (i - 1) - 1 + 1
    BY <1>1
  <2>4. Len(a) = i - 1
    BY <1>1, <2>2
  <2> QED BY <2>2, <2>3, <2>4
<1>3. b \in Seq(S) /\ Len(b) = n - i /\ \A j \in 1 .. n - i : b[j] = s[i + j]
  <2>1. \A j \in i + 1 .. n : s[j] \in S
    BY <1>1
  <2>2. /\ b \in Seq(S)
        /\ Len(b) = IF i + 1 <= n THEN n - (i + 1) + 1 ELSE 0
        /\ \A j \in 1 .. n - (i + 1) + 1 : b[j] = s[(i + 1) + j - 1]
    BY <1>1, <2>1, SubSeqProperties
  <2> HIDE DEF b
  <2>3. \A j \in 1 .. n - i : (i + 1) + j - 1 = i + j /\ j \in 1 .. n - (i + 1) + 1
    BY <1>1
  <2>4. Len(b) = n - i
    BY <1>1, <2>2
  <2> QED BY <2>2, <2>3, <2>4
<1>4. r = a \o b
  BY DEF RemoveAt, n
<1> HIDE DEF a, b, r
<1>5. /\ r \in Seq(S)
      /\ Len(r) = n - 1
      /\ \A j \in 1 .. n - 1 : r[j] = IF j < i THEN s[j] ELSE s[j + 1]
  <2>1. /\ r \in Seq(S)
        /\ Len(r) = (i - 1) + (n - i)
        /\ \A j \in 1 .. (i - 1) + (n - i) :
             r[j] = IF j <= i - 1 THEN a[j] ELSE b[j - (i - 1)]
    BY <1>2, <1>3, <1>4, ConcatProperties
  <2>2. ASSUME NEW j \in 1 .. n - 1 PROVE r[j] = IF j < i THEN s[j] ELSE s[j + 1]
    <3>1. j \in 1 .. (i - 1) + (n - i)
      BY <1>1
    <3>2. CASE j < i
      <4>1. j \in 1 .. i - 1 /\ j <= i - 1
        BY <1>1, <3>2
      <4> QED BY <4>1, <3>1, <3>2, <2>1, <1>2
    <3>3. CASE ~(j < i)
      <4>1. j - (i - 1) \in 1 .. n - i /\ ~(j <= i - 1) /\ i + (j - (i - 1)) = j + 1
        BY <1>1, <3>3
      <4> QED BY <4>1, <3>1, <3>3, <2>1, <1>3
    <3> QED BY <3>2, <3>3
  <2> QED BY <2>1, <2>2, <1>1
<1>6. DOMAIN r = 1 .. n - 1
  BY <1>5, LenProperties
<1>7. ASSUME IsInjective(s) PROVE IsInjective(r) /\ ToSet(r) = ToSet(s) \ {s[i]}
  <2>1. \A j, k \in 1 .. n : s[j] = s[k] => j = k
    BY <1>7, <1>1 DEF IsInjective
  <2>2. IsInjective(r)
    BY <2>1, <1>1, <1>5, <1>6 DEF IsInjective
  <2>3. \A j \in 1 .. n - 1 : r[j] \in ToSet(s) /\ r[j] # s[i]
    <3> TAKE j \in 1 .. n - 1
    <3>1. PICK k \in 1 .. n : k # i /\ r[j] = s[k]
      BY <1>1, <1>5
    <3> QED BY <3>1, <2>1, <1>1 DEF ToSet
  <2>4. \A k \in 1 .. n : k # i => s[k] \in ToSet(r)
    <3> SUFFICES ASSUME NEW k \in 1 .. n, k # i PROVE s[k] \in ToSet(r)
      OBVIOUS
    <3>1. PICK j \in 1 .. n - 1 : j = IF k < i THEN k ELSE k - 1
      BY <1>1
    <3>2. r[j] = s[k]
      BY <3>1, <1>1, <1>5
    <3> QED BY <3>2, <1>6 DEF ToSet
  <2>5. ToSet(r) \subseteq ToSet(s) \ {s[i]}
    BY <2>3, <1>6 DEF ToSet
  <2>6. ToSet(s) \ {s[i]} \subseteq ToSet(r)
    <3> SUFFICES ASSUME NEW x \in ToSet(s), x # s[i] PROVE x \in ToSet(r)
      OBVIOUS
    <3>1. PICK k \in 1 .. n : x = s[k]
      BY <1>1 DEF ToSet
    <3> QED BY <3>1, <2>4
  <2> QED BY <2>2, <2>5, <2>6
<1> QED BY <1>5, <1>7 DEF r

LEMMA Joined ==
  ASSUME NEW S, NEW s \in Seq(S), NEW t \in Seq(S)
  PROVE  /\ s \o t \in Seq(S)
         /\ ToSet(s \o t) = ToSet(s) \cup ToSet(t)
         /\ IsInjective(s) /\ IsInjective(t) /\ ToSet(s) \cap ToSet(t) = {} =>
              IsInjective(s \o t)
<1> DEFINE r == s \o t
           m == Len(s)
           n == Len(t)
<1>1. /\ r \in Seq(S) /\ Len(r) = m + n
      /\ \A i \in 1 .. m + n : r[i] = IF i <= m THEN s[i] ELSE t[i - m]
  BY ConcatProperties
<1>2. DOMAIN s = 1 .. m /\ m \in Nat /\ DOMAIN t = 1 .. n /\ n \in Nat
  BY LenProperties
<1>3. DOMAIN r = 1 .. m + n
  BY <1>1, LenProperties
<1> HIDE DEF m, n, r
<1>4. \A i \in 1 .. m : i \in 1 .. m + n /\ r[i] = s[i]
  BY <1>1, <1>2
<1>5. \A i \in 1 .. n : m + i \in 1 .. m + n /\ r[m + i] = t[i]
  <2> TAKE i \in 1 .. n
  <2>1. m + i \in 1 .. m + n /\ ~(m + i <= m) /\ (m + i) - m = i
    BY <1>2
  <2> QED BY <2>1, <1>1
<1>6. \A i \in 1 .. m + n : \/ i \in 1 .. m
                            \/ i - m \in 1 .. n /\ r[i] = t[i - m]
  BY <1>1, <1>2
<1>7. ToSet(r) \subseteq ToSet(s) \cup ToSet(t)
  BY <1>2, <1>3, <1>4, <1>6 DEF ToSet
<1>8. ToSet(s) \cup ToSet(t) \subseteq ToSet(r)
  <2>1. \A i \in 1 .. m : s[i] \in ToSet(r)
    BY <1>3, <1>4 DEF ToSet
  <2>2. \A i \in 1 .. n : t[i] \in ToSet(r)
    BY <1>3, <1>5 DEF ToSet
  <2>3. ToSet(s) \subseteq ToSet(r)
    BY <2>1, <1>2 DEF ToSet
  <2>4. ToSet(t) \subseteq ToSet(r)
    BY <2>2, <1>2 DEF ToSet
  <2> QED BY <2>3, <2>4
<1>9. ASSUME IsInjective(s), IsInjective(t), ToSet(s) \cap ToSet(t) = {}
      PROVE  IsInjective(r)
  <2>1. \A i \in 1 .. m, j \in 1 .. n : s[i] # t[j]
    BY <1>9, <1>2 DEF ToSet
  <2> SUFFICES ASSUME NEW i \in 1 .. m + n, NEW j \in 1 .. m + n, r[i] = r[j]
               PROVE  i = j
    BY <1>3 DEF IsInjective
  <2>2. CASE i \in 1 .. m /\ j \in 1 .. m
    BY <2>2, <1>2, <1>4, <1>9 DEF IsInjective
  <2>3. CASE i \in 1 .. m /\ j \notin 1 .. m
    BY <2>1, <2>3, <1>4, <1>6
  <2>4. CASE i \notin 1 .. m /\ j \in 1 .. m
    BY <2>1, <2>4, <1>4, <1>6
  <2>5. CASE i \notin 1 .. m /\ j \notin 1 .. m
    <3>1. i - m \in 1 .. n /\ j - m \in 1 .. n /\ t[i - m] = t[j - m]
      BY <2>5, <1>6
    <3>2. i - m = j - m
      BY <3>1, <1>2, <1>9 DEF IsInjective
    <3> QED BY <3>2, <1>2
  <2> QED BY <2>2, <2>3, <2>4, <2>5
<1> QED BY <1>1, <1>7, <1>8, <1>9 DEF r
-------------------------------------------------------------------------------
\* What the steps do to the channels and to the sets the invariant is stated with.

LEMMA RequestSent ==
  ASSUME Types, NEW type \in RequestType, NEW l \in Library \cup {None},
         NEW F \in SUBSET Key, Send(type, l, F), type = "reinit" => l \in Library
  PROVE  /\ requests' \in Seq(Request)
         /\ ToSet(requests') = ToSet(requests) \cup {Message(type, l, F)}
         /\ \A m \in ToSet(requests') : m.type = "reinit" => m.library \in Library
         /\ Removing' = Removing \cup {f \in F \ {NoID} : type = "remove"}
         /\ \A t : /\ Absent(requests', t) <=> Absent(requests, t) /\ type # t
                   /\ AtMostOne(requests, t) /\ (type = t => Absent(requests, t)) =>
                        AtMostOne(requests', t)
<1> DEFINE m == Message(type, l, F)
<1>1. m \in Request /\ m.type = type /\ m.ids = F /\ m.library = l
  BY DEF Message, Request
<1>2. requests \in Seq(Request) /\ requests' = Append(requests, m)
  BY DEF Types, Send
<1> HIDE DEF m
<1>3. requests' \in Seq(Request) /\ ToSet(requests') = ToSet(requests) \cup {m}
  BY <1>1, <1>2, Appended
<1>4. Removing' = Removing \cup {f \in F \ {NoID} : type = "remove"}
  <2>1. Of(requests', "remove") =
          Of(requests, "remove") \cup {f \in FileID : m.type = "remove" /\ f \in m.ids}
    BY <1>1, <1>2, OfAppended
  <2> QED BY <1>1, <2>1, Keys DEF Removing
<1>5. \A t : /\ Absent(requests', t) <=> Absent(requests, t) /\ type # t
             /\ AtMostOne(requests, t) /\ (type = t => Absent(requests, t)) =>
                  AtMostOne(requests', t)
  BY <1>1, <1>2, OfAppended
<1>6. \A n \in ToSet(requests') : n.type = "reinit" => n.library \in Library
  BY <1>1, <1>3 DEF Types
<1> QED BY <1>3, <1>4, <1>5, <1>6 DEF m

LEMMA ReplyTaken ==
  ASSUME Types, replies # <<>>, replies' = Tail(replies)
  PROVE  /\ replies' \in Seq(Answered)
         /\ Head(replies) \in Answered
         /\ ToSet(replies) = ToSet(replies') \cup {Head(replies)}
         /\ Of(replies, "images") =
              Of(replies', "images")
                \cup {f \in Head(replies).ids \ {NoID} : Head(replies).type = "images"}
         /\ \A t : /\ Absent(replies, t) <=> Absent(replies', t) /\ Head(replies).type # t
                   /\ AtMostOne(replies, t) =>
                        /\ AtMostOne(replies', t)
                        /\ Head(replies).type = t => Absent(replies', t)
<1>1. replies \in Seq(Answered)
  BY DEF Types
<1>2. /\ replies' \in Seq(Answered) /\ Head(replies) \in Answered
      /\ ToSet(replies) = ToSet(replies') \cup {Head(replies)}
  BY <1>1, Taken
<1>3. \A t : /\ Absent(replies, t) <=> Absent(replies', t) /\ Head(replies).type # t
             /\ AtMostOne(replies, t) =>
                  /\ AtMostOne(replies', t)
                  /\ Head(replies).type = t => Absent(replies', t)
             /\ Of(replies, t) =
                  Of(replies', t) \cup {f \in FileID : Head(replies).type = t /\ f \in Head(replies).ids}
  BY <1>1, OfTaken
<1>4. Head(replies).ids \subseteq Key
  BY <1>2 DEF Answered
<1> QED BY <1>2, <1>3, <1>4, Keys

\* The worker answers a request with the files F.
Asked(type, F) ==
  /\ requests # <<>> /\ Head(requests).type = type
  /\ requests' = Tail(requests)
  /\ replies' = Append(replies, Message(type, open', F))
  /\ raced' \in {raced, raced \cup {"query"}}
  /\ type = "query" \/ raced' = raced
  /\ UNCHANGED <<lastID, unread, view, actions, lost>>

\* The worker removes the files of a request.
Erased ==
  /\ requests # <<>> /\ Head(requests).type = "remove"
  /\ requests' = Tail(requests)
  /\ held' = [held EXCEPT ![open] = @ \ Head(requests).ids]
  /\ UNCHANGED <<open, replies, lastID, unread, view, actions, history>>

LEMMA HandleCases ==
  ASSUME Types, Handle
  PROVE  \/ \E type \in {"counts", "snap"} : Asked(type, held[open]) /\ UNCHANGED <<open, held>>
         \/ Asked("info", Head(requests).ids \cap held[open]) /\ UNCHANGED <<open, held>>
         \/ \E F \in SUBSET held[open] :
              /\ Asked("query", F) /\ UNCHANGED <<open, held>>
              /\ "query" \notin raced' => F \cap (lost \ Known) = {}
         \/ Erased
         \/ Asked("reinit", {}) /\ open' = Head(requests).library /\ UNCHANGED held
<1>1. ASSUME NEW F \in SUBSET held[open], Overlaps("query", F \cap (lost \ Known) # {})
      PROVE  /\ raced' \in {raced, raced \cup {"query"}}
             /\ "query" \notin raced' => F \cap (lost \ Known) = {}
  <2>1. raced' = raced \cup {x \in {"query"} : F \cap (lost \ Known) # {}}
    BY <1>1 DEF Overlaps
  <2>2. CASE F \cap (lost \ Known) = {}
    BY <2>1, <2>2
  <2>3. CASE F \cap (lost \ Known) # {}
    BY <2>1, <2>3
  <2> QED BY <2>2, <2>3
<1>2. ASSUME UNCHANGED raced
      PROVE  raced' \in {raced, raced \cup {"query"}}
  BY <1>2
<1>3. CASE Head(requests).type \in {"counts", "snap"}
  BY <1>2, <1>3 DEF Handle, Asked
<1>4. CASE Head(requests).type = "info"
  BY <1>2, <1>4 DEF Handle, Asked
<1>5. CASE Head(requests).type = "query"
  <2>1. PICK F \in SUBSET held[open] :
          /\ replies' = Append(replies, Message("query", open', F))
          /\ Overlaps("query", F \cap (lost \ Known) # {})
    BY <1>5 DEF Handle
  <2> QED BY <1>1, <1>5, <2>1 DEF Handle, Asked
<1>6. CASE Head(requests).type = "remove"
  BY <1>6 DEF Handle, Erased, history
<1>7. CASE Head(requests).type = "reinit"
  BY <1>2, <1>7 DEF Handle, Asked
<1> QED BY <1>3, <1>4, <1>5, <1>6, <1>7 DEF Handle

LEMMA RequestTaken ==
  ASSUME Types, requests # <<>>, requests' = Tail(requests)
  PROVE  /\ requests' \in Seq(Request)
         /\ Head(requests) \in Request
         /\ ToSet(requests) = ToSet(requests') \cup {Head(requests)}
         /\ Removing = Removing' \cup {f \in Head(requests).ids \ {NoID} : Head(requests).type = "remove"}
         /\ \A t : /\ Absent(requests, t) <=> Absent(requests', t) /\ Head(requests).type # t
                   /\ AtMostOne(requests, t) =>
                        /\ AtMostOne(requests', t)
                        /\ Head(requests).type = t => Absent(requests', t)
<1>1. requests \in Seq(Request)
  BY DEF Types
<1>2. /\ requests' \in Seq(Request) /\ Head(requests) \in Request
      /\ ToSet(requests) = ToSet(requests') \cup {Head(requests)}
  BY <1>1, Taken
<1>3. \A t : /\ Absent(requests, t) <=> Absent(requests', t) /\ Head(requests).type # t
             /\ AtMostOne(requests, t) =>
                  /\ AtMostOne(requests', t)
                  /\ Head(requests).type = t => Absent(requests', t)
             /\ Of(requests, t) =
                  Of(requests', t) \cup {f \in FileID : Head(requests).type = t /\ f \in Head(requests).ids}
  BY <1>1, OfTaken
<1>4. Head(requests).ids \subseteq Key
  BY <1>2 DEF Request
<1> QED BY <1>2, <1>3, <1>4, Keys DEF Removing

LEMMA ReplySent ==
  ASSUME Types, NEW type \in Reply, NEW l \in Library, NEW F \in SUBSET Key,
         replies' = Append(replies, Message(type, l, F))
  PROVE  /\ replies' \in Seq(Answered)
         /\ ToSet(replies') = ToSet(replies) \cup {Message(type, l, F)}
         /\ Message(type, l, F).type = type
         /\ Message(type, l, F).library = l
         /\ Message(type, l, F).ids = F
         /\ Of(replies', "images") =
              Of(replies, "images") \cup {f \in F \ {NoID} : type = "images"}
         /\ \A t : /\ Absent(replies', t) <=> Absent(replies, t) /\ type # t
                   /\ AtMostOne(replies, t) /\ (type = t => Absent(replies, t)) =>
                        AtMostOne(replies', t)
<1> DEFINE m == Message(type, l, F)
<1>1. m \in Answered /\ m.type = type /\ m.ids = F /\ m.library = l
  BY DEF Message, Answered
<1>2. replies \in Seq(Answered) /\ replies' = Append(replies, m)
  BY DEF Types
<1> HIDE DEF m
<1>3. replies' \in Seq(Answered) /\ ToSet(replies') = ToSet(replies) \cup {m}
  BY <1>1, <1>2, Appended
<1>4. \A t : /\ Absent(replies', t) <=> Absent(replies, t) /\ type # t
             /\ AtMostOne(replies, t) /\ (type = t => Absent(replies, t)) =>
                  AtMostOne(replies', t)
             /\ Of(replies', t) =
                  Of(replies, t) \cup {f \in FileID : m.type = t /\ f \in m.ids}
  BY <1>1, <1>2, OfAppended
<1> QED BY <1>1, <1>3, <1>4, Keys DEF m

LEMMA StoreEffect ==
  ASSUME Types, Store
  PROVE  \E n \in FileID :
           /\ n = lastID[open] + 1 /\ n \notin 1 .. lastID[open] /\ n \notin held[open]
           /\ held' = [held EXCEPT ![open] = held[open] \cup {n}]
           /\ lastID' = [lastID EXCEPT ![open] = n]
           /\ unread' = unread \cup {<<open, n>>}
           /\ Stored' = Stored \cup {n} /\ Pending' = Pending \cup {n}
           /\ Coming' = Coming \cup {n}
<1> DEFINE n == lastID[open] + 1
<1>1. open \in Library /\ lastID[open] \in 0 .. MaxFile /\ lastID[open] < MaxFile
  BY DEF Types, TypeOK, Store
<1>2. n \in FileID /\ n \notin 1 .. lastID[open] /\ n \notin held[open]
  BY <1>1, CacheAssumption DEF FileID, Types
<1>3. lastID' = [lastID EXCEPT ![open] = n] /\ lastID'[open] = n
  BY <1>1 DEF Store, Types, TypeOK
<1>4. /\ held' = [held EXCEPT ![open] = held[open] \cup {n}]
      /\ unread' = unread \cup {<<open, n>>}
      /\ UNCHANGED <<replies, lost>>
  BY <1>3 DEF Store, channels
<1> HIDE DEF n
<1>5. Stored' = Stored \cup {n}
  <2>1. <<open, n>>[2] = n
    OBVIOUS
  <2>2. \A f : (\E u \in unread' : u[2] = f) <=> (\E u \in unread : u[2] = f) \/ f = n
    BY <1>4, <2>1
  <2> QED BY <1>2, <2>2 DEF Stored
<1>6. Pending' = Pending \cup {n} /\ Coming' = Coming \cup {n}
  BY <1>4, <1>5 DEF Coming, Pending
<1> QED BY <1>2, <1>3, <1>4, <1>5, <1>6 DEF n

LEMMA AnnounceEffect ==
  ASSUME Types, Announce
  PROVE  \E l \in Library, f \in FileID :
           /\ <<l, f>> \in unread /\ unread' = unread \ {<<l, f>>}
           /\ replies' = Append(replies, Message("images", l, {f}))
           /\ Stored \subseteq Stored' \cup {f}
           /\ Pending' = Pending /\ Coming' = Coming
<1>1. PICK u \in unread : /\ unread' = unread \ {u}
                          /\ replies' = Append(replies, Message("images", u[1], {u[2]}))
  BY DEF Announce
<1>2. PICK l \in Library, f \in FileID : u = <<l, f>>
  <2>1. u \in Library \X FileID
    BY DEF Types, TypeOK
  <2> QED BY <2>1
<1>3. replies' = Append(replies, Message("images", l, {f}))
  BY <1>1, <1>2
<1>4. Of(replies', "images") = Of(replies, "images") \cup {f}
  <2>1. "images" \in Reply /\ {f} \in SUBSET Key /\ f # NoID
    BY Keys DEF Reply
  <2>2. Of(replies', "images") =
          Of(replies, "images") \cup {g \in {f} \ {NoID} : "images" = "images"}
    BY <1>3, <2>1, ReplySent
  <2> QED BY <2>1, <2>2
<1>5. f \in Stored
  BY <1>2 DEF Stored
<1>6. Stored \subseteq Stored' \cup {f}
  BY <1>1, <1>2 DEF Stored
<1>7. Stored' \subseteq Stored
  BY <1>1 DEF Stored
<1>8. Pending' = Pending
  BY <1>4, <1>5, <1>6, <1>7 DEF Pending
<1>9. Coming' = Coming
  BY <1>8 DEF Coming, Announce, history
<1> QED BY <1>1, <1>2, <1>3, <1>6, <1>8, <1>9

\* A file whose reading comes to no end is not announced.
LEMMA AbandonEffect ==
  ASSUME Types, Abandon
  PROVE  /\ unread' \subseteq unread /\ lost' \subseteq FileID /\ lost \subseteq lost'
         /\ unread # {}
         /\ Stored \subseteq Stored' \cup lost'
         /\ Pending' \subseteq Pending /\ Coming' = Coming
<1>1. PICK u \in unread : unread' = unread \ {u} /\ lost' = lost \cup {u[2]}
  BY DEF Abandon
<1>2. PICK l \in Library, f \in FileID : u = <<l, f>>
  <2>1. u \in Library \X FileID
    BY DEF Types, TypeOK
  <2> QED BY <2>1
<1>3. lost' = lost \cup {f} /\ lost \subseteq FileID /\ f \in Stored
  BY <1>1, <1>2 DEF Types, TypeOK, Stored
<1>4. Stored \subseteq Stored' \cup {f} /\ Stored' \subseteq Stored
  BY <1>1, <1>2 DEF Stored
<1>5. replies' = replies
  BY DEF Abandon, channels
<1>6. Pending' \subseteq Pending /\ Coming' = Coming
  BY <1>3, <1>4, <1>5 DEF Pending, Coming
<1> QED BY <1>1, <1>3, <1>4, <1>6

\* A file that could not be read is announced without an id.
LEMMA MisreadEffect ==
  ASSUME Types, Misread
  PROVE  /\ replies' = Append(replies, Message("images", open, {NoID}))
         /\ Message("images", open, {NoID}) \in Answered
         /\ Message("images", open, {NoID}).type = "images"
         /\ Message("images", open, {NoID}).library = open
         /\ replies' \in Seq(Answered)
         /\ ToSet(replies') = ToSet(replies) \cup {Message("images", open, {NoID})}
         /\ \A t : /\ Absent(replies', t) <=> Absent(replies, t) /\ "images" # t
                   /\ AtMostOne(replies, t) /\ ("images" = t => Absent(replies, t)) =>
                        AtMostOne(replies', t)
         /\ Stored' = Stored /\ Pending' = Pending /\ Coming' = Coming
<1>1. /\ replies' = Append(replies, Message("images", open, {NoID}))
      /\ unread' = unread /\ lost' = lost
  BY DEF Misread, worker, history
<1>2. "images" \in Reply /\ {NoID} \in SUBSET Key /\ open \in Library
  BY Keys DEF Reply, Types, TypeOK
<1>3. /\ replies' \in Seq(Answered)
      /\ ToSet(replies') = ToSet(replies) \cup {Message("images", open, {NoID})}
      /\ Of(replies', "images") =
           Of(replies, "images") \cup {f \in {NoID} \ {NoID} : "images" = "images"}
      /\ \A t : /\ Absent(replies', t) <=> Absent(replies, t) /\ "images" # t
                /\ AtMostOne(replies, t) /\ ("images" = t => Absent(replies, t)) =>
                     AtMostOne(replies', t)
  BY <1>1, <1>2, ReplySent
<1>4. Stored' = Stored /\ Of(replies', "images") = Of(replies, "images")
  BY <1>1, <1>3 DEF Stored
<1>5. Pending' = Pending /\ Coming' = Coming
  BY <1>1, <1>4 DEF Pending, Coming
<1>6. /\ Message("images", open, {NoID}) \in Answered
      /\ Message("images", open, {NoID}).type = "images"
      /\ Message("images", open, {NoID}).library = open
  BY <1>2 DEF Message, Answered
<1> QED BY <1>1, <1>3, <1>4, <1>5, <1>6
-------------------------------------------------------------------------------
\* Types.

LEMMA InitTypes == ASSUME Init PROVE Types
<1>1. \A q, S : q = <<>> => ToSet(q) = {} /\ q \in Seq(S)
  BY EmptySeq DEF ToSet
<1>2. /\ ToSet(requests) = {}
      /\ requests \in Seq(Request) /\ replies \in Seq(Answered)
      /\ viewItems \in Seq(Key \cup {Hole})
  BY <1>1 DEF Init
<1>3. 1 .. Before \subseteq FileID /\ Before \in 0 .. MaxFile
  BY CacheAssumption DEF FileID
<1>4. TypeOK
  <2>1. /\ held \in [Library -> SUBSET FileID]
        /\ lastID \in [Library -> 0 .. MaxFile]
        /\ files \in [Key -> Library \cup {None}]
    BY <1>3 DEF Init
  <2>2. init \in InitStage /\ raced \subseteq Race /\ lost \subseteq FileID /\ unread \subseteq Library \X FileID
    BY DEF Init, InitStage, Race
  <2>3. /\ open \in Library /\ allCount \in Int /\ unclasses \in Nat
        /\ showing \in {"all", "result"}
    BY DEF Init
  <2>4. counting = FALSE /\ querying = FALSE
    BY DEF Init
  <2>5. counting \in BOOLEAN /\ querying \in BOOLEAN
    BY <2>4
  <2> QED BY <1>2, <2>1, <2>2, <2>3, <2>5 DEF TypeOK
<1>5. \A l \in Library : held[l] \subseteq 1 .. lastID[l]
  BY DEF Init
<1> QED BY <1>2, <1>4, <1>5 DEF Types, Init

LEMMA HandleTypes == ASSUME Types, Handle PROVE Types'
<1>1. ASSUME NEW type \in Reply, NEW F \in SUBSET Key, Asked(type, F),
             open' \in Library, UNCHANGED held
      PROVE  Types'
  <2>1. requests' \in Seq(Request) /\ \A m \in ToSet(requests') : m \in ToSet(requests)
    BY <1>1, RequestTaken DEF Asked
  <2>2. replies' \in Seq(Answered)
    BY <1>1, ReplySent DEF Asked
  <2>3. raced' \subseteq Race
    BY <1>1 DEF Types, TypeOK, Asked, Race
  <2>4. TypeOK'
    BY <1>1, <2>3 DEF Types, TypeOK, Asked, view, actions
  <2> QED BY <1>1, <2>1, <2>2, <2>4 DEF Types, Asked, actions
<1>2. open \in Library /\ held[open] \in SUBSET Key
  BY Keys DEF Types, TypeOK
<1>3. ASSUME NEW type \in {"counts", "snap"}, Asked(type, held[open]), UNCHANGED <<open, held>>
      PROVE  Types'
  BY <1>1, <1>2, <1>3 DEF Reply
<1>4. CASE Asked("info", Head(requests).ids \cap held[open]) /\ UNCHANGED <<open, held>>
  BY <1>1, <1>2, <1>4 DEF Reply
<1>5. ASSUME NEW F \in SUBSET held[open], Asked("query", F), UNCHANGED <<open, held>>
      PROVE  Types'
  BY <1>1, <1>2, <1>5 DEF Reply
<1>6. CASE Erased
  <2>1. requests' \in Seq(Request) /\ \A m \in ToSet(requests') : m \in ToSet(requests)
    BY <1>6, RequestTaken DEF Erased
  <2>2. /\ held' \in [Library -> SUBSET FileID]
        /\ \A l \in Library : held'[l] \subseteq held[l]
    BY <1>2, <1>6 DEF Erased, Types, TypeOK
  <2>3. TypeOK'
    BY <1>6, <2>2 DEF Types, TypeOK, Erased, view, actions, history
  <2> QED BY <1>6, <2>1, <2>2, <2>3 DEF Types, Erased, actions
<1>7. CASE Asked("reinit", {}) /\ open' = Head(requests).library /\ UNCHANGED held
  <2>1. Head(requests) \in ToSet(requests) /\ Head(requests).type = "reinit"
    BY <1>7, RequestTaken DEF Asked
  <2>2. open' \in Library
    BY <1>7, <2>1 DEF Types
  <2> QED BY <1>1, <1>7, <2>2 DEF Reply
<1> QED BY <1>3, <1>4, <1>5, <1>6, <1>7, HandleCases

LEMMA RemoveFilesTypes ==
  ASSUME Types, NEW f \in Key, RemoveFiles(f)
  PROVE  Types'
<1>1. /\ viewItems' \in Seq(Key \cup {Hole}) /\ allCount' \in Int
      /\ requests' \in Seq(Request)
      /\ \A m \in ToSet(requests') : m.type = "reinit" => m.library \in Library
  <2>1. PICK i \in DOMAIN viewItems :
          \/ UNCHANGED <<viewItems, allCount, requests>>
          \/ /\ viewItems' = RemoveAt(viewItems, i)
             /\ allCount' = allCount - 1
             /\ Send("remove", None, {f})
    BY DEF RemoveFiles
  <2>2. CASE UNCHANGED <<viewItems, allCount, requests>>
    BY <2>2 DEF Types, TypeOK
  <2>3. CASE /\ viewItems' = RemoveAt(viewItems, i)
             /\ allCount' = allCount - 1
             /\ Send("remove", None, {f})
    <3>1. viewItems' \in Seq(Key \cup {Hole})
      BY <2>3, Removed DEF Types, TypeOK
    <3>2. "remove" \in RequestType /\ {f} \in SUBSET Key
      BY DEF RequestType
    <3>3. /\ requests' \in Seq(Request)
          /\ \A m \in ToSet(requests') : m.type = "reinit" => m.library \in Library
      BY <2>3, <3>2, RequestSent
    <3> QED BY <2>3, <3>1, <3>3 DEF Types, TypeOK
  <2> QED BY <2>1, <2>2, <2>3
<1>2. files' \in [Key -> Library \cup {None}] /\ raced' \subseteq Race
  BY DEF RemoveFiles, Types, TypeOK, Race
<1>3. TypeOK'
  BY <1>1, <1>2 DEF RemoveFiles, Types, TypeOK, worker, actions
<1> QED BY <1>1, <1>3 DEF RemoveFiles, Types, worker, actions

LEMMA CountIsNat ==
  ASSUME NEW F \in SUBSET Key
  PROVE  Cardinality(F) \in Nat
  BY FilesAreFinite

LEMMA DeliverTypes == ASSUME Types, Deliver PROVE Types'
<1> DEFINE msg == Head(replies)
<1>1. /\ replies # <<>> /\ replies' = Tail(replies) /\ UNCHANGED worker
      /\ OnInit(msg) \/ OnCounts(msg) \/ OnQuery(msg) \/ OnImages(msg)
  BY DEF Deliver
<1>2. replies' \in Seq(Answered) /\ msg \in Answered
  BY <1>1, ReplyTaken
<1> HIDE DEF msg
<1>3. /\ msg.type \in Reply /\ msg.library \in Library /\ msg.ids \in SUBSET Key
      /\ Cardinality(msg.ids) \in Nat
  BY <1>2, CountIsNat DEF Answered
<1>4. /\ gathered.unclasses \in SUBSET Key /\ gathered.filesSnap \in SUBSET Key
      /\ Cardinality(gathered.unclasses) \in Nat /\ Cardinality(gathered.filesSnap) \in Nat
      /\ Known \in SUBSET Key /\ viewItems \in Seq(Item)
  <2>1. /\ gathered.unclasses \in SUBSET Key /\ gathered.filesSnap \in SUBSET Key
        /\ Known \in SUBSET Key /\ viewItems \in Seq(Item)
    BY DEF Types, TypeOK, Known, Item
  <2> QED BY <2>1, CountIsNat
<1> DEFINE Sent == /\ requests' \in Seq(Request)
                   /\ \A m \in ToSet(requests') : m.type = "reinit" => m.library \in Library
           Shown == /\ files' \in [Key -> Library \cup {None}]
                    /\ viewItems' \in Seq(Item)
                    /\ allCount' \in Int /\ unclasses' \in Nat
                    /\ showing' \in {"all", "result"}
           Stages == /\ init' \in InitStage
                     /\ counting' \in BOOLEAN /\ querying' \in BOOLEAN
                     /\ raced' \subseteq Race /\ lost' = lost
                     /\ gathered' \in [unclasses : SUBSET Key, filesSnap : SUBSET Key]
<1>5. ASSUME Sent, Shown, Stages PROVE Types'
  <2>1. TypeOK'
    BY <1>1, <1>5 DEF Types, TypeOK, worker, Item
  <2> QED BY <1>1, <1>2, <1>5, <2>1 DEF Types, worker
<1>6. requests' = requests => Sent
  BY DEF Types
<1>7. UNCHANGED view => Shown
  BY DEF Types, TypeOK, view, Item
<1>8. ASSUME NEW type \in {"counts", "snap", "info"}, NEW F \in SUBSET Key, Send(type, None, F)
      PROVE  Sent
  BY <1>8, RequestSent DEF RequestType
<1>9. CASE OnInit(msg)
  <2>1. Stages
    <3>1. /\ init' \in {"counts", "snap", "info", "idle"}
          /\ gathered' \in [unclasses : SUBSET Key, filesSnap : SUBSET Key]
      BY <1>9, <1>3 DEF OnInit, Types
    <3>2. counting' \in BOOLEAN
      BY <1>9 DEF OnInit
    <3> QED BY <1>9, <3>1, <3>2 DEF OnInit, Types, TypeOK, InitStage, history
  <2>2. CASE init = "reinit"
    BY <1>5, <1>7, <1>8, <1>9, <2>1, <2>2 DEF OnInit
  <2>3. CASE init = "counts"
    <3>1. Shown
      BY <1>9, <2>3, <1>3 DEF OnInit, Types, TypeOK, Item
    <3>2. Sent
      BY <1>8, <1>9, <2>3 DEF OnInit
    <3> QED BY <1>5, <2>1, <3>1, <3>2
  <2>4. CASE init = "snap"
    <3>1. UNCHANGED view /\ Send("info", None, msg.ids)
      BY <1>9, <2>4 DEF OnInit
    <3>2. Sent
      BY <1>3, <1>8, <3>1
    <3> QED BY <1>5, <1>7, <2>1, <3>1, <3>2
  <2>5. CASE init = "info"
    <3>1. CommitInit(msg) /\ requests' = requests
      BY <1>9, <2>5 DEF OnInit
    <3>2. Known \cup msg.ids \in SUBSET Key
      BY <1>3, <1>4
    <3>3. viewItems' \in Seq(Item)
      BY <1>4, <3>1, <3>2, DisplayType DEF CommitInit
    <3>4. Shown
      BY <1>3, <1>4, <3>1, <3>3 DEF CommitInit, Types, TypeOK
    <3> QED BY <1>5, <1>6, <2>1, <3>1, <3>4
  <2> QED BY <1>9, <2>2, <2>3, <2>4, <2>5 DEF OnInit
<1>10. CASE OnCounts(msg)
  BY <1>10, <1>3, <1>5, <1>6 DEF OnCounts, Types, TypeOK, Item, history
<1>11. CASE OnQuery(msg)
  <2>1. Stages /\ Sent
    BY <1>6, <1>11 DEF OnQuery, Types, TypeOK, history
  <2>2. viewItems' \in Seq(Item)
    <3> DEFINE n == Len(Listed(msg.ids))
               e(i) == IF Listed(msg.ids)[i] \in Known THEN Listed(msg.ids)[i] ELSE Hole
    <3>1. DOMAIN Listed(msg.ids) = 1 .. n /\ n \in Nat
      BY <1>3, ListedProperties, LenProperties
    <3>2. viewItems' = [i \in 1 .. n |-> e(i)]
      BY <1>11, <3>1 DEF OnQuery
    <3>3. \A i \in 1 .. n : e(i) \in Item
      BY <1>4 DEF Item
    <3> HIDE DEF n
    <3> QED BY <3>1, <3>2, <3>3
  <2>3. Shown
    BY <1>11, <2>2 DEF OnQuery, Types, TypeOK
  <2> QED BY <1>5, <2>1, <2>3
<1>12. CASE OnImages(msg)
  <2>1. Stages
    BY <1>12 DEF OnImages, Overlaps, Types, TypeOK, Race
  <2>2. Sent
    BY <1>8, <1>12 DEF OnImages
  <2> DEFINE new == msg.ids \ Known
  <2>3. /\ files' = [f \in Key |-> IF f \in new THEN msg.library ELSE files[f]]
        /\ viewItems' = viewItems \o Listed(new)
        /\ allCount' = allCount + Cardinality(new)
    BY <1>12 DEF OnImages, AddFiles
  <2>4. new \in SUBSET Key /\ Cardinality(new) \in Nat /\ Listed(new) \in Seq(Item)
    BY <1>3, CountIsNat, ListedAreItems
  <2> HIDE DEF new
  <2>5. viewItems' \in Seq(Item)
    BY <1>4, <2>3, <2>4, Joined
  <2>6. Shown
    BY <1>3, <1>12, <2>3, <2>4, <2>5 DEF OnImages, Types, TypeOK
  <2> QED BY <1>5, <2>1, <2>2, <2>6
<1> QED BY <1>1, <1>9, <1>10, <1>11, <1>12

LEMMA NextTypes == ASSUME Types, [Next]_vars PROVE Types'
<1>1. CASE Store
  <2>1. PICK n \in FileID :
          /\ n = lastID[open] + 1
          /\ held' = [held EXCEPT ![open] = held[open] \cup {n}]
          /\ lastID' = [lastID EXCEPT ![open] = n]
          /\ unread' = unread \cup {<<open, n>>}
    BY <1>1, StoreEffect
  <2>2. FileID = 1 .. MaxFile /\ FileID \subseteq 0 .. MaxFile
    BY CacheAssumption DEF FileID
  <2>3. TypeOK'
    <3>1. lastID' \in [Library -> 0 .. MaxFile] /\ held' \in [Library -> SUBSET FileID]
      BY <2>1, <2>2 DEF Types, TypeOK
    <3>2. <<open, n>> \in Library \X FileID
      BY <2>1 DEF Types, TypeOK
    <3>3. unread' \subseteq Library \X FileID
      BY <2>1, <3>2 DEF Types, TypeOK
    <3>4. raced' \subseteq Race
      BY <1>1 DEF Store, Race, Types, TypeOK
    <3> QED BY <1>1, <3>1, <3>3, <3>4 DEF Store, Types, TypeOK, channels, view, actions
  <2>4. \A l \in Library : held'[l] \subseteq 1 .. lastID'[l]
    <3> TAKE l \in Library
    <3>1. CASE l = open
      <4>1. held'[l] = held[l] \cup {n} /\ lastID'[l] = n
        BY <2>1, <3>1 DEF Types, TypeOK
      <4>2. held[l] \subseteq 1 .. lastID[l] /\ lastID[l] \in Nat
        BY DEF Types, TypeOK
      <4> QED BY <4>1, <4>2, <2>1, <3>1
    <3>2. CASE l # open
      BY <2>1, <3>2 DEF Types, TypeOK
    <3> QED BY <3>1, <3>2
  <2> QED BY <1>1, <2>3, <2>4 DEF Store, Types, channels, actions
<1>2. CASE Announce
  <2>1. PICK l \in Library, f \in FileID :
          /\ unread' = unread \ {<<l, f>>}
          /\ replies' = Append(replies, Message("images", l, {f}))
    BY <1>2, AnnounceEffect
  <2>2. "images" \in Reply /\ {f} \in SUBSET Key
    BY Keys DEF Reply
  <2>3. replies' \in Seq(Answered)
    BY <2>1, <2>2, ReplySent
  <2>4. TypeOK'
    BY <1>2, <2>1 DEF Announce, Types, TypeOK, view, actions, history
  <2> QED BY <1>2, <2>3, <2>4 DEF Announce, Types, actions
<1>3. CASE Handle
  BY <1>3, HandleTypes
<1>4. ASSUME NEW type \in {"counts", "query", "reinit"}, NEW l \in Library \cup {None},
             type = "reinit" => l \in Library, Send(type, l, {}),
             init' \in InitStage, querying' \in BOOLEAN, raced' \subseteq Race,
             UNCHANGED <<worker, replies, view, gathered, counting>>, lost' \subseteq FileID
      PROVE  Types'
  <2>1. /\ requests' \in Seq(Request)
        /\ \A m \in ToSet(requests') : m.type = "reinit" => m.library \in Library
    BY <1>4, RequestSent DEF RequestType
  <2>2. TypeOK'
    BY <1>4 DEF Types, TypeOK, worker, view
  <2> QED BY <1>4, <2>1, <2>2 DEF Types, worker
<1>5. CASE Mounted
  BY <1>4, <1>5 DEF Mounted, Types, TypeOK, InitStage, history
<1>6. ASSUME NEW l \in Library, Switch(l) PROVE Types'
  BY <1>4, <1>6 DEF Switch, Overlaps, Types, TypeOK, InitStage, Race
<1>7. CASE Query
  BY <1>4, <1>7 DEF Query, Overlaps, Types, TypeOK, Race
<1>8. CASE ShowAll
  <2>1. Known \in SUBSET Key /\ viewItems \in Seq(Item)
    BY DEF Types, TypeOK, Known, Item
  <2>2. viewItems' \in Seq(Key \cup {Hole})
    BY <1>8, <2>1, DisplayType DEF ShowAll, Item
  <2>3. TypeOK'
    BY <1>8, <2>2 DEF ShowAll, Types, TypeOK, worker, actions, history
  <2> QED BY <1>8, <2>3 DEF ShowAll, Types, worker, channels, actions
<1>9. ASSUME NEW f \in Key, RemoveFiles(f) PROVE Types'
  BY <1>9, RemoveFilesTypes
<1>10. CASE Deliver
  BY <1>10, DeliverTypes
<1>11. CASE UNCHANGED vars
  BY <1>11 DEF vars, worker, channels, view, actions, history, Types, TypeOK
<1>12. CASE Abandon
  <2>1. unread' \subseteq Library \X FileID /\ lost' \subseteq FileID
    BY <1>12, AbandonEffect DEF Types, TypeOK
  <2>2. TypeOK'
    BY <1>12, <2>1 DEF Abandon, Types, TypeOK, view, actions
  <2> QED BY <1>12, <2>2 DEF Abandon, Types, channels, actions
<1>13. CASE Misread
  <2>1. replies' \in Seq(Answered)
    BY <1>13, MisreadEffect
  <2>2. TypeOK'
    BY <1>13 DEF Misread, Types, TypeOK, worker, view, actions, history
  <2> QED BY <1>13, <2>1, <2>2 DEF Misread, Types, worker, actions
<1> QED BY <1>1, <1>2, <1>3, <1>5, <1>6, <1>7, <1>8, <1>9, <1>10, <1>11, <1>12, <1>13 DEF Next
-------------------------------------------------------------------------------
\* Questions.

LEMMA InitQuestions == ASSUME Init PROVE Questions
<1>1. requests = <<>> /\ replies = <<>> /\ DOMAIN requests = {} /\ DOMAIN replies = {}
  BY DEF Init
<1>2. ToSet(requests) = {} /\ ToSet(replies) = {}
  BY <1>1 DEF ToSet
<1> QED BY <1>1, <1>2 DEF Questions, AtMostOne, Absent

\* The worker's answer takes the place of the question.
LEMMA HandleQuestions == ASSUME Types, Questions, Handle PROVE Questions'
<1>1. ASSUME NEW type \in {"counts", "snap", "info", "query", "reinit"}, NEW F \in SUBSET Key,
             Asked(type, F), open' \in Library, open' = open \/ type = "reinit"
      PROVE  Questions'
  <2>1. /\ requests # <<>> /\ Head(requests).type = type /\ requests' = Tail(requests)
        /\ replies' = Append(replies, Message(type, open', F))
        /\ UNCHANGED <<init, querying>>
    BY <1>1 DEF Asked, actions
  <2>2. \A t : /\ Absent(requests, t) <=> Absent(requests', t) /\ type # t
               /\ AtMostOne(requests, t) =>
                    /\ AtMostOne(requests', t)
                    /\ type = t => Absent(requests', t)
    BY <2>1, RequestTaken
  <2>3. /\ ToSet(replies') = ToSet(replies) \cup {Message(type, open', F)}
        /\ Message(type, open', F).type = type
        /\ Message(type, open', F).library = open'
        /\ \A t : /\ Absent(replies', t) <=> Absent(replies, t) /\ type # t
                  /\ AtMostOne(replies, t) /\ (type = t => Absent(replies, t)) =>
                       AtMostOne(replies', t)
    BY <1>1, <2>1, ReplySent DEF Reply
  <2>4. ASSUME NEW t \in {"reinit", "snap", "info", "query"}
        PROVE  /\ AtMostOne(requests', t) /\ AtMostOne(replies', t)
               /\ Absent(requests', t) \/ Absent(replies', t)
    <3>1. AtMostOne(requests, t) /\ AtMostOne(replies, t)
      BY DEF Questions
    <3>2. Absent(requests, t) \/ Absent(replies, t)
      BY DEF Questions
    <3> QED BY <2>2, <2>3, <3>1, <3>2
  <2>5. ASSUME NEW t \in {"reinit", "snap", "info"}, init # t
        PROVE  Absent(requests', t) /\ Absent(replies', t)
    <3>1. Absent(requests, t) /\ Absent(replies, t)
      BY <2>5 DEF Questions
    <3> QED BY <2>2, <2>3, <3>1
  <2>6. ~querying => Absent(requests', "query") /\ Absent(replies', "query")
    BY <2>2, <2>3 DEF Questions
  <2>7. \A m \in ToSet(replies') : m.type = "info" => m.library = open'
    <3>1. CASE open' = open
      BY <2>3, <3>1 DEF Questions
    <3>2. CASE type = "reinit"
      <4>1. ~Absent(requests, "reinit")
        BY <2>2, <3>2
      <4>2. init = "reinit"
        BY <4>1 DEF Questions
      <4>3. Absent(replies, "info")
        BY <4>2 DEF Questions
      <4> QED BY <2>3, <3>2, <4>3 DEF Absent
    <3> QED BY <1>1, <3>1, <3>2
  <2> QED BY <2>1, <2>4, <2>5, <2>6, <2>7 DEF Questions
<1>2. open \in Library /\ held[open] \in SUBSET Key
  BY Keys DEF Types, TypeOK
<1>3. ASSUME NEW type \in {"counts", "snap"}, Asked(type, held[open]), UNCHANGED <<open, held>>
      PROVE  Questions'
  BY <1>1, <1>2, <1>3
<1>4. CASE Asked("info", Head(requests).ids \cap held[open]) /\ UNCHANGED <<open, held>>
  BY <1>1, <1>2, <1>4
<1>5. ASSUME NEW F \in SUBSET held[open], Asked("query", F), UNCHANGED <<open, held>>
      PROVE  Questions'
  BY <1>1, <1>2, <1>5
<1>6. CASE Erased
  <2>1. /\ requests # <<>> /\ requests' = Tail(requests)
        /\ UNCHANGED <<init, querying, replies, open>>
    BY <1>6 DEF Erased, actions
  <2>2. \A t : /\ Absent(requests, t) => Absent(requests', t)
               /\ AtMostOne(requests, t) => AtMostOne(requests', t)
    BY <2>1, RequestTaken
  <2> QED BY <2>1, <2>2 DEF Questions
<1>7. CASE Asked("reinit", {}) /\ open' = Head(requests).library /\ UNCHANGED held
  <2>1. Head(requests) \in ToSet(requests) /\ Head(requests).type = "reinit"
    BY <1>7, RequestTaken DEF Asked
  <2>2. open' \in Library
    BY <1>7, <2>1 DEF Types
  <2> QED BY <1>1, <1>7, <2>2
<1> QED BY <1>3, <1>4, <1>5, <1>6, <1>7, HandleCases

\* A request is a new question of init or query, or is none.
LEMMA SentQuestions ==
  ASSUME Types, Questions, NEW type \in RequestType, NEW l \in Library \cup {None},
         NEW F \in SUBSET Key, Send(type, l, F), type = "reinit" => l \in Library,
         UNCHANGED open,
         ToSet(replies') \subseteq ToSet(replies),
         \A t : Absent(replies, t) => Absent(replies', t),
         \A t : AtMostOne(replies, t) => AtMostOne(replies', t),
         type = "query" => querying' /\ ~querying,
         querying => querying',
         type \in {"reinit", "snap", "info"} => init' = type,
         \A t \in {"reinit", "snap", "info"} : init' # init =>
            Absent(requests, t) /\ Absent(replies', t)
  PROVE  \/ Questions'
         \/ type \in {"reinit", "snap", "info"} /\ init' = init
<1> SUFFICES ASSUME type \in {"reinit", "snap", "info"} => init' # init
             PROVE  Questions'
  OBVIOUS
<1>1. \A t : /\ Absent(requests', t) <=> Absent(requests, t) /\ type # t
             /\ AtMostOne(requests, t) /\ (type = t => Absent(requests, t)) =>
                  AtMostOne(requests', t)
  BY RequestSent
<1>2. ASSUME NEW t \in {"reinit", "snap", "info"}
      PROVE  /\ AtMostOne(requests', t) /\ AtMostOne(replies', t)
             /\ Absent(requests', t) \/ Absent(replies', t)
             /\ init' # t => Absent(requests', t) /\ Absent(replies', t)
  <2>1. /\ AtMostOne(requests, t) /\ AtMostOne(replies, t)
        /\ Absent(requests, t) \/ Absent(replies, t)
        /\ init # t => Absent(requests, t) /\ Absent(replies, t)
    BY DEF Questions
  <2>2. CASE init' = init
    BY <1>1, <2>1, <2>2
  <2>3. CASE init' # init
    BY <1>1, <2>1, <2>3
  <2> QED BY <2>2, <2>3
<1>3. /\ AtMostOne(requests', "query") /\ AtMostOne(replies', "query")
      /\ Absent(requests', "query") \/ Absent(replies', "query")
      /\ ~querying' => Absent(requests', "query") /\ Absent(replies', "query")
  <2>1. /\ AtMostOne(requests, "query") /\ AtMostOne(replies, "query")
        /\ Absent(requests, "query") \/ Absent(replies, "query")
        /\ ~querying => Absent(requests, "query") /\ Absent(replies, "query")
    BY DEF Questions
  <2> QED BY <1>1, <2>1
<1>4. \A m \in ToSet(replies') : m.type = "info" => m.library = open'
  BY DEF Questions
<1> QED BY <1>2, <1>3, <1>4 DEF Questions

LEMMA DeliverQuestions == ASSUME Types, Questions, Deliver PROVE Questions'
<1> DEFINE msg == Head(replies)
<1>1. /\ replies # <<>> /\ replies' = Tail(replies) /\ UNCHANGED worker
      /\ OnInit(msg) \/ OnCounts(msg) \/ OnQuery(msg) \/ OnImages(msg)
  BY DEF Deliver
<1>2. /\ replies' \in Seq(Answered) /\ msg \in Answered
      /\ ToSet(replies') \subseteq ToSet(replies)
      /\ \A t : /\ Absent(replies, t) <=> Absent(replies', t) /\ msg.type # t
                /\ AtMostOne(replies, t) =>
                     /\ AtMostOne(replies', t)
                     /\ msg.type = t => Absent(replies', t)
  BY <1>1, ReplyTaken
<1> HIDE DEF msg
<1>3. open' = open
  BY <1>1 DEF worker
<1>4. msg.ids \in SUBSET Key
  BY <1>2 DEF Answered
<1>5. ASSUME requests' = requests, querying' = querying, init' = init PROVE Questions'
  BY <1>2, <1>3, <1>5 DEF Questions
<1>6. CASE OnInit(msg)
  <2>1. msg.type = init /\ querying' = querying
    BY <1>6 DEF OnInit
  <2>2. \A t \in {"reinit", "snap", "info"} : Absent(requests, t) /\ Absent(replies', t)
    <3> TAKE t \in {"reinit", "snap", "info"}
    <3>1. CASE t = init
      BY <1>2, <2>1, <3>1 DEF Questions
    <3>2. CASE t # init
      BY <1>2, <3>2 DEF Questions
    <3> QED BY <3>1, <3>2
  <2>3. ASSUME NEW type \in {"counts", "snap", "info"}, NEW F \in SUBSET Key,
               Send(type, None, F), init' = type, init # type
        PROVE  Questions'
    <3>1. type \in RequestType /\ type # "reinit" /\ type # "query"
      BY DEF RequestType
    <3> QED BY <1>2, <1>3, <2>1, <2>2, <2>3, <3>1, SentQuestions
  <2>4. CASE init = "reinit"
    BY <1>6, <2>3, <2>4 DEF OnInit
  <2>5. CASE init = "counts"
    BY <1>6, <2>3, <2>5 DEF OnInit
  <2>6. CASE init = "snap"
    BY <1>4, <1>6, <2>3, <2>6 DEF OnInit
  <2>7. CASE init = "info"
    <3>1. requests' = requests
      BY <1>6, <2>7 DEF OnInit
    <3> QED BY <1>2, <1>3, <2>1, <2>2, <3>1 DEF Questions
  <2> QED BY <1>6, <2>4, <2>5, <2>6, <2>7 DEF OnInit
<1>7. CASE OnCounts(msg)
  BY <1>5, <1>7 DEF OnCounts
<1>8. CASE OnQuery(msg)
  <2>1. msg.type = "query" /\ requests' = requests /\ init' = init
    BY <1>8 DEF OnQuery
  <2>2. Absent(requests, "query") /\ Absent(replies', "query")
    BY <1>2, <2>1 DEF Questions
  <2> QED BY <1>2, <1>3, <2>1, <2>2 DEF Questions
<1>9. CASE OnImages(msg)
  <2>1. Send("counts", None, {}) /\ UNCHANGED <<init, querying>>
    BY <1>9 DEF OnImages
  <2>2. "counts" \in RequestType /\ {} \in SUBSET Key
    BY DEF RequestType
  <2> QED BY <1>2, <1>3, <2>1, <2>2, SentQuestions
<1> QED BY <1>1, <1>6, <1>7, <1>8, <1>9

LEMMA NextQuestions == ASSUME Types, Questions, [Next]_vars PROVE Questions'
<1>1. ASSUME UNCHANGED <<requests, replies, open, init, querying>> PROVE Questions'
  BY <1>1 DEF Questions
<1>2. CASE Store
  BY <1>1, <1>2 DEF Store, channels, actions
<1>3. CASE Announce
  <2>1. PICK l \in Library, F \in SUBSET Key :
          replies' = Append(replies, Message("images", l, F))
    <3>1. \A f \in FileID : {f} \in SUBSET Key
      BY Keys
    <3> QED BY <1>3, <3>1, AnnounceEffect
  <2>2. "images" \in Reply
    BY DEF Reply
  <2>3. /\ ToSet(replies') = ToSet(replies) \cup {Message("images", l, F)}
        /\ Message("images", l, F).type = "images"
        /\ \A t : /\ Absent(replies', t) <=> Absent(replies, t) /\ "images" # t
                  /\ AtMostOne(replies, t) /\ ("images" = t => Absent(replies, t)) =>
                       AtMostOne(replies', t)
    BY <2>1, <2>2, ReplySent
  <2>4. UNCHANGED <<requests, open, init, querying>>
    BY <1>3 DEF Announce, actions
  <2> QED BY <2>3, <2>4 DEF Questions
<1>4. CASE Handle
  BY <1>4, HandleQuestions
<1>5. CASE Mounted
  <2>1. /\ "counts" \in RequestType /\ {} \in SUBSET Key
        /\ Send("counts", None, {}) /\ UNCHANGED <<replies, open, querying>>
        /\ \A t \in {"reinit", "snap", "info"} : init # t
    BY <1>5 DEF Mounted, RequestType, worker
  <2>2. \A t \in {"reinit", "snap", "info"} : Absent(requests, t) /\ Absent(replies', t)
    BY <2>1 DEF Questions
  <2> QED BY <2>1, <2>2, SentQuestions
<1>6. ASSUME NEW l \in Library, Switch(l) PROVE Questions'
  <2>1. /\ "reinit" \in RequestType /\ {} \in SUBSET Key
        /\ Send("reinit", l, {}) /\ UNCHANGED <<replies, open, querying>>
        /\ init = "idle" /\ init' = "reinit"
    BY <1>6 DEF Switch, Settled, RequestType, worker
  <2>2. \A t \in {"reinit", "snap", "info"} : Absent(requests, t) /\ Absent(replies', t)
    BY <2>1 DEF Questions
  <2> QED BY <2>1, <2>2, SentQuestions
<1>7. CASE Query
  <2>1. /\ "query" \in RequestType /\ {} \in SUBSET Key
        /\ Send("query", None, {}) /\ UNCHANGED <<replies, open, init>>
        /\ ~querying /\ querying'
    BY <1>7 DEF Query, RequestType, worker
  <2> QED BY <2>1, SentQuestions
<1>8. CASE ShowAll
  BY <1>1, <1>8 DEF ShowAll, worker, channels, actions
<1>9. ASSUME NEW f \in Key, RemoveFiles(f) PROVE Questions'
  <2>1. UNCHANGED <<replies, open, init, querying>>
    BY <1>9 DEF RemoveFiles, worker, actions
  <2>2. requests' = requests \/ Send("remove", None, {f})
    BY <1>9 DEF RemoveFiles
  <2>3. "remove" \in RequestType /\ {f} \in SUBSET Key
    BY DEF RequestType
  <2>4. ASSUME Send("remove", None, {f}) PROVE Questions'
    BY <2>1, <2>3, <2>4, SentQuestions
  <2> QED BY <1>1, <2>1, <2>2, <2>4
<1>10. CASE Deliver
  BY <1>10, DeliverQuestions
<1>11. CASE UNCHANGED vars
  BY <1>1, <1>11 DEF vars, worker, channels, actions
<1>12. CASE Abandon
  BY <1>1, <1>12 DEF Abandon, channels, actions
<1>13. CASE Misread
  <2>1. /\ ToSet(replies') = ToSet(replies) \cup {Message("images", open, {NoID})}
        /\ Message("images", open, {NoID}).type = "images"
        /\ \A t : /\ Absent(replies', t) <=> Absent(replies, t) /\ "images" # t
                  /\ AtMostOne(replies, t) /\ ("images" = t => Absent(replies, t)) =>
                       AtMostOne(replies', t)
    BY <1>13, MisreadEffect
  <2>2. UNCHANGED <<requests, open, init, querying>>
    BY <1>13 DEF Misread, worker, actions
  <2> QED BY <2>1, <2>2 DEF Questions
<1> QED BY <1>2, <1>3, <1>4, <1>5, <1>6, <1>7, <1>8, <1>9, <1>10, <1>11, <1>12, <1>13 DEF Next
-------------------------------------------------------------------------------
\* AnswersCover.

\* The files the cache has, is about to have, or has had removed.
Mirrored == Known \cup Removing \cup Coming

LEMMA InitAnswersCover == ASSUME Init PROVE AnswersCover
<1>1. ToSet(requests) = {} /\ ToSet(replies) = {}
  BY DEF Init, ToSet
<1> QED BY <1>1 DEF Init, AnswersCover

LEMMA CoverFrame ==
  ASSUME AnswersCover,
         "query" \in raced => "query" \in raced',
         init' = "idle" => init = "idle",
         \A m \in ToSet(replies') : m.type \in {"snap", "info"} => m \in ToSet(replies),
         \A m \in ToSet(requests') : m.type = "info" => m \in ToSet(requests),
         \A f \in held'[open'] : f \in Mirrored' \/ f \in held[open] \ Mirrored
  PROVE  AnswersCover'
  BY DEF AnswersCover, Covers, Mirrored

\* A view without holes is cut at the file, which the worker is told to remove.
LEMMA RemoveFilesEffect ==
  ASSUME Types, ViewIsOfCache, "query" \notin raced, NEW f \in Key, RemoveFiles(f)
  PROVE  /\ f \in Known /\ Known' = Known \ ({f} \ {NoID})
         /\ Send("remove", None, {f}) /\ Removing' = Removing \cup ({f} \ {NoID})
         /\ ToSet(viewItems') = ToSet(viewItems) \ {f} /\ IsInjective(viewItems')
         /\ allCount' = allCount - 1
         /\ \A t : Absent(requests', t) <=> Absent(requests, t) /\ "remove" # t
<1>1. PICK i \in DOMAIN viewItems :
        /\ viewItems[i] = f
        /\ \/ \E j \in 1 .. i - 1 : viewItems[j] = Hole
           \/ /\ viewItems' = RemoveAt(viewItems, i)
              /\ allCount' = allCount - 1
              /\ Send("remove", None, {f})
  BY DEF RemoveFiles
<1>2. viewItems \in Seq(Item)
  BY DEF Types, TypeOK, Item
<1>3. IsInjective(viewItems) /\ ToSet(viewItems) \subseteq Known
  BY DEF ViewIsOfCache
<1>4. \A j \in 1 .. i - 1 : viewItems[j] # Hole
  <2> SUFFICES ASSUME NEW j \in 1 .. i - 1, viewItems[j] = Hole PROVE FALSE
    OBVIOUS
  <2>1. DOMAIN viewItems = 1 .. Len(viewItems) /\ Len(viewItems) \in Nat
    BY <1>2, LenProperties
  <2>2. j \in DOMAIN viewItems
    BY <2>1
  <2>3. Hole \in Known
    BY <1>3, <2>2 DEF ToSet
  <2> QED BY <2>3, Keys DEF Known
<1>5. /\ viewItems' = RemoveAt(viewItems, i)
      /\ allCount' = allCount - 1
      /\ Send("remove", None, {f})
  BY <1>1, <1>4
<1>6. f \in Known
  BY <1>1, <1>3 DEF ToSet
<1>7. Known' = Known \ ({f} \ {NoID})
  BY DEF RemoveFiles, Known, Types, TypeOK
<1>8. ToSet(viewItems') = ToSet(viewItems) \ {f} /\ IsInjective(viewItems')
  BY <1>1, <1>2, <1>3, <1>5, Removed
<1>9. /\ Removing' = Removing \cup ({f} \ {NoID})
      /\ \A t : Absent(requests', t) <=> Absent(requests, t) /\ "remove" # t
  <2>1. "remove" \in RequestType /\ "remove" # "reinit"
    BY DEF RequestType
  <2>2. PICK F \in SUBSET Key : F = {f}
    OBVIOUS
  <2>3. /\ Removing' = Removing \cup {g \in F \ {NoID} : "remove" = "remove"}
        /\ \A t : Absent(requests', t) <=> Absent(requests, t) /\ "remove" # t
    BY <1>5, <2>1, <2>2, RequestSent
  <2> QED BY <2>2, <2>3
<1> QED BY <1>5, <1>6, <1>7, <1>8, <1>9

LEMMA HandleCover == ASSUME Types, Questions, AnswersCover, Handle PROVE AnswersCover'
<1>1. ASSUME NEW type \in {"counts", "snap", "info", "query", "reinit"}, NEW F \in SUBSET Key,
             Asked(type, F), open' \in Library
      PROVE  /\ UNCHANGED <<init, Known, Stored, Removing, Coming>> /\ raced \subseteq raced'
             /\ ToSet(requests) = ToSet(requests') \cup {Head(requests)}
             /\ Head(requests).type = type
             /\ ToSet(replies') = ToSet(replies) \cup {Message(type, open', F)}
             /\ Message(type, open', F).type = type /\ Message(type, open', F).ids = F
  <2>1. /\ requests # <<>> /\ Head(requests).type = type /\ requests' = Tail(requests)
        /\ replies' = Append(replies, Message(type, open', F))
        /\ UNCHANGED <<init, unread, files, lost>> /\ raced \subseteq raced'
    BY <1>1 DEF Asked, actions, view
  <2>2. ToSet(requests) = ToSet(requests') \cup {Head(requests)} /\ Removing' = Removing
    <3>1. Removing = Removing' \cup {f \in Head(requests).ids \ {NoID} : Head(requests).type = "remove"}
      BY <2>1, RequestTaken
    <3>2. ToSet(requests) = ToSet(requests') \cup {Head(requests)}
      BY <2>1, RequestTaken
    <3> QED BY <2>1, <3>1, <3>2
  <2>3. type \in Reply /\ type # "images"
    BY DEF Reply
  <2>4. /\ ToSet(replies') = ToSet(replies) \cup {Message(type, open', F)}
        /\ Message(type, open', F).type = type /\ Message(type, open', F).ids = F
        /\ Of(replies', "images") = Of(replies, "images") \cup {f \in F \ {NoID} : type = "images"}
    BY <1>1, <2>1, <2>3, ReplySent
  <2>5. Known' = Known /\ Stored' = Stored
    BY <2>1 DEF Known, Stored
  <2>6. Coming' = Coming
    BY <2>1, <2>3, <2>4, <2>5 DEF Coming, Pending
  <2> QED BY <2>1, <2>2, <2>4, <2>5, <2>6
<1>2. open \in Library /\ held[open] \in SUBSET Key
  BY Keys DEF Types, TypeOK
<1>3. ASSUME NEW type \in {"counts", "snap"}, Asked(type, held[open]), UNCHANGED <<open, held>>
      PROVE  AnswersCover'
  BY <1>1, <1>2, <1>3 DEF AnswersCover, Covers
<1>4. CASE Asked("info", Head(requests).ids \cap held[open]) /\ UNCHANGED <<open, held>>
  <2>1. Head(requests) \in ToSet(requests) /\ Head(requests).type = "info"
    BY <1>4, RequestTaken DEF Asked
  <2>2. "query" \notin raced => Covers(Head(requests).ids)
    BY <2>1 DEF AnswersCover
  <2>3. PICK F \in SUBSET Key : F = Head(requests).ids \cap held[open]
    BY <1>2
  <2>4. "query" \notin raced => Covers(F)
    BY <2>2, <2>3 DEF Covers
  <2> QED BY <1>1, <1>2, <1>4, <2>3, <2>4 DEF AnswersCover, Covers
<1>5. ASSUME NEW F \in SUBSET held[open], Asked("query", F), UNCHANGED <<open, held>>
      PROVE  AnswersCover'
  BY <1>1, <1>2, <1>5 DEF AnswersCover, Covers
<1>6. CASE Erased
  <2>1. /\ requests # <<>> /\ Head(requests).type = "remove" /\ requests' = Tail(requests)
        /\ held' = [held EXCEPT ![open] = held[open] \ Head(requests).ids]
        /\ UNCHANGED <<open, replies, unread, files, init, history>>
    BY <1>6 DEF Erased, view, actions
  <2>2. ToSet(requests') \subseteq ToSet(requests)
    BY <2>1, RequestTaken
  <2>3. Removing = Removing' \cup {f \in Head(requests).ids \ {NoID} : Head(requests).type = "remove"}
    BY <2>1, RequestTaken
  <2>4. held'[open'] = held[open] \ Head(requests).ids
    BY <2>1 DEF Types, TypeOK
  <2>5. Known' = Known /\ Coming' = Coming
    BY <2>1 DEF Known, Coming, Pending, Stored, history
  <2>6. held[open] \subseteq FileID /\ NoID \notin FileID
    BY Keys DEF Types, TypeOK
  <2> QED BY <2>1, <2>2, <2>3, <2>4, <2>5, <2>6, CoverFrame DEF Mirrored, history
<1>7. CASE Asked("reinit", {}) /\ open' = Head(requests).library /\ UNCHANGED held
  <2>1. Head(requests) \in ToSet(requests) /\ Head(requests).type = "reinit"
    BY <1>7, RequestTaken DEF Asked
  <2>2. open' \in Library
    BY <1>7, <2>1 DEF Types
  <2>3. init = "reinit"
    BY <2>1 DEF Questions, Absent
  <2>4. Absent(requests, "info") /\ Absent(replies, "info") /\ Absent(replies, "snap")
    BY <2>3 DEF Questions
  <2> QED BY <1>1, <1>7, <2>2, <2>3, <2>4 DEF AnswersCover, Absent
<1> QED BY <1>3, <1>4, <1>5, <1>6, <1>7, HandleCases

LEMMA CommitEffect ==
  ASSUME Types, NEW msg \in Answered, CommitInit(msg)
  PROVE  Known' = Known \cup msg.ids
<1>1. msg.library \in Library /\ msg.library # None /\ msg.ids \subseteq Key
  BY CacheAssumption DEF Answered
<1> QED BY <1>1 DEF CommitInit, Known

LEMMA AddFilesEffect ==
  ASSUME Types, NEW msg \in Answered, AddFiles(msg)
  PROVE  Known' = Known \cup msg.ids
<1>1. msg.library \in Library /\ msg.library # None /\ msg.ids \subseteq Key
  BY CacheAssumption DEF Answered
<1> QED BY <1>1 DEF AddFiles, Known

LEMMA SendKeeps ==
  ASSUME Types, NEW type \in RequestType \ {"remove", "info"}, NEW l \in Library \cup {None},
         NEW F \in SUBSET Key, Send(type, l, F), type = "reinit" => l \in Library
  PROVE  /\ Removing' = Removing
         /\ \A m \in ToSet(requests') : m.type = type \/ m \in ToSet(requests)
<1>1. /\ Removing' = Removing \cup {f \in F \ {NoID} : type = "remove"}
      /\ ToSet(requests') = ToSet(requests) \cup {Message(type, l, F)}
  BY RequestSent
<1> QED BY <1>1 DEF Message

\* What the step Deliver does before the handlers.
LEMMA DeliverEffect ==
  ASSUME Types, Deliver
  PROVE  \E msg \in Answered :
           /\ msg = Head(replies) /\ replies # <<>> /\ replies' = Tail(replies)
           /\ ToSet(replies) = ToSet(replies') \cup {msg}
           /\ Of(replies, "images") =
                Of(replies', "images") \cup {f \in msg.ids \ {NoID} : msg.type = "images"}
           /\ Stored' = Stored /\ lost' = lost
           /\ msg.type # "images" => Pending' = Pending /\ Coming' = Coming
           /\ Coming \subseteq Coming' \cup msg.ids /\ Coming' \subseteq Coming
           /\ Pending' \subseteq Pending
           /\ msg.type \in Reply /\ msg.library \in Library /\ msg.ids \in SUBSET Key
           /\ UNCHANGED worker
           /\ OnInit(msg) \/ OnCounts(msg) \/ OnQuery(msg) \/ OnImages(msg)
<1> DEFINE msg == Head(replies)
<1>1. /\ replies # <<>> /\ replies' = Tail(replies) /\ UNCHANGED worker
      /\ OnInit(msg) \/ OnCounts(msg) \/ OnQuery(msg) \/ OnImages(msg)
  BY DEF Deliver
<1>2. /\ msg \in Answered
      /\ ToSet(replies) = ToSet(replies') \cup {msg}
      /\ Of(replies, "images") =
           Of(replies', "images") \cup {f \in msg.ids \ {NoID} : msg.type = "images"}
  BY <1>1, ReplyTaken
<1> HIDE DEF msg
<1>3. Stored' = Stored /\ lost' = lost
  BY <1>1 DEF worker, Stored, OnInit, OnCounts, OnQuery, OnImages, history
<1>4. /\ msg.type # "images" => Pending' = Pending
      /\ Pending \subseteq Pending' \cup msg.ids /\ Pending' \subseteq Pending
  BY <1>2, <1>3 DEF Pending
<1>5. /\ msg.type # "images" => Coming' = Coming
      /\ Coming \subseteq Coming' \cup msg.ids /\ Coming' \subseteq Coming
  BY <1>3, <1>4 DEF Coming
<1> QED BY <1>1, <1>2, <1>3, <1>4, <1>5 DEF msg, Answered

LEMMA DeliverCover == ASSUME Types, Questions, AnswersCover, Deliver PROVE AnswersCover'
<1>1. PICK msg \in Answered :
           /\ ToSet(replies) = ToSet(replies') \cup {msg}
           /\ msg.type # "images" => Coming' = Coming
           /\ Coming \subseteq Coming' \cup msg.ids
           /\ msg.ids \in SUBSET Key
           /\ UNCHANGED worker
           /\ OnInit(msg) \/ OnCounts(msg) \/ OnQuery(msg) \/ OnImages(msg)
  BY DeliverEffect
<1>2. held' = held /\ open' = open
  BY <1>1 DEF worker
<1>3. /\ "counts" \in RequestType \ {"remove", "info"} /\ "snap" \in RequestType \ {"remove", "info"}
      /\ "info" \in RequestType /\ {} \in SUBSET Key
  BY DEF RequestType
<1>4. ASSUME UNCHANGED <<requests, files, init, raced>>, msg.type # "images" PROVE AnswersCover'
  <2>1. Known' = Known /\ Removing' = Removing
    BY <1>4 DEF Known, Removing
  <2> QED BY <1>1, <1>2, <1>4, <2>1, CoverFrame DEF Mirrored
<1>5. CASE OnInit(msg)
  <2>1. msg.type = init /\ init # "images" /\ UNCHANGED raced
    BY <1>5, <1>1 DEF OnInit, history
  <2>2. CASE init = "reinit" \/ init = "counts"
    <3>1. /\ Send("counts", None, {}) \/ Send("snap", None, {})
          /\ files' = files /\ init' # "idle"
      BY <1>5, <2>2 DEF OnInit, view
    <3>2. /\ Removing' = Removing
          /\ \A m \in ToSet(requests') : m.type = "info" => m \in ToSet(requests)
      BY <1>3, <3>1, SendKeeps
    <3>3. Known' = Known
      BY <3>1 DEF Known
    <3> QED BY <1>1, <1>2, <2>1, <2>2, <3>1, <3>2, <3>3, CoverFrame DEF Mirrored
  <2>3. CASE init = "snap"
    <3>1. Send("info", None, msg.ids) /\ files' = files /\ init' = "info"
      BY <1>5, <2>3 DEF OnInit, view
    <3>2. /\ Removing' = Removing
          /\ ToSet(requests') = ToSet(requests) \cup {Message("info", None, msg.ids)}
      <4>1. /\ Removing' = Removing \cup {f \in msg.ids \ {NoID} : "info" = "remove"}
            /\ ToSet(requests') = ToSet(requests) \cup {Message("info", None, msg.ids)}
        BY <1>1, <1>3, <3>1, RequestSent
      <4> QED BY <4>1
    <3>3. Message("info", None, msg.ids).ids = msg.ids
      BY DEF Message
    <3>4. Known' = Known
      BY <3>1 DEF Known
    <3>5. "query" \notin raced => Covers(msg.ids)
      BY <1>1, <2>1, <2>3 DEF AnswersCover
    <3> QED BY <1>1, <1>2, <2>1, <2>3, <3>1, <3>2, <3>3, <3>4, <3>5 DEF AnswersCover, Covers
  <2>4. CASE init = "info"
    <3>1. CommitInit(msg) /\ requests' = requests
      BY <1>5, <2>4 DEF OnInit
    <3>2. Known' = Known \cup msg.ids /\ Removing' = Removing
      BY <3>1, CommitEffect DEF Removing
    <3>3. "query" \notin raced => Covers(msg.ids)
      BY <1>1, <2>1, <2>4 DEF AnswersCover
    <3> QED BY <1>1, <1>2, <2>1, <2>4, <3>1, <3>2, <3>3 DEF AnswersCover, Covers
  <2> QED BY <1>5, <2>2, <2>3, <2>4 DEF OnInit
<1>6. CASE OnCounts(msg)
  BY <1>4, <1>6 DEF OnCounts, history
<1>7. CASE OnQuery(msg)
  BY <1>4, <1>7 DEF OnQuery, history
<1>8. CASE OnImages(msg)
  <2>1. /\ AddFiles(msg) /\ Send("counts", None, {}) /\ init' = init /\ raced \subseteq raced'
        /\ msg.type = "images"
    BY <1>8 DEF OnImages, Overlaps
  <2>2. Known' = Known \cup msg.ids
    BY <2>1, AddFilesEffect
  <2>3. /\ Removing' = Removing
        /\ \A m \in ToSet(requests') : m.type = "info" => m \in ToSet(requests)
    BY <1>3, <2>1, SendKeeps
  <2> QED BY <1>1, <1>2, <2>1, <2>2, <2>3, CoverFrame DEF Mirrored
<1> QED BY <1>1, <1>5, <1>6, <1>7, <1>8

LEMMA NextCover ==
  ASSUME Types, Questions, AnswersCover, ViewIsOfCache, [Next]_vars
  PROVE  AnswersCover'
<1>1. ASSUME UNCHANGED <<worker, replies, files, lost>>, raced \subseteq raced',
             init' = "idle" => init = "idle", Removing' = Removing,
             \A m \in ToSet(requests') : m.type = "info" => m \in ToSet(requests)
      PROVE  AnswersCover'
  <2>1. Known' = Known /\ Coming' = Coming /\ held' = held /\ open' = open
    BY <1>1 DEF worker, Known, Coming, Pending, Stored
  <2> QED BY <1>1, <2>1, CoverFrame DEF Mirrored
<1>2. CASE Store
  <2>1. PICK n \in FileID :
           /\ held' = [held EXCEPT ![open] = held[open] \cup {n}]
           /\ Coming' = Coming \cup {n}
    BY <1>2, StoreEffect
  <2>2. UNCHANGED <<open, requests, replies, files, init>> /\ raced \subseteq raced'
    BY <1>2 DEF Store, channels, view, actions
  <2>3. held'[open'] = held[open] \cup {n}
    BY <2>1, <2>2 DEF Types, TypeOK
  <2>4. Known' = Known /\ Removing' = Removing
    BY <2>2 DEF Known, Removing
  <2> QED BY <2>1, <2>2, <2>3, <2>4, CoverFrame DEF Mirrored
<1>3. CASE Announce
  <2>1. PICK l \in Library, F \in SUBSET Key :
           /\ replies' = Append(replies, Message("images", l, F))
           /\ Coming' = Coming
    <3>1. PICK l \in Library, f \in FileID :
            /\ replies' = Append(replies, Message("images", l, {f}))
            /\ Coming' = Coming
      BY <1>3, AnnounceEffect
    <3>2. {f} \in SUBSET Key
      BY Keys
    <3> QED BY <3>1, <3>2
  <2>2. "images" \in Reply
    BY DEF Reply
  <2>3. /\ ToSet(replies') = ToSet(replies) \cup {Message("images", l, F)}
        /\ Message("images", l, F).type = "images"
    BY <2>1, <2>2, ReplySent
  <2>4. UNCHANGED <<open, held, requests, files, init, raced>>
    BY <1>3 DEF Announce, view, actions, history
  <2>5. Known' = Known /\ Removing' = Removing
    BY <2>4 DEF Known, Removing
  <2> QED BY <2>1, <2>3, <2>4, <2>5, CoverFrame DEF Mirrored
<1>4. CASE Handle
  BY <1>4, HandleCover
<1>5. {"counts", "reinit", "query"} \subseteq RequestType \ {"remove", "info"} /\ {} \in SUBSET Key
  BY DEF RequestType
<1>6. CASE Mounted
  <2>1. /\ Send("counts", None, {}) /\ UNCHANGED <<worker, replies, files, lost, raced>>
        /\ init' # "idle"
    BY <1>6 DEF Mounted, view, history
  <2>2. /\ Removing' = Removing
        /\ \A m \in ToSet(requests') : m.type = "info" => m \in ToSet(requests)
    BY <1>5, <2>1, SendKeeps
  <2> QED BY <1>1, <2>1, <2>2
<1>7. ASSUME NEW l \in Library, Switch(l) PROVE AnswersCover'
  <2>1. /\ Send("reinit", l, {}) /\ UNCHANGED replies /\ init' # "idle"
        /\ requests = <<>> /\ replies = <<>>
    BY <1>7 DEF Switch, Settled
  <2>2. \A m \in ToSet(requests') : m.type = "info" => m \in ToSet(requests)
    BY <1>5, <2>1, SendKeeps
  <2>3. ToSet(requests) = {} /\ ToSet(replies') = {}
    BY <2>1 DEF ToSet
  <2> QED BY <2>1, <2>2, <2>3 DEF AnswersCover
<1>8. CASE Query
  <2>1. /\ Send("query", None, {}) /\ UNCHANGED <<worker, replies, files, init, lost>>
        /\ raced \subseteq raced'
    BY <1>8 DEF Query, Overlaps, view
  <2>2. /\ Removing' = Removing
        /\ \A m \in ToSet(requests') : m.type = "info" => m \in ToSet(requests)
    BY <1>5, <2>1, SendKeeps
  <2> QED BY <1>1, <2>1, <2>2
<1>9. CASE ShowAll
  <2>1. UNCHANGED <<worker, requests, replies, files, init, lost, raced>>
    BY <1>9 DEF ShowAll, channels, actions, history
  <2>2. Removing' = Removing
    BY <2>1 DEF Removing
  <2> QED BY <1>1, <2>1, <2>2
<1>10. ASSUME NEW f \in Key, RemoveFiles(f) PROVE AnswersCover'
  <2>1. UNCHANGED <<worker, replies, init, lost>> /\ raced \subseteq raced'
    BY <1>10 DEF RemoveFiles, actions
  <2>2. CASE "query" \in raced
    BY <2>1, <2>2 DEF AnswersCover
  <2>3. CASE "query" \notin raced
    <3>1. /\ Known' = Known \ ({f} \ {NoID}) /\ Removing' = Removing \cup ({f} \ {NoID})
          /\ Send("remove", None, {f})
      BY <1>10, <2>3, RemoveFilesEffect
    <3>2. \A m \in ToSet(requests') : m.type = "info" => m \in ToSet(requests)
      <4>1. "remove" \in RequestType /\ "remove" # "reinit" /\ {f} \in SUBSET Key
        BY DEF RequestType
      <4>2. ToSet(requests') = ToSet(requests) \cup {Message("remove", None, {f})}
        BY <3>1, <4>1, RequestSent
      <4> QED BY <4>2 DEF Message
    <3>3. Coming' = Coming /\ held' = held /\ open' = open
      BY <2>1 DEF worker, Coming, Pending, Stored
    <3> QED BY <2>1, <3>1, <3>2, <3>3, CoverFrame DEF Mirrored
  <2> QED BY <2>2, <2>3
<1>11. CASE Deliver
  BY <1>11, DeliverCover
<1>12. CASE UNCHANGED vars
  <2>1. UNCHANGED <<worker, requests, replies, files, init, lost, raced>>
    BY <1>12 DEF vars, channels, view, actions, history
  <2>2. Removing' = Removing
    BY <2>1 DEF Removing
  <2> QED BY <1>1, <2>1, <2>2
<1>13. CASE Abandon
  <2>1. UNCHANGED <<open, held, requests, replies, files, init, raced>>
    BY <1>13 DEF Abandon, channels, view, actions
  <2>2. Known' = Known /\ Removing' = Removing /\ Coming' = Coming
    BY <1>13, <2>1, AbandonEffect DEF Known, Removing
  <2> QED BY <2>1, <2>2, CoverFrame DEF Mirrored
<1>14. CASE Misread
  <2>1. UNCHANGED <<worker, requests, files, init, raced>>
    BY <1>14 DEF Misread, view, actions, history
  <2>2. /\ ToSet(replies') = ToSet(replies) \cup {Message("images", open, {NoID})}
        /\ Message("images", open, {NoID}).type = "images" /\ Coming' = Coming
    BY <1>14, MisreadEffect
  <2>3. Known' = Known /\ Removing' = Removing
    BY <2>1 DEF Known, Removing
  <2> QED BY <2>1, <2>2, <2>3, CoverFrame DEF Mirrored, worker
<1> QED BY <1>2, <1>3, <1>4, <1>6, <1>7, <1>8, <1>9, <1>10, <1>11, <1>12, <1>13, <1>14 DEF Next
-------------------------------------------------------------------------------
\* QueryIsKnown.

LEMMA BehindAppended ==
  ASSUME NEW S, NEW q \in Seq(S), NEW m \in S,
         (NoRemovalBehind(q) /\ m.type # "remove") \/ Absent(q, "query")
  PROVE  NoRemovalBehind(Append(q, m))
<1> DEFINE r == Append(q, m)
<1>1. /\ DOMAIN r = 1 .. Len(q) + 1 /\ r[Len(q) + 1] = m
      /\ \A i \in DOMAIN q : r[i] = q[i]
  BY Appended
<1>2. DOMAIN q = 1 .. Len(q) /\ Len(q) \in Nat /\ \A i \in DOMAIN q : q[i] \in ToSet(q)
  BY InToSet
<1> HIDE DEF r
<1> SUFFICES ASSUME NEW i \in DOMAIN r, NEW j \in DOMAIN r, i < j, r[i].type = "query"
             PROVE  r[j].type # "remove"
  BY DEF NoRemovalBehind, r
<1>3. i \in DOMAIN q /\ r[i] = q[i]
  BY <1>1, <1>2
<1>4. ~Absent(q, "query")
  BY <1>2, <1>3 DEF Absent
<1>5. NoRemovalBehind(q) /\ m.type # "remove"
  BY <1>4
<1>6. CASE j \in DOMAIN q
  BY <1>1, <1>3, <1>5, <1>6 DEF NoRemovalBehind
<1>7. CASE j = Len(q) + 1
  BY <1>1, <1>5, <1>7
<1> QED BY <1>1, <1>2, <1>6, <1>7

LEMMA BehindTaken ==
  ASSUME NEW S, NEW q \in Seq(S), q # <<>>, NoRemovalBehind(q)
  PROVE  /\ NoRemovalBehind(Tail(q))
         /\ Head(q).type = "query" => Absent(Tail(q), "remove")
<1> DEFINE t == Tail(q)
<1>1. /\ Head(q) = q[1] /\ 1 \in DOMAIN q /\ t \in Seq(S)
      /\ DOMAIN t = 1 .. Len(q) - 1
      /\ \A i \in DOMAIN t : i + 1 \in DOMAIN q /\ t[i] = q[i + 1]
  BY Taken
<1>2. Len(q) \in Nat
  BY LenProperties
<1> HIDE DEF t
<1>3. NoRemovalBehind(t)
  <2> SUFFICES ASSUME NEW i \in DOMAIN t, NEW j \in DOMAIN t, i < j, t[i].type = "query"
               PROVE  t[j].type # "remove"
    BY DEF NoRemovalBehind
  <2>1. i + 1 \in DOMAIN q /\ j + 1 \in DOMAIN q /\ i + 1 < j + 1
    BY <1>1, <1>2
  <2> QED BY <1>1, <2>1 DEF NoRemovalBehind
<1>4. ASSUME Head(q).type = "query" PROVE Absent(t, "remove")
  <2>1. \A i \in DOMAIN t : t[i].type # "remove"
    <3> TAKE i \in DOMAIN t
    <3>1. i + 1 \in DOMAIN q /\ 1 < i + 1
      BY <1>1, <1>2
    <3> QED BY <1>1, <1>4, <3>1 DEF NoRemovalBehind
  <2> QED BY <2>1 DEF Absent, ToSet
<1> QED BY <1>3, <1>4 DEF t

LEMMA HandleQuery ==
  ASSUME Types, Questions, AnswersCover, QueryIsKnown, Handle
  PROVE  QueryIsKnown'
<1> SUFFICES ASSUME querying', "query" \notin raced'
             PROVE  /\ init' = "idle" /\ Pending' = {}
                    /\ \A m \in ToSet(replies') : m.type = "query" => m.ids \subseteq Known'
                    /\ NoRemovalBehind(requests')
  BY DEF QueryIsKnown
<1>1. UNCHANGED <<querying, init, unread, files, lost>> /\ "query" \notin raced
  BY DEF Handle, Overlaps, actions, view
<1>2. /\ init = "idle" /\ Pending = {}
      /\ \A m \in ToSet(replies) : m.type = "query" => m.ids \subseteq Known
      /\ NoRemovalBehind(requests)
  BY <1>1 DEF QueryIsKnown
<1>3. Known' = Known
  BY <1>1 DEF Known
<1>4. requests # <<>> /\ requests' = Tail(requests) /\ requests \in Seq(Request)
  BY DEF Handle, Types
<1>5. /\ NoRemovalBehind(requests')
      /\ Head(requests).type = "query" => Absent(requests', "remove")
  BY <1>2, <1>4, BehindTaken
<1>6. ASSUME NEW type \in {"counts", "snap", "info", "query", "reinit"}, NEW F \in SUBSET Key,
             Asked(type, F), open' \in Library, type = "query" => F \subseteq Known
      PROVE  /\ Pending' = {}
             /\ \A m \in ToSet(replies') : m.type = "query" => m.ids \subseteq Known'
  <2>1. replies' = Append(replies, Message(type, open', F)) /\ type \in Reply /\ type # "images"
    BY <1>6 DEF Asked, Reply
  <2>2. /\ ToSet(replies') = ToSet(replies) \cup {Message(type, open', F)}
        /\ Message(type, open', F).type = type /\ Message(type, open', F).ids = F
        /\ Of(replies', "images") =
             Of(replies, "images") \cup {f \in F \ {NoID} : type = "images"}
    BY <1>6, <2>1, ReplySent
  <2>3. Pending' = {}
    BY <1>1, <1>2, <2>1, <2>2 DEF Pending, Stored
  <2> QED BY <1>2, <1>3, <1>6, <2>1, <2>2, <2>3
<1>7. open \in Library /\ held[open] \in SUBSET Key
  BY Keys DEF Types, TypeOK
<1>8. ASSUME NEW type \in {"counts", "snap"}, Asked(type, held[open]), UNCHANGED <<open, held>>
      PROVE  /\ Pending' = {}
             /\ \A m \in ToSet(replies') : m.type = "query" => m.ids \subseteq Known'
  BY <1>6, <1>7, <1>8
<1>9. ASSUME Asked("info", Head(requests).ids \cap held[open]), UNCHANGED <<open, held>>
      PROVE  /\ Pending' = {}
             /\ \A m \in ToSet(replies') : m.type = "query" => m.ids \subseteq Known'
  BY <1>6, <1>7, <1>9
<1>10. ASSUME NEW F \in SUBSET held[open], Asked("query", F), UNCHANGED <<open, held>>,
              F \cap (lost \ Known) = {}
       PROVE  /\ Pending' = {}
              /\ \A m \in ToSet(replies') : m.type = "query" => m.ids \subseteq Known'
  <2>1. Head(requests).type = "query"
    BY <1>10 DEF Asked
  <2>2. Absent(requests, "remove")
    <3>1. Absent(requests', "remove")
      BY <1>5, <2>1
    <3> QED BY <1>4, <2>1, <3>1, RequestTaken
  <2>3. Removing = {}
    BY <2>2 DEF Removing, Of, Absent
  <2>4. Coming = lost
    BY <1>2 DEF Coming
  <2>5. held[open] \subseteq Known \cup lost
    BY <1>1, <1>2, <2>3, <2>4 DEF AnswersCover, Covers
  <2>6. F \subseteq Known
    BY <1>10, <2>5
  <2> QED BY <1>6, <1>7, <1>10, <2>6
<1>11. ASSUME Erased
       PROVE  /\ Pending' = {}
              /\ \A m \in ToSet(replies') : m.type = "query" => m.ids \subseteq Known'
  BY <1>1, <1>2, <1>3, <1>11 DEF Erased, Pending, Stored
<1>12. ASSUME Asked("reinit", {}), open' = Head(requests).library, UNCHANGED held
       PROVE  FALSE
  <2>1. Head(requests) \in ToSet(requests) /\ Head(requests).type = "reinit"
    BY <1>12, RequestTaken DEF Asked
  <2>2. init = "reinit"
    BY <2>1 DEF Questions, Absent
  <2> QED BY <1>2, <2>2
<1>13. /\ Pending' = {}
       /\ \A m \in ToSet(replies') : m.type = "query" => m.ids \subseteq Known'
  BY <1>8, <1>9, <1>10, <1>11, <1>12, HandleCases
<1> QED BY <1>1, <1>2, <1>5, <1>13

LEMMA DeliverQuery ==
  ASSUME Types, Questions, QueryIsKnown, Deliver
  PROVE  QueryIsKnown'
<1> SUFFICES ASSUME querying', "query" \notin raced'
             PROVE  /\ init' = "idle" /\ Pending' = {}
                    /\ \A m \in ToSet(replies') : m.type = "query" => m.ids \subseteq Known'
                    /\ NoRemovalBehind(requests')
  BY DEF QueryIsKnown
<1>1. PICK msg \in Answered :
           /\ ToSet(replies) = ToSet(replies') \cup {msg}
           /\ msg.type \in Reply /\ Pending' \subseteq Pending
           /\ UNCHANGED worker
           /\ OnInit(msg) \/ OnCounts(msg) \/ OnQuery(msg) \/ OnImages(msg)
  BY DeliverEffect
<1>2. querying /\ "query" \notin raced
  BY <1>1 DEF OnInit, OnCounts, OnQuery, OnImages, Overlaps, history
<1>3. /\ init = "idle" /\ Pending = {}
      /\ \A m \in ToSet(replies) : m.type = "query" => m.ids \subseteq Known
      /\ NoRemovalBehind(requests)
  BY <1>2 DEF QueryIsKnown
<1>4. ~OnInit(msg)
  BY <1>1, <1>3 DEF OnInit, Reply
<1>5. ~OnQuery(msg)
  <2>1. ASSUME OnQuery(msg) PROVE querying' = FALSE
    BY <2>1 DEF OnQuery
  <2> QED BY <2>1
<1>6. CASE OnCounts(msg)
  <2>1. UNCHANGED <<requests, files, init>>
    BY <1>6 DEF OnCounts
  <2>2. Known' = Known
    BY <2>1 DEF Known
  <2> QED BY <1>1, <1>3, <2>1, <2>2
<1>7. CASE OnImages(msg)
  <2>1. AddFiles(msg) /\ Send("counts", None, {}) /\ init' = init
    BY <1>7 DEF OnImages
  <2>2. Known \subseteq Known'
    BY <2>1, AddFilesEffect
  <2>3. Message("counts", None, {}) \in Request /\ Message("counts", None, {}).type # "remove"
    BY DEF Message, Request, RequestType
  <2>4. requests \in Seq(Request) /\ requests' = Append(requests, Message("counts", None, {}))
    BY <2>1 DEF Send, Types
  <2>5. NoRemovalBehind(requests')
    BY <1>3, <2>3, <2>4, BehindAppended
  <2> QED BY <1>1, <1>3, <2>1, <2>2, <2>5
<1> QED BY <1>1, <1>4, <1>5, <1>6, <1>7

LEMMA NextQuery ==
  ASSUME Types, Questions, AnswersCover, QueryIsKnown, [Next]_vars
  PROVE  QueryIsKnown'
<1>1. ASSUME UNCHANGED <<files, init, querying, raced, requests>>, Pending' \subseteq Pending,
             \A m \in ToSet(replies') : m.type = "query" => m \in ToSet(replies)
      PROVE  QueryIsKnown'
  <2>1. Known' = Known
    BY <1>1 DEF Known
  <2> QED BY <1>1, <2>1 DEF QueryIsKnown
<1>2. CASE Store
  <2>1. querying' = querying /\ (querying => "query" \in raced')
    BY <1>2 DEF Store, actions
  <2> QED BY <2>1 DEF QueryIsKnown
<1>3. CASE Announce
  <2>1. UNCHANGED <<files, init, querying, raced, requests>>
    BY <1>3 DEF Announce, view, actions, history
  <2>2. PICK l \in Library, F \in SUBSET Key :
          /\ replies' = Append(replies, Message("images", l, F))
          /\ Pending' = Pending
    <3>1. PICK l \in Library, f \in FileID :
            /\ replies' = Append(replies, Message("images", l, {f}))
            /\ Pending' = Pending
      BY <1>3, AnnounceEffect
    <3>2. {f} \in SUBSET Key
      BY Keys
    <3> QED BY <3>1, <3>2
  <2>3. /\ ToSet(replies') = ToSet(replies) \cup {Message("images", l, F)}
        /\ Message("images", l, F).type = "images"
    <3>1. "images" \in Reply
      BY DEF Reply
    <3> QED BY <2>2, <3>1, ReplySent
  <2>4. \A m \in ToSet(replies') : m.type = "query" => m \in ToSet(replies)
    BY <2>3
  <2> QED BY <1>1, <2>1, <2>2, <2>4
<1>4. CASE Handle
  BY <1>4, HandleQuery
<1>5. CASE Mounted
  <2>1. querying' = querying /\ raced' = raced /\ init # "idle"
    BY <1>5 DEF Mounted, history
  <2> QED BY <2>1 DEF QueryIsKnown
<1>6. ASSUME NEW l \in Library, Switch(l) PROVE QueryIsKnown'
  <2>1. querying' = querying /\ ~querying
    BY <1>6 DEF Switch, Settled
  <2> QED BY <2>1 DEF QueryIsKnown
<1>7. CASE Query
  <2> SUFFICES ASSUME "query" \notin raced'
               PROVE  /\ init' = "idle" /\ Pending' = {}
                      /\ \A m \in ToSet(replies') : m.type = "query" => m.ids \subseteq Known'
                      /\ NoRemovalBehind(requests')
    BY DEF QueryIsKnown
  <2>1. /\ init = "idle" /\ unread = {}
        /\ \A i \in DOMAIN replies : replies[i].type = "images" => replies[i].ids = {NoID}
        /\ ~querying /\ Send("query", None, {})
        /\ UNCHANGED <<init, unread, replies>>
    BY <1>7 DEF Query, Overlaps, worker
  <2>2. Pending' = {}
    <3>1. \A f \in FileID : f # NoID
      BY Keys
    <3> QED BY <2>1, <3>1 DEF Pending, Stored, Of, ToSet
  <2>3. Absent(requests, "query") /\ Absent(replies, "query")
    BY <2>1 DEF Questions
  <2>4. Message("query", None, {}) \in Request /\ requests \in Seq(Request)
    BY DEF Message, Request, RequestType, Types
  <2>5. NoRemovalBehind(requests')
    BY <2>1, <2>3, <2>4, BehindAppended DEF Send
  <2> QED BY <2>1, <2>2, <2>3, <2>5 DEF Absent
<1>8. CASE ShowAll
  BY <1>1, <1>8 DEF ShowAll, worker, channels, actions, history, Pending, Stored
<1>9. ASSUME NEW f \in Key, RemoveFiles(f) PROVE QueryIsKnown'
  <2>1. querying' = querying /\ (querying => "query" \in raced')
    BY <1>9 DEF RemoveFiles, actions
  <2> QED BY <2>1 DEF QueryIsKnown
<1>10. CASE Deliver
  BY <1>10, DeliverQuery
<1>11. CASE UNCHANGED vars
  BY <1>1, <1>11 DEF vars, worker, channels, view, actions, history, Pending, Stored
<1>12. CASE Abandon
  <2>1. UNCHANGED <<files, init, querying, raced, requests, replies>>
    BY <1>12 DEF Abandon, channels, view, actions
  <2> QED BY <1>1, <1>12, <2>1, AbandonEffect
<1>13. CASE Misread
  <2>1. UNCHANGED <<files, init, querying, raced, requests>>
    BY <1>13 DEF Misread, view, actions, history
  <2>2. /\ ToSet(replies') = ToSet(replies) \cup {Message("images", open, {NoID})}
        /\ Message("images", open, {NoID}).type = "images" /\ Pending' = Pending
    BY <1>13, MisreadEffect
  <2> QED BY <1>1, <2>1, <2>2
<1> QED BY <1>2, <1>3, <1>4, <1>5, <1>6, <1>7, <1>8, <1>9, <1>10, <1>11, <1>12, <1>13 DEF Next

-------------------------------------------------------------------------------
\* The view.

LEMMA NextStays ==
  ASSUME Types, StaysKnown, ViewIsOfCache, [Next]_vars
  PROVE  StaysKnown'
<1> SUFFICES ASSUME "query" \notin raced', "stays" \in raced'
             PROVE  NoID \in Known'
  BY DEF StaysKnown
<1>1. ASSUME UNCHANGED files, "stays" \in raced, "query" \notin raced
      PROVE  NoID \in Known'
  BY <1>1 DEF StaysKnown, Known
<1>2. ASSUME NEW f \in Key, RemoveFiles(f) PROVE NoID \in Known'
  <2>1. "query" \notin raced /\ ("stays" \in raced \/ f = NoID)
    BY <1>2 DEF RemoveFiles
  <2>2. Known' = Known \ ({f} \ {NoID}) /\ f \in Known
    BY <1>2, <2>1, RemoveFilesEffect
  <2> QED BY <2>1, <2>2 DEF StaysKnown
<1>3. CASE Deliver
  <2>1. PICK msg \in Answered : OnInit(msg) \/ OnCounts(msg) \/ OnQuery(msg) \/ OnImages(msg)
    BY <1>3, DeliverEffect
  <2>2. "stays" \in raced /\ "query" \notin raced
    BY <2>1 DEF OnInit, OnCounts, OnQuery, OnImages, Overlaps, history
  <2>3. UNCHANGED files \/ CommitInit(msg) \/ AddFiles(msg)
    BY <2>1 DEF OnInit, OnCounts, OnQuery, OnImages, view
  <2> QED BY <1>1, <2>2, <2>3, CommitEffect, AddFilesEffect DEF StaysKnown
<1>4. CASE Handle
  BY <1>1, <1>4 DEF Handle, Overlaps, view
<1>5. CASE Store \/ Announce \/ Abandon \/ Misread
  BY <1>1, <1>5 DEF Store, Announce, Abandon, Misread, view, history
<1>6. CASE Mounted \/ Query \/ ShowAll
  BY <1>1, <1>6 DEF Mounted, Query, ShowAll, Overlaps, view, history
<1>7. ASSUME NEW l \in Library, Switch(l) PROVE NoID \in Known'
  BY <1>1, <1>7 DEF Switch, Overlaps, view
<1>8. CASE UNCHANGED vars
  BY <1>1, <1>8 DEF vars, view, history
<1> QED BY <1>2, <1>3, <1>4, <1>5, <1>6, <1>7, <1>8 DEF Next

LEMMA NextView ==
  ASSUME Types, Questions, QueryIsKnown, StaysKnown, ViewIsOfCache, [Next]_vars
  PROVE  ViewIsOfCache'
<1>1. ASSUME UNCHANGED <<files, viewItems, showing>>, raced \subseteq raced',
             "stays" \in raced' => "stays" \in raced
      PROVE  ViewIsOfCache'
  <2>1. Known' = Known
    BY <1>1 DEF Known
  <2> QED BY <1>1, <2>1 DEF ViewIsOfCache
\* The list of a set shows it.
<1>2. ASSUME NEW F \in SUBSET Key, viewItems' = Listed(F), F \subseteq Known',
             showing' = "all" => F = Known'
      PROVE  ViewIsOfCache'
  <2>1. IsInjective(viewItems') /\ ToSet(viewItems') = F
    BY <1>2, ListedProperties
  <2>2. StaysKnown'
    BY NextStays
  <2> QED BY <1>2, <2>1, <2>2 DEF ViewIsOfCache, StaysKnown
<1>3. /\ viewItems \in Seq(Item) /\ Known \in SUBSET Key
      /\ "query" \notin raced => IsInjective(viewItems) /\ ToSet(viewItems) \subseteq Known
  BY DEF Types, TypeOK, Item, Known, ViewIsOfCache
<1>4. CASE Store
  BY <1>1, <1>4 DEF Store, view, history
<1>5. CASE Announce
  BY <1>1, <1>5 DEF Announce, view, history
<1>6. CASE Handle
  BY <1>1, <1>6 DEF Handle, Overlaps, view, history
<1>7. CASE Mounted
  BY <1>1, <1>7 DEF Mounted, view, history
<1>8. ASSUME NEW l \in Library, Switch(l) PROVE ViewIsOfCache'
  BY <1>1, <1>8 DEF Switch, Overlaps, view
<1>9. CASE Query
  BY <1>1, <1>9 DEF Query, Overlaps, view, history
<1>10. CASE ShowAll
  <2>1. viewItems' = Display(Known, viewItems) /\ UNCHANGED <<files, raced>>
    BY <1>10 DEF ShowAll, history
  <2>2. Known' = Known
    BY <2>1 DEF Known
  <2>3. CASE "query" \in raced
    BY <2>1, <2>3 DEF ViewIsOfCache
  <2>4. CASE "query" \notin raced
    <3>1. viewItems' = Listed(Known)
      BY <1>3, <2>1, <2>4, DisplayShows
    <3> QED BY <1>2, <1>3, <2>2, <3>1
  <2> QED BY <2>3, <2>4
<1>11. ASSUME NEW f \in Key, RemoveFiles(f) PROVE ViewIsOfCache'
  <2>1. /\ raced \subseteq raced' /\ showing' = showing
        /\ "stays" \in raced' <=> "stays" \in raced \/ f = NoID
        /\ f = NoID => "stays" \notin raced
    BY <1>11 DEF RemoveFiles
  <2>2. CASE "query" \in raced
    BY <2>1, <2>2 DEF ViewIsOfCache
  <2>3. CASE "query" \notin raced
    <3>1. /\ Known' = Known \ ({f} \ {NoID}) /\ f \in Known
          /\ ToSet(viewItems') = ToSet(viewItems) \ {f} /\ IsInjective(viewItems')
      BY <1>11, <2>3, RemoveFilesEffect
    <3>2. /\ ToSet(viewItems) \subseteq Known
          /\ showing = "all" => ToSet(viewItems) \cup {g \in {NoID} : "stays" \in raced} = Known
      BY <2>3 DEF ViewIsOfCache
    <3>3. CASE f = NoID
      BY <2>1, <3>1, <3>2, <3>3 DEF ViewIsOfCache
    <3>4. CASE f # NoID
      BY <2>1, <3>1, <3>2, <3>4 DEF ViewIsOfCache
    <3> QED BY <3>3, <3>4
  <2> QED BY <2>2, <2>3
<1>12. CASE Deliver
  <2>1. PICK msg \in Answered :
           /\ ToSet(replies) = ToSet(replies') \cup {msg}
           /\ msg.ids \in SUBSET Key
           /\ OnInit(msg) \/ OnCounts(msg) \/ OnQuery(msg) \/ OnImages(msg)
    BY <1>12, DeliverEffect
  <2>2. raced \subseteq raced' /\ ("stays" \in raced' => "stays" \in raced)
    BY <2>1 DEF OnInit, OnCounts, OnQuery, OnImages, Overlaps, history
  <2>3. CASE "query" \in raced
    BY <2>2, <2>3 DEF ViewIsOfCache
  <2>4. CASE "query" \notin raced
    <3>1. CASE OnInit(msg)
      <4>1. CASE init = "info"
        <5>1. CommitInit(msg)
          BY <3>1, <4>1 DEF OnInit
        <5>2. Known' = Known \cup msg.ids
          BY <5>1, CommitEffect
        <5>3. viewItems' = Display(Known \cup msg.ids, viewItems)
          BY <5>1 DEF CommitInit
        <5>4. Known \cup msg.ids \in SUBSET Key /\ ToSet(viewItems) \subseteq Known \cup msg.ids
          BY <1>3, <2>1, <2>4
        <5>5. viewItems' = Listed(Known \cup msg.ids)
          BY <1>3, <2>4, <5>3, <5>4, DisplayShows
        <5> QED BY <1>2, <5>2, <5>4, <5>5
      <4>2. CASE init # "info"
        <5>1. UNCHANGED <<files, viewItems, showing>>
          BY <3>1, <4>2 DEF OnInit, view
        <5> QED BY <1>1, <2>2, <5>1
      <4> QED BY <4>1, <4>2
    <3>2. CASE OnCounts(msg)
      BY <1>1, <2>2, <3>2 DEF OnCounts
    <3>3. CASE OnQuery(msg)
      <4>1. msg.type = "query" /\ files' = files /\ showing' = "result"
        BY <3>3 DEF OnQuery
      <4>2. querying
        BY <2>1, <4>1 DEF Questions, Absent
      <4>3. msg.ids \subseteq Known
        BY <2>1, <2>4, <4>1, <4>2 DEF QueryIsKnown
      <4>4. viewItems' = Listed(msg.ids)
        <5> DEFINE s == Listed(msg.ids)
        <5>1. \A i \in DOMAIN s : s[i] \in msg.ids
          BY <2>1, ListedProperties DEF ToSet
        <5>2. viewItems' = [i \in DOMAIN s |-> IF s[i] \in Known THEN s[i] ELSE Hole]
          BY <3>3 DEF OnQuery
        <5>3. s \in Seq(msg.ids)
          BY <2>1, ListedProperties
        <5>4. s = [i \in DOMAIN s |-> s[i]]
          BY <5>3
        <5> HIDE DEF s
        <5>5. viewItems' = [i \in DOMAIN s |-> s[i]]
          BY <4>3, <5>1, <5>2
        <5> QED BY <5>4, <5>5 DEF s
      <4>5. Known' = Known
        BY <4>1 DEF Known
      <4> QED BY <1>2, <2>1, <4>1, <4>3, <4>4, <4>5
    <3>4. CASE OnImages(msg)
      <4>1. AddFiles(msg) /\ showing' = showing
        BY <3>4 DEF OnImages
      <4>2. Known' = Known \cup msg.ids
        BY <4>1, AddFilesEffect
      <4> DEFINE new == msg.ids \ Known
      <4>3. viewItems' = viewItems \o Listed(new)
        BY <4>1 DEF AddFiles
      <4>4. new \in SUBSET Key
        BY <2>1
      <4>5. /\ Listed(new) \in Seq(Item)
            /\ IsInjective(Listed(new)) /\ ToSet(Listed(new)) = new
        BY <4>4, ListedProperties, ListedAreItems
      <4>6. ToSet(viewItems) \cap new = {}
        BY <1>3, <2>4
      <4>7. Known' = Known \cup new
        BY <4>2
      <4> HIDE DEF new
      <4>8. ToSet(viewItems') = ToSet(viewItems) \cup new /\ IsInjective(viewItems')
        BY <1>3, <2>4, <4>3, <4>5, <4>6, Joined
      <4>9. {g \in {NoID} : "stays" \in raced'} = {g \in {NoID} : "stays" \in raced}
        BY <2>2
      <4>10. /\ ToSet(viewItems) \subseteq Known
             /\ showing = "all" => ToSet(viewItems) \cup {g \in {NoID} : "stays" \in raced} = Known
        BY <2>4 DEF ViewIsOfCache
      <4> QED BY <2>4, <4>1, <4>7, <4>8, <4>9, <4>10 DEF ViewIsOfCache
    <3> QED BY <2>1, <3>1, <3>2, <3>3, <3>4
  <2> QED BY <2>3, <2>4
<1>13. CASE UNCHANGED vars
  BY <1>1, <1>13 DEF vars, view, history
<1>14. CASE Abandon
  BY <1>1, <1>14 DEF Abandon, view
<1>15. CASE Misread
  BY <1>1, <1>15 DEF Misread, view, history
<1> QED BY <1>4, <1>5, <1>6, <1>7, <1>8, <1>9, <1>10, <1>11, <1>12, <1>13, <1>14, <1>15 DEF Next

LEMMA InitView == ASSUME Init PROVE ViewInv
<1>1. Types /\ Questions /\ AnswersCover
  BY InitTypes, InitQuestions, InitAnswersCover
<1>2. QueryIsKnown
  BY DEF Init, QueryIsKnown
<1>3. viewItems = <<>> /\ Known = {}
  BY DEF Init, Known
<1>4. ViewIsOfCache
  BY <1>3 DEF Init, ViewIsOfCache, IsInjective, ToSet
<1>5. StaysKnown
  BY DEF Init, StaysKnown
<1> QED BY <1>1, <1>2, <1>4, <1>5 DEF ViewInv

LEMMA NextViewInv == ASSUME ViewInv, [Next]_vars PROVE ViewInv'
  BY NextTypes, NextQuestions, NextCover, NextQuery, NextStays, NextView DEF ViewInv

\* At every moment the view names files the cache has, none twice, and all of them when
\* no result is shown, but for one that could not be read and was removed; unless a query
\* overlapped init, an import or a removal, or found a file that was never announced
\* (mutations of Cache.js).
THEOREM ViewNamesTheCache == Spec => []Inv
<1>1. ViewInv => Inv
  BY DEF ViewInv, Types, Inv
<1> QED BY <1>1, InitView, NextViewInv, PTL DEF Spec
-------------------------------------------------------------------------------
\* The cache and the library.

\* Messages for the counts, queries and switches, and what of init is before its question
\* for the files, move nothing.
LEMMA CacheFrame ==
  ASSUME CacheInv,
         UNCHANGED <<open, held, lastID, unread, files, allCount, Removing, Pending, Coming>>,
         raced \subseteq raced', raced' \subseteq raced \cup {"query"},
         \A m \in ToSet(replies') : m \in ToSet(replies) \/ m.type \in {"counts", "query", "reinit"},
         \A m \in ToSet(requests') : m.type = "info" => m \in ToSet(requests),
         \/ init' = init /\ gathered' = gathered
         \/ init # "idle" /\ init' \in {"counts", "snap"}
  PROVE  CacheInv'
<1> SUFFICES ASSUME Followed'
             PROVE  /\ InitFollows' /\ StartFollows' /\ SwitchFollows'
                    /\ "removal" \notin raced' => Removing' = {}
  BY DEF CacheInv
<1>1. raced' = raced /\ Followed
  BY DEF Followed
<1>2. /\ InitFollows /\ StartFollows /\ SwitchFollows
      /\ "removal" \notin raced => Removing = {}
  BY <1>1 DEF CacheInv
<1>3. Known' = Known
  BY DEF Known
<1>4. InitFollows'
  BY <1>1, <1>2, <1>3 DEF InitFollows, IsSnapshot
<1>5. StartFollows'
  BY <1>1, <1>2, <1>3 DEF StartFollows
<1>6. SwitchFollows'
  BY <1>1, <1>2, <1>3 DEF SwitchFollows
<1> QED BY <1>1, <1>2, <1>4, <1>5, <1>6

LEMMA InitCacheInv == ASSUME Init PROVE CacheInv
<1>1. ToSet(requests) = {} /\ ToSet(replies) = {}
  BY DEF Init, ToSet
<1>2. Removing = {} /\ Pending = {} /\ Coming = {} /\ Known = {}
  BY <1>1 DEF Init, Removing, Pending, Coming, Stored, Of, Known
<1>3. InitFollows
  BY <1>1, <1>2 DEF Init, InitFollows
<1>4. StartFollows
  BY <1>1, <1>2 DEF Init, StartFollows
<1>5. SwitchFollows
  BY DEF Init, SwitchFollows
<1> QED BY <1>2, <1>3, <1>4, <1>5 DEF CacheInv

LEMMA StoreCache == ASSUME ViewInv, CacheInv, Store PROVE CacheInv'
<1> SUFFICES ASSUME Followed'
             PROVE  /\ InitFollows' /\ StartFollows' /\ SwitchFollows'
                    /\ "removal" \notin raced' => Removing' = {}
  BY DEF CacheInv
<1>1. /\ UNCHANGED <<open, requests, replies, files, allCount, init, gathered>>
      /\ raced \subseteq raced' /\ ("switch" \in raced => "met" \in raced')
  BY DEF Store, channels, view, actions
<1>2. Followed /\ "switch" \notin raced /\ raced' = raced
  BY <1>1 DEF Store, Followed
<1>3. /\ InitFollows /\ StartFollows
      /\ "removal" \notin raced => Removing = {}
  BY <1>2 DEF CacheInv
<1>4. PICK n \in FileID :
           /\ n = lastID[open] + 1 /\ n \notin 1 .. lastID[open] /\ n \notin held[open]
           /\ held' = [held EXCEPT ![open] = held[open] \cup {n}]
           /\ lastID' = [lastID EXCEPT ![open] = n]
           /\ unread' = unread \cup {<<open, n>>}
           /\ Pending' = Pending \cup {n} /\ Coming' = Coming \cup {n}
  BY StoreEffect DEF ViewInv
<1>5. /\ held'[open'] = held[open] \cup {n} /\ lastID'[open'] = n
      /\ lastID[open] \in Nat
  BY <1>1, <1>4 DEF ViewInv, Types, TypeOK
<1>6. Known' = Known /\ Removing' = Removing
  BY <1>1 DEF Known, Removing
<1>7. InitFollows'
  BY <1>1, <1>2, <1>3, <1>4, <1>5, <1>6 DEF InitFollows, IsSnapshot
<1>8. StartFollows'
  <2>1. \A u \in unread' : u[1] = open
    <3>1. <<open, n>>[1] = open
      OBVIOUS
    <3> QED BY <1>2, <1>3, <1>4, <3>1 DEF StartFollows
  <2>2. n \notin Removing
    BY <1>2, <1>3, <1>4 DEF StartFollows
  <2>3. Removing \subseteq 1 .. n
    <3>1. 1 .. lastID[open] \subseteq 1 .. n
      BY <1>4, <1>5
    <3> QED BY <1>2, <1>3, <3>1 DEF StartFollows
  <2> QED BY <1>1, <1>2, <1>3, <1>4, <1>5, <1>6, <2>1, <2>2, <2>3 DEF StartFollows
<1>9. SwitchFollows'
  BY <1>2 DEF SwitchFollows
<1> QED BY <1>2, <1>3, <1>6, <1>7, <1>8, <1>9

LEMMA AnnounceCache == ASSUME ViewInv, CacheInv, Announce PROVE CacheInv'
<1> SUFFICES ASSUME Followed'
             PROVE  /\ InitFollows' /\ StartFollows' /\ SwitchFollows'
                    /\ "removal" \notin raced' => Removing' = {}
  BY DEF CacheInv
<1>1. UNCHANGED <<open, held, lastID, requests, files, allCount, init, gathered, raced>>
  BY DEF Announce, view, actions, history
<1>2. /\ InitFollows /\ StartFollows /\ SwitchFollows
      /\ "removal" \notin raced => Removing = {}
  BY <1>1 DEF CacheInv, Followed
<1>3. PICK l \in Library, F \in SUBSET Key :
        /\ replies' = Append(replies, Message("images", l, F))
        /\ Pending' = Pending /\ Coming' = Coming
        /\ unread' \subseteq unread
        /\ "switch" \notin raced => l = open
        /\ unread # {}
  <2>1. PICK l \in Library, f \in FileID :
          /\ <<l, f>> \in unread /\ unread' = unread \ {<<l, f>>}
          /\ replies' = Append(replies, Message("images", l, {f}))
          /\ Pending' = Pending /\ Coming' = Coming
    BY AnnounceEffect DEF ViewInv
  <2>2. {f} \in SUBSET Key
    BY Keys
  <2>3. "switch" \notin raced => l = open
    <3>1. <<l, f>>[1] = l
      OBVIOUS
    <3> QED BY <1>2, <2>1, <3>1 DEF StartFollows
  <2> QED BY <2>1, <2>2, <2>3
<1>4. /\ ToSet(replies') = ToSet(replies) \cup {Message("images", l, F)}
      /\ Message("images", l, F).type = "images" /\ Message("images", l, F).library = l
  <2>1. "images" \in Reply
    BY DEF Reply
  <2> QED BY <1>3, <2>1, ReplySent DEF ViewInv
<1>5. "switch" \notin raced
  BY <1>2, <1>3 DEF SwitchFollows
<1>6. Known' = Known /\ Removing' = Removing
  BY <1>1 DEF Known, Removing
<1>7. InitFollows'
  BY <1>1, <1>2, <1>3, <1>4, <1>6 DEF InitFollows, IsSnapshot
<1>8. StartFollows'
  BY <1>1, <1>2, <1>3, <1>4, <1>5, <1>6 DEF StartFollows
<1>9. SwitchFollows'
  BY <1>1, <1>5 DEF SwitchFollows
<1> QED BY <1>1, <1>2, <1>6, <1>7, <1>8, <1>9

LEMMA AbandonCache == ASSUME ViewInv, CacheInv, Abandon PROVE CacheInv'
<1> SUFFICES ASSUME Followed'
             PROVE  /\ InitFollows' /\ StartFollows' /\ SwitchFollows'
                    /\ "removal" \notin raced' => Removing' = {}
  BY DEF CacheInv
<1>1. UNCHANGED <<open, held, lastID, requests, replies, files, allCount, init, gathered, raced>>
  BY DEF Abandon, channels, view, actions
<1>2. /\ InitFollows /\ StartFollows /\ SwitchFollows
      /\ "removal" \notin raced => Removing = {}
  BY <1>1 DEF CacheInv, Followed
<1>3. /\ unread' \subseteq unread /\ unread # {}
      /\ Pending' \subseteq Pending /\ Coming' = Coming
  BY AbandonEffect DEF ViewInv
<1>4. "switch" \notin raced
  BY <1>2, <1>3 DEF SwitchFollows
<1>5. Known' = Known /\ Removing' = Removing
  BY <1>1 DEF Known, Removing
<1>6. InitFollows'
  BY <1>1, <1>2, <1>3, <1>5 DEF InitFollows, IsSnapshot
<1>7. StartFollows'
  BY <1>1, <1>2, <1>3, <1>4, <1>5 DEF StartFollows
<1>8. SwitchFollows'
  BY <1>1, <1>4 DEF SwitchFollows
<1> QED BY <1>1, <1>2, <1>5, <1>6, <1>7, <1>8

LEMMA MisreadCache == ASSUME ViewInv, CacheInv, Misread PROVE CacheInv'
<1> SUFFICES ASSUME Followed'
             PROVE  /\ InitFollows' /\ StartFollows' /\ SwitchFollows'
                    /\ "removal" \notin raced' => Removing' = {}
  BY DEF CacheInv
<1>1. UNCHANGED <<open, held, lastID, unread, requests, files, allCount, init, gathered, raced>>
  BY DEF Misread, worker, view, actions, history
<1>2. /\ InitFollows /\ StartFollows /\ SwitchFollows
      /\ "removal" \notin raced => Removing = {}
  BY <1>1 DEF CacheInv, Followed
<1>3. /\ ToSet(replies') = ToSet(replies) \cup {Message("images", open, {NoID})}
      /\ Message("images", open, {NoID}).type = "images"
      /\ Message("images", open, {NoID}).library = open
      /\ Pending' = Pending /\ Coming' = Coming
  BY MisreadEffect DEF ViewInv
<1>4. Known' = Known /\ Removing' = Removing
  BY <1>1 DEF Known, Removing
<1>5. InitFollows'
  BY <1>1, <1>2, <1>3, <1>4 DEF InitFollows, IsSnapshot
<1>6. StartFollows'
  BY <1>1, <1>2, <1>3, <1>4 DEF StartFollows
<1>7. SwitchFollows'
  BY <1>1, <1>2, <1>3, <1>4 DEF SwitchFollows
<1> QED BY <1>1, <1>2, <1>4, <1>5, <1>6, <1>7

LEMMA HandleCache == ASSUME ViewInv, CacheInv, Handle PROVE CacheInv'
<1>1. open \in Library /\ held[open] \in SUBSET Key /\ Types /\ Questions
  BY Keys DEF ViewInv, Types, TypeOK
<1>2. /\ UNCHANGED <<init, gathered, unread, files, lastID, allCount, lost>>
      /\ requests # <<>> /\ requests' = Tail(requests)
  BY DEF Handle, actions, view
<1>3. /\ ToSet(requests) = ToSet(requests') \cup {Head(requests)}
      /\ Removing = Removing' \cup {f \in Head(requests).ids \ {NoID} : Head(requests).type = "remove"}
  BY <1>1, <1>2, RequestTaken
<1>4. Known' = Known /\ Stored' = Stored
  BY <1>2 DEF Known, Stored
<1>5. ASSUME NEW type \in {"counts", "snap", "info", "query", "reinit"}, NEW F \in SUBSET Key,
             Asked(type, F), open' \in Library
      PROVE  /\ Removing' = Removing /\ Pending' = Pending /\ Coming' = Coming
             /\ Head(requests).type = type /\ raced \subseteq raced'
             /\ raced' \subseteq raced \cup {"query"} /\ (type = "query" \/ raced' = raced)
             /\ ToSet(replies') = ToSet(replies) \cup {Message(type, open', F)}
             /\ Message(type, open', F).type = type /\ Message(type, open', F).ids = F
  <2>1. /\ replies' = Append(replies, Message(type, open', F)) /\ Head(requests).type = type
        /\ type \in Reply /\ type # "images"
        /\ raced' \in {raced, raced \cup {"query"}} /\ (type = "query" \/ raced' = raced)
    BY <1>5 DEF Asked, Reply
  <2>2. /\ ToSet(replies') = ToSet(replies) \cup {Message(type, open', F)}
        /\ Message(type, open', F).type = type /\ Message(type, open', F).ids = F
        /\ Of(replies', "images") = Of(replies, "images") \cup {f \in F \ {NoID} : type = "images"}
    BY <1>1, <1>5, <2>1, ReplySent
  <2>3. Pending' = Pending /\ Coming' = Coming
    BY <1>2, <1>4, <2>1, <2>2 DEF Coming, Pending
  <2>4. Removing' = Removing
    BY <1>3, <2>1
  <2> QED BY <2>1, <2>2, <2>3, <2>4
<1>6. ASSUME Followed
      PROVE  /\ InitFollows /\ StartFollows /\ SwitchFollows
             /\ "removal" \notin raced => Removing = {}
  BY <1>6 DEF CacheInv
<1>7. ASSUME Asked("counts", held[open]), UNCHANGED <<open, held>>
      PROVE  CacheInv'
  BY <1>1, <1>2, <1>3, <1>5, <1>7, CacheFrame
<1>8. ASSUME NEW F \in SUBSET held[open], Asked("query", F), UNCHANGED <<open, held>>
      PROVE  CacheInv'
  BY <1>1, <1>2, <1>3, <1>5, <1>8, CacheFrame
\* The worker answers init with the files there are.
<1>9. ASSUME NEW type \in {"snap", "info"}, NEW F \in SUBSET Key, Asked(type, F),
             UNCHANGED <<open, held>>, type = "snap" => F = held[open],
             type = "info" => F = Head(requests).ids \cap held[open]
      PROVE  CacheInv'
  <2>0. raced' = raced
    BY <1>1, <1>5, <1>9
  <2> SUFFICES ASSUME Followed
               PROVE  /\ InitFollows' /\ StartFollows' /\ SwitchFollows'
                      /\ "removal" \notin raced' => Removing' = {}
    BY <2>0 DEF CacheInv, Followed
  <2>1. /\ Removing' = Removing /\ Pending' = Pending /\ Coming' = Coming
        /\ Head(requests).type = type
        /\ ToSet(replies') = ToSet(replies) \cup {Message(type, open', F)}
        /\ Message(type, open', F).type = type /\ Message(type, open', F).ids = F
    BY <1>1, <1>5, <1>9
  <2>2. type = "info" => init = "info"
    BY <1>1, <1>3, <2>1 DEF Questions, Absent
  <2>3. type = "info" => F = gathered.filesSnap
    BY <1>3, <1>6, <1>9, <2>1, <2>2 DEF InitFollows, IsSnapshot
  <2>4. InitFollows'
    BY <2>0, <1>2, <1>3, <1>4, <1>6, <1>9, <2>1, <2>3 DEF InitFollows, IsSnapshot
  <2>5. StartFollows'
    BY <2>0, <1>2, <1>4, <1>6, <1>9, <2>1 DEF StartFollows
  <2>6. SwitchFollows'
    BY <2>0, <1>2, <1>4, <1>6, <1>9, <2>1 DEF SwitchFollows
  <2> QED BY <2>0, <1>6, <2>1, <2>4, <2>5, <2>6
<1>10. ASSUME Asked("info", Head(requests).ids \cap held[open]), UNCHANGED <<open, held>>
       PROVE  CacheInv'
  BY <1>1, <1>9, <1>10
<1>11. CASE Erased
  <2>0. raced' = raced
    BY <1>11 DEF Erased, history
  <2> SUFFICES ASSUME Followed
               PROVE  /\ InitFollows' /\ StartFollows' /\ SwitchFollows'
                      /\ "removal" \notin raced' => Removing' = {}
    BY <2>0 DEF CacheInv, Followed
  <2>1. /\ Head(requests).type = "remove" /\ UNCHANGED <<open, replies>>
        /\ held' = [held EXCEPT ![open] = held[open] \ Head(requests).ids]
    BY <1>11 DEF Erased
  <2> DEFINE F == Head(requests).ids \ {NoID}
  <2>2. held'[open'] = held[open] \ F
    <3>1. held[open] \subseteq FileID /\ NoID \notin FileID
      BY Keys DEF ViewInv, Types, TypeOK
    <3> QED BY <2>1, <3>1 DEF ViewInv, Types, TypeOK
  <2>3. F \subseteq Removing /\ Removing = Removing' \cup F
    BY <1>3, <2>1
  <2> HIDE DEF F
  <2>4. Pending' = Pending /\ Coming' = Coming
    BY <1>2, <1>4, <2>1 DEF Coming, Pending
  <2>5. init # "idle" => held'[open'] = held[open]
    BY <1>6, <2>2, <2>3 DEF InitFollows
  <2>6. InitFollows'
    BY <2>0, <1>2, <1>3, <1>4, <1>6, <2>1, <2>3, <2>4, <2>5 DEF InitFollows, IsSnapshot
  <2>7. StartFollows'
    BY <2>0, <1>2, <1>4, <1>6, <2>1, <2>2, <2>3, <2>4 DEF StartFollows
  <2>8. "removal" \notin raced => held'[open'] = held[open]
    BY <1>6, <2>2, <2>3
  <2>9. SwitchFollows'
    BY <2>0, <1>2, <1>4, <1>6, <2>1, <2>2, <2>3, <2>4, <2>8 DEF SwitchFollows
  <2> QED BY <2>0, <1>6, <2>3, <2>6, <2>7, <2>9
<1>12. ASSUME Asked("reinit", {}), open' = Head(requests).library, UNCHANGED held
       PROVE  CacheInv'
  <2>0. raced' = raced
    BY <1>12 DEF Asked
  <2> SUFFICES ASSUME Followed
               PROVE  /\ InitFollows' /\ StartFollows' /\ SwitchFollows'
                      /\ "removal" \notin raced' => Removing' = {}
    BY <2>0 DEF CacheInv, Followed
  <2>1. Head(requests) \in ToSet(requests) /\ Head(requests).type = "reinit"
    BY <1>3, <1>12 DEF Asked
  <2>2. open' \in Library
    BY <1>1, <1>12, <2>1 DEF Types
  <2>3. /\ Removing' = Removing /\ Coming' = Coming
        /\ ToSet(replies') = ToSet(replies) \cup {Message("reinit", open', {})}
        /\ Message("reinit", open', {}).type = "reinit"
    BY <1>5, <1>12, <2>2
  <2>4. init = "reinit" /\ Absent(replies, "snap")
    BY <1>1, <2>1 DEF Questions, Absent
  <2>5. "switch" \in raced
    BY <1>6, <2>4 DEF InitFollows
  <2>6. InitFollows'
    BY <2>0, <1>2, <1>6, <2>3, <2>4, <2>5 DEF InitFollows, Absent
  <2>7. SwitchFollows'
    BY <2>0, <1>2, <1>6, <2>3, <2>4, <2>5 DEF SwitchFollows, Absent
  <2>8. StartFollows'
    BY <2>0, <2>5 DEF StartFollows
  <2> QED BY <2>0, <1>2, <1>6, <2>3, <2>6, <2>7, <2>8
<1>13. ASSUME Asked("snap", held[open]), UNCHANGED <<open, held>>
       PROVE  CacheInv'
  BY <1>1, <1>9, <1>13
<1> QED BY <1>1, <1>7, <1>8, <1>10, <1>11, <1>12, <1>13, HandleCases

LEMMA RemoveFilesCache ==
  ASSUME ViewInv, CacheInv, NEW f \in Key, RemoveFiles(f)
  PROVE  CacheInv'
<1> SUFFICES ASSUME Followed'
             PROVE  /\ InitFollows' /\ StartFollows' /\ SwitchFollows'
                    /\ "removal" \notin raced' => Removing' = {}
  BY DEF CacheInv
<1>1. /\ UNCHANGED <<open, held, lastID, unread, replies, init, gathered, lost>>
      /\ raced \subseteq raced' /\ "removal" \in raced' /\ (f = NoID => "stays" \in raced')
      /\ "init" \notin raced' => init = "idle"
      /\ "late" \notin raced' =>
           /\ ~ \E u \in unread : u[2] = f
           /\ ~ \E i \in DOMAIN replies : replies[i].type = "images" /\ f \in replies[i].ids
  BY DEF RemoveFiles, worker, actions
<1>2. /\ "init" \notin raced' /\ "late" \notin raced' /\ "query" \notin raced /\ Followed
      /\ "switch" \in raced' <=> "switch" \in raced
  BY <1>1 DEF Followed, RemoveFiles
<1>3. /\ InitFollows /\ StartFollows /\ SwitchFollows
  BY <1>2 DEF CacheInv
<1>4. init = "idle" /\ f \notin Pending /\ Pending' = Pending /\ Coming' = Coming
  <2>1. f \notin Pending
    BY <1>1, <1>2 DEF Pending, Stored, Of, ToSet
  <2> QED BY <1>1, <1>2, <2>1 DEF Coming, Pending, Stored
<1>5. /\ f \in Known /\ Known' = Known \ ({f} \ {NoID})
      /\ Removing' = Removing \cup ({f} \ {NoID})
      /\ allCount' = allCount - 1
  BY <1>2, RemoveFilesEffect DEF ViewInv
<1>6. \A g \in Key : files'[g] = IF g = f /\ f # NoID THEN None ELSE files[g]
  BY DEF RemoveFiles, ViewInv, Types, TypeOK
<1>7. IsFiniteSet(Known)
  BY FilesAreFinite DEF Known
<1>8. f # NoID => Cardinality(Known') = Cardinality(Known) - 1
  <2>1. f # NoID => Known' = Known \ {f}
    BY <1>5
  <2> QED BY <2>1, <1>5, <1>7, FS_RemoveElement
<1>9. InitFollows'
  BY <1>1, <1>4 DEF InitFollows
<1>10. StartFollows'
  <2> SUFFICES ASSUME "switch" \notin raced PROVE StartFollows'
    BY <1>2 DEF StartFollows
  <2>1. f # NoID => f \in 1 .. lastID[open]
    BY <1>3, <1>5 DEF StartFollows, ViewInv, Types, TypeOK
  <2>2. CASE f = NoID
    <3>1. Known' = Known /\ Removing' = Removing /\ "stays" \in raced'
      BY <1>1, <1>5, <2>2
    <3>2. \A g \in Key : files'[g] = files[g]
      BY <1>6, <2>2
    <3> QED BY <1>1, <1>2, <1>3, <1>4, <3>1, <3>2 DEF StartFollows
  <2>3. CASE f # NoID
    <3>1. Known' = Known \ {f} /\ Removing' = Removing \cup {f}
      BY <1>5, <2>3
    <3> QED BY <1>1, <1>2, <1>3, <1>4, <1>5, <1>6, <1>8, <2>1, <2>3, <3>1 DEF StartFollows
  <2> QED BY <2>2, <2>3
<1>11. SwitchFollows'
  <2>1. held[open] \subseteq Key /\ NoID \notin held[open]
    BY Keys DEF ViewInv, Types, TypeOK
  <2>2. \A g \in held[open] \ Removing' : g \in held[open] \ Removing /\ files'[g] = files[g]
    BY <1>5, <1>6, <2>1
  <2> QED BY <1>1, <1>2, <1>3, <1>4, <2>2 DEF SwitchFollows
<1> QED BY <1>1, <1>9, <1>10, <1>11

LEMMA DeliverCache == ASSUME ViewInv, CacheInv, Deliver PROVE CacheInv'
<1>1. PICK msg \in Answered :
           /\ ToSet(replies) = ToSet(replies') \cup {msg}
           /\ Of(replies, "images") =
                Of(replies', "images") \cup {f \in msg.ids \ {NoID} : msg.type = "images"}
           /\ msg.type # "images" => Pending' = Pending /\ Coming' = Coming
           /\ Coming \subseteq Coming' \cup msg.ids /\ Coming' \subseteq Coming
           /\ Pending' \subseteq Pending
           /\ msg.type \in Reply /\ msg.ids \in SUBSET Key /\ msg.library \in Library
           /\ UNCHANGED worker
           /\ OnInit(msg) \/ OnCounts(msg) \/ OnQuery(msg) \/ OnImages(msg)
  BY DeliverEffect DEF ViewInv
<1>2. UNCHANGED <<open, held, lastID, unread>>
  BY <1>1 DEF worker
<1>3. Types /\ Questions
  BY DEF ViewInv
<1>4. {"counts", "snap"} \subseteq RequestType \ {"remove", "info"} /\ {} \in SUBSET Key
  BY DEF RequestType
<1>5. ASSUME Followed
      PROVE  /\ InitFollows /\ StartFollows /\ SwitchFollows
             /\ "removal" \notin raced => Removing = {}
  BY <1>5 DEF CacheInv
<1>6. ASSUME NEW type \in {"counts", "snap"}, Send(type, None, {})
      PROVE  /\ Removing' = Removing
             /\ \A m \in ToSet(requests') : m.type = "info" => m \in ToSet(requests)
  BY <1>3, <1>4, <1>6, SendKeeps
<1>7. CASE OnInit(msg)
  <2>1. msg.type = init /\ raced' = raced /\ Pending' = Pending /\ Coming' = Coming
    BY <1>1, <1>7 DEF OnInit, Reply, history
  <2>2. CASE init = "reinit" \/ init = "counts"
    <3>1. /\ files' = files /\ allCount' = allCount /\ init' \in {"counts", "snap"}
          /\ \E type \in {"counts", "snap"} : Send(type, None, {})
      BY <1>7, <2>2 DEF OnInit, view
    <3>2. /\ Removing' = Removing
          /\ \A m \in ToSet(requests') : m.type = "info" => m \in ToSet(requests)
      BY <1>6, <3>1
    <3> QED BY <1>1, <1>2, <2>1, <2>2, <3>1, <3>2, CacheFrame
  <2>3. CASE init = "snap"
    <3> SUFFICES ASSUME Followed
                 PROVE  /\ InitFollows' /\ StartFollows' /\ SwitchFollows'
                        /\ "removal" \notin raced' => Removing' = {}
      BY <2>1 DEF CacheInv, Followed
    <3>1. /\ Send("info", None, msg.ids) /\ UNCHANGED <<files, allCount>> /\ init' = "info"
          /\ gathered' = [gathered EXCEPT !.filesSnap = msg.ids]
      BY <1>7, <2>3 DEF OnInit, view
    <3>2. gathered'.filesSnap = msg.ids
      BY <1>3, <3>1 DEF Types
    <3>3. /\ Removing' = Removing
          /\ ToSet(requests') = ToSet(requests) \cup {Message("info", None, msg.ids)}
      <4>1. "info" \in RequestType
        BY DEF RequestType
      <4>2. /\ Removing' = Removing \cup {f \in msg.ids \ {NoID} : "info" = "remove"}
            /\ ToSet(requests') = ToSet(requests) \cup {Message("info", None, msg.ids)}
        BY <1>1, <1>3, <3>1, <4>1, RequestSent
      <4> QED BY <4>2
    <3>4. Message("info", None, msg.ids).ids = msg.ids
      BY DEF Message
    <3>5. Absent(requests, "info") /\ Absent(replies, "info")
      BY <1>3, <2>3 DEF Questions
    <3>6. Known' = Known
      BY <3>1 DEF Known
    <3>7. IsSnapshot(msg.ids)
      BY <1>1, <1>5, <2>1, <2>3 DEF InitFollows
    <3>8. InitFollows'
      <4>1. \A m \in ToSet(requests') : m.type = "info" => m.ids = msg.ids
        BY <3>3, <3>4, <3>5 DEF Absent
      <4>2. \A m \in ToSet(replies') : m.type # "info"
        BY <1>1, <3>5 DEF Absent
      <4> QED BY <1>1, <1>2, <1>5, <2>1, <2>3, <3>1, <3>2, <3>3, <3>6, <3>7, <4>1, <4>2
            DEF InitFollows, IsSnapshot
    <3>9. StartFollows'
      BY <1>1, <1>2, <1>5, <2>1, <2>3, <3>1, <3>3, <3>6 DEF StartFollows
    <3>10. SwitchFollows'
      BY <1>1, <1>2, <1>5, <2>1, <3>1 DEF SwitchFollows, Absent
    <3> QED BY <1>5, <2>1, <3>3, <3>8, <3>9, <3>10
  <2>4. CASE init = "info"
    <3> SUFFICES ASSUME Followed
                 PROVE  /\ InitFollows' /\ StartFollows' /\ SwitchFollows'
                        /\ "removal" \notin raced' => Removing' = {}
      BY <2>1 DEF CacheInv, Followed
    <3>1. CommitInit(msg) /\ requests' = requests /\ init' = "idle"
      BY <1>7, <2>4 DEF OnInit
    <3>2. Known' = Known \cup msg.ids /\ Removing' = Removing
      BY <1>3, <3>1, CommitEffect DEF Removing
    <3>3. msg.library = open
      BY <1>1, <1>3, <2>1, <2>4 DEF Questions
    <3>4. msg.ids = gathered.filesSnap /\ IsSnapshot(msg.ids) /\ Removing = {}
      BY <1>1, <1>5, <2>1, <2>4 DEF InitFollows
    <3>5. allCount' = Cardinality(msg.ids)
      BY <3>1, <3>4 DEF CommitInit
    <3>6. \A f \in Key : files'[f] = IF f \in msg.ids THEN open ELSE files[f]
      BY <3>1, <3>3 DEF CommitInit
    <3>7. InitFollows'
      BY <3>1 DEF InitFollows
    <3>8. StartFollows'
      <4> SUFFICES ASSUME "switch" \notin raced PROVE StartFollows'
        BY <2>1 DEF StartFollows
      <4>1. Known = {}
        BY <1>5, <2>4 DEF InitFollows
      <4>2. Known' = msg.ids /\ msg.ids \subseteq held[open]
        BY <3>2, <3>4, <4>1 DEF IsSnapshot
      <4> QED BY <1>1, <1>2, <1>5, <2>1, <3>2, <3>4, <3>5, <3>6, <4>2 DEF StartFollows
    <3>9. SwitchFollows'
      <4> SUFFICES ASSUME "switch" \in raced PROVE SwitchFollows'
        BY <2>1 DEF SwitchFollows
      <4>1. unread = {} /\ Coming = {}
        BY <1>5 DEF SwitchFollows
      <4>3. msg.ids = held[open]
        BY <3>4, <4>1 DEF IsSnapshot
      <4> QED BY <1>1, <1>2, <3>5, <3>6, <4>1, <4>3 DEF SwitchFollows
    <3> QED BY <1>5, <2>1, <3>2, <3>7, <3>8, <3>9
  <2> QED BY <1>7, <2>2, <2>3, <2>4 DEF OnInit
<1>8. ASSUME UNCHANGED <<requests, files, allCount, init, gathered, raced>>, msg.type # "images"
      PROVE  CacheInv'
  <2>1. Removing' = Removing
    BY <1>8 DEF Removing
  <2> QED BY <1>1, <1>2, <1>8, <2>1, CacheFrame
<1>9. CASE OnCounts(msg)
  BY <1>8, <1>9 DEF OnCounts, history
<1>10. CASE OnQuery(msg)
  BY <1>8, <1>10 DEF OnQuery, history
<1>11. CASE OnImages(msg)
  <2> SUFFICES ASSUME Followed'
               PROVE  /\ InitFollows' /\ StartFollows' /\ SwitchFollows'
                      /\ "removal" \notin raced' => Removing' = {}
    BY DEF CacheInv
  <2>1. /\ AddFiles(msg) /\ Send("counts", None, {}) /\ init' = init
        /\ msg.type = "images" /\ raced' = raced \cup {x \in {"init"} : init # "idle"}
    BY <1>11 DEF OnImages, Overlaps
  <2>2. Followed /\ raced' = raced /\ init = "idle"
    BY <2>1 DEF Followed
  <2>3. /\ StartFollows /\ SwitchFollows
        /\ "removal" \notin raced => Removing = {}
    BY <1>5, <2>2
  <2>5. Removing' = Removing
    BY <1>6, <2>1
  <2> DEFINE new == msg.ids \ Known
  <2>6. Known' = Known \cup new
    BY <1>3, <2>1, AddFilesEffect
  <2>7. "switch" \notin raced => msg.library = open
    BY <1>1, <2>1, <2>3 DEF StartFollows
  <2>8. msg.ids \ {NoID} \subseteq Pending
    <3>1. msg.ids \ {NoID} \subseteq Of(replies, "images")
      BY <1>1, <2>1
    <3> QED BY <3>1 DEF Pending
  <2>9. /\ \A f \in Key : files'[f] = IF f \in new THEN msg.library ELSE files[f]
        /\ allCount' = allCount + Cardinality(new)
    BY <2>1 DEF AddFiles
  <2>10. new \in SUBSET Key /\ Known \in SUBSET Key /\ new \cap Known = {}
    BY <1>1 DEF Known
  <2>11. new \ {NoID} \subseteq Pending
    BY <2>8
  <2> HIDE DEF new
  <2>12. Cardinality(Known') = Cardinality(Known) + Cardinality(new)
    <3>1. IsFiniteSet(new) /\ IsFiniteSet(Known) /\ Cardinality(new) \in Nat /\ Cardinality(Known) \in Nat
      BY <2>10, FilesAreFinite
    <3>2. Cardinality(Known \cup new) =
            Cardinality(Known) + Cardinality(new) - Cardinality(Known \cap new)
      BY <3>1, FS_Union
    <3>3. Cardinality(Known \cap new) = 0
      <4>1. Known \cap new = {}
        BY <2>10
      <4> QED BY <4>1, FS_EmptySet
    <3> QED BY <2>6, <3>1, <3>2, <3>3
  <2>13. InitFollows'
    BY <2>1, <2>2 DEF InitFollows
  <2>14. StartFollows'
    <3> SUFFICES ASSUME "switch" \notin raced PROVE StartFollows'
      BY <2>2 DEF StartFollows
    <3>1. \A f \in Key : files'[f] = IF f \in new THEN open ELSE files[f]
      BY <2>7, <2>9
    <3> QED BY <1>1, <1>2, <2>1, <2>2, <2>3, <2>5, <2>6, <2>9, <2>11, <2>12, <3>1 DEF StartFollows
  <2>15. SwitchFollows'
    <3> SUFFICES ASSUME "switch" \in raced PROVE SwitchFollows'
      BY <2>2 DEF SwitchFollows
    <3>1. unread = {} /\ Coming = {}
      BY <2>3 DEF SwitchFollows
    <3>2. Pending = {}
      BY <3>1 DEF Coming
    <3>3. new \subseteq {NoID}
      BY <2>11, <3>2
    <3>4. \A f \in held[open] : files'[f] = files[f]
      <4>1. held[open] \subseteq FileID
        BY <1>3 DEF Types, TypeOK
      <4> QED BY <2>9, <3>3, <4>1, Keys
    <3>5. NoID \notin Known' => new = {}
      BY <2>6, <3>3
    <3>6. NoID \notin Known' => Known' = Known /\ allCount' = allCount
      <4> SUFFICES ASSUME NoID \notin Known' PROVE Known' = Known /\ allCount' = allCount
        OBVIOUS
      <4>1. new = {} /\ Cardinality(new) = 0
        BY <3>5, FS_EmptySet
      <4>2. allCount \in Int
        BY <1>3 DEF Types, TypeOK
      <4> QED BY <2>6, <2>9, <4>1, <4>2
    <3> QED BY <1>1, <1>2, <2>1, <2>2, <2>3, <2>5, <3>1, <3>4, <3>6 DEF SwitchFollows
  <2> QED BY <2>2, <2>3, <2>5, <2>13, <2>14, <2>15
<1> QED BY <1>1, <1>7, <1>9, <1>10, <1>11

LEMMA NextCacheInv == ASSUME ViewInv, CacheInv, [Next]_vars PROVE CacheInv'
<1>1. ASSUME UNCHANGED <<worker, replies, files, allCount, gathered, lost, Removing>>,
             raced \subseteq raced', raced' \subseteq raced \cup {"query"},
             \A m \in ToSet(requests') : m.type = "info" => m \in ToSet(requests),
             init' = init \/ (init # "idle" /\ init' = "counts")
      PROVE  CacheInv'
  <2>1. UNCHANGED <<open, held, lastID, unread>>
    BY <1>1 DEF worker
  <2>2. Pending' = Pending /\ Coming' = Coming
    BY <1>1, <2>1 DEF Coming, Pending, Stored
  <2> QED BY <1>1, <2>1, <2>2, CacheFrame
<1>2. CASE Store
  BY <1>2, StoreCache
<1>3. CASE Announce
  BY <1>3, AnnounceCache
<1>4. CASE Handle
  BY <1>4, HandleCache
<1>5. ASSUME NEW type \in {"counts", "reinit", "query"}, NEW l \in Library \cup {None},
             Send(type, l, {}), type = "reinit" => l \in Library
      PROVE  /\ Removing' = Removing
             /\ \A m \in ToSet(requests') : m.type = "info" => m \in ToSet(requests)
  <2>1. type \in RequestType \ {"remove", "info"} /\ {} \in SUBSET Key
    BY DEF RequestType
  <2> QED BY <1>5, <2>1, SendKeeps DEF ViewInv
<1>6. CASE Mounted
  <2>1. Send("counts", None, {})
    BY <1>6 DEF Mounted
  <2>2. /\ UNCHANGED <<worker, replies, files, allCount, gathered, lost, raced>>
        /\ init # "idle" /\ init' = "counts"
    BY <1>6 DEF Mounted, view, history
  <2>3. /\ Removing' = Removing
        /\ \A m \in ToSet(requests') : m.type = "info" => m \in ToSet(requests)
    BY <1>5, <2>1
  <2> QED BY <1>1, <2>2, <2>3
<1>7. ASSUME NEW l \in Library, Switch(l) PROVE CacheInv'
  <2>1. /\ requests = <<>> /\ replies = <<>> /\ unread = {} /\ init' = "reinit"
        /\ Send("reinit", l, {}) /\ raced' = {"switch"} /\ UNCHANGED <<worker, replies>>
        /\ lost' = {}
    BY <1>7 DEF Switch, Settled, Overlaps
  <2>2. ToSet(replies') = {} /\ unread' = {} /\ Coming' = {}
    <3>1. ToSet(replies') = {} /\ unread' = {}
      BY <2>1 DEF ToSet, worker
    <3>2. Stored' = {} /\ Of(replies', "images") = {}
      BY <3>1 DEF Stored, Of
    <3> QED BY <2>1, <3>1, <3>2 DEF Coming, Pending
  <2>3. Removing' = {}
    <3>1. Removing' = Removing
      BY <1>5, <2>1
    <3>2. ToSet(requests) = {}
      BY <2>1 DEF ToSet
    <3> QED BY <3>1, <3>2 DEF Removing, Of
  <2>4. InitFollows' /\ StartFollows' /\ SwitchFollows'
    BY <2>1, <2>2, <2>3 DEF InitFollows, StartFollows, SwitchFollows, Absent, worker
  <2> QED BY <2>3, <2>4 DEF CacheInv
<1>8. CASE Query
  <2>1. /\ Send("query", None, {}) /\ raced \subseteq raced' /\ raced' \subseteq raced \cup {"query"}
        /\ UNCHANGED <<worker, replies, files, allCount, gathered, lost, init>>
    BY <1>8 DEF Query, Overlaps, view
  <2>2. /\ Removing' = Removing
        /\ \A m \in ToSet(requests') : m.type = "info" => m \in ToSet(requests)
    BY <1>5, <2>1
  <2> QED BY <1>1, <2>1, <2>2
<1>9. CASE ShowAll
  <2>1. UNCHANGED <<worker, requests, replies, files, allCount, gathered, lost, raced, init>>
    BY <1>9 DEF ShowAll, channels, actions, history
  <2>2. Removing' = Removing
    BY <2>1 DEF Removing
  <2> QED BY <1>1, <2>1, <2>2
<1>10. ASSUME NEW f \in Key, RemoveFiles(f) PROVE CacheInv'
  BY <1>10, RemoveFilesCache
<1>11. CASE Deliver
  BY <1>11, DeliverCache
<1>12. CASE UNCHANGED vars
  <2>1. UNCHANGED <<worker, requests, replies, files, allCount, gathered, lost, raced, init>>
    BY <1>12 DEF vars, channels, view, actions, history
  <2>2. Removing' = Removing
    BY <2>1 DEF Removing
  <2> QED BY <1>1, <2>1, <2>2
<1>13. CASE Abandon
  BY <1>13, AbandonCache
<1>14. CASE Misread
  BY <1>14, MisreadCache
<1> QED BY <1>2, <1>3, <1>4, <1>6, <1>7, <1>8, <1>9, <1>10, <1>11, <1>12, <1>13, <1>14 DEF Next
-------------------------------------------------------------------------------
\* The counts.

LEMMA InitCountsInv == ASSUME Init PROVE CountsInv
  BY DEF Init, CountsInv, CountsMiss

LEMMA MissSent ==
  ASSUME Types, CountsMiss, NEW m \in Answered, replies' = Append(replies, m),
         held'[open'] = held[open],
         Stored \subseteq Stored' \cup lost' \cup {f \in m.ids : m.type = "images"},
         lost \subseteq lost',
         m.type = "counts" => m.ids = held[open]
  PROVE  CountsMiss'
<1>1. replies \in Seq(Answered)
  BY DEF Types
<1>2. /\ DOMAIN replies' = 1 .. Len(replies) + 1
      /\ replies'[Len(replies) + 1] = m
      /\ \A i \in DOMAIN replies : replies'[i] = replies[i]
      /\ DOMAIN replies = 1 .. Len(replies) /\ Len(replies) \in Nat
  BY <1>1, Appended, InToSet
<1> SUFFICES ASSUME NEW i \in DOMAIN replies', replies'[i].type = "counts"
             PROVE  /\ replies'[i].ids \subseteq held[open]
                    /\ \A f \in held[open] \ replies'[i].ids :
                         f \in Stored' \/ f \in lost' \/ AnnouncedBehind(replies', i, f)
  BY DEF CountsMiss
<1>3. CASE i = Len(replies) + 1
  BY <1>2, <1>3
<1>4. CASE i \in DOMAIN replies
  <2>1. /\ replies[i].type = "counts" /\ replies'[i].ids = replies[i].ids
        /\ replies[i].ids \subseteq held[open]
    BY <1>2, <1>4 DEF CountsMiss
  <2>2. ASSUME NEW f \in held[open] \ replies[i].ids
        PROVE  f \in Stored' \/ f \in lost' \/ AnnouncedBehind(replies', i, f)
    <3>1. f \in Stored \/ f \in lost \/ AnnouncedBehind(replies, i, f)
      BY <1>4, <2>1 DEF CountsMiss
    <3>2. ASSUME AnnouncedBehind(replies, i, f) PROVE AnnouncedBehind(replies', i, f)
      BY <1>2, <3>2 DEF AnnouncedBehind
    <3>3. ASSUME m.type = "images", f \in m.ids PROVE AnnouncedBehind(replies', i, f)
      <4>1. Len(replies) + 1 \in DOMAIN replies' /\ Len(replies) + 1 > i
        BY <1>2, <1>4
      <4> QED BY <1>2, <3>3, <4>1 DEF AnnouncedBehind
    <3> QED BY <3>1, <3>2, <3>3
  <2> QED BY <2>1, <2>2
<1> QED BY <1>2, <1>3, <1>4

LEMMA MissTaken ==
  ASSUME Types, CountsMiss, replies # <<>>, replies' = Tail(replies),
         held'[open'] = held[open], Stored' = Stored, lost' = lost
  PROVE  /\ CountsMiss'
         /\ Head(replies).type = "counts" =>
              /\ Head(replies).ids \subseteq held[open]
              /\ held[open] \subseteq Head(replies).ids \cup Coming'
<1>1. replies \in Seq(Answered)
  BY DEF Types
<1>2. /\ Head(replies) = replies[1] /\ 1 \in DOMAIN replies
      /\ DOMAIN replies' = 1 .. Len(replies) - 1
      /\ \A i \in DOMAIN replies' : i + 1 \in DOMAIN replies /\ replies'[i] = replies[i + 1]
      /\ DOMAIN replies = 1 .. Len(replies) /\ Len(replies) \in Nat
  BY <1>1, Taken, InToSet
<1>3. ASSUME NEW i \in DOMAIN replies, NEW f, AnnouncedBehind(replies, i, f)
      PROVE  \E k \in DOMAIN replies' :
               k + 1 > i /\ replies'[k].type = "images" /\ f \in replies'[k].ids
  <2>1. PICK j \in DOMAIN replies : j > i /\ replies[j].type = "images" /\ f \in replies[j].ids
    BY <1>3 DEF AnnouncedBehind
  <2>2. j - 1 \in DOMAIN replies' /\ (j - 1) + 1 = j
    BY <1>2, <2>1
  <2> QED BY <1>2, <2>1, <2>2
<1>4. CountsMiss'
  <2> SUFFICES ASSUME NEW i \in DOMAIN replies', replies'[i].type = "counts"
               PROVE  /\ replies'[i].ids \subseteq held[open]
                      /\ \A f \in held[open] \ replies'[i].ids :
                           f \in Stored \/ f \in lost \/ AnnouncedBehind(replies', i, f)
    BY DEF CountsMiss
  <2>1. i + 1 \in DOMAIN replies /\ replies'[i] = replies[i + 1]
    BY <1>2
  <2>2. replies'[i].ids \subseteq held[open]
    BY <2>1 DEF CountsMiss
  <2>3. ASSUME NEW f \in held[open] \ replies'[i].ids, f \notin Stored, f \notin lost
        PROVE  AnnouncedBehind(replies', i, f)
    <3>1. AnnouncedBehind(replies, i + 1, f)
      BY <2>1, <2>3 DEF CountsMiss
    <3>2. PICK k \in DOMAIN replies' :
            k + 1 > i + 1 /\ replies'[k].type = "images" /\ f \in replies'[k].ids
      BY <1>3, <2>1, <3>1
    <3>3. k > i
      BY <1>2, <3>2
    <3> QED BY <3>2, <3>3 DEF AnnouncedBehind
  <2> QED BY <2>2, <2>3
<1>5. ASSUME Head(replies).type = "counts"
      PROVE  /\ Head(replies).ids \subseteq held[open]
             /\ held[open] \subseteq Head(replies).ids \cup Coming'
  <2>1. /\ Head(replies).ids \subseteq held[open]
        /\ \A f \in held[open] \ Head(replies).ids :
             f \in Stored \/ f \in lost \/ AnnouncedBehind(replies, 1, f)
    BY <1>2, <1>5 DEF CountsMiss
  <2>2. held[open] \subseteq FileID
    BY DEF Types, TypeOK
  <2>3. ASSUME NEW f \in FileID, AnnouncedBehind(replies, 1, f) PROVE f \in Of(replies', "images")
    BY <1>2, <1>3, <2>3 DEF Of, ToSet
  <2> QED BY <2>1, <2>2, <2>3 DEF Coming, Pending
<1> QED BY <1>4, <1>5

\* No count is taken or lost.
LEMMA CountsFrame ==
  ASSUME CountsInv, raced \subseteq raced', raced' = {} => CountsMiss',
         UNCHANGED <<open, held, Coming, unclasses, counting>>,
         \/ init' = init /\ gathered' = gathered
         \/ init = "mounted" /\ init' = "counts"
  PROVE  CountsInv'
<1> SUFFICES ASSUME raced' = {} PROVE CountsInv'
  BY DEF CountsInv
<1>1. raced = {}
  OBVIOUS
<1> QED BY <1>1 DEF CountsInv, IsSnapshot

LEMMA HandleCounts == ASSUME ViewInv, CacheInv, CountsInv, Handle PROVE CountsInv'
<1>1. open \in Library /\ held[open] \in SUBSET Key /\ held[open] \subseteq FileID /\ Types
  BY Keys DEF ViewInv, Types, TypeOK
<1>2. /\ UNCHANGED <<init, gathered, counting, unread, lost, unclasses>>
      /\ requests # <<>> /\ requests' = Tail(requests)
      /\ raced \subseteq raced'
  BY DEF Handle, actions, view, Overlaps
<1>3. Stored' = Stored
  BY <1>2 DEF Stored
<1> SUFFICES ASSUME raced' = {} PROVE CountsInv'
  BY DEF CountsInv
<1>4. CountsMiss /\ Removing = {} /\ InitFollows /\ raced = {}
  <2>1. raced = {}
    BY <1>2
  <2> QED BY <2>1 DEF CountsInv, CacheInv, Followed
<1>5. ASSUME NEW type \in {"counts", "snap", "info", "query"}, NEW F \in SUBSET Key,
             Asked(type, F), UNCHANGED <<open, held>>, type = "counts" => F = held[open]
      PROVE  CountsInv'
  <2>1. replies' = Append(replies, Message(type, open, F))
    BY <1>5 DEF Asked
  <2>2. /\ Message(type, open, F) \in Answered /\ Message(type, open, F).type = type
        /\ Message(type, open, F).ids = F
    BY <1>1 DEF Message, Answered, Reply
  <2>3. CountsMiss'
    BY <1>1, <1>2, <1>3, <1>4, <1>5, <2>1, <2>2, MissSent
  <2>4. Pending' = Pending /\ Coming' = Coming
    <3>1. type \in Reply /\ type # "images"
      BY DEF Reply
    <3>2. Of(replies', "images") = Of(replies, "images") \cup {f \in F \ {NoID} : type = "images"}
      BY <1>1, <1>5, <2>1, <3>1, ReplySent
    <3> QED BY <1>2, <1>3, <3>1, <3>2 DEF Coming, Pending
  <2> QED BY <1>2, <1>5, <2>3, <2>4, CountsFrame
<1>6. ASSUME NEW type \in {"counts", "snap"}, Asked(type, held[open]), UNCHANGED <<open, held>>
      PROVE  CountsInv'
  BY <1>1, <1>5, <1>6
<1>7. ASSUME Asked("info", Head(requests).ids \cap held[open]), UNCHANGED <<open, held>>
      PROVE  CountsInv'
  BY <1>1, <1>5, <1>7
<1>8. ASSUME NEW F \in SUBSET held[open], Asked("query", F), UNCHANGED <<open, held>>
      PROVE  CountsInv'
  BY <1>1, <1>5, <1>8
<1>9. CASE Erased
  <2>1. /\ Head(requests).type = "remove" /\ UNCHANGED <<open, replies>>
        /\ held' = [held EXCEPT ![open] = held[open] \ Head(requests).ids]
    BY <1>9 DEF Erased
  <2>2. Removing =
          Removing' \cup {f \in Head(requests).ids \ {NoID} : Head(requests).type = "remove"}
    BY <1>1, <1>2, RequestTaken
  <2>3. Head(requests).ids \ {NoID} = {}
    BY <1>4, <2>1, <2>2
  <2>4. held' = held
    <3>1. held[open] \ Head(requests).ids = held[open]
      BY <1>1, <2>3, Keys
    <3> QED BY <1>1, <2>1, <3>1 DEF Types, TypeOK
  <2>5. Pending' = Pending /\ Coming' = Coming /\ CountsMiss'
    BY <1>2, <1>3, <1>4, <2>1, <2>4 DEF Coming, Pending, CountsMiss
  <2> QED BY <1>2, <2>1, <2>4, <2>5, CountsFrame
<1>10. ASSUME Asked("reinit", {}) PROVE FALSE
  <2>1. Head(requests) \in ToSet(requests) /\ Head(requests).type = "reinit"
    BY <1>1, <1>10, RequestTaken DEF Asked
  <2>2. init = "reinit"
    BY <2>1 DEF ViewInv, Questions, Absent
  <2> QED BY <1>4, <2>2 DEF InitFollows
<1> QED BY <1>1, <1>6, <1>7, <1>8, <1>9, <1>10, HandleCases

LEMMA DeliverCounts == ASSUME ViewInv, CacheInv, CountsInv, Deliver PROVE CountsInv'
<1>1. PICK msg \in Answered :
           /\ msg = Head(replies) /\ replies # <<>> /\ replies' = Tail(replies)
           /\ Stored' = Stored /\ lost' = lost
           /\ msg.type # "images" => Coming' = Coming
           /\ msg.type \in Reply /\ msg.ids \in SUBSET Key
           /\ UNCHANGED worker
           /\ OnInit(msg) \/ OnCounts(msg) \/ OnQuery(msg) \/ OnImages(msg)
  BY DeliverEffect DEF ViewInv
<1>2. UNCHANGED <<open, held>>
  BY <1>1 DEF worker
<1>3. raced \subseteq raced'
  BY <1>1 DEF OnInit, OnCounts, OnQuery, OnImages, Overlaps, history
<1> SUFFICES ASSUME raced' = {} PROVE CountsInv'
  BY DEF CountsInv
<1>4. raced = {}
  BY <1>3
<1>5. /\ CountsMiss
      /\ init # "idle" => ~counting
      /\ init \in {"snap", "info"} => IsSnapshot(gathered.unclasses)
      /\ init = "idle" /\ ~counting =>
           \E U \in SUBSET Key : IsSnapshot(U) /\ unclasses = Cardinality(U)
      /\ InitFollows
  BY <1>4 DEF CountsInv, CacheInv, Followed
<1>6. /\ CountsMiss'
      /\ msg.type = "counts" =>
           msg.ids \subseteq held[open] /\ held[open] \subseteq msg.ids \cup Coming'
  BY <1>1, <1>2, <1>5, MissTaken DEF ViewInv
<1>7. CASE OnInit(msg)
  <2>1. /\ msg.type = init /\ counting' = (counting /\ msg.type # "counts")
        /\ Coming' = Coming
    BY <1>1, <1>7 DEF OnInit, Reply
  <2>2. ~counting
    BY <1>1, <1>5, <2>1 DEF Reply
  <2>3. ~counting'
    BY <2>1, <2>2
  <2>4. init # "reinit"
    BY <1>4, <1>5 DEF InitFollows
  <2>5. CASE init = "counts"
    <3>1. init' = "snap" /\ gathered' = [gathered EXCEPT !.unclasses = msg.ids]
      BY <1>7, <2>5 DEF OnInit
    <3>2. gathered'.unclasses = msg.ids
      BY <3>1 DEF ViewInv, Types
    <3>3. IsSnapshot(gathered.unclasses)'
      BY <1>2, <1>6, <2>1, <2>5, <3>2 DEF IsSnapshot
    <3> QED BY <1>6, <2>3, <3>1, <3>3 DEF CountsInv
  <2>6. CASE init = "snap"
    <3>1. init' = "info" /\ gathered' = [gathered EXCEPT !.filesSnap = msg.ids]
      BY <1>7, <2>6 DEF OnInit
    <3>2. gathered'.unclasses = gathered.unclasses
      BY <3>1 DEF ViewInv, Types
    <3>3. IsSnapshot(gathered.unclasses)'
      BY <1>2, <1>5, <2>1, <2>6, <3>2 DEF IsSnapshot
    <3> QED BY <1>6, <2>3, <3>1, <3>3 DEF CountsInv
  <2>7. CASE init = "info"
    <3>1. init' = "idle" /\ unclasses' = Cardinality(gathered.unclasses)
      BY <1>7, <2>7 DEF OnInit, CommitInit
    <3>2. PICK U \in SUBSET Key : U = gathered.unclasses
      BY DEF ViewInv, Types
    <3>3. IsSnapshot(U)'
      BY <1>2, <1>5, <2>1, <2>7, <3>2 DEF IsSnapshot
    <3> QED BY <1>6, <3>1, <3>2, <3>3 DEF CountsInv
  <2> QED BY <1>7, <2>4, <2>5, <2>6, <2>7 DEF OnInit
<1>8. CASE OnCounts(msg)
  <2>1. /\ msg.type = "counts" /\ counting' = FALSE /\ UNCHANGED <<init, gathered>>
        /\ unclasses' = IF counting THEN Cardinality(msg.ids) ELSE unclasses
    BY <1>8 DEF OnCounts
  <2>2. Coming' = Coming
    BY <1>1, <2>1
  <2>3. init' \in {"snap", "info"} => IsSnapshot(gathered.unclasses)'
    BY <1>2, <1>5, <2>1, <2>2 DEF IsSnapshot
  <2>4. init' = "idle" => \E U \in SUBSET Key : IsSnapshot(U)' /\ unclasses' = Cardinality(U)
    <3> SUFFICES ASSUME init = "idle"
                 PROVE  \E U \in SUBSET Key : IsSnapshot(U)' /\ unclasses' = Cardinality(U)
      BY <2>1
    <3>1. CASE counting
      <4>1. IsSnapshot(msg.ids)'
        BY <1>2, <1>6, <2>1 DEF IsSnapshot
      <4>2. unclasses' = Cardinality(msg.ids)
        BY <2>1, <3>1
      <4> QED BY <1>1, <4>1, <4>2
    <3>2. CASE ~counting
      <4>1. PICK U \in SUBSET Key : IsSnapshot(U) /\ unclasses = Cardinality(U)
        BY <1>5, <3>2
      <4>2. IsSnapshot(U)'
        BY <1>2, <2>2, <4>1 DEF IsSnapshot
      <4>3. unclasses' = unclasses
        BY <2>1, <3>2
      <4> QED BY <4>1, <4>2, <4>3
    <3> QED BY <3>1, <3>2
  <2>5. ~counting'
    BY <2>1
  <2> QED BY <1>6, <2>3, <2>4, <2>5 DEF CountsInv
<1>9. CASE OnQuery(msg)
  <2>1. msg.type = "query" /\ UNCHANGED <<unclasses, counting, init, gathered>>
    BY <1>9 DEF OnQuery
  <2> QED BY <1>1, <1>2, <1>3, <1>6, <2>1, CountsFrame
<1>10. CASE OnImages(msg)
  <2>1. counting' = TRUE /\ init' = init /\ raced' = raced \cup {x \in {"init"} : init # "idle"}
    BY <1>10 DEF OnImages, Overlaps
  <2>2. init' = "idle"
    BY <2>1
  <2>3. counting'
    BY <2>1
  <2> QED BY <1>6, <2>2, <2>3 DEF CountsInv
<1> QED BY <1>1, <1>7, <1>8, <1>9, <1>10

LEMMA NextCounts == ASSUME ViewInv, CacheInv, CountsInv, [Next]_vars PROVE CountsInv'
<1>1. ASSUME UNCHANGED <<worker, replies, unclasses, counting, lost>>, raced \subseteq raced',
             \/ init' = init /\ gathered' = gathered
             \/ init = "mounted" /\ init' = "counts"
      PROVE  CountsInv'
  <2>1. UNCHANGED <<open, held>> /\ Coming' = Coming /\ Stored' = Stored
    BY <1>1 DEF worker, Coming, Pending, Stored
  <2>2. raced' = {} => CountsMiss'
    BY <1>1, <2>1 DEF CountsInv, CountsMiss
  <2> QED BY <1>1, <2>1, <2>2, CountsFrame
<1>2. CASE Store
  <2>1. UNCHANGED <<open, replies, unclasses, init, gathered, counting, lost>>
        /\ raced \subseteq raced'
    BY <1>2 DEF Store, channels, view, actions
  <2> SUFFICES ASSUME raced' = {} PROVE CountsInv'
    BY DEF CountsInv
  <2>2. PICK n \in FileID :
          /\ n \notin held[open]
          /\ held' = [held EXCEPT ![open] = held[open] \cup {n}]
          /\ Stored' = Stored \cup {n} /\ Coming' = Coming \cup {n}
    BY <1>2, StoreEffect DEF ViewInv
  <2>3. held'[open'] = held[open] \cup {n}
    BY <2>1, <2>2 DEF ViewInv, Types, TypeOK
  <2>4. /\ CountsMiss
        /\ init # "idle" => ~counting
        /\ init \in {"snap", "info"} => IsSnapshot(gathered.unclasses)
        /\ init = "idle" /\ ~counting =>
             \E U \in SUBSET Key : IsSnapshot(U) /\ unclasses = Cardinality(U)
    BY <2>1 DEF CountsInv
  <2>5. CountsMiss'
    BY <2>1, <2>2, <2>3, <2>4 DEF CountsMiss
  <2>6. \A U : IsSnapshot(U) => IsSnapshot(U)'
    BY <2>1, <2>2, <2>3 DEF IsSnapshot
  <2>7. IsSnapshot(gathered.unclasses) => IsSnapshot(gathered.unclasses)'
    BY <2>1, <2>2, <2>3 DEF IsSnapshot
  <2>8. init' = "idle" /\ ~counting' =>
          \E U \in SUBSET Key : IsSnapshot(U)' /\ unclasses' = Cardinality(U)
    BY <2>1, <2>4, <2>6
  <2> QED BY <2>1, <2>4, <2>5, <2>7, <2>8 DEF CountsInv
<1>3. CASE Announce
  <2>1. UNCHANGED <<open, held, unclasses, init, gathered, counting, lost, raced>>
    BY <1>3 DEF Announce, view, actions, history
  <2>2. PICK m \in Answered :
          /\ replies' = Append(replies, m) /\ m.type = "images"
          /\ Stored \subseteq Stored' \cup m.ids
          /\ Coming' = Coming
    <3>1. PICK l \in Library, f \in FileID :
             /\ replies' = Append(replies, Message("images", l, {f}))
             /\ Stored \subseteq Stored' \cup {f}
             /\ Coming' = Coming
      BY <1>3, AnnounceEffect DEF ViewInv
    <3>2. {f} \in SUBSET Key
      BY Keys
    <3>3. /\ Message("images", l, {f}) \in Answered
          /\ Message("images", l, {f}).type = "images" /\ Message("images", l, {f}).ids = {f}
      BY <3>2 DEF Message, Answered, Reply
    <3> QED BY <3>1, <3>3
  <2>3. raced' = {} => CountsMiss'
    <3>1. Stored \subseteq Stored' \cup lost' \cup {f \in m.ids : m.type = "images"}
      BY <2>2
    <3> QED BY <2>1, <2>2, <3>1, MissSent DEF ViewInv, CountsInv
  <2> QED BY <2>1, <2>2, <2>3, CountsFrame
<1>4. CASE Handle
  BY <1>4, HandleCounts
<1>5. CASE Mounted
  BY <1>1, <1>5 DEF Mounted, view, history
<1>6. ASSUME NEW l \in Library, Switch(l) PROVE CountsInv'
  BY <1>6 DEF Switch, Overlaps, CountsInv
<1>7. CASE Query
  BY <1>1, <1>7 DEF Query, Overlaps, view
<1>8. CASE ShowAll
  BY <1>1, <1>8 DEF ShowAll, channels, actions, history
<1>9. ASSUME NEW f \in Key, RemoveFiles(f) PROVE CountsInv'
  BY <1>9 DEF RemoveFiles, CountsInv
<1>10. CASE Deliver
  BY <1>10, DeliverCounts
<1>11. CASE UNCHANGED vars
  BY <1>1, <1>11 DEF vars, channels, view, actions, history
<1>12. CASE Abandon
  <2>1. UNCHANGED <<open, held, replies, unclasses, init, gathered, counting, raced>>
    BY <1>12 DEF Abandon, channels, view, actions
  <2>2. Stored \subseteq Stored' \cup lost' /\ lost \subseteq lost' /\ Coming' = Coming
    BY <1>12, AbandonEffect DEF ViewInv
  <2>3. raced' = {} => CountsMiss'
    BY <2>1, <2>2 DEF CountsInv, CountsMiss
  <2> QED BY <2>1, <2>2, <2>3, CountsFrame
<1>13. CASE Misread
  <2>1. UNCHANGED <<open, held, unclasses, init, gathered, counting, lost, raced>>
    BY <1>13 DEF Misread, worker, view, actions, history
  <2>2. PICK m \in Answered :
          /\ replies' = Append(replies, m) /\ m.type = "images"
          /\ Stored' = Stored /\ Coming' = Coming
    BY <1>13, MisreadEffect DEF ViewInv
  <2>3. raced' = {} => CountsMiss'
    <3>1. /\ Stored \subseteq Stored' \cup lost' \cup {f \in m.ids : m.type = "images"}
          /\ lost \subseteq lost' /\ m.type # "counts"
      BY <2>1, <2>2
    <3> QED BY <2>1, <2>2, <3>1, MissSent DEF ViewInv, CountsInv
  <2> QED BY <2>1, <2>2, <2>3, CountsFrame
<1> QED BY <1>2, <1>3, <1>4, <1>5, <1>6, <1>7, <1>8, <1>9, <1>10, <1>11, <1>12, <1>13 DEF Next

LEMMA InitIndInv == ASSUME Init PROVE IndInv
  BY InitView, InitCacheInv, InitCountsInv DEF IndInv

LEMMA NextIndInv == ASSUME IndInv, [Next]_vars PROVE IndInv'
  BY NextViewInv, NextCacheInv, NextCounts DEF IndInv

\* When nothing is on its way, nothing is to be removed or announced.
LEMMA SettledFollows == ASSUME IndInv PROVE CacheFollows
<1>1. ASSUME Settled, Followed
      PROVE  /\ Removing = {} /\ Pending = {} /\ init = "idle" /\ ~counting
             /\ StartFollows /\ SwitchFollows
             /\ held[open] \subseteq Known \cup lost
             /\ held[open] \in SUBSET FileID /\ Known \in SUBSET Key
  <2>1. ToSet(requests) = {} /\ ToSet(replies) = {} /\ unread = {} /\ init = "idle" /\ ~counting
    BY <1>1 DEF Settled, ToSet
  <2>2. Removing = {} /\ Pending = {} /\ Coming = lost
    BY <2>1 DEF Removing, Pending, Coming, Stored, Of
  <2>3. held[open] \subseteq Known \cup lost
    BY <1>1, <2>1, <2>2 DEF Followed, IndInv, ViewInv, AnswersCover, Covers
  <2>4. held[open] \in SUBSET FileID /\ Known \in SUBSET Key
    BY DEF IndInv, ViewInv, Types, TypeOK, Known
  <2> QED BY <1>1, <2>1, <2>2, <2>3, <2>4 DEF IndInv, CacheInv
<1>2. ASSUME Settled, Followed, "switch" \notin raced
      PROVE  /\ Known \ {NoID} \subseteq held[open] /\ held[open] \subseteq Known \cup lost
             /\ \A f \in Known : files[f] = open
             /\ "stays" \notin raced => allCount = Cardinality(Known)
             /\ \A f \in held[open] \ lost : files[f] = open
  <2>1. /\ \A f \in Key : files[f] \in {None, open}
        /\ Known \ {NoID} \subseteq held[open]
        /\ "stays" \notin raced => allCount = Cardinality(Known)
    BY <1>1, <1>2 DEF StartFollows
  <2>2. \A f \in Known : files[f] = open
    BY <2>1 DEF Known
  <2> QED BY <1>1, <1>2, <2>1, <2>2
<1>3. ASSUME Settled, raced = {}
      PROVE  \E L \in SUBSET lost : unclasses = Cardinality(held[open] \ L)
  <2>1. Followed
    BY <1>3 DEF Followed
  <2>2. PICK U \in SUBSET Key : IsSnapshot(U) /\ unclasses = Cardinality(U)
    BY <1>1, <1>3, <2>1 DEF IndInv, CountsInv
  <2>3. Coming = lost
    BY <1>1, <1>3, <2>1 DEF Coming
  <2>4. held[open] \ U \in SUBSET lost /\ held[open] \ (held[open] \ U) = U
    BY <2>2, <2>3 DEF IsSnapshot
  <2> QED BY <2>2, <2>4
<1>4. ASSUME Settled, Followed, "switch" \in raced
      PROVE  /\ \A f \in held[open] \ lost : files[f] = open
             /\ raced = {"switch"} /\ NoID \notin Known => allCount = Cardinality(held[open])
  <2>1. Removing = {} /\ init = "idle" /\ SwitchFollows
    BY <1>1, <1>4
  <2> QED BY <1>4, <2>1 DEF SwitchFollows
<1>5. ASSUME Settled, raced \subseteq {"removal", "stays"}
      PROVE  Followed /\ "switch" \notin raced
  BY <1>5 DEF Followed
<1>6. ASSUME Settled, raced \subseteq {"switch", "removal", "stays"}
      PROVE  /\ \A f \in held[open] \ lost : files[f] = open
             /\ raced = {"switch"} /\ NoID \notin Known => allCount = Cardinality(held[open])
  <2>1. Followed
    BY <1>6 DEF Followed
  <2>2. CASE "switch" \in raced
    BY <1>4, <1>6, <2>1, <2>2
  <2>3. CASE "switch" \notin raced
    BY <1>2, <1>6, <2>1, <2>3
  <2> QED BY <2>2, <2>3
<1> QED BY <1>2, <1>3, <1>5, <1>6 DEF CacheFollows

\* When everything sent has arrived, the cache has the files of the library but those
\* given up after they were stored, and no others but one that could not be read, and
\* the counts beside the list are theirs, but for the steps that overlap in the ways
\* CacheFollows names; and after a switch what the library held is there (init, addFiles
\* and removeFiles of Cache.js, onUpdateImages of App.vue).
THEOREM CacheHasTheLibrary == Spec => []CacheFollows
<1> QED BY InitIndInv, NextIndInv, SettledFollows, PTL DEF Spec
===============================================================================
