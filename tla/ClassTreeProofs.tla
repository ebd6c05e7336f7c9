--------------------------- MODULE ClassTreeProofs ----------------------------
(***************************************************************************)
(* Proofs about ClassTree, for any words, depth, hash and number of        *)
(* classes, when parents are added first and no class with grandchildren   *)
(* is renamed: the three tables agree, and implement ClassForest.          *)
(***************************************************************************)
EXTENDS ClassTree, SetInduction, SequenceTheorems, FiniteSetTheorems

-------------------------------------------------------------------------------
\* Paths.

Node == Path \cup {Root}

\* p is q or a class above it.
Above(p, q) == Len(p) <= Len(q) /\ \A n \in 1 .. Len(p) : q[n] = p[n]

LEMMA PathType ==
  ASSUME NEW p \in Path
  PROVE  /\ p \in Seq(Word) /\ Len(p) \in 1 .. Depth
         /\ p = [n \in 1 .. Len(p) |-> p[n]] /\ \A n \in 1 .. Len(p) : p[n] \in Word
<1>1. PICK n \in 1 .. Depth : p \in [1 .. n -> Word]
  BY DEF Path
<1>2. n \in Nat /\ n <= Depth /\ 1 <= n
  BY ClassTreeAssumption
<1>3. p \in Seq(Word) /\ Len(p) = n
  BY <1>1, <1>2
<1> QED BY <1>1, <1>2, <1>3

LEMMA RootType == Root \in Seq(Word) /\ Len(Root) = 0
BY DEF Root

LEMMA RootIsNoPath == Root \notin Path
BY PathType, RootType, ClassTreeAssumption

\* A path is known by its length and words.
LEMMA PathIs ==
  ASSUME NEW p \in Seq(Word), Len(p) \in 1 .. Depth
  PROVE  p \in Path
<1>1. p \in [1 .. Len(p) -> Word]
  OBVIOUS
<1> QED BY <1>1 DEF Path

LEMMA NodeType ==
  ASSUME NEW p \in Node
  PROVE  /\ p \in Seq(Word) /\ Len(p) \in 0 .. Depth /\ Len(p) \in Nat
         /\ \A n \in 1 .. Len(p) : p[n] \in Word
         /\ p = Root <=> Len(p) = 0
<1>1. CASE p \in Path
  BY <1>1, PathType, RootType, ClassTreeAssumption
<1>2. CASE p = Root
  BY <1>2, RootType, ClassTreeAssumption
<1> QED BY <1>1, <1>2 DEF Node

LEMMA SamePath ==
  ASSUME NEW p \in Node, NEW q \in Node, Len(p) = Len(q),
         \A n \in 1 .. Len(p) : p[n] = q[n]
  PROVE  p = q
BY NodeType

LEMMA ParentType ==
  ASSUME NEW p \in Path
  PROVE  /\ Parent(p) \in Node /\ Len(Parent(p)) = Len(p) - 1
         /\ \A n \in 1 .. Len(p) - 1 : Parent(p)[n] = p[n]
<1>1. p \in Seq(Word) /\ Len(p) \in 1 .. Depth /\ Len(p) \in Nat /\ Depth \in Nat
  BY PathType, ClassTreeAssumption
<1>2. /\ Parent(p) \in Seq(Word) /\ Len(Parent(p)) = Len(p) - 1
      /\ \A n \in 1 .. Len(p) - 1 : Parent(p)[n] = p[n]
  <2>1. /\ 1 \in Int /\ Len(p) - 1 \in Int
        /\ \A n \in 1 .. Len(p) - 1 : p[n] \in Word
    BY <1>1
  <2>2. /\ Parent(p) \in Seq(Word)
        /\ Len(Parent(p)) = IF 1 <= Len(p) - 1 THEN (Len(p) - 1) - 1 + 1 ELSE 0
        /\ \A n \in 1 .. (Len(p) - 1) - 1 + 1 : Parent(p)[n] = p[1 + n - 1]
    BY <2>1, SubSeqProperties DEF Parent
  <2>3. Len(Parent(p)) = Len(p) - 1
    <3>1. PICK k \in Nat : k = Len(p)
      BY <1>1
    <3>2. 1 <= k
      BY <1>1, <3>1
    <3>3. PICK l : l = Len(Parent(p))
      OBVIOUS
    <3>4. l = IF 1 <= k - 1 THEN (k - 1) - 1 + 1 ELSE 0
      BY <2>2, <3>1, <3>3
    <3>5. l = k - 1
      BY <3>2, <3>4
    <3> QED BY <3>1, <3>3, <3>5
  <2>4. ASSUME NEW n \in 1 .. Len(p) - 1 PROVE Parent(p)[n] = p[n]
    <3>1. n \in 1 .. (Len(p) - 1) - 1 + 1 /\ 1 + n - 1 = n
      BY <1>1
    <3> QED BY <2>2, <3>1
  <2> QED BY <2>2, <2>3, <2>4
<1>3. CASE Len(p) = 1
  BY <1>1, <1>2, <1>3 DEF Node, Root
<1>4. CASE Len(p) # 1
  <2>1. Len(Parent(p)) \in 1 .. Depth
    BY <1>1, <1>2, <1>4
  <2> QED BY <1>2, <2>1, PathIs DEF Node
<1> QED BY <1>3, <1>4

LEMMA AboveParent ==
  ASSUME NEW p \in Node, NEW q \in Path, p # q
  PROVE  Above(p, q) <=> Above(p, Parent(q))
<1>1. /\ Parent(q) \in Node /\ Len(Parent(q)) = Len(q) - 1 /\ Len(q) \in Nat
      /\ \A n \in 1 .. Len(q) - 1 : Parent(q)[n] = q[n]
  BY ParentType, PathType, ClassTreeAssumption
<1>2. p \in Node /\ q \in Node /\ Len(p) \in Nat
  BY NodeType DEF Node
<1>3. Above(p, q) /\ Len(p) = Len(q) => p = q
  BY <1>2, SamePath DEF Above
<1>4. ASSUME Above(p, q) PROVE Above(p, Parent(q))
  <2>1. Len(p) <= Len(q) - 1
    BY <1>1, <1>2, <1>3, <1>4 DEF Above
  <2> QED BY <1>1, <1>2, <1>4, <2>1 DEF Above
<1>5. ASSUME Above(p, Parent(q)) PROVE Above(p, q)
  BY <1>1, <1>2, <1>5 DEF Above
<1> QED BY <1>4, <1>5

LEMMA AboveFacts ==
  ASSUME NEW p \in Node
  PROVE  /\ Above(p, p)
         /\ Above(p, Root) => p = Root
         /\ p # Root => ~ Above(p, Parent(p))
<1>1. Len(p) \in Nat /\ (p = Root <=> Len(p) = 0)
  BY NodeType
<1>2. p # Root => Len(Parent(p)) = Len(p) - 1
  BY ParentType DEF Node
<1> QED BY <1>1, <1>2, RootType DEF Above

\* A rename, as it changes a path.
NewName(old, w) == [old EXCEPT ![Len(old)] = w]

LEMMA NewNameType ==
  ASSUME NEW old \in Path, NEW w \in Word
  PROVE  /\ NewName(old, w) \in Path /\ Len(NewName(old, w)) = Len(old)
         /\ NewName(old, w)[Len(old)] = w
         /\ \A n \in 1 .. Len(old) - 1 : NewName(old, w)[n] = old[n]
         /\ Parent(NewName(old, w)) = Parent(old)
<1> DEFINE new == NewName(old, w)
<1>1. /\ old = [n \in 1 .. Len(old) |-> old[n]] /\ Len(old) \in 1 .. Depth /\ Len(old) \in Nat
      /\ \A n \in 1 .. Len(old) : old[n] \in Word
  BY PathType, ClassTreeAssumption
<1>2. /\ new = [n \in 1 .. Len(old) |-> IF n = Len(old) THEN w ELSE old[n]]
  BY <1>1 DEF NewName
<1>3. new \in Seq(Word) /\ Len(new) = Len(old)
  <2>1. new \in [1 .. Len(old) -> Word]
    BY <1>1, <1>2
  <2> QED BY <1>1, <2>1
<1>4. new \in Path
  BY <1>1, <1>3, PathIs
<1>5. /\ new[Len(old)] = w
      /\ \A n \in 1 .. Len(old) - 1 : new[n] = old[n]
  BY <1>1, <1>2
<1> HIDE DEF new
<1>6. Parent(new) = Parent(old)
  <2>1. /\ Parent(new) \in Node /\ Len(Parent(new)) = Len(new) - 1
        /\ \A n \in 1 .. Len(new) - 1 : Parent(new)[n] = new[n]
    BY <1>4, ParentType
  <2>2. /\ Parent(old) \in Node /\ Len(Parent(old)) = Len(old) - 1
        /\ \A n \in 1 .. Len(old) - 1 : Parent(old)[n] = old[n]
    BY ParentType
  <2>3. \A n \in 1 .. Len(Parent(new)) : Parent(new)[n] = Parent(old)[n]
    BY <1>3, <1>5, <2>1, <2>2
  <2> QED BY <1>3, <2>1, <2>2, <2>3, SamePath
<1> QED BY <1>3, <1>4, <1>5, <1>6 DEF new

LEMMA RenamedType ==
  ASSUME NEW old \in Path, NEW new \in Path, Len(new) = Len(old),
         NEW p \in Path, Above(old, p)
  PROVE  /\ Renamed(old, new, p) \in Path /\ Len(Renamed(old, new, p)) = Len(p)
         /\ \A n \in 1 .. Len(p) :
              Renamed(old, new, p)[n] = IF n <= Len(old) THEN new[n] ELSE p[n]
<1> DEFINE rest == SubSeq(p, Len(old) + 1, Len(p))
           r == Renamed(old, new, p)
<1>1. /\ p \in Seq(Word) /\ new \in Seq(Word)
      /\ Len(p) \in Nat /\ Len(old) \in Nat /\ Len(old) <= Len(p)
      /\ Len(p) \in 1 .. Depth
      /\ \A n \in 1 .. Len(p) : p[n] \in Word
  BY PathType, ClassTreeAssumption DEF Above
<1>2. /\ rest \in Seq(Word) /\ Len(rest) = Len(p) - Len(old)
      /\ \A n \in 1 .. Len(p) - Len(old) : rest[n] = p[Len(old) + n]
  <2>1. /\ Len(old) + 1 \in Int /\ Len(p) \in Int
        /\ \A n \in Len(old) + 1 .. Len(p) : p[n] \in Word
    BY <1>1
  <2>2. /\ rest \in Seq(Word)
        /\ Len(rest) = IF Len(old) + 1 <= Len(p) THEN Len(p) - (Len(old) + 1) + 1 ELSE 0
        /\ \A n \in 1 .. Len(p) - (Len(old) + 1) + 1 : rest[n] = p[Len(old) + 1 + n - 1]
    BY <2>1, SubSeqProperties
  <2> HIDE DEF rest
  <2>3. Len(rest) = Len(p) - Len(old)
    BY <1>1, <2>2
  <2>4. ASSUME NEW n \in 1 .. Len(p) - Len(old) PROVE rest[n] = p[Len(old) + n]
    <3>1. n \in 1 .. Len(p) - (Len(old) + 1) + 1 /\ Len(old) + 1 + n - 1 = Len(old) + n
      BY <1>1
    <3> QED BY <2>2, <3>1
  <2> QED BY <2>2, <2>3, <2>4
<1>3. /\ r \in Seq(Word) /\ Len(r) = Len(new) + Len(rest)
      /\ \A n \in 1 .. Len(new) + Len(rest) :
           r[n] = IF n <= Len(new) THEN new[n] ELSE rest[n - Len(new)]
  BY <1>1, <1>2, ConcatProperties DEF Renamed
<1> HIDE DEF rest, r
<1>4. Len(r) = Len(p)
  BY <1>1, <1>2, <1>3
<1>5. ASSUME NEW n \in 1 .. Len(p)
      PROVE  r[n] = IF n <= Len(old) THEN new[n] ELSE p[n]
  <2>1. n \in 1 .. Len(new) + Len(rest) /\ n \in Nat
    BY <1>1, <1>2
  <2>2. CASE n <= Len(old)
    BY <1>3, <2>1, <2>2
  <2>3. CASE ~ (n <= Len(old))
    <3>1. n - Len(old) \in 1 .. Len(p) - Len(old) /\ Len(old) + (n - Len(old)) = n
      BY <1>1, <2>1, <2>3
    <3> QED BY <1>2, <1>3, <2>1, <2>3, <3>1
  <2> QED BY <2>2, <2>3
<1>6. r \in Path
  BY <1>1, <1>3, <1>4, PathIs
<1> QED BY <1>4, <1>5, <1>6 DEF r

\* A path, when the class at old and those below it are renamed.
Ren(old, new, p) == IF Above(old, p) THEN Renamed(old, new, p) ELSE p

LEMMA RenType ==
  ASSUME NEW old \in Path, NEW new \in Path, Len(new) = Len(old), NEW p \in Node
  PROVE  /\ Ren(old, new, p) \in Node /\ Len(Ren(old, new, p)) = Len(p)
         /\ p \in Path => Ren(old, new, p) \in Path
         /\ Above(old, p) => Above(new, Ren(old, new, p))
         /\ Ren(old, new, Root) = Root
         /\ Ren(old, new, old) = new
<1>1. /\ old \in Node /\ old # Root /\ new \in Node
      /\ Len(old) \in Nat /\ Len(p) \in Nat
  BY RootIsNoPath, NodeType DEF Node
<1>2. Ren(old, new, Root) = Root
  BY <1>1, AboveFacts DEF Ren
<1>3. Ren(old, new, old) = new
  <2>1. Above(old, old)
    BY <1>1, AboveFacts
  <2>2. /\ Renamed(old, new, old) \in Path /\ Len(Renamed(old, new, old)) = Len(old)
        /\ \A n \in 1 .. Len(old) :
             Renamed(old, new, old)[n] = IF n <= Len(old) THEN new[n] ELSE old[n]
    BY <2>1, RenamedType
  <2>3. \A n \in 1 .. Len(old) : Renamed(old, new, old)[n] = new[n]
    BY <1>1, <2>2
  <2>4. Renamed(old, new, old) = new
    BY <1>1, <2>2, <2>3, SamePath DEF Node
  <2> QED BY <2>1, <2>4 DEF Ren
<1>4. CASE Above(old, p)
  <2>1. p \in Path
    BY <1>1, <1>4, AboveFacts DEF Node
  <2>2. /\ Renamed(old, new, p) \in Path /\ Len(Renamed(old, new, p)) = Len(p)
        /\ \A n \in 1 .. Len(p) :
             Renamed(old, new, p)[n] = IF n <= Len(old) THEN new[n] ELSE p[n]
    BY <1>4, <2>1, RenamedType
  <2>3. Above(new, Renamed(old, new, p))
    BY <1>1, <1>4, <2>2 DEF Above
  <2> QED BY <1>2, <1>3, <1>4, <2>2, <2>3 DEF Ren, Node
<1>5. CASE ~ Above(old, p)
  <2>1. Ren(old, new, p) = p
    BY <1>5 DEF Ren
  <2> QED BY <1>2, <1>3, <1>5, <2>1
<1> QED BY <1>4, <1>5

LEMMA RenParent ==
  ASSUME NEW old \in Path, NEW w \in Word, NEW p \in Path
  PROVE  Parent(Ren(old, NewName(old, w), p)) = Ren(old, NewName(old, w), Parent(p))
<1> DEFINE new == NewName(old, w)
<1>1. /\ new \in Path /\ Len(new) = Len(old) /\ Parent(new) = Parent(old)
  BY NewNameType
<1>2. old \in Node /\ old # Root /\ p \in Node
  BY RootIsNoPath DEF Node
<1>3. /\ Parent(p) \in Node /\ Len(Parent(p)) = Len(p) - 1 /\ Len(p) \in Nat
      /\ \A n \in 1 .. Len(p) - 1 : Parent(p)[n] = p[n]
  BY <1>2, ParentType, NodeType
<1> HIDE DEF new
<1>4. CASE ~ Above(old, p)
  <2>1. p # old
    BY <1>2, <1>4, AboveFacts
  <2>2. ~ Above(old, Parent(p))
    BY <1>2, <1>4, <2>1, AboveParent
  <2> QED BY <1>4, <2>2 DEF Ren, new
<1>5. CASE p = old
  <2>1. ~ Above(old, Parent(p))
    BY <1>2, <1>5, AboveFacts
  <2>2. Ren(old, new, p) = new
    BY <1>1, <1>2, <1>5, RenType
  <2> QED BY <1>1, <1>5, <2>1, <2>2 DEF Ren, new
<1>6. CASE Above(old, p) /\ p # old
  <2>1. Above(old, Parent(p))
    BY <1>2, <1>6, AboveParent
  <2>2. Parent(p) \in Path
    BY <1>2, <1>3, <2>1, AboveFacts DEF Node
  <2> DEFINE q == Renamed(old, new, Parent(p))
             r == Renamed(old, new, p)
  <2>3. /\ r \in Path /\ Len(r) = Len(p)
        /\ \A n \in 1 .. Len(p) : r[n] = IF n <= Len(old) THEN new[n] ELSE p[n]
    BY <1>1, <1>6, RenamedType
  <2>4. /\ q \in Path /\ Len(q) = Len(Parent(p))
        /\ \A n \in 1 .. Len(Parent(p)) :
             q[n] = IF n <= Len(old) THEN new[n] ELSE Parent(p)[n]
    BY <1>1, <2>1, <2>2, RenamedType
  <2> HIDE DEF q, r
  <2>5. /\ Parent(r) \in Node /\ Len(Parent(r)) = Len(r) - 1
        /\ \A n \in 1 .. Len(r) - 1 : Parent(r)[n] = r[n]
    BY <2>3, ParentType
  <2>6. \A n \in 1 .. Len(p) - 1 : Parent(r)[n] = q[n]
    BY <1>3, <2>3, <2>4, <2>5
  <2>7. Parent(r) = q
    BY <1>3, <2>3, <2>4, <2>5, <2>6, SamePath DEF Node
  <2> QED BY <1>6, <2>1, <2>7 DEF Ren, q, r, new
<1> QED BY <1>4, <1>5, <1>6

\* Two classes have different names after a rename to a name nothing is under.
LEMMA RenInjective ==
  ASSUME NEW old \in Path, NEW new \in Path, Len(new) = Len(old),
         NEW p \in Node, NEW q \in Node, ~ Above(new, p), ~ Above(new, q),
         Ren(old, new, p) = Ren(old, new, q)
  PROVE  p = q
<1>1. Above(old, p) <=> Above(old, q)
  BY RenType DEF Ren
<1>2. CASE ~ Above(old, p)
  BY <1>1, <1>2 DEF Ren
<1>3. CASE Above(old, p)
  <2>1. old \in Node /\ old # Root
    BY RootIsNoPath DEF Node
  <2>2. p \in Path /\ q \in Path /\ Len(p) \in Nat /\ Len(old) \in Nat
    BY <1>1, <1>3, <2>1, AboveFacts, NodeType DEF Node
  <2> DEFINE r == Renamed(old, new, p)
  <2>3. r = Renamed(old, new, q)
    BY <1>1, <1>3 DEF Ren
  <2>4. /\ Len(r) = Len(p)
        /\ \A n \in 1 .. Len(p) : r[n] = IF n <= Len(old) THEN new[n] ELSE p[n]
    BY <1>3, <2>2, RenamedType
  <2>5. /\ Len(r) = Len(q)
        /\ \A n \in 1 .. Len(q) : r[n] = IF n <= Len(old) THEN new[n] ELSE q[n]
    BY <1>1, <1>3, <2>2, <2>3, RenamedType
  <2> HIDE DEF r
  <2>6. \A n \in 1 .. Len(p) : p[n] = q[n]
    <3> TAKE n \in 1 .. Len(p)
    <3>1. CASE n <= Len(old)
      <4>1. n \in 1 .. Len(old)
        BY <2>2, <3>1
      <4> QED BY <1>1, <1>3, <4>1 DEF Above
    <3>2. CASE ~ (n <= Len(old))
      BY <2>4, <2>5, <3>2
    <3> QED BY <3>1, <3>2
  <2> QED BY <2>4, <2>5, <2>6, SamePath
<1> QED BY <1>2, <1>3

-------------------------------------------------------------------------------
\* Probe finds an id: e and the numbers behind it are more than there are used.

Triangle(n) == (n * (n + 1)) \div 2

LEMMA TriangleStep ==
  ASSUME NEW n \in Nat
  PROVE  Triangle(n) \in Nat /\ Triangle(n + 1) = Triangle(n) + n + 1
<1>1. PICK x \in Nat : x = n * (n + 1)
  OBVIOUS
<1>2. (n + 1) * (n + 1 + 1) = x + 2 * (n + 1)
  BY <1>1
<1>3. (x + 2 * (n + 1)) \div 2 = x \div 2 + (n + 1)
  OBVIOUS
<1>4. x \div 2 \in Nat
  OBVIOUS
<1> QED BY <1>1, <1>2, <1>3, <1>4 DEF Triangle

LEMMA TriangleGrows ==
  \A n \in Nat : \A m \in Nat : m < n => Triangle(m) < Triangle(n)
<1> DEFINE T == {n \in Nat : \A m \in Nat : m < n => Triangle(m) < Triangle(n)}
<1>1. 0 \in T
  OBVIOUS
<1>2. ASSUME NEW n \in T PROVE n + 1 \in T
  <2> SUFFICES ASSUME NEW m \in Nat, m < n + 1 PROVE Triangle(m) < Triangle(n + 1)
    OBVIOUS
  <2>1. n \in Nat /\ Triangle(n) \in Nat /\ Triangle(n + 1) = Triangle(n) + n + 1
    BY TriangleStep
  <2>2. Triangle(m) \in Nat
    BY TriangleStep
  <2>3. m = n \/ Triangle(m) < Triangle(n)
    BY <2>1
  <2> QED BY <2>1, <2>2, <2>3
<1>3. T = Nat
  <2> HIDE DEF T
  <2>1. T \in SUBSET Nat
    BY DEF T
  <2> QED BY <1>1, <1>2, <2>1, Induction
<1> QED BY <1>3

LEMMA ProbeType ==
  ASSUME NEW e \in Nat, NEW used \in SUBSET Nat, IsFiniteSet(used)
  PROVE  Probe(e, used) \in Nat /\ Probe(e, used) \notin used
<1> DEFINE C == Cardinality(used)
           id == [n \in 0 .. C |-> e + Triangle(n)]
           Free == {n \in 0 .. C : id[n] \notin used}
<1>1. C \in Nat
  BY FS_CardinalityType
<1>2. \A n \in 0 .. C : id[n] \in Nat /\ id[n] = e + Triangle(n)
  BY <1>1, TriangleStep
<1>3. Free # {}
  <2> SUFFICES ASSUME \A n \in 0 .. C : id[n] \in used PROVE FALSE
    OBVIOUS
  <2>1. id \in [0 .. C -> used]
    OBVIOUS
  <2>2. IsFiniteSet(0 .. C) /\ Cardinality(0 .. C) = C + 1
    <3>1. /\ IsFiniteSet(0 .. C)
          /\ Cardinality(0 .. C) = IF 0 > C THEN 0 ELSE C - 0 + 1
      BY <1>1, FS_Interval
    <3> QED BY <1>1, <3>1
  <2> HIDE DEF id
  <2>3. Cardinality(used) < Cardinality(0 .. C)
    BY <1>1, <2>2
  <2>4. PICK x \in 0 .. C, y \in 0 .. C : x # y /\ id[x] = id[y]
    BY <2>1, <2>2, <2>3, FS_PigeonHole
  <2>5. /\ x \in Nat /\ y \in Nat /\ (x < y \/ y < x)
        /\ Triangle(x) \in Nat /\ Triangle(y) \in Nat
    BY <1>1, <2>4, TriangleStep
  <2>6. Triangle(x) # Triangle(y)
    BY <2>5, TriangleGrows
  <2> QED BY <1>2, <2>4, <2>5, <2>6
<1>4. PICK n \in Free : \A m \in Free : n <= m
  <2>1. Free \in SUBSET Nat
    BY <1>1
  <2> HIDE DEF Free
  <2> QED BY <1>3, <2>1, LeastNumber
<1>5. \E k \in 0 .. C : id[k] \notin used /\ \A m \in 0 .. k - 1 : id[m] \in used
  <2>1. n \in 0 .. C /\ n \in Nat /\ id[n] \notin used
    BY <1>1, <1>4
  <2>2. ASSUME NEW m \in 0 .. n - 1 PROVE id[m] \in used
    <3>1. m \in 0 .. C /\ ~ (n <= m)
      BY <1>1, <2>1
    <3> HIDE DEF id
    <3> QED BY <1>4, <3>1
  <2> QED BY <2>1, <2>2
<1> DEFINE k == CHOOSE k \in 0 .. C : id[k] \notin used /\ \A m \in 0 .. k - 1 : id[m] \in used
<1>6. k \in 0 .. C /\ id[k] \notin used
  <2> HIDE DEF id
  <2> QED BY <1>5
<1>7. Probe(e, used) = id[k]
  BY DEF Probe, Triangle
<1> HIDE DEF k, id
<1> QED BY <1>2, <1>6, <1>7

-------------------------------------------------------------------------------
\* What the tables say of one another, class by class.

TreeInv ==
  /\ Inv
  /\ hash2class = [i \in DOMAIN hash2class |-> hash2class[i]]
  /\ IsFiniteSet(DOMAIN hash2class)

LEMMA ClassFacts ==
  ASSUME TreeInv, NEW k \in Exists
  PROVE  /\ k \in Path /\ k \in Node /\ IsClassExist(Parent(k))
         /\ class2hash[k].self \in DOMAIN hash2class
         /\ hash2class[class2hash[k].self] = k
         /\ class2hash[k].self \in GetClassChildren(Parent(k))
         /\ GetClassByHash(class2hash[k].parent) = Parent(k)
<1>1. k \in Path /\ k \in DOMAIN class2hash
  BY DEF TreeInv, Inv, TypeOK, Exists
<1>2. /\ class2hash[k].self \in DOMAIN hash2class /\ hash2class[class2hash[k].self] = k
      /\ class2hash[Root].self = RootID /\ RootID \notin DOMAIN hash2class
      /\ \A j \in Exists :
           class2hash[j].self \in DOMAIN hash2class /\ hash2class[class2hash[j].self] = j
  BY DEF TreeInv, Inv, TwoWay
<1>3. /\ IsClassExist(Parent(k))
      /\ class2hash[k].parent = class2hash[Parent(k)].self
      /\ class2hash[k].self \in class2hash[Parent(k)].children
  BY DEF TreeInv, Inv, RowsAgree
<1>4. GetClassByHash(class2hash[k].parent) = Parent(k)
  <2>1. CASE Parent(k) = Root
    BY <1>2, <1>3, <2>1 DEF GetClassByHash
  <2>2. CASE Parent(k) # Root
    <3>1. Parent(k) \in Exists
      BY <1>3, <2>2 DEF Exists, IsClassExist
    <3> QED BY <1>2, <1>3, <3>1 DEF GetClassByHash
  <2> QED BY <2>1, <2>2
<1> QED BY <1>1, <1>2, <1>3, <1>4 DEF GetClassChildren, Node

LEMMA IdFacts ==
  ASSUME TreeInv, NEW i \in DOMAIN hash2class
  PROVE  /\ i \in Nat /\ i # RootID
         /\ hash2class[i] \in Exists
         /\ class2hash[hash2class[i]].self = i
         /\ GetClassByHash(i) = hash2class[i]
<1>1. /\ i # RootID /\ IsClassExist(hash2class[i]) /\ class2hash[hash2class[i]].self = i
  BY DEF TreeInv, Inv, TwoWay
<1>2. i \in Nat /\ hash2class[i] \in Path
  BY DEF TreeInv, Inv, TypeOK
<1> QED BY <1>1, <1>2, RootIsNoPath DEF Exists, IsClassExist, GetClassByHash

LEMMA ChildFacts ==
  ASSUME TreeInv, NEW k, NEW i \in GetClassChildren(k)
  PROVE  i \in DOMAIN hash2class /\ Parent(hash2class[i]) = k /\ IsClassExist(k)
<1>1. k \in DOMAIN class2hash /\ i \in class2hash[k].children
  BY DEF GetClassChildren, IsClassExist
<1>2. i \in DOMAIN hash2class
  BY <1>1 DEF TreeInv, Inv, RowsAgree
<1>3. Parent(hash2class[i]) = k
  BY <1>1, <1>2 DEF TreeInv, Inv, RowsAgree, ChildrenFollow
<1> QED BY <1>1, <1>2, <1>3 DEF IsClassExist

\* The rows of files, pair by pair.
LEMMA FilesFacts ==
  ASSUME TreeInv
  PROVE  /\ \A e \in class2file : /\ e = <<e[1], e[2]>> /\ e[1] \in DOMAIN hash2class
                                  /\ e[1] \in Nat /\ e[2] \in File
         /\ \A e \in file2class : e = <<e[1], e[2]>> /\ e[1] \in File /\ e[2] \in Nat
         /\ \A i \in Nat, f \in File : <<i, f>> \in class2file <=> <<f, i>> \in file2class
<1>1. /\ class2file \subseteq Nat \X File /\ file2class \subseteq File \X Nat
      /\ \A e \in class2file : e[1] \in DOMAIN hash2class
      /\ class2file = {<<e[2], e[1]>> : e \in file2class}
  BY DEF TreeInv, Inv, TypeOK, FilesAgree
<1> QED BY <1>1

LEMMA PairsAgree ==
  ASSUME NEW A \in SUBSET (Nat \X File), NEW B \in SUBSET (File \X Nat),
         \A i \in Nat, f \in File : <<i, f>> \in A <=> <<f, i>> \in B
  PROVE  A = {<<e[2], e[1]>> : e \in B}
<1>1. ASSUME NEW a \in A PROVE a \in {<<e[2], e[1]>> : e \in B}
  <2>1. a = <<a[1], a[2]>> /\ a[1] \in Nat /\ a[2] \in File
    OBVIOUS
  <2>2. <<a[2], a[1]>> \in B
    BY <2>1
  <2> QED BY <2>1, <2>2
<1>2. ASSUME NEW e \in B PROVE <<e[2], e[1]>> \in A
  <2>1. e = <<e[1], e[2]>> /\ e[1] \in File /\ e[2] \in Nat
    OBVIOUS
  <2> QED BY <2>1
<1> QED BY <1>1, <1>2

\* Above a class there are classes.
LEMMA AboveExists ==
  ASSUME TreeInv, NEW p \in Path
  PROVE  \A k \in Exists : Above(p, k) => p \in Exists
<1> DEFINE T == {n \in Nat : \A k \in Exists : Len(k) <= n /\ Above(p, k) => p \in Exists}
<1>1. \A k \in Exists : k \in Path /\ Len(k) \in Nat /\ 1 <= Len(k)
  BY ClassFacts, PathType, ClassTreeAssumption
<1>2. 0 \in T
  BY <1>1
<1>3. ASSUME NEW n \in T PROVE n + 1 \in T
  <2> SUFFICES ASSUME NEW k \in Exists, Len(k) <= n + 1, Above(p, k) PROVE p \in Exists
    OBVIOUS
  <2>1. k \in Path /\ IsClassExist(Parent(k)) /\ p \in Node /\ p # Root
    BY ClassFacts, RootIsNoPath DEF Node
  <2>2. CASE p = k
    BY <2>2
  <2>3. CASE p # k
    <3>1. Above(p, Parent(k))
      BY <2>1, <2>3, AboveParent
    <3>2. Parent(k) \in Exists
      BY <2>1, <3>1, AboveFacts DEF Exists, IsClassExist
    <3>3. Len(Parent(k)) <= n
      BY <1>1, <2>1, ParentType
    <3> QED BY <3>1, <3>2, <3>3
  <2> QED BY <2>2, <2>3
<1>4. T = Nat
  <2> HIDE DEF T
  <2>1. T \in SUBSET Nat
    BY DEF T
  <2> QED BY <1>2, <1>3, <2>1, Induction
<1> QED BY <1>1, <1>4

\* When no child of a class has children, what is below it are its children.
LEMMA OneLevel ==
  ASSUME TreeInv, NEW p \in Path,
         \A i \in Followers(p) : GetClassChildren(hash2class[i]) = {}
  PROVE  \A k \in Exists : Above(p, k) /\ k # p => Parent(k) = p
<1> DEFINE T == {n \in Nat : \A k \in Exists :
                   Len(k) <= n /\ Above(p, k) /\ k # p => Parent(k) = p}
<1>1. \A k \in Exists : k \in Path /\ Len(k) \in Nat /\ 1 <= Len(k)
  BY ClassFacts, PathType, ClassTreeAssumption
<1>2. 0 \in T
  BY <1>1
<1>3. ASSUME NEW n \in T PROVE n + 1 \in T
  <2> SUFFICES ASSUME NEW k \in Exists, Len(k) <= n + 1, Above(p, k), k # p
               PROVE  Parent(k) = p
    OBVIOUS
  <2> DEFINE up == Parent(k)
  <2>1. k \in Path /\ IsClassExist(up) /\ p \in Node /\ p # Root
    BY ClassFacts, RootIsNoPath DEF Node
  <2>2. Above(p, up) /\ Len(up) <= n
    BY <1>1, <2>1, AboveParent, ParentType
  <2>3. up \in Exists
    BY <2>1, <2>2, AboveFacts DEF Exists, IsClassExist
  <2>4. class2hash[k].self \in GetClassChildren(up)
    BY ClassFacts
  <2> HIDE DEF up
  <2>5. CASE up # p
    <3>1. Parent(up) = p
      BY <2>2, <2>3, <2>5
    <3>2. /\ class2hash[up].self \in Followers(p)
          /\ hash2class[class2hash[up].self] = up
      BY <2>3, <3>1, ClassFacts DEF Followers
    <3> QED BY <2>4, <3>2
  <2> QED BY <2>5 DEF up
<1>4. T = Nat
  <2> HIDE DEF T
  <2>1. T \in SUBSET Nat
    BY DEF T
  <2> QED BY <1>2, <1>3, <2>1, Induction
<1> QED BY <1>1, <1>4

-------------------------------------------------------------------------------
\* updateClassName, as a renaming of the classes under the old name.

RenamedTo(old, new) ==
  /\ DOMAIN class2hash' = {Ren(old, new, k) : k \in DOMAIN class2hash}
  /\ \A k \in DOMAIN class2hash : class2hash'[Ren(old, new, k)] = class2hash[k]
  /\ hash2class' = [i \in DOMAIN hash2class |-> Ren(old, new, hash2class[i])]

LEMMA NodeOfRow ==
  ASSUME TreeInv, NEW k \in DOMAIN class2hash
  PROVE  k \in Node /\ (k # Root => k \in Exists)
BY DEF TreeInv, Inv, TypeOK, Node, Exists

LEMMA NothingUnder ==
  ASSUME TreeInv, NEW new \in Path, ~ IsClassExist(new), NEW k \in DOMAIN class2hash
  PROVE  ~ Above(new, k)
<1>1. new \notin Exists /\ new # Root /\ new \in Node
  BY RootIsNoPath DEF IsClassExist, Exists, Node
<1>2. CASE k = Root
  BY <1>1, <1>2, AboveFacts
<1>3. CASE k # Root
  BY <1>1, <1>3, NodeOfRow, AboveExists
<1> QED BY <1>2, <1>3

LEMMA RenameIsRenaming ==
  ASSUME TreeInv, ~ Deep, NEW old \in Path, NEW w \in Word, UpdateClassName(old, w)
  PROVE  RenamedTo(old, NewName(old, w)) /\ ~ IsClassExist(NewName(old, w))
<1> DEFINE new == NewName(old, w)
           from == {old} \cup {hash2class[i] : i \in Followers(old)}
           ids == Followers(old) \cup ({GetClassHash(old)} \cap DOMAIN hash2class)
           rows == from \cap DOMAIN class2hash
<1>1. /\ ~ IsClassExist(new)
      /\ \A i \in Followers(old) : GetClassChildren(hash2class[i]) = {}
      /\ hash2class' = [i \in DOMAIN hash2class |->
                          IF i \in ids THEN Renamed(old, new, hash2class[i])
                          ELSE hash2class[i]]
      /\ class2hash' =
           [k \in (DOMAIN class2hash \ from) \cup {Renamed(old, new, q) : q \in rows} |->
              IF \E q \in rows : Renamed(old, new, q) = k
              THEN class2hash[CHOOSE q \in rows : Renamed(old, new, q) = k]
              ELSE class2hash[k]]
  BY DEF UpdateClassName, NewName
<1>2. /\ new \in Path /\ Len(new) = Len(old) /\ old \in Node /\ old # Root
  BY NewNameType, RootIsNoPath DEF Node
<1> HIDE DEF new
<1>3. ASSUME NEW k \in DOMAIN class2hash PROVE k \in from <=> Above(old, k)
  <2>1. CASE k = old
    BY <1>2, <2>1, AboveFacts
  <2>2. CASE k # old
    <3>1. ASSUME k \in from PROVE Above(old, k)
      <4>1. PICK i \in Followers(old) : k = hash2class[i]
        BY <2>2, <3>1
      <4>2. Parent(k) = old /\ k \in Exists
        BY <4>1, ChildFacts, IdFacts DEF Followers
      <4> QED BY <1>2, <2>2, <4>2, ClassFacts, AboveParent, AboveFacts
    <3>2. ASSUME Above(old, k) PROVE k \in from
      <4>1. k \in Exists
        BY <1>2, <3>2, NodeOfRow, AboveFacts
      <4>2. Parent(k) = old
        BY <1>1, <2>2, <3>2, <4>1, OneLevel
      <4>3. /\ class2hash[k].self \in Followers(old)
            /\ hash2class[class2hash[k].self] = k
        BY <4>1, <4>2, ClassFacts DEF Followers
      <4> QED BY <4>3
    <3> QED BY <3>1, <3>2
  <2> QED BY <2>1, <2>2
<1>4. ASSUME NEW i \in DOMAIN hash2class PROVE i \in ids <=> Above(old, hash2class[i])
  <2>1. hash2class[i] \in Exists /\ class2hash[hash2class[i]].self = i /\ i # RootID
    BY IdFacts
  <2>2. hash2class[i] \in DOMAIN class2hash
    BY <2>1 DEF Exists
  <2>3. ASSUME i \in ids PROVE hash2class[i] \in from
    <3>1. CASE i \in Followers(old)
      BY <3>1
    <3>2. CASE i = GetClassHash(old)
      <4>1. IsClassExist(old) /\ i = class2hash[old].self
        BY <2>1, <3>2 DEF GetClassHash
      <4>2. old \in Exists
        BY <1>2, <4>1 DEF Exists, IsClassExist
      <4> QED BY <4>1, <4>2, ClassFacts
    <3> QED BY <2>3, <3>1, <3>2
  <2>4. ASSUME hash2class[i] \in from PROVE i \in ids
    <3>1. CASE hash2class[i] = old
      <4>1. GetClassHash(old) = i
        BY <2>1, <2>2, <3>1 DEF GetClassHash, IsClassExist
      <4> QED BY <4>1
    <3>2. CASE hash2class[i] # old
      <4>1. PICK j \in Followers(old) : hash2class[i] = hash2class[j]
        BY <2>4, <3>2
      <4>2. j \in DOMAIN hash2class
        BY <4>1 DEF Followers
      <4>3. i = j
        BY <2>1, <4>1, <4>2, IdFacts
      <4> QED BY <4>1, <4>3
    <3> QED BY <3>1, <3>2
  <2> QED BY <1>3, <2>2, <2>3, <2>4
<1>5. hash2class' = [i \in DOMAIN hash2class |-> Ren(old, new, hash2class[i])]
  <2> HIDE DEF ids
  <2> QED BY <1>1, <1>4 DEF Ren
<1>6. \A k \in DOMAIN class2hash :
        Ren(old, new, k) = IF k \in rows THEN Renamed(old, new, k) ELSE k
  BY <1>3 DEF Ren
<1> HIDE DEF from, ids
<1>7. DOMAIN class2hash' = {Ren(old, new, k) : k \in DOMAIN class2hash}
  <2>1. DOMAIN class2hash' =
          (DOMAIN class2hash \ from) \cup {Renamed(old, new, q) : q \in rows}
    BY <1>1
  <2>2. \A k \in DOMAIN class2hash : Ren(old, new, k) \in DOMAIN class2hash'
    BY <1>6, <2>1
  <2>3. ASSUME NEW x \in DOMAIN class2hash'
        PROVE  \E k \in DOMAIN class2hash : x = Ren(old, new, k)
    <3>1. CASE x \in DOMAIN class2hash \ from
      BY <1>6, <3>1
    <3>2. CASE x \in {Renamed(old, new, q) : q \in rows}
      <4>1. PICK q \in rows : x = Renamed(old, new, q)
        BY <3>2
      <4> QED BY <1>6, <4>1
    <3> QED BY <2>1, <3>1, <3>2
  <2> QED BY <2>2, <2>3
<1>8. ASSUME NEW k \in DOMAIN class2hash
      PROVE  class2hash'[Ren(old, new, k)] = class2hash[k]
  <2> DEFINE x == Ren(old, new, k)
  <2>1. x \in DOMAIN class2hash'
    BY <1>7
  <2>2. \A q \in DOMAIN class2hash : Ren(old, new, q) = x => q = k
    BY <1>1, <1>2, NothingUnder, NodeOfRow, RenInjective
  <2>3. class2hash'[x] = IF \E q \in rows : Renamed(old, new, q) = x
                         THEN class2hash[CHOOSE q \in rows : Renamed(old, new, q) = x]
                         ELSE class2hash[x]
    BY <1>1, <2>1
  <2>4. x = IF k \in rows THEN Renamed(old, new, k) ELSE k
    BY <1>6
  <2> HIDE DEF x
  <2>5. \A q \in rows : Renamed(old, new, q) = x => q = k
    BY <1>6, <2>2
  <2>6. CASE k \in rows
    BY <2>3, <2>4, <2>5, <2>6 DEF x
  <2>7. CASE k \notin rows
    BY <2>3, <2>4, <2>5, <2>7 DEF x
  <2> QED BY <2>6, <2>7
<1> QED BY <1>1, <1>5, <1>7, <1>8 DEF RenamedTo, new

LEMMA RenamingKeeps ==
  ASSUME TreeInv, NEW old \in Path, NEW w \in Word,
         RenamedTo(old, NewName(old, w)), ~ IsClassExist(NewName(old, w))
  PROVE  /\ TwoWay' /\ RowsAgree'
         /\ DOMAIN hash2class' = DOMAIN hash2class
         /\ \A i \in DOMAIN hash2class' : hash2class'[i] \in Path
         /\ DOMAIN class2hash' \subseteq Path \cup {Root}
         /\ \A k \in DOMAIN class2hash' :
              class2hash'[k] \in [self : Nat, parent : Nat, children : SUBSET Nat]
<1> DEFINE new == NewName(old, w)
           R(k) == Ren(old, new, k)
<1>1. new \in Path /\ Len(new) = Len(old) /\ ~ IsClassExist(new)
  BY NewNameType
<1>2. /\ \A k \in DOMAIN class2hash : R(k) \in DOMAIN class2hash' /\ class2hash'[R(k)] = class2hash[k]
      /\ \A x \in DOMAIN class2hash' : \E k \in DOMAIN class2hash : x = R(k)
      /\ DOMAIN hash2class' = DOMAIN hash2class
      /\ \A i \in DOMAIN hash2class : hash2class'[i] = R(hash2class[i])
  BY DEF RenamedTo
<1>3. \A p \in Path : Parent(R(p)) = R(Parent(p))
  BY RenParent
<1> HIDE DEF new
<1>4. \A k \in DOMAIN class2hash : /\ k \in Node /\ R(k) \in Node
                                   /\ (k \in Path => R(k) \in Path)
                                   /\ (k = Root <=> R(k) = Root)
  <2> TAKE k \in DOMAIN class2hash
  <2>1. k \in Node
    BY NodeOfRow
  <2>2. R(k) \in Node /\ Len(R(k)) = Len(k) /\ (k \in Path => R(k) \in Path)
    BY <1>1, <2>1, RenType
  <2>3. k = Root <=> R(k) = Root
    BY <2>1, <2>2, NodeType
  <2> QED BY <2>1, <2>2, <2>3
<1>5. R(Root) = Root
  BY <1>1, RenType DEF Node
<1> HIDE DEF R
<1>6. Root \in DOMAIN class2hash /\ class2hash[Root].self = RootID
  BY DEF TreeInv, Inv, TwoWay, Exists
<1>7. \A x \in Exists' : \E k \in Exists : x = R(k) /\ class2hash'[x] = class2hash[k]
  BY <1>2, <1>4, <1>6 DEF Exists
<1>8. \A i \in DOMAIN hash2class :
        /\ i # RootID /\ hash2class[i] \in Exists /\ hash2class[i] \in DOMAIN class2hash
        /\ hash2class[i] \in Path /\ class2hash[hash2class[i]].self = i
  BY IdFacts, ClassFacts DEF Exists
<1>9. \A k \in Exists :
        /\ k \in Path /\ k \in DOMAIN class2hash /\ Parent(k) \in DOMAIN class2hash
        /\ class2hash[k].self \in DOMAIN hash2class
        /\ hash2class[class2hash[k].self] = k
        /\ class2hash[k].parent = class2hash[Parent(k)].self
        /\ class2hash[k].self \in class2hash[Parent(k)].children
  BY ClassFacts DEF Exists, IsClassExist, TreeInv, Inv, RowsAgree
<1>10. TwoWay'
  <2>1. Root \in DOMAIN class2hash' /\ class2hash'[Root].self = RootID
    BY <1>2, <1>5, <1>6
  <2>2. ASSUME NEW x \in Exists'
        PROVE  class2hash'[x].self \in DOMAIN hash2class' /\ hash2class'[class2hash'[x].self] = x
    BY <1>2, <1>7, <1>9
  <2>3. ASSUME NEW i \in DOMAIN hash2class'
        PROVE  /\ i # RootID /\ hash2class'[i] \in DOMAIN class2hash'
               /\ class2hash'[hash2class'[i]].self = i
    BY <1>2, <1>8
  <2> QED BY <2>1, <2>2, <2>3 DEF TwoWay, IsClassExist
<1>11. RowsAgree'
  <2>1. ASSUME NEW x \in Exists'
        PROVE  /\ Parent(x) \in DOMAIN class2hash'
               /\ class2hash'[x].parent = class2hash'[Parent(x)].self
               /\ class2hash'[x].self \in class2hash'[Parent(x)].children
    <3>1. PICK k \in Exists : x = R(k) /\ class2hash'[x] = class2hash[k]
      BY <1>7
    <3>2. Parent(x) = R(Parent(k)) /\ Parent(k) \in DOMAIN class2hash
      BY <1>3, <1>9, <3>1
    <3>3. class2hash'[Parent(x)] = class2hash[Parent(k)] /\ Parent(x) \in DOMAIN class2hash'
      BY <1>2, <3>2
    <3> QED BY <1>9, <3>1, <3>3
  <2>2. ASSUME NEW x \in DOMAIN class2hash'
        PROVE  /\ class2hash'[x].children \subseteq DOMAIN hash2class'
               /\ \A i \in class2hash'[x].children \cap DOMAIN hash2class' :
                    Parent(hash2class'[i]) = x
    <3>1. PICK k \in DOMAIN class2hash : x = R(k) /\ class2hash'[x] = class2hash[k]
      BY <1>2
    <3>2. \A i \in class2hash[k].children : i \in DOMAIN hash2class /\ Parent(hash2class[i]) = k
      BY ChildFacts DEF GetClassChildren, IsClassExist
    <3>3. \A i \in class2hash[k].children : Parent(R(hash2class[i])) = R(k)
      BY <1>3, <1>8, <3>2
    <3> QED BY <1>2, <3>1, <3>2, <3>3
  <2> QED BY <2>1, <2>2 DEF RowsAgree, ChildrenFollow, IsClassExist
<1>12. \A i \in DOMAIN hash2class' : hash2class'[i] \in Path
  BY <1>2, <1>4, <1>8
<1>13. DOMAIN class2hash' \subseteq Path \cup {Root}
  BY <1>2, <1>4 DEF Node
<1>14. ASSUME NEW x \in DOMAIN class2hash'
       PROVE  class2hash'[x] \in [self : Nat, parent : Nat, children : SUBSET Nat]
  <2>1. PICK k \in DOMAIN class2hash : class2hash'[x] = class2hash[k]
    BY <1>2
  <2> QED BY <2>1 DEF TreeInv, Inv, TypeOK
<1> QED BY <1>2, <1>10, <1>11, <1>12, <1>13, <1>14

LEMMA RenameKeeps ==
  ASSUME TreeInv, ~ Deep, NEW old \in Path, NEW w \in Word, UpdateClassName(old, w)
  PROVE  TreeInv'
<1>1. RenamedTo(old, NewName(old, w)) /\ ~ IsClassExist(NewName(old, w))
  BY RenameIsRenaming
<1>2. /\ TwoWay' /\ RowsAgree'
      /\ DOMAIN hash2class' = DOMAIN hash2class
      /\ \A i \in DOMAIN hash2class' : hash2class'[i] \in Path
      /\ DOMAIN class2hash' \subseteq Path \cup {Root}
      /\ \A k \in DOMAIN class2hash' :
           class2hash'[k] \in [self : Nat, parent : Nat, children : SUBSET Nat]
  BY <1>1, RenamingKeeps
<1>3. old[Len(old)] \in Word
  BY PathType, ClassTreeAssumption
<1>4. /\ keyword2class' =
            [keyword2class EXCEPT ![old[Len(old)]] = {}, ![w] = keyword2class[old[Len(old)]]]
      /\ moved' = moved \cup {old[Len(old)], w}
      /\ changes < MaxChange /\ changes' = changes + 1
      /\ UNCHANGED <<class2file, file2class>>
  BY DEF UpdateClassName
<1>5. /\ keyword2class \in [Word -> SUBSET Nat] /\ moved \subseteq Word
      /\ changes \in 0 .. MaxChange /\ DOMAIN hash2class \subseteq Nat
      /\ class2file \subseteq Nat \X File /\ file2class \subseteq File \X Nat
  BY DEF TreeInv, Inv, TypeOK
<1>6. TypeOK'
  <2>1. keyword2class' \in [Word -> SUBSET Nat] /\ moved' \subseteq Word
    BY <1>3, <1>4, <1>5
  <2>2. changes' \in 0 .. MaxChange
    BY <1>4, <1>5, ClassTreeAssumption
  <2> QED BY <1>2, <1>4, <1>5, <2>1, <2>2 DEF TypeOK
<1>7. hash2class' = [i \in DOMAIN hash2class' |-> hash2class'[i]]
  BY <1>1 DEF RenamedTo
<1>8. FilesAgree'
  BY <1>2, <1>4 DEF FilesAgree, TreeInv, Inv
<1> QED BY <1>2, <1>6, <1>7, <1>8 DEF TreeInv, Inv

-------------------------------------------------------------------------------
\* addClasses: a class that is new has an id nothing has.

AddedAt(p, F, child) ==
  /\ DOMAIN class2hash' = DOMAIN class2hash \cup {p}
  /\ class2hash'[p].self = child
  /\ \A k \in DOMAIN class2hash \ {Parent(p)} : class2hash'[k] = class2hash[k]
  /\ class2hash'[Parent(p)] =
       [class2hash[Parent(p)] EXCEPT !.children = @ \cup {child}]
  /\ hash2class' = [i \in DOMAIN hash2class \cup {child} |->
                      IF i \in DOMAIN hash2class THEN hash2class[i] ELSE p]
  /\ keyword2class' = MapWords(p, child)
  /\ class2file' = class2file \cup ({child} \X F)
  /\ file2class' = file2class \cup (F \X {child})
  /\ UNCHANGED <<moved, changes>>

LEMMA AddIsAdding ==
  ASSUME TreeInv, ParentsFirst, NEW p \in Path, NEW F \in SUBSET File, AddClass(p, F)
  PROVE  /\ IsClassExist(Parent(p)) /\ Parent(p) # p
         /\ \E child \in Nat :
              /\ child # RootID /\ AddedAt(p, F, child)
              /\ IsClassExist(p) => /\ child = class2hash[p].self
                                    /\ class2hash'[p] = class2hash[p]
              /\ ~ IsClassExist(p) =>
                   /\ child \notin DOMAIN hash2class
                   /\ class2hash'[p] = Row(child, class2hash[Parent(p)].self, {})
<1> DEFINE child == GenerateClassHash(p, DOMAIN hash2class)
           used == DOMAIN hash2class \cup {child}
           up == IF Parent(p) = Root THEN RootID ELSE GenerateClassHash(Parent(p), used)
           row == IF IsClassExist(p) THEN class2hash[p] ELSE Row(child, up, {})
           parentRow == IF IsClassExist(Parent(p))
                        THEN [class2hash[Parent(p)] EXCEPT !.children = @ \cup {child}]
                        ELSE Row(0, child, {})
<1>1. /\ IsClassExist(Parent(p)) /\ child # RootID
      /\ hash2class' = [i \in used |-> IF i \in DOMAIN hash2class THEN hash2class[i] ELSE p]
      /\ keyword2class' = MapWords(p, child)
      /\ class2hash' = [k \in DOMAIN class2hash \cup {p, Parent(p)} |->
                          CASE k = p -> row
                            [] k = Parent(p) -> parentRow
                            [] OTHER -> class2hash[k]]
      /\ class2file' = class2file \cup ({child} \X F)
      /\ file2class' = file2class \cup (F \X {child})
      /\ UNCHANGED <<moved, changes>>
  BY DEF AddClass
<1>2. Parent(p) # p
  <2>1. p \in Node /\ p # Root
    BY RootIsNoPath DEF Node
  <2> QED BY <2>1, AboveFacts
<1>3. up = class2hash[Parent(p)].self
  BY <1>1 DEF GenerateClassHash, TreeInv, Inv, TwoWay
<1>4. CASE IsClassExist(p)
  <2>1. child = class2hash[p].self
    BY <1>4 DEF GenerateClassHash
  <2>2. child \in Nat
    BY <1>4, <2>1 DEF IsClassExist, TreeInv, Inv, TypeOK
  <2> HIDE DEF child
  <2>3. AddedAt(p, F, child) /\ class2hash'[p] = class2hash[p]
    BY <1>1, <1>2, <1>4, <2>1 DEF AddedAt, IsClassExist
  <2> QED BY <1>1, <1>2, <1>4, <2>1, <2>2, <2>3
<1>5. CASE ~ IsClassExist(p)
  <2>1. child = Probe(Hash(p), DOMAIN hash2class)
    BY <1>5 DEF GenerateClassHash
  <2>2. DOMAIN hash2class \in SUBSET Nat /\ IsFiniteSet(DOMAIN hash2class)
    BY DEF TreeInv, Inv, TypeOK
  <2>3. Hash(p) \in Nat
    BY HashAssumption
  <2>4. child \in Nat /\ child \notin DOMAIN hash2class
    BY <2>1, <2>2, <2>3, ProbeType
  <2> HIDE DEF child
  <2>5. row = Row(child, class2hash[Parent(p)].self, {})
    BY <1>3, <1>5
  <2>6. AddedAt(p, F, child) /\ class2hash'[p] = row
    <3>1. row.self = child
      BY <2>5 DEF Row
    <3> HIDE DEF row, up
    <3>2. /\ DOMAIN class2hash' = DOMAIN class2hash \cup {p}
          /\ class2hash'[p] = row /\ class2hash'[Parent(p)] = parentRow
          /\ \A k \in DOMAIN class2hash \ {Parent(p)} : class2hash'[k] = class2hash[k]
      BY <1>1, <1>2, <1>5 DEF IsClassExist
    <3>3. parentRow = [class2hash[Parent(p)] EXCEPT !.children = @ \cup {child}]
      BY <1>1
    <3> HIDE DEF parentRow
    <3> QED BY <1>1, <3>1, <3>2, <3>3 DEF AddedAt
  <2> QED BY <1>1, <1>2, <1>5, <2>4, <2>5, <2>6
<1> QED BY <1>4, <1>5

LEMMA AddKeeps ==
  ASSUME TreeInv, ParentsFirst, NEW p \in Path, NEW F \in SUBSET File, AddClass(p, F)
  PROVE  TreeInv'
<1>1. IsClassExist(Parent(p)) /\ Parent(p) # p
  BY AddIsAdding
<1>2. PICK child \in Nat :
        /\ child # RootID /\ AddedAt(p, F, child)
        /\ IsClassExist(p) => /\ child = class2hash[p].self
                              /\ class2hash'[p] = class2hash[p]
        /\ ~ IsClassExist(p) =>
             /\ child \notin DOMAIN hash2class
             /\ class2hash'[p] = Row(child, class2hash[Parent(p)].self, {})
  BY AddIsAdding
<1>3. p # Root /\ Root \in DOMAIN class2hash /\ class2hash[Root].self = RootID
  BY RootIsNoPath DEF TreeInv, Inv, TwoWay, Exists
<1>4. /\ DOMAIN class2hash' = DOMAIN class2hash \cup {p}
      /\ class2hash'[p].self = child
      /\ \A k \in DOMAIN class2hash \ {Parent(p)} : class2hash'[k] = class2hash[k]
      /\ class2hash'[Parent(p)] =
           [class2hash[Parent(p)] EXCEPT !.children = @ \cup {child}]
      /\ hash2class' = [i \in DOMAIN hash2class \cup {child} |->
                          IF i \in DOMAIN hash2class THEN hash2class[i] ELSE p]
      /\ keyword2class' = MapWords(p, child) /\ UNCHANGED <<moved, changes>>
      /\ class2file' = class2file \cup ({child} \X F)
      /\ file2class' = file2class \cup (F \X {child})
  BY <1>2 DEF AddedAt
<1>5. \A k \in DOMAIN class2hash :
        class2hash[k] \in [self : Nat, parent : Nat, children : SUBSET Nat]
  BY DEF TreeInv, Inv, TypeOK
<1>6. \A k \in DOMAIN class2hash :
        /\ class2hash'[k].self = class2hash[k].self
        /\ class2hash'[k].parent = class2hash[k].parent
        /\ class2hash'[k].children = IF k = Parent(p)
                                     THEN class2hash[k].children \cup {child}
                                     ELSE class2hash[k].children
        /\ class2hash'[k] \in [self : Nat, parent : Nat, children : SUBSET Nat]
  <2> TAKE k \in DOMAIN class2hash
  <2>1. CASE k = Parent(p)
    BY <1>4, <1>5, <2>1
  <2>2. CASE k # Parent(p)
    BY <1>4, <1>5, <2>2
  <2> QED BY <2>1, <2>2
<1>7. /\ DOMAIN hash2class' = DOMAIN hash2class \cup {child}
      /\ \A i \in DOMAIN hash2class : hash2class'[i] = hash2class[i]
      /\ hash2class'[child] = p
      /\ hash2class' = [i \in DOMAIN hash2class' |-> hash2class'[i]]
  <2>1. child \in DOMAIN hash2class => hash2class[child] = p
    <3>1. IsClassExist(p) => p \in Exists
      BY <1>3 DEF Exists, IsClassExist
    <3> QED BY <1>2, <3>1, ClassFacts
  <2> QED BY <1>4, <2>1
<1>8. IsFiniteSet(DOMAIN hash2class')
  BY <1>7, FS_AddElement DEF TreeInv
<1>9. /\ ~ IsClassExist(p) => /\ class2hash'[p].parent = class2hash[Parent(p)].self
                              /\ class2hash'[p].children = {}
                              /\ class2hash[Parent(p)].self \in Nat
                              /\ class2hash'[p] \in [self : Nat, parent : Nat, children : SUBSET Nat]
  BY <1>1, <1>2, <1>5 DEF Row, IsClassExist
<1>10. \A k \in Exists :
        /\ k \in DOMAIN class2hash /\ Parent(k) \in DOMAIN class2hash
        /\ class2hash[k].self \in DOMAIN hash2class
        /\ hash2class[class2hash[k].self] = k
        /\ class2hash[k].parent = class2hash[Parent(k)].self
        /\ class2hash[k].self \in class2hash[Parent(k)].children
  BY ClassFacts DEF Exists, IsClassExist, TreeInv, Inv, RowsAgree
<1>11. \A i \in DOMAIN hash2class :
        /\ i # RootID /\ hash2class[i] \in DOMAIN class2hash
        /\ class2hash[hash2class[i]].self = i
  BY IdFacts DEF Exists
<1>12. \A k \in DOMAIN class2hash : \A i \in class2hash[k].children :
        i \in DOMAIN hash2class /\ Parent(hash2class[i]) = k
  BY ChildFacts DEF GetClassChildren, IsClassExist
<1>13. TwoWay'
  <2>1. Root \in DOMAIN class2hash' /\ class2hash'[Root].self = RootID
    BY <1>3, <1>4, <1>6
  <2>2. ASSUME NEW k \in Exists'
        PROVE  class2hash'[k].self \in DOMAIN hash2class' /\ hash2class'[class2hash'[k].self] = k
    <3>1. CASE k = p
      BY <1>4, <1>7, <3>1
    <3>2. CASE k # p
      <4>1. k \in Exists
        BY <1>4, <2>2, <3>2 DEF Exists
      <4>2. PICK i \in DOMAIN hash2class : i = class2hash[k].self
        BY <1>10, <4>1
      <4>3. class2hash'[k].self = i /\ hash2class[i] = k
        BY <1>6, <1>10, <4>1, <4>2
      <4> QED BY <1>7, <4>2, <4>3
    <3> QED BY <3>1, <3>2
  <2>3. ASSUME NEW i \in DOMAIN hash2class'
        PROVE  /\ i # RootID /\ hash2class'[i] \in DOMAIN class2hash'
               /\ class2hash'[hash2class'[i]].self = i
    <3>1. CASE i = child
      BY <1>2, <1>4, <1>7, <3>1
    <3>2. CASE i # child
      BY <1>4, <1>6, <1>7, <1>11, <3>2
    <3> QED BY <3>1, <3>2
  <2> QED BY <2>1, <2>2, <2>3 DEF TwoWay, IsClassExist
<1>14. RowsAgree'
  <2>1. ASSUME NEW k \in Exists'
        PROVE  /\ Parent(k) \in DOMAIN class2hash'
               /\ class2hash'[k].parent = class2hash'[Parent(k)].self
               /\ class2hash'[k].self \in class2hash'[Parent(k)].children
    <3>1. CASE k \in Exists
      BY <1>4, <1>6, <1>10, <3>1
    <3>2. CASE k \notin Exists
      <4>1. k = p /\ ~ IsClassExist(p)
        BY <1>4, <2>1, <3>2 DEF Exists, IsClassExist
      <4>2. Parent(p) \in DOMAIN class2hash
        BY <1>1 DEF IsClassExist
      <4> QED BY <1>4, <1>6, <1>9, <4>1, <4>2
    <3> QED BY <3>1, <3>2
  <2>2. ASSUME NEW k \in DOMAIN class2hash', NEW i \in class2hash'[k].children
        PROVE  i \in DOMAIN hash2class' /\ Parent(hash2class'[i]) = k
    <3>1. CASE k \in DOMAIN class2hash
      <4>1. i \in class2hash[k].children \/ (i = child /\ k = Parent(p))
        BY <1>6, <2>2, <3>1
      <4> QED BY <1>7, <1>12, <3>1, <4>1
    <3>2. CASE k \notin DOMAIN class2hash
      <4>1. k = p /\ ~ IsClassExist(p)
        BY <1>4, <2>2, <3>2 DEF IsClassExist
      <4> QED BY <1>9, <2>2, <4>1
    <3> QED BY <3>1, <3>2
  <2> QED BY <2>1, <2>2 DEF RowsAgree, ChildrenFollow, IsClassExist
<1>15. TypeOK'
  <2>1. /\ keyword2class \in [Word -> SUBSET Nat] /\ moved \subseteq Word
        /\ changes \in 0 .. MaxChange /\ DOMAIN hash2class \subseteq Nat
        /\ \A i \in DOMAIN hash2class : hash2class[i] \in Path
        /\ DOMAIN class2hash \subseteq Path \cup {Root}
        /\ class2file \subseteq Nat \X File /\ file2class \subseteq File \X Nat
    BY DEF TreeInv, Inv, TypeOK
  <2>2. keyword2class' \in [Word -> SUBSET Nat]
    BY <1>4, <2>1 DEF MapWords
  <2>3. DOMAIN hash2class' \subseteq Nat /\ \A i \in DOMAIN hash2class' : hash2class'[i] \in Path
    BY <1>7, <2>1
  <2>4. \A k \in DOMAIN class2hash' :
          class2hash'[k] \in [self : Nat, parent : Nat, children : SUBSET Nat]
    BY <1>4, <1>6, <1>9 DEF IsClassExist
  <2>5. DOMAIN class2hash' \subseteq Path \cup {Root} /\ moved' \subseteq Word
        /\ changes' \in 0 .. MaxChange
    BY <1>4, <2>1
  <2>6. class2file' \subseteq Nat \X File /\ file2class' \subseteq File \X Nat
    BY <1>4, <2>1
  <2> QED BY <2>2, <2>3, <2>4, <2>5, <2>6 DEF TypeOK
<1>16. FilesAgree'
  <2>1. \A e \in class2file' : e[1] \in DOMAIN hash2class'
    BY <1>4, <1>7, FilesFacts
  <2>2. \A i \in Nat, f \in File : <<i, f>> \in class2file' <=> <<f, i>> \in file2class'
    BY <1>4, FilesFacts
  <2>3. class2file' = {<<e[2], e[1]>> : e \in file2class'}
    BY <1>15, <2>2, PairsAgree DEF TypeOK
  <2> QED BY <2>1, <2>3 DEF FilesAgree
<1> QED BY <1>7, <1>8, <1>13, <1>14, <1>15, <1>16 DEF TreeInv, Inv

LEMMA InitTreeInv == Init => TreeInv
<1> SUFFICES ASSUME Init PROVE TreeInv
  OBVIOUS
<1>1. /\ DOMAIN class2hash = {Root} /\ class2hash[Root] = Row(RootID, RootID, {})
      /\ hash2class = [i \in {} |-> Root] /\ DOMAIN hash2class = {} /\ Exists = {}
  BY DEF Init, Exists
<1>2. TypeOK
  BY <1>1, ClassTreeAssumption DEF Init, TypeOK, Row, RootID
<1>3. TwoWay /\ RowsAgree /\ FilesAgree
  BY <1>1 DEF TwoWay, RowsAgree, ChildrenFollow, Row, FilesAgree, Init
<1>4. IsFiniteSet(DOMAIN hash2class)
  BY <1>1, FS_EmptySet
<1> QED BY <1>1, <1>2, <1>3, <1>4 DEF TreeInv, Inv

-------------------------------------------------------------------------------
\* The loops over levels of the tree are functions by recursion on the level.

Iterates(f, base, step, n) ==
  f = [i \in 0 .. n |-> IF i = 0 THEN base ELSE step[f[i - 1]]]

LEMMA IterationExists ==
  ASSUME NEW D, NEW base \in D, NEW step \in [D -> D]
  PROVE  \A n \in Nat : \E f \in [0 .. n -> D] : Iterates(f, base, step, n)
<1> DEFINE T == {n \in Nat : \E f \in [0 .. n -> D] : Iterates(f, base, step, n)}
<1>1. 0 \in T
  <2> DEFINE f == [i \in 0 .. 0 |-> base]
  <2>1. f \in [0 .. 0 -> D]
    OBVIOUS
  <2>2. Iterates(f, base, step, 0)
    BY DEF Iterates
  <2> QED BY <2>1, <2>2
<1>2. ASSUME NEW n \in T PROVE n + 1 \in T
  <2>1. n \in Nat
    OBVIOUS
  <2>2. PICK f \in [0 .. n -> D] : Iterates(f, base, step, n)
    OBVIOUS
  <2> DEFINE g == [i \in 0 .. n + 1 |-> IF i \in 0 .. n THEN f[i] ELSE step[f[n]]]
  <2>3. g \in [0 .. n + 1 -> D]
    BY <2>1
  <2>4. \A i \in 0 .. n + 1 : g[i] = IF i = 0 THEN base ELSE step[g[i - 1]]
    <3> TAKE i \in 0 .. n + 1
    <3>1. \A j \in 0 .. n : j \in 0 .. n + 1 /\ g[j] = f[j]
      BY <2>1
    <3>2. CASE i \in 0 .. n
      <4>1. i = 0 \/ i - 1 \in 0 .. n
        BY <2>1, <3>2
      <4>2. f[i] = IF i = 0 THEN base ELSE step[f[i - 1]]
        BY <2>2, <3>2 DEF Iterates
      <4> HIDE DEF g
      <4> QED BY <3>1, <3>2, <4>1, <4>2
    <3>3. CASE i = n + 1
      <4>1. i # 0 /\ i - 1 \in 0 .. n /\ i - 1 = n /\ i \notin 0 .. n
        BY <2>1, <3>3
      <4>2. g[i] = step[f[n]]
        BY <4>1
      <4> HIDE DEF g
      <4> QED BY <3>1, <4>1, <4>2
    <3> QED BY <2>1, <3>2, <3>3
  <2>5. g = [i \in 0 .. n + 1 |-> g[i]]
    OBVIOUS
  <2> HIDE DEF g
  <2>6. Iterates(g, base, step, n + 1)
    BY <2>4, <2>5 DEF Iterates
  <2> QED BY <2>3, <2>6
<1>3. T = Nat
  <2> HIDE DEF T
  <2>1. T \in SUBSET Nat
    BY DEF T
  <2> QED BY <1>1, <1>2, <2>1, Induction
<1> QED BY <1>3

-------------------------------------------------------------------------------
\* removeClasses: it falls with all that is under it, and nothing else.

BelowFrom(b, p) ==
  [n \in 0 .. Depth |->
     IF n = 0 THEN {p}
     ELSE b[n - 1] \cup
          {GetClassByHash(i) : i \in UNION {GetClassChildren(q) : q \in b[n - 1]}}]

LEMMA NameType ==
  ASSUME TreeInv, NEW i
  PROVE  GetClassByHash(i) \in Node
<1>1. CASE i \in DOMAIN hash2class
  BY <1>1 DEF GetClassByHash, Node, TreeInv, Inv, TypeOK
<1>2. CASE i \notin DOMAIN hash2class
  BY <1>2 DEF GetClassByHash, Node
<1> QED BY <1>1, <1>2

LEMMA BelowExists ==
  ASSUME TreeInv, NEW p \in Path
  PROVE  \E b : b = BelowFrom(b, p) /\ Falling(p) = b[Depth] \ {Root}
<1> DEFINE D == SUBSET Node
           Kids(S) == {GetClassByHash(i) : i \in UNION {GetClassChildren(q) : q \in S}}
           step == [S \in D |-> S \cup Kids(S)]
<1>1. step \in [D -> D]
  <2>1. \A S \in D : Kids(S) \in D
    BY NameType
  <2> HIDE DEF Kids
  <2> QED BY <2>1
<1>2. {p} \in D
  BY DEF Node
<1>3. PICK f \in [0 .. Depth -> D] : Iterates(f, {p}, step, Depth)
  <2> HIDE DEF D, step
  <2> QED BY <1>1, <1>2, IterationExists, ClassTreeAssumption
<1>4. f = BelowFrom(f, p)
  <2>1. \A n \in 0 .. Depth : n # 0 => n - 1 \in 0 .. Depth
    BY ClassTreeAssumption
  <2>2. \A n \in 0 .. Depth : n # 0 => step[f[n - 1]] = f[n - 1] \cup Kids(f[n - 1])
    BY <2>1
  <2>3. \A n \in 0 .. Depth :
          f[n] = IF n = 0 THEN {p} ELSE f[n - 1] \cup Kids(f[n - 1])
    <3> HIDE DEF step, Kids, D
    <3> QED BY <1>3, <2>2 DEF Iterates
  <2> QED BY <2>3 DEF BelowFrom
<1> DEFINE B == CHOOSE b : b = BelowFrom(b, p)
<1>5. B = BelowFrom(B, p)
  BY <1>4
<1>6. Falling(p) = B[Depth] \ {Root}
  BY DEF Falling, BelowFrom
<1> QED BY <1>5, <1>6

LEMMA FallingIsUnder ==
  ASSUME TreeInv, NEW p \in Path
  PROVE  Falling(p) \cap DOMAIN class2hash = {k \in Exists : Above(p, k)}
<1>1. PICK b : b = BelowFrom(b, p) /\ Falling(p) = b[Depth] \ {Root}
  BY BelowExists
<1> DEFINE Kids(S) == {GetClassByHash(i) : i \in UNION {GetClassChildren(q) : q \in S}}
<1>2. Depth \in Nat /\ p \in Node /\ p # Root
  BY ClassTreeAssumption, RootIsNoPath DEF Node
<1>3. b[0] = {p} /\ \A n \in Nat : n + 1 <= Depth => b[n + 1] = b[n] \cup Kids(b[n])
  <2>1. 0 \in 0 .. Depth /\ \A n \in Nat : n + 1 <= Depth =>
          n + 1 \in 0 .. Depth /\ n + 1 # 0 /\ (n + 1) - 1 = n
    BY <1>2
  <2>2. \A n \in 0 .. Depth : b[n] = IF n = 0 THEN {p} ELSE b[n - 1] \cup Kids(b[n - 1])
    BY <1>1 DEF BelowFrom
  <2> HIDE DEF Kids
  <2>3. b[0] = {p}
    BY <2>1, <2>2
  <2>4. ASSUME NEW n \in Nat, n + 1 <= Depth PROVE b[n + 1] = b[n] \cup Kids(b[n])
    <3>1. b[n + 1] = b[(n + 1) - 1] \cup Kids(b[(n + 1) - 1])
      BY <2>1, <2>2, <2>4
    <3> QED BY <2>1, <2>4, <3>1
  <2> QED BY <2>3, <2>4
<1> DEFINE T == {n \in Nat : n <= Depth =>
                   /\ \A k \in b[n] : k \in Path /\ Above(p, k)
                   /\ \A k \in Exists : Above(p, k) /\ Len(k) <= Len(p) + n => k \in b[n]}
<1>4. \A k \in Exists : k \in Path /\ k \in Node /\ Len(k) \in Nat /\ Len(k) <= Depth
  BY ClassFacts, PathType, ClassTreeAssumption
<1>5. 0 \in T
  <2>1. Above(p, p)
    BY <1>2, AboveFacts
  <2>2. ASSUME NEW k \in Exists, Above(p, k), Len(k) <= Len(p) PROVE k = p
    <3>1. Len(k) = Len(p)
      BY <1>2, <1>4, <2>2, NodeType DEF Above
    <3> QED BY <1>2, <1>4, <2>2, <3>1, SamePath DEF Above
  <2>3. Len(p) + 0 = Len(p)
    BY <1>2, NodeType
  <2> QED BY <1>3, <2>1, <2>2, <2>3
<1>6. ASSUME NEW n \in T PROVE n + 1 \in T
  <2> SUFFICES ASSUME n + 1 <= Depth
               PROVE  /\ \A k \in b[n + 1] : k \in Path /\ Above(p, k)
                      /\ \A k \in Exists : Above(p, k) /\ Len(k) <= Len(p) + (n + 1) =>
                           k \in b[n + 1]
    OBVIOUS
  <2>1. /\ n \in Nat
        /\ \A k \in b[n] : k \in Path /\ Above(p, k)
        /\ \A k \in Exists : Above(p, k) /\ Len(k) <= Len(p) + n => k \in b[n]
    BY <1>2
  <2>2. b[n + 1] = b[n] \cup Kids(b[n])
    BY <1>3, <2>1
  <2>3. ASSUME NEW k \in b[n + 1] PROVE k \in Path /\ Above(p, k)
    <3>1. CASE k \in b[n]
      BY <2>1, <3>1
    <3>2. CASE k \in Kids(b[n])
      <4>1. PICK q \in b[n] : \E i \in GetClassChildren(q) : k = GetClassByHash(i)
        BY <3>2
      <4>2. PICK i \in GetClassChildren(q) : k = GetClassByHash(i)
        BY <4>1
      <4>3. i \in DOMAIN hash2class /\ Parent(hash2class[i]) = q
        BY <4>2, ChildFacts
      <4>4. k = hash2class[i] /\ k \in Exists /\ Parent(k) = q
        BY <4>2, <4>3, IdFacts
      <4>5. k \in Path /\ Above(p, q)
        BY <1>4, <2>1, <4>2, <4>4
      <4>6. k = p \/ Above(p, k)
        BY <1>2, <4>4, <4>5, AboveParent
      <4> QED BY <1>2, <4>5, <4>6, AboveFacts
    <3> QED BY <2>2, <3>1, <3>2
  <2>4. ASSUME NEW k \in Exists, Above(p, k), Len(k) <= Len(p) + (n + 1)
        PROVE  k \in b[n + 1]
    <3>1. CASE k = p
      <4>1. Len(k) <= Len(p) + n
        BY <1>4, <2>1, <3>1
      <4> QED BY <2>1, <2>2, <2>4, <4>1
    <3>2. CASE k # p
      <4> DEFINE q == Parent(k)
                 i == class2hash[k].self
      <4>1. Above(p, q)
        BY <1>2, <1>4, <2>4, <3>2, AboveParent
      <4>2. q \in Exists
        BY <1>2, <4>1, ClassFacts, AboveFacts DEF Exists, IsClassExist
      <4>3. Len(q) <= Len(p) + n
        <5>1. Len(q) = Len(k) - 1
          BY <1>4, ParentType
        <5>2. PICK x \in Nat, y \in Nat : x = Len(k) /\ y = Len(p)
          BY <1>2, <1>4, NodeType
        <5>3. x - 1 <= y + n
          BY <2>1, <2>4, <5>2
        <5> QED BY <5>1, <5>2, <5>3
      <4>4. q \in b[n]
        BY <2>1, <4>1, <4>2, <4>3
      <4>5. i \in GetClassChildren(q) /\ i \in DOMAIN hash2class /\ hash2class[i] = k
        BY ClassFacts
      <4>6. GetClassByHash(i) = k
        BY <4>5 DEF GetClassByHash
      <4> HIDE DEF q, i
      <4>7. k \in Kids(b[n])
        BY <4>4, <4>5, <4>6
      <4> QED BY <2>2, <4>7
    <3> QED BY <3>1, <3>2
  <2> HIDE DEF Kids
  <2> QED BY <2>3, <2>4
<1>7. T = Nat
  <2> HIDE DEF T
  <2>1. T \in SUBSET Nat
    BY DEF T
  <2> QED BY <1>5, <1>6, <2>1, Induction
<1>8. /\ \A k \in b[Depth] : k \in Path /\ Above(p, k)
      /\ \A k \in Exists : Above(p, k) /\ Len(k) <= Len(p) + Depth => k \in b[Depth]
  BY <1>2, <1>7
<1>9. \A k \in Exists : Len(k) <= Len(p) + Depth
  BY <1>2, <1>4, NodeType
<1> QED BY <1>1, <1>8, <1>9, RootIsNoPath DEF Exists

RemovedUnder(p) ==
  /\ DOMAIN class2hash' = {k \in DOMAIN class2hash : ~ Above(p, k)}
  /\ \A k \in DOMAIN class2hash' :
       class2hash'[k] = [class2hash[k] EXCEPT
         !.children = {i \in class2hash[k].children : ~ Above(p, hash2class[i])}]
  /\ hash2class' = [i \in {j \in DOMAIN hash2class : ~ Above(p, hash2class[j])} |->
                      hash2class[i]]
  /\ class2file' = {e \in class2file : e[1] \in DOMAIN hash2class'}
  /\ file2class' = {e \in file2class : e[2] \in DOMAIN hash2class'}

LEMMA RemoveIsRemoving ==
  ASSUME TreeInv, NEW p \in Path, RemoveClasses(p)
  PROVE  RemovedUnder(p)
<1> DEFINE fallen == Falling(p) \cap DOMAIN class2hash
           gone == {class2hash[q].self : q \in fallen}
           Taken(k) == {class2hash[q].self :
                          q \in {r \in fallen : GetClassByHash(class2hash[r].parent) = k}}
<1>1. /\ hash2class' = [i \in DOMAIN hash2class \ gone |-> hash2class[i]]
      /\ class2hash' = [k \in DOMAIN class2hash \ fallen |-> Left(fallen, k)]
      /\ class2file' = {e \in class2file : e[1] \notin gone}
      /\ file2class' = {e \in file2class : e[2] \in gone => <<e[2], e[1]>> \notin class2file}
  BY DEF RemoveClasses, Unfiled
<1>2. fallen = {k \in Exists : Above(p, k)}
  BY FallingIsUnder
<1>3. \A k : Left(fallen, k) = [class2hash[k] EXCEPT !.children = @ \ Taken(k)]
  BY DEF Left
<1> HIDE DEF fallen
<1>4. p \in Node /\ p # Root
  BY RootIsNoPath DEF Node
<1>5. \A k \in DOMAIN class2hash : k \in fallen <=> Above(p, k)
  BY <1>2, <1>4, AboveFacts, NodeOfRow DEF Exists
<1>6. \A k \in Exists : /\ k \in DOMAIN class2hash
                        /\ class2hash[k].self \in DOMAIN hash2class
                        /\ hash2class[class2hash[k].self] = k
                        /\ GetClassByHash(class2hash[k].parent) = Parent(k)
  BY ClassFacts DEF Exists
<1>7. \A i \in DOMAIN hash2class : /\ hash2class[i] \in Exists
                                   /\ class2hash[hash2class[i]].self = i
  BY IdFacts
<1>8. \A i \in DOMAIN hash2class : i \in gone <=> Above(p, hash2class[i])
  BY <1>2, <1>6, <1>7
<1>9. ASSUME NEW k \in DOMAIN class2hash, NEW i \in class2hash[k].children
      PROVE  i \in Taken(k) <=> Above(p, hash2class[i])
  <2>1. i \in DOMAIN hash2class /\ Parent(hash2class[i]) = k
    BY ChildFacts DEF GetClassChildren, IsClassExist
  <2>2. ASSUME i \in Taken(k) PROVE Above(p, hash2class[i])
    BY <1>2, <1>6, <2>2
  <2>3. ASSUME Above(p, hash2class[i]) PROVE i \in Taken(k)
    BY <1>2, <1>6, <1>7, <2>1, <2>3
  <2> QED BY <2>2, <2>3
<1>10. DOMAIN class2hash' = {k \in DOMAIN class2hash : ~ Above(p, k)}
  BY <1>1, <1>5
<1>11. ASSUME NEW k \in DOMAIN class2hash'
       PROVE  class2hash'[k] = [class2hash[k] EXCEPT
                !.children = {i \in class2hash[k].children : ~ Above(p, hash2class[i])}]
  <2>1. k \in DOMAIN class2hash /\ k \in DOMAIN class2hash \ fallen
    BY <1>1
  <2>2. class2hash[k].children \ Taken(k) =
          {i \in class2hash[k].children : ~ Above(p, hash2class[i])}
    <3> HIDE DEF Taken
    <3> QED BY <1>9, <2>1
  <2>3. class2hash'[k] = Left(fallen, k)
    BY <1>1, <2>1
  <2> HIDE DEF Taken
  <2>4. class2hash[k] \in [self : Nat, parent : Nat, children : SUBSET Nat]
    BY <2>1 DEF TreeInv, Inv, TypeOK
  <2>5. Left(fallen, k) = [class2hash[k] EXCEPT !.children = class2hash[k].children \ Taken(k)]
    BY <1>3, <2>4
  <2> QED BY <2>2, <2>3, <2>5
<1>12. hash2class' = [i \in {j \in DOMAIN hash2class : ~ Above(p, hash2class[j])} |->
                       hash2class[i]]
  <2>1. DOMAIN hash2class \ gone = {j \in DOMAIN hash2class : ~ Above(p, hash2class[j])}
    <3> HIDE DEF gone
    <3> QED BY <1>8
  <2> QED BY <1>1, <2>1
<1> HIDE DEF gone
<1>13. class2file' = {e \in class2file : e[1] \in DOMAIN hash2class'}
  <2>1. \A e \in class2file : e[1] \in DOMAIN hash2class
    BY FilesFacts
  <2> QED BY <1>1, <2>1
<1>14. file2class' = {e \in file2class : e[2] \in DOMAIN hash2class'}
  <2>1. ASSUME NEW e \in file2class
        PROVE  <<e[2], e[1]>> \in class2file /\ e[2] \in DOMAIN hash2class
    <3>1. <<e[2], e[1]>> \in class2file
      BY FilesFacts
    <3> QED BY <3>1, FilesFacts
  <2> QED BY <1>1, <2>1
<1> QED BY <1>10, <1>11, <1>12, <1>13, <1>14 DEF RemovedUnder

LEMMA RemoveKeeps ==
  ASSUME TreeInv, NEW p \in Path, RemoveClasses(p)
  PROVE  TreeInv'
<1>1. RemovedUnder(p)
  BY RemoveIsRemoving
<1>2. /\ DOMAIN class2hash' = {k \in DOMAIN class2hash : ~ Above(p, k)}
      /\ DOMAIN hash2class' = {j \in DOMAIN hash2class : ~ Above(p, hash2class[j])}
      /\ \A i \in DOMAIN hash2class' : hash2class'[i] = hash2class[i]
      /\ hash2class' = [i \in DOMAIN hash2class' |-> hash2class'[i]]
      /\ class2file' = {e \in class2file : e[1] \in DOMAIN hash2class'}
      /\ file2class' = {e \in file2class : e[2] \in DOMAIN hash2class'}
  BY <1>1 DEF RemovedUnder
<1>3. \A k \in DOMAIN class2hash' :
        /\ k \in DOMAIN class2hash
        /\ class2hash'[k].self = class2hash[k].self
        /\ class2hash'[k].parent = class2hash[k].parent
        /\ class2hash'[k].children =
             {i \in class2hash[k].children : ~ Above(p, hash2class[i])}
        /\ class2hash'[k] \in [self : Nat, parent : Nat, children : SUBSET Nat]
  <2> TAKE k \in DOMAIN class2hash'
  <2> DEFINE kids == {i \in class2hash[k].children : ~ Above(p, hash2class[i])}
  <2>1. k \in DOMAIN class2hash
    BY <1>2
  <2>2. class2hash[k] \in [self : Nat, parent : Nat, children : SUBSET Nat]
    BY <2>1 DEF TreeInv, Inv, TypeOK
  <2>3. class2hash'[k] = [class2hash[k] EXCEPT !.children = kids]
    BY <1>1 DEF RemovedUnder
  <2>4. kids \in SUBSET Nat
    BY <2>2
  <2> HIDE DEF kids
  <2>5. /\ class2hash'[k].self = class2hash[k].self
        /\ class2hash'[k].parent = class2hash[k].parent
        /\ class2hash'[k].children = kids
        /\ class2hash'[k] \in [self : Nat, parent : Nat, children : SUBSET Nat]
    BY <2>2, <2>3, <2>4
  <2> QED BY <2>1, <2>5 DEF kids
<1>4. p \in Node /\ p # Root
  BY RootIsNoPath DEF Node
<1>5. \A k \in Exists :
        /\ k \in Path /\ k \in DOMAIN class2hash /\ Parent(k) \in DOMAIN class2hash
        /\ class2hash[k].self \in DOMAIN hash2class
        /\ hash2class[class2hash[k].self] = k
        /\ class2hash[k].parent = class2hash[Parent(k)].self
        /\ class2hash[k].self \in class2hash[Parent(k)].children
  BY ClassFacts DEF Exists, IsClassExist, TreeInv, Inv, RowsAgree
<1>6. \A i \in DOMAIN hash2class :
        /\ i # RootID /\ hash2class[i] \in DOMAIN class2hash
        /\ class2hash[hash2class[i]].self = i
  BY IdFacts DEF Exists
<1>7. \A k \in DOMAIN class2hash : \A i \in class2hash[k].children :
        i \in DOMAIN hash2class /\ Parent(hash2class[i]) = k
  BY ChildFacts DEF GetClassChildren, IsClassExist
<1>8. \A k \in Path : ~ Above(p, k) => ~ Above(p, Parent(k))
  BY <1>4, AboveParent, AboveFacts
<1>9. Exists' = {k \in Exists : ~ Above(p, k)}
  BY <1>2 DEF Exists
<1>10. TwoWay'
  <2>1. Root \in DOMAIN class2hash' /\ class2hash'[Root].self = RootID
    <3>1. ~ Above(p, Root)
      BY <1>4, AboveFacts
    <3> QED BY <1>2, <1>3, <3>1 DEF TreeInv, Inv, TwoWay
  <2>2. ASSUME NEW k \in Exists'
        PROVE  class2hash'[k].self \in DOMAIN hash2class' /\ hash2class'[class2hash'[k].self] = k
    <3>1. k \in Exists /\ ~ Above(p, k) /\ k \in DOMAIN class2hash'
      BY <1>9, <2>2 DEF Exists
    <3>2. PICK i \in DOMAIN hash2class : i = class2hash[k].self /\ hash2class[i] = k
      BY <1>5, <3>1
    <3>3. i \in DOMAIN hash2class' /\ hash2class'[i] = k
      BY <1>2, <3>1, <3>2
    <3>4. class2hash'[k].self = i
      BY <1>3, <3>1, <3>2
    <3> QED BY <3>3, <3>4
  <2>3. ASSUME NEW i \in DOMAIN hash2class'
        PROVE  /\ i # RootID /\ hash2class'[i] \in DOMAIN class2hash'
               /\ class2hash'[hash2class'[i]].self = i
    BY <1>2, <1>3, <1>6
  <2> QED BY <2>1, <2>2, <2>3 DEF TwoWay, IsClassExist
<1>11. RowsAgree'
  <2>1. ASSUME NEW k \in Exists'
        PROVE  /\ Parent(k) \in DOMAIN class2hash'
               /\ class2hash'[k].parent = class2hash'[Parent(k)].self
               /\ class2hash'[k].self \in class2hash'[Parent(k)].children
    <3>1. k \in Exists /\ ~ Above(p, k) /\ k \in DOMAIN class2hash'
      BY <1>9, <2>1 DEF Exists
    <3>2. Parent(k) \in DOMAIN class2hash'
      BY <1>2, <1>5, <1>8, <3>1
    <3>3. PICK i : i = class2hash[k].self /\ hash2class[i] = k /\ i \in class2hash[Parent(k)].children
      BY <1>5, <3>1
    <3>4. i \in class2hash'[Parent(k)].children
      BY <1>3, <3>1, <3>2, <3>3
    <3> QED BY <1>3, <1>5, <3>1, <3>2, <3>3, <3>4
  <2>2. ASSUME NEW k \in DOMAIN class2hash', NEW i \in class2hash'[k].children
        PROVE  i \in DOMAIN hash2class' /\ Parent(hash2class'[i]) = k
    <3>1. i \in class2hash[k].children /\ ~ Above(p, hash2class[i]) /\ k \in DOMAIN class2hash
      BY <1>3, <2>2
    <3> QED BY <1>2, <1>7, <3>1
  <2> QED BY <2>1, <2>2 DEF RowsAgree, ChildrenFollow, IsClassExist
<1>12. TypeOK'
  <2>1. /\ keyword2class \in [Word -> SUBSET Nat] /\ moved \subseteq Word
        /\ changes \in 0 .. MaxChange /\ DOMAIN hash2class \subseteq Nat
        /\ \A i \in DOMAIN hash2class : hash2class[i] \in Path
        /\ DOMAIN class2hash \subseteq Path \cup {Root}
        /\ class2file \subseteq Nat \X File /\ file2class \subseteq File \X Nat
    BY DEF TreeInv, Inv, TypeOK
  <2>2. changes < MaxChange /\ changes' = changes + 1 /\ UNCHANGED <<keyword2class, moved>>
    BY DEF RemoveClasses
  <2>3. changes' \in 0 .. MaxChange
    BY <2>1, <2>2, ClassTreeAssumption
  <2>4. DOMAIN hash2class' \subseteq Nat /\ \A i \in DOMAIN hash2class' : hash2class'[i] \in Path
    BY <1>2, <2>1
  <2>5. DOMAIN class2hash' \subseteq Path \cup {Root}
    BY <1>2, <2>1
  <2>6. class2file' \subseteq Nat \X File /\ file2class' \subseteq File \X Nat
    BY <1>2, <2>1
  <2> QED BY <1>3, <2>1, <2>2, <2>3, <2>4, <2>5, <2>6 DEF TypeOK
<1>13. IsFiniteSet(DOMAIN hash2class')
  <2>1. DOMAIN hash2class' \in SUBSET DOMAIN hash2class
    BY <1>2
  <2> QED BY <2>1, FS_Subset DEF TreeInv
<1>14. FilesAgree'
  <2>1. \A e \in class2file' : e[1] \in DOMAIN hash2class'
    BY <1>2
  <2>2. \A i \in Nat, f \in File : <<i, f>> \in class2file' <=> <<f, i>> \in file2class'
    BY <1>2, FilesFacts
  <2>3. class2file' = {<<e[2], e[1]>> : e \in file2class'}
    BY <1>12, <2>2, PairsAgree DEF TypeOK
  <2> QED BY <2>1, <2>3 DEF FilesAgree
<1> QED BY <1>2, <1>10, <1>11, <1>12, <1>13, <1>14 DEF TreeInv, Inv

\* removeClasses with files: the two tables lose the same pairs.
LEMMA TakeKeeps ==
  ASSUME TreeInv, NEW p \in Path, NEW F \in SUBSET File, RemoveClassesOf(p, F)
  PROVE  TreeInv'
<1>1. PICK c : /\ class2file' = class2file \ ({c} \X F)
               /\ file2class' = file2class \ (F \X {c})
  BY DEF RemoveClassesOf
<1>2. UNCHANGED <<class2hash, hash2class, keyword2class, moved, changes>>
  BY DEF RemoveClassesOf
<1>3. TypeOK'
  BY <1>1, <1>2 DEF TypeOK, TreeInv, Inv
<1>4. TwoWay' /\ RowsAgree'
  BY <1>2 DEF TreeInv, Inv, TwoWay, RowsAgree, ChildrenFollow, Exists, IsClassExist
<1>5. FilesAgree'
  <2>1. \A e \in class2file' : e[1] \in DOMAIN hash2class'
    BY <1>1, <1>2, FilesFacts
  <2>2. \A i \in Nat, f \in File : <<i, f>> \in class2file' <=> <<f, i>> \in file2class'
    BY <1>1, FilesFacts
  <2>3. class2file' = {<<e[2], e[1]>> : e \in file2class'}
    BY <1>3, <2>2, PairsAgree DEF TypeOK
  <2> QED BY <2>1, <2>3 DEF FilesAgree
<1> QED BY <1>2, <1>3, <1>4, <1>5 DEF TreeInv, Inv

LEMMA NextTreeInv ==
  ASSUME ParentsFirst, ~ Deep, TreeInv, [Next]_vars
  PROVE  TreeInv'
<1>1. ASSUME NEW p \in Path, NEW F \in SUBSET File, AddClass(p, F) PROVE TreeInv'
  BY <1>1, AddKeeps
<1>2. ASSUME NEW p \in Path, NEW w \in Word, UpdateClassName(p, w) PROVE TreeInv'
  BY <1>2, RenameKeeps
<1>3. ASSUME NEW p \in Path, RemoveClasses(p) PROVE TreeInv'
  BY <1>3, RemoveKeeps
<1>4. ASSUME NEW p \in Path, NEW F \in SUBSET File, RemoveClassesOf(p, F) PROVE TreeInv'
  BY <1>4, TakeKeeps
<1>5. CASE UNCHANGED vars
  BY <1>5 DEF vars, TreeInv, Inv, TypeOK, TwoWay, RowsAgree, ChildrenFollow, FilesAgree,
              Exists, IsClassExist
<1> QED BY <1>1, <1>2, <1>3, <1>4, <1>5 DEF Next

\* The class tables agree after every call (addClasses, updateClassName, removeClasses),
\* for any words, depth, hash and number of classes, when parents are added first and
\* no class with grandchildren is renamed.
THEOREM Invariance ==
  ASSUME ParentsFirst, ~ Deep
  PROVE  Spec => []Inv
<1>1. TreeInv => Inv
  BY DEF TreeInv
<1>2. TreeInv /\ [Next]_vars => TreeInv'
  BY NextTreeInv
<1> QED BY <1>1, <1>2, InitTreeInv, PTL DEF Spec

-------------------------------------------------------------------------------
\* The count of files descends.

RoundFrom(r, k) ==
  [n \in 0 .. Depth |->
     IF n = 0 THEN GetClassChildren(k)
     ELSE UNION {GetClassChildren(GetClassByHash(i)) : i \in r[n - 1]}]

LEMMA RoundExists ==
  ASSUME TreeInv, NEW k
  PROVE  InCount(k) = RoundFrom(InCount(k), k)
<1> DEFINE D == SUBSET DOMAIN hash2class
           Kids(S) == UNION {GetClassChildren(GetClassByHash(i)) : i \in S}
           step == [S \in D |-> Kids(S)]
<1>1. step \in [D -> D]
  <2>1. \A S \in D : Kids(S) \in D
    BY ChildFacts
  <2> HIDE DEF Kids
  <2> QED BY <2>1
<1>2. GetClassChildren(k) \in D
  BY ChildFacts
<1>3. PICK f \in [0 .. Depth -> D] : Iterates(f, GetClassChildren(k), step, Depth)
  <2> HIDE DEF D, step
  <2> QED BY <1>1, <1>2, IterationExists, ClassTreeAssumption
<1>4. f = RoundFrom(f, k)
  <2>1. \A n \in 0 .. Depth : n # 0 => n - 1 \in 0 .. Depth
    BY ClassTreeAssumption
  <2>2. \A n \in 0 .. Depth : n # 0 => step[f[n - 1]] = Kids(f[n - 1])
    BY <2>1
  <2>3. \A n \in 0 .. Depth :
          f[n] = IF n = 0 THEN GetClassChildren(k) ELSE Kids(f[n - 1])
    <3> HIDE DEF step, Kids, D
    <3> QED BY <1>3, <2>2 DEF Iterates
  <2> QED BY <2>3 DEF RoundFrom
<1> DEFINE R == CHOOSE r : r = RoundFrom(r, k)
<1>5. R = RoundFrom(R, k)
  BY <1>4
<1>6. InCount(k) = R
  BY DEF InCount, RoundFrom
<1> QED BY <1>5, <1>6

LEMMA UnderIsAbove ==
  ASSUME NEW p \in Node, NEW q \in Path
  PROVE  Forest!Under(p, q) <=> Above(p, q)
<1>1. /\ p \in Node /\ q \in Node /\ Len(p) \in Nat /\ Len(q) \in Nat
      /\ Len(p) \in 0 .. Depth /\ p \in Seq(Word)
      /\ \A n \in 1 .. Len(q) : q[n] \in Word
  BY PathType, NodeType, ClassTreeAssumption DEF Node
<1> DEFINE s == SubSeq(q, 1, Len(p))
<1>2. ASSUME Len(p) <= Len(q) PROVE s = p <=> \A n \in 1 .. Len(p) : q[n] = p[n]
  <2>1. /\ 1 \in Int /\ Len(p) \in Int /\ \A n \in 1 .. Len(p) : q[n] \in Word
    BY <1>1, <1>2
  <2>2. /\ s \in Seq(Word) /\ Len(s) = IF 1 <= Len(p) THEN Len(p) - 1 + 1 ELSE 0
        /\ \A n \in 1 .. Len(p) - 1 + 1 : s[n] = q[1 + n - 1]
    BY <2>1, SubSeqProperties
  <2> HIDE DEF s
  <2>3. Len(p) - 1 + 1 = Len(p) /\ (1 <= Len(p) \/ Len(p) = 0)
    BY <1>1
  <2>4. Len(s) = Len(p)
    BY <2>2, <2>3
  <2>5. \A n \in 1 .. Len(p) : s[n] = q[n]
    <3> TAKE n \in 1 .. Len(p)
    <3>1. n \in 1 .. Len(p) - 1 + 1 /\ 1 + n - 1 = n
      BY <1>1
    <3> QED BY <2>2, <3>1
  <2>6. s \in Node
    <3>1. CASE Len(p) = 0
      BY <2>2, <2>4, <3>1 DEF Node, Root
    <3>2. CASE Len(p) # 0
      BY <1>1, <2>2, <2>4, <3>2, PathIs DEF Node
    <3> QED BY <3>1, <3>2
  <2>7. (\A n \in 1 .. Len(p) : s[n] = p[n]) => s = p
    BY <1>1, <2>4, <2>6, SamePath
  <2> QED BY <2>5, <2>7
<1> QED BY <1>2 DEF Forest!Under, Above

\* The n-th round of the count has the classes n + 1 levels below k.
LEMMA RoundIsLevel ==
  ASSUME TreeInv, NEW k \in DOMAIN class2hash
  PROVE  \A n \in 0 .. Depth :
           InCount(k)[n] = {i \in DOMAIN hash2class : /\ Above(k, hash2class[i])
                                                     /\ Len(hash2class[i]) = Len(k) + (n + 1)}
<1> DEFINE r == InCount(k)
           Kids(S) == UNION {GetClassChildren(GetClassByHash(i)) : i \in S}
           Level(n) == {i \in DOMAIN hash2class : /\ Above(k, hash2class[i])
                                                  /\ Len(hash2class[i]) = Len(k) + (n + 1)}
<1>1. r = RoundFrom(r, k)
  BY RoundExists
<1> HIDE DEF r
<1>2. /\ r[0] = GetClassChildren(k)
      /\ \A n \in Nat : n + 1 <= Depth => r[n + 1] = Kids(r[n])
  <2>1. 0 \in 0 .. Depth /\ \A n \in Nat : n + 1 <= Depth =>
          n + 1 \in 0 .. Depth /\ n + 1 # 0 /\ (n + 1) - 1 = n
    BY ClassTreeAssumption
  <2>2. \A n \in 0 .. Depth : r[n] = IF n = 0 THEN GetClassChildren(k) ELSE Kids(r[n - 1])
    BY <1>1 DEF RoundFrom
  <2> HIDE DEF Kids
  <2>3. ASSUME NEW n \in Nat, n + 1 <= Depth PROVE r[n + 1] = Kids(r[n])
    <3>1. r[n + 1] = Kids(r[(n + 1) - 1])
      BY <2>1, <2>2, <2>3
    <3> QED BY <2>1, <2>3, <3>1
  <2> QED BY <2>1, <2>2, <2>3
<1>3. Depth \in Nat /\ k \in Node /\ Len(k) \in Nat /\ Above(k, k)
  BY NodeOfRow, NodeType, AboveFacts, ClassTreeAssumption
<1>4. \A i \in DOMAIN hash2class :
        /\ hash2class[i] \in Path /\ Len(hash2class[i]) \in Nat /\ Len(hash2class[i]) <= Depth
        /\ Parent(hash2class[i]) \in Node /\ Parent(hash2class[i]) \in DOMAIN class2hash
        /\ Len(Parent(hash2class[i])) = Len(hash2class[i]) - 1
        /\ i \in GetClassChildren(Parent(hash2class[i]))
        /\ GetClassByHash(i) = hash2class[i]
  BY IdFacts, ClassFacts, PathType, ParentType, ClassTreeAssumption DEF IsClassExist
<1>5. \A i \in DOMAIN hash2class :
        hash2class[i] # k => (Above(k, hash2class[i]) <=> Above(k, Parent(hash2class[i])))
  BY <1>3, <1>4, AboveParent
<1> DEFINE T == {n \in Nat : n <= Depth => r[n] = Level(n)}
<1>6. 0 \in T
  <2>1. ASSUME NEW i \in GetClassChildren(k) PROVE i \in Level(0)
    <3>1. i \in DOMAIN hash2class /\ Parent(hash2class[i]) = k
      BY <2>1, ChildFacts
    <3>2. Len(hash2class[i]) = Len(k) + (0 + 1)
      BY <1>3, <1>4, <3>1
    <3>3. hash2class[i] # k
      BY <1>3, <3>2
    <3> QED BY <1>3, <1>5, <3>1, <3>2, <3>3
  <2>2. ASSUME NEW i \in Level(0) PROVE i \in GetClassChildren(k)
    <3>1. i \in DOMAIN hash2class /\ Above(k, hash2class[i]) /\ Len(hash2class[i]) = Len(k) + 1
      BY <1>3
    <3>2. hash2class[i] # k
      BY <1>3, <3>1
    <3>3. Above(k, Parent(hash2class[i])) /\ Len(Parent(hash2class[i])) = Len(k)
      BY <1>3, <1>4, <1>5, <3>1, <3>2
    <3>4. Parent(hash2class[i]) = k
      BY <1>3, <1>4, <3>1, <3>3, SamePath DEF Above
    <3> QED BY <1>4, <3>1, <3>4
  <2> HIDE DEF Level
  <2>3. r[0] = Level(0)
    BY <1>2, <2>1, <2>2
  <2> QED BY <2>3
<1>7. ASSUME NEW n \in T PROVE n + 1 \in T
  <2> SUFFICES ASSUME n + 1 <= Depth PROVE r[n + 1] = Level(n + 1)
    OBVIOUS
  <2>1. n \in Nat /\ r[n] = Level(n)
    BY <1>3
  <2>2. r[n + 1] = Kids(Level(n))
    <3> HIDE DEF Kids, Level
    <3> QED BY <1>2, <2>1
  <2>3. ASSUME NEW i \in Kids(Level(n)) PROVE i \in Level(n + 1)
    <3>1. PICK j \in Level(n) : i \in GetClassChildren(GetClassByHash(j))
      BY <2>3
    <3>2. /\ i \in DOMAIN hash2class /\ j \in DOMAIN hash2class
          /\ Parent(hash2class[i]) = hash2class[j]
      BY <1>4, <3>1, ChildFacts
    <3>3. PICK x \in Nat, y \in Nat, z \in Nat :
            /\ x = Len(hash2class[i]) /\ y = Len(hash2class[j]) /\ z = Len(k)
            /\ y = x - 1 /\ y = z + (n + 1)
      BY <1>3, <1>4, <3>1, <3>2
    <3>4. x = z + (n + 1 + 1) /\ x # z
      BY <2>1, <3>3
    <3>5. Above(k, hash2class[i])
      BY <1>5, <3>1, <3>2, <3>3, <3>4
    <3> QED BY <3>2, <3>3, <3>4, <3>5
  <2>4. ASSUME NEW i \in Level(n + 1) PROVE i \in Kids(Level(n))
    <3> DEFINE up == Parent(hash2class[i])
               j == class2hash[up].self
    <3>1. /\ i \in DOMAIN hash2class /\ Above(k, hash2class[i])
          /\ Len(hash2class[i]) = Len(k) + ((n + 1) + 1)
      OBVIOUS
    <3>2. PICK x \in Nat, z \in Nat :
            /\ x = Len(hash2class[i]) /\ z = Len(k) /\ x = z + ((n + 1) + 1)
      BY <1>3, <1>4, <3>1
    <3>3. Len(up) = x - 1
      BY <1>4, <3>1, <3>2
    <3>4. x # z /\ Len(up) = z + (n + 1) /\ Len(up) # 0
      BY <2>1, <3>2, <3>3
    <3>5. Above(k, up)
      BY <1>5, <3>1, <3>2, <3>4
    <3>6. up \in Exists
      BY <1>4, <3>1, <3>4, RootType DEF Exists
    <3>7. j \in DOMAIN hash2class /\ hash2class[j] = up
      BY <3>6, ClassFacts
    <3>8. j \in Level(n)
      BY <3>2, <3>4, <3>5, <3>7
    <3>9. i \in GetClassChildren(GetClassByHash(j))
      BY <1>4, <3>1, <3>7
    <3> HIDE DEF Level, j
    <3> QED BY <3>8, <3>9
  <2> HIDE DEF Level, Kids
  <2> QED BY <2>2, <2>3, <2>4
<1>8. T = Nat
  <2> HIDE DEF T
  <2>1. T \in SUBSET Nat
    BY DEF T
  <2> QED BY <1>6, <1>7, <2>1, Induction
<1>9. \A n \in 0 .. Depth : r[n] = Level(n)
  BY <1>3, <1>8
<1> QED BY <1>9 DEF r

\* What is shown below a class are its children, with their own ids.
LEMMA ShownIsChildren ==
  ASSUME TreeInv, NEW k \in DOMAIN class2hash
  PROVE  Shown(k) = {<<i, hash2class[i]>> :
                       i \in {j \in DOMAIN hash2class : Parent(hash2class[j]) = k}}
<1>1. ASSUME NEW i \in DOMAIN hash2class
      PROVE  /\ GetClassByHash(i) = hash2class[i]
             /\ GenerateClassHash(hash2class[i], DOMAIN hash2class) = i
             /\ i \in GetClassChildren(Parent(hash2class[i]))
  <2>1. hash2class[i] \in Exists /\ class2hash[hash2class[i]].self = i
    BY IdFacts
  <2> QED BY <2>1, IdFacts, ClassFacts DEF GenerateClassHash, IsClassExist, Exists
<1>2. GetClassChildren(k) = {j \in DOMAIN hash2class : Parent(hash2class[j]) = k}
  BY <1>1, ChildFacts
<1>3. ASSUME NEW i \in GetClassChildren(k) PROVE i # GetClassHash(k)
  <2>1. i \in DOMAIN hash2class /\ Parent(hash2class[i]) = k /\ i # RootID
    BY ChildFacts, IdFacts
  <2>2. CASE k = Root
    BY <2>1, <2>2 DEF GetClassHash, TreeInv, Inv, TwoWay
  <2>3. CASE k # Root
    <3>1. k \in Exists /\ k \in Node /\ hash2class[class2hash[k].self] = k
      BY <2>3, NodeOfRow, ClassFacts
    <3>2. Parent(k) # k
      BY <2>3, <3>1, AboveFacts
    <3>3. GetClassHash(k) = class2hash[k].self
      BY DEF GetClassHash, IsClassExist
    <3> QED BY <2>1, <3>1, <3>2, <3>3
  <2> QED BY <2>2, <2>3
<1>4. {<<GenerateClassHash(GetClassByHash(i), DOMAIN hash2class), GetClassByHash(i)>> :
         i \in GetClassChildren(k)} = {<<i, hash2class[i]>> : i \in GetClassChildren(k)}
  BY <1>1, <1>2
<1>5. Shown(k) = {e \in {<<i, hash2class[i]>> : i \in GetClassChildren(k)} :
                    e[1] # GetClassHash(k)}
  BY <1>4 DEF Shown
<1>6. \A e \in {<<i, hash2class[i]>> : i \in GetClassChildren(k)} : e[1] # GetClassHash(k)
  BY <1>3
<1> QED BY <1>2, <1>5, <1>6

LEMMA TreeInvShows ==
  ASSUME TreeInv
  PROVE  TreeIsShown
<1> SUFFICES ASSUME NEW k \in DOMAIN class2hash
             PROVE  /\ InCount(k)[Depth] = {}
                    /\ UNION {InCount(k)[n] : n \in 0 .. Depth} =
                         {i \in DOMAIN hash2class :
                            hash2class[i] # k /\ Forest!Under(k, hash2class[i])}
  BY ShownIsChildren DEF TreeIsShown
<1> DEFINE Level(n) == {i \in DOMAIN hash2class : /\ Above(k, hash2class[i])
                                                  /\ Len(hash2class[i]) = Len(k) + (n + 1)}
<1>1. \A n \in 0 .. Depth : InCount(k)[n] = Level(n)
  BY RoundIsLevel
<1>2. Depth \in Nat /\ k \in Node /\ Len(k) \in Nat
  BY NodeOfRow, NodeType, ClassTreeAssumption
<1>3. \A i \in DOMAIN hash2class :
        /\ hash2class[i] \in Path /\ hash2class[i] \in Node
        /\ Len(hash2class[i]) \in Nat /\ Len(hash2class[i]) <= Depth
  BY IdFacts, ClassFacts, PathType, ClassTreeAssumption
<1>4. InCount(k)[Depth] = {}
  <2>1. ASSUME NEW i \in Level(Depth) PROVE FALSE
    <3>1. PICK x \in Nat, z \in Nat : x <= Depth /\ x = z + (Depth + 1)
      BY <1>2, <1>3
    <3> QED BY <1>2, <3>1
  <2>2. Depth \in 0 .. Depth
    BY <1>2
  <2> HIDE DEF Level
  <2> QED BY <1>1, <2>1, <2>2
<1>5. ASSUME NEW i \in DOMAIN hash2class
      PROVE  (\E n \in 0 .. Depth : i \in Level(n))
               <=> hash2class[i] # k /\ Forest!Under(k, hash2class[i])
  <2>1. Forest!Under(k, hash2class[i]) <=> Above(k, hash2class[i])
    BY <1>2, <1>3, UnderIsAbove
  <2>2. ASSUME NEW n \in 0 .. Depth, i \in Level(n) PROVE hash2class[i] # k
    BY <1>2, <2>2
  <2>3. ASSUME hash2class[i] # k, Above(k, hash2class[i])
        PROVE  \E n \in 0 .. Depth : i \in Level(n)
    <3>1. Len(hash2class[i]) # Len(k) /\ Len(k) <= Len(hash2class[i])
      BY <1>2, <1>3, <2>3, SamePath DEF Above
    <3>2. PICK x \in Nat, z \in Nat :
            x = Len(hash2class[i]) /\ z = Len(k) /\ x # z /\ z <= x /\ x <= Depth
      BY <1>2, <1>3, <3>1
    <3>3. x - z - 1 \in 0 .. Depth /\ x = z + ((x - z - 1) + 1)
      BY <1>2, <3>2
    <3>4. i \in Level(x - z - 1)
      BY <2>3, <3>2, <3>3
    <3> QED BY <3>3, <3>4
  <2> QED BY <2>1, <2>2, <2>3
<1>6. UNION {InCount(k)[n] : n \in 0 .. Depth} =
        {i \in DOMAIN hash2class : \E n \in 0 .. Depth : i \in Level(n)}
  <2>1. \A n \in 0 .. Depth : Level(n) \subseteq DOMAIN hash2class
    OBVIOUS
  <2> HIDE DEF Level
  <2> QED BY <1>1, <2>1
<1> HIDE DEF Level
<1> QED BY <1>4, <1>5, <1>6

\* What a user is shown of the tree is the tree (GetClasses), and the count of the files
\* of a class ends (GetAllFileCountOfClass), because each round is one level further
\* down, on the same conditions as Invariance.
THEOREM TreeIsAsShown ==
  ASSUME ParentsFirst, ~ Deep
  PROVE  Spec => []TreeIsShown
<1>1. TreeInv => TreeIsShown
  BY TreeInvShows
<1>2. TreeInv /\ [Next]_vars => TreeInv'
  BY NextTreeInv
<1> QED BY <1>1, <1>2, InitTreeInv, PTL DEF Spec

-------------------------------------------------------------------------------
\* The words of a class.

LEMMA RenWords ==
  ASSUME NEW old \in Path, NEW w \in Word, NEW p \in Path,
         NEW x \in WordsOf(Ren(old, NewName(old, w), p)), x # w
  PROVE  x \in WordsOf(p)
<1> DEFINE new == NewName(old, w)
<1>1. /\ new \in Path /\ Len(new) = Len(old) /\ new[Len(old)] = w
      /\ \A n \in 1 .. Len(old) - 1 : new[n] = old[n]
  BY NewNameType
<1>2. /\ Len(p) \in Nat /\ Len(old) \in Nat
      /\ DOMAIN p = 1 .. Len(p)
  BY PathType, ClassTreeAssumption
<1> HIDE DEF new
<1>3. CASE ~ Above(old, p)
  BY <1>3 DEF Ren
<1>4. CASE Above(old, p)
  <2> DEFINE r == Renamed(old, new, p)
  <2>1. /\ r \in Path /\ Len(r) = Len(p)
        /\ \A n \in 1 .. Len(p) : r[n] = IF n <= Len(old) THEN new[n] ELSE p[n]
    BY <1>1, <1>4, RenamedType
  <2>2. x \in WordsOf(r)
    BY <1>4 DEF Ren, new
  <2> HIDE DEF r
  <2>3. DOMAIN r = 1 .. Len(p)
    BY <2>1, PathType
  <2>4. PICK n \in 1 .. Len(p) : x = r[n]
    BY <2>2, <2>3 DEF WordsOf
  <2>5. x = p[n]
    <3>1. CASE n <= Len(old)
      <4>1. n # Len(old)
        BY <1>1, <2>1, <2>4, <3>1
      <4>2. n \in 1 .. Len(old) - 1 /\ n \in 1 .. Len(old)
        BY <1>2, <3>1, <4>1
      <4> QED BY <1>1, <1>4, <2>1, <2>4, <3>1, <4>2 DEF Above
    <3>2. CASE ~ (n <= Len(old))
      BY <2>1, <2>4, <3>2
    <3> QED BY <3>1, <3>2
  <2> QED BY <1>2, <2>4, <2>5 DEF WordsOf
<1> QED BY <1>3, <1>4

LEMMA WordsOfPath == \A p \in Path : WordsOf(p) \subseteq Word
<1> SUFFICES ASSUME NEW p \in Path PROVE WordsOf(p) \subseteq Word
  OBVIOUS
<1>1. DOMAIN p = 1 .. Len(p) /\ \A n \in 1 .. Len(p) : p[n] \in Word
  BY PathType
<1> QED BY <1>1 DEF WordsOf

LEMMA NextFoundByWords ==
  ASSUME ParentsFirst, ~ Deep, TreeInv, FoundByWords, [Next]_vars
  PROVE  FoundByWords'
<1>1. /\ keyword2class \in [Word -> SUBSET Nat]
      /\ \A i \in DOMAIN hash2class : hash2class[i] \in Path
      /\ \A i \in DOMAIN hash2class : \A x \in WordsOf(hash2class[i]) \ moved :
           i \in keyword2class[x]
  BY DEF TreeInv, Inv, TypeOK, FoundByWords
<1>2. ASSUME NEW p \in Path, NEW F \in SUBSET File, AddClass(p, F) PROVE FoundByWords'
  <2>1. PICK child \in Nat : AddedAt(p, F, child)
    BY <1>2, AddIsAdding
  <2>2. /\ hash2class' = [i \in DOMAIN hash2class \cup {child} |->
                           IF i \in DOMAIN hash2class THEN hash2class[i] ELSE p]
        /\ keyword2class' = MapWords(p, child) /\ UNCHANGED moved
    BY <2>1 DEF AddedAt
  <2>3. child \in DOMAIN hash2class => hash2class[child] = p
    <3>1. PICK c \in Nat :
            /\ AddedAt(p, F, c)
            /\ IsClassExist(p) => c = class2hash[p].self
            /\ ~ IsClassExist(p) => c \notin DOMAIN hash2class
      BY <1>2, AddIsAdding
    <3>2. c = child
      BY <2>1, <3>1 DEF AddedAt
    <3>3. IsClassExist(p) => p \in Exists
      BY RootIsNoPath DEF IsClassExist, Exists
    <3> QED BY <3>1, <3>2, <3>3, ClassFacts
  <2>4. ASSUME NEW i \in DOMAIN hash2class', NEW x \in WordsOf(hash2class'[i]) \ moved'
        PROVE  i \in keyword2class'[x]
    <3>1. CASE i = child
      <4>1. hash2class'[i] = p
        BY <2>2, <2>3, <3>1
      <4>2. x \in WordsOf(p) /\ x \in Word
        BY <2>4, <4>1, WordsOfPath
      <4> QED BY <2>2, <3>1, <4>2 DEF MapWords
    <3>2. CASE i # child
      <4>1. i \in DOMAIN hash2class /\ hash2class'[i] = hash2class[i]
        BY <2>2, <3>2
      <4>2. x \in WordsOf(hash2class[i]) \ moved /\ x \in Word
        BY <1>1, <2>2, <2>4, <4>1, WordsOfPath
      <4>3. i \in keyword2class[x]
        BY <1>1, <4>1, <4>2
      <4> QED BY <2>2, <4>2, <4>3 DEF MapWords
    <3> QED BY <3>1, <3>2
  <2> QED BY <2>4 DEF FoundByWords
<1>3. ASSUME NEW old \in Path, NEW w \in Word, UpdateClassName(old, w) PROVE FoundByWords'
  <2>1. RenamedTo(old, NewName(old, w))
    BY <1>3, RenameIsRenaming
  <2>2. /\ DOMAIN hash2class' = DOMAIN hash2class
        /\ \A i \in DOMAIN hash2class :
             hash2class'[i] = Ren(old, NewName(old, w), hash2class[i])
    BY <2>1 DEF RenamedTo
  <2> DEFINE last == old[Len(old)]
  <2>3. /\ keyword2class' = [keyword2class EXCEPT ![last] = {}, ![w] = keyword2class[last]]
        /\ moved' = moved \cup {last, w}
    BY <1>3 DEF UpdateClassName
  <2> HIDE DEF last
  <2>4. ASSUME NEW i \in DOMAIN hash2class', NEW x \in WordsOf(hash2class'[i]) \ moved'
        PROVE  i \in keyword2class'[x]
    <3>1. x # w /\ x # last /\ x \notin moved
      BY <2>3, <2>4
    <3>2. x \in WordsOf(hash2class[i])
      BY <1>1, <2>2, <2>4, <3>1, RenWords
    <3>3. x \in Word
      BY <1>1, <2>2, <2>4, <3>2, WordsOfPath
    <3>4. i \in keyword2class[x]
      BY <1>1, <2>2, <2>4, <3>1, <3>2
    <3>5. keyword2class'[x] = keyword2class[x]
      BY <1>1, <2>3, <3>1, <3>3
    <3> QED BY <3>4, <3>5
  <2> QED BY <2>4 DEF FoundByWords
<1>4. ASSUME NEW p \in Path, RemoveClasses(p) PROVE FoundByWords'
  <2>1. RemovedUnder(p)
    BY <1>4, RemoveIsRemoving
  <2>2. \A i \in DOMAIN hash2class' : i \in DOMAIN hash2class /\ hash2class'[i] = hash2class[i]
    BY <2>1 DEF RemovedUnder
  <2>3. UNCHANGED <<keyword2class, moved>>
    BY <1>4 DEF RemoveClasses
  <2> QED BY <1>1, <2>2, <2>3 DEF FoundByWords
<1>5. ASSUME NEW p \in Path, NEW F \in SUBSET File, RemoveClassesOf(p, F)
      PROVE  FoundByWords'
  BY <1>1, <1>5 DEF RemoveClassesOf, FoundByWords
<1>6. CASE UNCHANGED vars
  BY <1>1, <1>6 DEF vars, FoundByWords
<1> QED BY <1>2, <1>3, <1>4, <1>5, <1>6 DEF Next

\* A class is found by each word of its path no rename has touched (KEYWORD2CLASS), on
\* the same conditions as Invariance.
THEOREM ClassesAreFound ==
  ASSUME ParentsFirst, ~ Deep
  PROVE  Spec => []FoundByWords
<1>1. Init => FoundByWords
  BY DEF Init, FoundByWords
<1>2. TreeInv /\ [Next]_vars => TreeInv'
  BY NextTreeInv
<1>3. TreeInv /\ FoundByWords /\ [Next]_vars => FoundByWords'
  BY NextFoundByWords
<1> QED BY <1>1, <1>2, <1>3, InitTreeInv, PTL DEF Spec

-------------------------------------------------------------------------------
\* The refinement.

LEMMA PathsExist ==
  ASSUME TreeInv, NEW p \in Path
  PROVE  p \in Forest!Paths <=> IsClassExist(p)
<1>1. ASSUME p \in Forest!Paths PROVE IsClassExist(p)
  <2>1. PICK i \in DOMAIN hash2class : p = hash2class[i]
    BY <1>1 DEF Forest!Paths
  <2> QED BY <2>1, IdFacts DEF Exists, IsClassExist
<1>2. ASSUME IsClassExist(p) PROVE p \in Forest!Paths
  <2>1. p \in Exists
    BY <1>2, RootIsNoPath DEF Exists, IsClassExist
  <2>2. class2hash[p].self \in DOMAIN hash2class /\ hash2class[class2hash[p].self] = p
    BY <2>1, ClassFacts
  <2> QED BY <2>2 DEF Forest!Paths
<1> QED BY <1>1, <1>2

\* The files of an id, and of each.
Filed(i) == {f \in File : <<i, f>> \in class2file}
FilesIn == [i \in DOMAIN hash2class |-> Filed(i)]

\* Initial states are initial states of the forest.
LEMMA InitRefines == Init => Forest!Init
<1> SUFFICES ASSUME Init PROVE Forest!Init
  OBVIOUS
<1>1. ASSUME NEW f, f = [i \in {} |-> Root] PROVE f = <<>>
  BY <1>1
<1>2. hash2class = <<>> /\ DOMAIN hash2class = {}
  BY <1>1 DEF Init
<1>3. [i \in DOMAIN hash2class |-> Filed(i)] = <<>>
  BY <1>2
<1> QED BY <1>2, <1>3 DEF Forest!Init, Filed

LEMMA AddRefines ==
  ASSUME TreeInv, ParentsFirst, NEW p \in Path, NEW F \in SUBSET File, AddClass(p, F)
  PROVE  Forest!Add(p, F) \/ Forest!Put(p, F)
<1>1. IsClassExist(Parent(p))
  BY AddIsAdding
<1>2. PICK child \in Nat :
        /\ AddedAt(p, F, child)
        /\ IsClassExist(p) => child = class2hash[p].self
        /\ ~ IsClassExist(p) => child \notin DOMAIN hash2class
  BY AddIsAdding
<1>3. hash2class' = [i \in DOMAIN hash2class \cup {child} |->
                      IF i \in DOMAIN hash2class THEN hash2class[i] ELSE p]
  BY <1>2 DEF AddedAt
<1>4. class2file' = class2file \cup ({child} \X F)
  BY <1>2 DEF AddedAt
<1>5. CASE IsClassExist(p)
  <2>1. child \in DOMAIN hash2class /\ hash2class[child] = p
    <3>1. p \in Exists
      BY <1>5, RootIsNoPath DEF Exists, IsClassExist
    <3> QED BY <1>2, <1>5, <3>1, ClassFacts
  <2>2. hash2class' = hash2class
    <3>1. hash2class' = [i \in DOMAIN hash2class |-> hash2class[i]]
      BY <1>3, <2>1
    <3> QED BY <3>1 DEF TreeInv
  <2>3. ASSUME NEW i \in DOMAIN hash2class
        PROVE  Filed(i)' = IF hash2class[i] = p THEN Filed(i) \cup F ELSE Filed(i)
    <3>1. i = child <=> hash2class[i] = p
      BY <1>2, <1>5, <2>1, IdFacts
    <3> QED BY <1>4, <3>1 DEF Filed
  <2>4. FilesIn' = [i \in DOMAIN hash2class |-> IF hash2class[i] = p THEN FilesIn[i] \cup F
                                                ELSE FilesIn[i]]
    BY <2>2, <2>3 DEF FilesIn
  <2> QED BY <2>2, <2>4 DEF Forest!Put, FilesIn, Filed
<1>6. CASE ~ IsClassExist(p)
  <2>1. p \notin Forest!Paths
    BY <1>6, PathsExist
  <2>2. Len(p) = 1 \/ Parent(p) \in Forest!Paths
    <3>1. /\ Parent(p) \in Node /\ Len(Parent(p)) = Len(p) - 1 /\ Len(p) \in Nat
      BY ParentType, PathType, ClassTreeAssumption
    <3>2. CASE Parent(p) = Root
      BY <3>1, <3>2, RootType
    <3>3. CASE Parent(p) # Root
      BY <1>1, <3>1, <3>3, PathsExist DEF Node
    <3> QED BY <3>2, <3>3
  <2>3. child \in DOMAIN hash2class' \ DOMAIN hash2class
    BY <1>2, <1>3, <1>6
  <2>4. hash2class' = [j \in DOMAIN hash2class \cup {child} |->
                        IF j = child THEN p ELSE hash2class[j]]
    BY <1>3, <2>3
  <2>5. Filed(child)' = F
    BY <1>4, <2>3, FilesFacts DEF Filed
  <2>6. ASSUME NEW j \in DOMAIN hash2class PROVE Filed(j)' = Filed(j)
    BY <1>4, <2>3 DEF Filed
  <2>7. FilesIn' = [j \in DOMAIN hash2class \cup {child} |->
                     IF j = child THEN F ELSE FilesIn[j]]
    BY <2>4, <2>5, <2>6 DEF FilesIn
  <2> QED BY <2>1, <2>2, <2>3, <2>4, <2>7 DEF Forest!Add, Parent, FilesIn, Filed
<1> QED BY <1>5, <1>6

LEMMA TakeRefines ==
  ASSUME TreeInv, NEW p \in Path, NEW F \in SUBSET File, RemoveClassesOf(p, F)
  PROVE  Forest!Take(p, F)
<1> DEFINE c == GenerateClassHash(p, DOMAIN hash2class)
<1>1. class2file' = class2file \ ({c} \X F) /\ UNCHANGED hash2class
  BY DEF RemoveClassesOf
<1>2. ASSUME NEW i \in DOMAIN hash2class PROVE i = c <=> hash2class[i] = p
  <2>1. CASE IsClassExist(p)
    <3>1. p \in Exists /\ c = class2hash[p].self
      BY <2>1, RootIsNoPath DEF Exists, IsClassExist, GenerateClassHash
    <3> QED BY <3>1, ClassFacts, IdFacts
  <2>2. CASE ~ IsClassExist(p)
    <3>1. c = Probe(Hash(p), DOMAIN hash2class)
      BY <2>2 DEF GenerateClassHash
    <3>2. /\ DOMAIN hash2class \in SUBSET Nat /\ IsFiniteSet(DOMAIN hash2class)
          /\ Hash(p) \in Nat
      BY HashAssumption DEF TreeInv, Inv, TypeOK
    <3>3. c \notin DOMAIN hash2class
      BY <3>1, <3>2, ProbeType
    <3>4. hash2class[i] # p
      BY <2>2, IdFacts DEF Exists, IsClassExist
    <3> QED BY <3>3, <3>4
  <2> QED BY <2>1, <2>2
<1> HIDE DEF c
<1>3. ASSUME NEW i \in DOMAIN hash2class
      PROVE  Filed(i)' = IF hash2class[i] = p THEN Filed(i) \ F ELSE Filed(i)
  BY <1>1, <1>2 DEF Filed
<1>4. FilesIn' = [i \in DOMAIN hash2class |-> IF hash2class[i] = p THEN FilesIn[i] \ F
                                              ELSE FilesIn[i]]
  BY <1>1, <1>3 DEF FilesIn
<1> QED BY <1>1, <1>4 DEF Forest!Take, FilesIn, Filed

LEMMA RenameRefines ==
  ASSUME TreeInv, ~ Deep, NEW old \in Path, NEW w \in Word, UpdateClassName(old, w)
  PROVE  Forest!Rename(old, w) \/ UNCHANGED Forest!vars
<1> DEFINE new == NewName(old, w)
<1>1. RenamedTo(old, new) /\ ~ IsClassExist(new) /\ new \in Path
  BY RenameIsRenaming, NewNameType
<1>2. new = [old EXCEPT ![Len(old)] = w]
  BY DEF NewName
<1> HIDE DEF new
<1>3. hash2class' = [i \in DOMAIN hash2class |-> Ren(old, new, hash2class[i])]
  BY <1>1 DEF RenamedTo
<1>4. \A i \in DOMAIN hash2class :
        hash2class[i] \in Exists /\ hash2class[i] \in Path
  BY IdFacts, ClassFacts
<1>5. FilesIn' = FilesIn
  <2>1. DOMAIN hash2class' = DOMAIN hash2class /\ UNCHANGED class2file
    BY <1>3 DEF UpdateClassName
  <2> QED BY <2>1 DEF FilesIn, Filed
<1>6. CASE IsClassExist(old)
  <2>1. old \in Forest!Paths /\ new \notin Forest!Paths
    BY <1>1, <1>6, PathsExist
  <2>2. \A i \in DOMAIN hash2class :
          Ren(old, new, hash2class[i]) =
            IF Forest!Under(old, hash2class[i])
            THEN new \o SubSeq(hash2class[i], Len(old) + 1, Len(hash2class[i]))
            ELSE hash2class[i]
    BY <1>4, UnderIsAbove DEF Ren, Renamed, Node
  <2>3. hash2class' = [i \in DOMAIN hash2class |->
                        IF Forest!Under(old, hash2class[i])
                        THEN new \o SubSeq(hash2class[i], Len(old) + 1, Len(hash2class[i]))
                        ELSE hash2class[i]]
    BY <1>3, <2>2
  <2>4. Forest!Rename(old, w)
    BY <1>2, <1>5, <2>1, <2>3 DEF Forest!Rename, FilesIn, Filed
  <2> QED BY <2>4
<1>7. CASE ~ IsClassExist(old)
  <2>1. old \notin Exists
    BY <1>7 DEF Exists, IsClassExist
  <2>2. \A i \in DOMAIN hash2class : ~ Above(old, hash2class[i])
    BY <1>4, <2>1, AboveExists
  <2>3. hash2class' = [i \in DOMAIN hash2class |-> hash2class[i]]
    BY <1>3, <2>2 DEF Ren
  <2>4. hash2class' = hash2class
    BY <2>3 DEF TreeInv
  <2> QED BY <1>5, <2>4 DEF Forest!vars, FilesIn, Filed
<1> QED BY <1>6, <1>7

LEMMA RemoveRefines ==
  ASSUME TreeInv, NEW p \in Path, RemoveClasses(p)
  PROVE  Forest!Remove(p) \/ UNCHANGED Forest!vars
<1>1. /\ hash2class' = [i \in {j \in DOMAIN hash2class : ~ Above(p, hash2class[j])} |->
                         hash2class[i]]
      /\ class2file' = {e \in class2file : e[1] \in DOMAIN hash2class'}
  BY RemoveIsRemoving DEF RemovedUnder
<1>2. \A i \in DOMAIN hash2class : hash2class[i] \in Exists /\ hash2class[i] \in Path
  BY IdFacts, ClassFacts
<1>3. FilesIn' = [i \in DOMAIN hash2class' |-> FilesIn[i]]
  <2>1. \A i \in DOMAIN hash2class' : i \in DOMAIN hash2class /\ Filed(i)' = Filed(i)
    BY <1>1 DEF Filed
  <2> QED BY <2>1 DEF FilesIn
<1>4. CASE IsClassExist(p)
  <2>1. p \in Forest!Paths
    BY <1>4, PathsExist
  <2>2. {j \in DOMAIN hash2class : ~ Above(p, hash2class[j])}
          = {j \in DOMAIN hash2class : ~ Forest!Under(p, hash2class[j])}
    BY <1>2, UnderIsAbove DEF Node
  <2>3. hash2class' = [i \in {j \in DOMAIN hash2class : ~ Forest!Under(p, hash2class[j])} |->
                        hash2class[i]]
    BY <1>1, <2>2
  <2>4. FilesIn' = [i \in {j \in DOMAIN hash2class : ~ Forest!Under(p, hash2class[j])} |->
                     FilesIn[i]]
    BY <1>3, <2>3
  <2> QED BY <2>1, <2>3, <2>4 DEF Forest!Remove, FilesIn, Filed
<1>5. CASE ~ IsClassExist(p)
  <2>1. p \notin Exists
    BY <1>5 DEF Exists, IsClassExist
  <2>2. {j \in DOMAIN hash2class : ~ Above(p, hash2class[j])} = DOMAIN hash2class
    BY <1>2, <2>1, AboveExists
  <2>3. hash2class' = [i \in DOMAIN hash2class |-> hash2class[i]]
    BY <1>1, <2>2
  <2>4. hash2class' = hash2class
    BY <2>3 DEF TreeInv
  <2>5. FilesIn' = FilesIn
    BY <1>3, <2>4 DEF FilesIn
  <2> QED BY <2>4, <2>5 DEF Forest!vars, FilesIn, Filed
<1> QED BY <1>4, <1>5

\* Every call is a step of the forest or leaves it as it is.
LEMMA StepRefines ==
  ASSUME ParentsFirst, ~ Deep, TreeInv, [Next]_vars
  PROVE  [Forest!Next]_(Forest!vars)
<1>1. Path = Forest!Path
  BY DEF Path, Forest!Path
<1>2. ASSUME NEW p \in Path, NEW F \in SUBSET File, AddClass(p, F) PROVE Forest!Next
  BY <1>1, <1>2, AddRefines DEF Forest!Next
<1>3. ASSUME NEW p \in Path, NEW w \in Word, UpdateClassName(p, w)
      PROVE  Forest!Next \/ UNCHANGED Forest!vars
  BY <1>1, <1>3, RenameRefines DEF Forest!Next
<1>4. ASSUME NEW p \in Path, RemoveClasses(p) PROVE Forest!Next \/ UNCHANGED Forest!vars
  BY <1>1, <1>4, RemoveRefines DEF Forest!Next
<1>5. ASSUME NEW p \in Path, NEW F \in SUBSET File, RemoveClassesOf(p, F) PROVE Forest!Next
  BY <1>1, <1>5, TakeRefines DEF Forest!Next
<1>6. CASE UNCHANGED vars
  BY <1>6 DEF vars, Forest!vars
<1> QED BY <1>2, <1>3, <1>4, <1>5, <1>6 DEF Next

\* A class that is new has the files it was added with.
LEMMA NewFiles ==
  ASSUME ParentsFirst, ~ Deep, TreeInv, [Next]_vars,
         NEW i \in DOMAIN hash2class' \ DOMAIN hash2class, NEW F \in SUBSET File,
         AddClass(hash2class'[i], F)
  PROVE  Forest!Add(hash2class'[i], F)
<1>1. PICK p \in Path : p = hash2class'[i]
  BY NextTreeInv DEF TreeInv, Inv, TypeOK
<1>2. AddClass(p, F)
  BY <1>1
<1>3. Forest!Add(p, F) \/ Forest!Put(p, F)
  BY <1>2, AddRefines
<1>4. ~ Forest!Put(p, F)
  BY DEF Forest!Put
<1>5. Forest!Add(p, F)
  BY <1>3, <1>4
<1> QED BY <1>1, <1>5 DEF Forest!Add

\* The tables implement ClassForest: an id and its files stay with a class under every
\* rename, what is below a class follows or goes with it, and no files come with an id
\* that is given again (updateClassName, removeClasses), on the same conditions as
\* Invariance.
THEOREM Refinement ==
  ASSUME ParentsFirst, ~ Deep
  PROVE  Spec => KeepsForest
<1>1. TreeInv /\ [Next]_vars => TreeInv' /\ [Forest!Next]_(Forest!vars)
  BY NextTreeInv, StepRefines
<1>2. TreeInv /\ [Next]_vars =>
        [\A i \in DOMAIN hash2class' \ DOMAIN hash2class, F \in SUBSET File :
           AddClass(hash2class'[i], F) => Forest!Add(hash2class'[i], F)]_vars
  BY NewFiles
<1> QED
  BY <1>1, <1>2, InitTreeInv, InitRefines, PTL
  DEF Spec, KeepsForest, NewHasItsFiles, Forest!Spec
===============================================================================
