------------------------------ MODULE ClassTree -------------------------------
(***************************************************************************)
(* The classes of DBManager (civetkern/src/db_manager.cpp): paths of any   *)
(* depth, their ids, the files in them, and the calls addClasses,          *)
(* updateClassName and removeClasses.  The other rows of a file, and what  *)
(* becomes of it when it is removed, are the matter of FileIndex: the      *)
(* files here are those there are.  A call is one synchronous call of the  *)
(* addon that commits at its end, so it is one action and a crash shows    *)
(* nothing new (RemoveClassesOf commits with the next call: FileIndex has  *)
(* what a crash makes of that); a call with several paths is as many calls *)
(* with one.                                                               *)
(*                                                                         *)
(* A path is a sequence of words, the root is the empty one.  The key of a *)
(* path in CLASS2HASH is the bytes of its word indexes: serialize keeps    *)
(* the low byte of each, so Word is a set of indexes that differ in theirs *)
(* and the path stands for its key.  Its id is a hash of the key.          *)
(***************************************************************************)
EXTENDS Integers, Sequences, FiniteSets

CONSTANTS
  Word,          \* the words of class names
  File,          \* the files there are
  Depth,         \* bound: the longest path
  Hash(_),       \* encode: the id a path is given when it is free
  MaxClass,      \* bound: classes at a time
  MaxChange,     \* bound: calls of updateClassName and removeClasses
  ParentsFirst,  \* BOOLEAN: callers add a class after its parent
  Deep           \* BOOLEAN: callers rename classes that have grandchildren

ASSUME ClassTreeAssumption ==
  /\ Depth \in Nat /\ MaxClass \in Nat /\ MaxChange \in Nat
  /\ ParentsFirst \in BOOLEAN /\ Deep \in BOOLEAN

VARIABLES
  class2hash,     \* the row of each key: . and .. and the children
  hash2class,     \* the path of each id
  keyword2class,  \* the ids of the classes with a word in their path
  class2file,     \* CLASS2FILE, as pairs: an id and a file in its row
  file2class,     \* FILE2CLASS, as pairs: a file and an id in its row
  moved,          \* history: the words a rename took away or gave
  changes         \* history: how many renames and removals there were

vars ==
  <<class2hash, hash2class, keyword2class, class2file, file2class, moved, changes>>

Root == <<>>
RootID == 0

Path == UNION {[1 .. n -> Word] : n \in 1 .. Depth}

ASSUME HashAssumption == \A p \in Path : Hash(p) \in Nat

Parent(p) == SubSeq(p, 1, Len(p) - 1)
WordsOf(p) == {p[n] : n \in DOMAIN p}

-------------------------------------------------------------------------------
\* The rows of CLASS2HASH.
Row(id, parent, children) == [self |-> id, parent |-> parent, children |-> children]

IsClassExist(p) == p \in DOMAIN class2hash
Exists == DOMAIN class2hash \ {Root}

\* GetClassByHash: an id without a name is taken for the root.
GetClassByHash(i) == IF i \in DOMAIN hash2class THEN hash2class[i] ELSE Root

\* GetClassHash, 0 when there is no row.
GetClassHash(p) == IF IsClassExist(p) THEN class2hash[p].self ELSE RootID

GetClassChildren(p) == IF IsClassExist(p) THEN class2hash[p].children ELSE {}

\* The first of e, e + 1, e + 1 + 2, ... that is no id of used.
Probe(e, used) ==
  LET id == [n \in 0 .. Cardinality(used) |-> e + (n * (n + 1)) \div 2]
  IN  id[CHOOSE n \in DOMAIN id :
           id[n] \notin used /\ \A m \in 0 .. n - 1 : id[m] \in used]

\* GenerateClassHash, when the ids in HASH2CLASS are used.
GenerateClassHash(p, used) ==
  IF IsClassExist(p) THEN class2hash[p].self ELSE Probe(Hash(p), used)

-------------------------------------------------------------------------------
\* Mutant of MapWords: only the last word of the path finds the class.
MutantMapWords(p, i) ==
  [w \in Word |-> keyword2class[w] \cup {j \in {i} : w = p[Len(p)]}]

\* KEYWORD2CLASS after a class p of id i was added.
MapWords(p, i) == [w \in Word |-> keyword2class[w] \cup {j \in {i} : w \in WordsOf(p)}]

\* AddClasses(classes) and AddClasses(classes, files).  A path whose hash is 0 is refused.
\* A parent that was never added gets a row that holds 0 and the child, where readers
\* look for . and ..
AddClass(p, files) ==
  LET child == GenerateClassHash(p, DOMAIN hash2class)
      used == DOMAIN hash2class \cup {child}
      up == IF Parent(p) = Root THEN RootID ELSE GenerateClassHash(Parent(p), used)
      row == IF IsClassExist(p) THEN class2hash[p] ELSE Row(child, up, {})
      parentRow == IF IsClassExist(Parent(p))
                   THEN [class2hash[Parent(p)] EXCEPT !.children = @ \cup {child}]
                   ELSE Row(0, child, {})
  IN /\ IsClassExist(p) \/ Cardinality(Exists) < MaxClass
     /\ ParentsFirst => IsClassExist(Parent(p))
     /\ child # RootID
     /\ hash2class' = [i \in used |-> IF i \in DOMAIN hash2class THEN hash2class[i] ELSE p]
     /\ keyword2class' = MapWords(p, child)
     /\ class2hash' = [k \in DOMAIN class2hash \cup {p, Parent(p)} |->
                         CASE k = p -> row
                           [] k = Parent(p) -> parentRow
                           [] OTHER -> class2hash[k]]
     /\ class2file' = class2file \cup ({child} \X files)
     /\ file2class' = file2class \cup (files \X {child})
     /\ UNCHANGED <<moved, changes>>

-------------------------------------------------------------------------------
Renamed(old, new, p) == new \o SubSeq(p, Len(old) + 1, Len(p))

\* Mutant of Followers: the children are not renamed with their parent.
MutantFollowers(old) == {}

\* UpdateChildrenClassName: the ids that are renamed with the class at old.  It calls
\* itself with a path in the place of a key, finds no children there, and stops.
Followers(old) == GetClassChildren(old) \cap DOMAIN hash2class

\* UpdateClassName.  The words of the old name are not searched any more for any class
\* that has them as the last word: the whole row goes to the new last word, and what
\* that had is lost.
UpdateClassName(old, w) ==
  LET new == [old EXCEPT ![Len(old)] = w]
      last == old[Len(old)]
      ids == Followers(old) \cup ({GetClassHash(old)} \cap DOMAIN hash2class)
      from == {old} \cup {hash2class[i] : i \in Followers(old)}
      rows == from \cap DOMAIN class2hash
  IN /\ changes < MaxChange
     /\ ~ IsClassExist(new)
     /\ Deep \/ \A i \in Followers(old) : GetClassChildren(hash2class[i]) = {}
     /\ keyword2class' = [keyword2class EXCEPT ![last] = {}, ![w] = keyword2class[last]]
     /\ hash2class' = [i \in DOMAIN hash2class |->
                         IF i \in ids THEN Renamed(old, new, hash2class[i])
                         ELSE hash2class[i]]
     /\ class2hash' =
          [k \in (DOMAIN class2hash \ from) \cup {Renamed(old, new, q) : q \in rows} |->
             IF \E q \in rows : Renamed(old, new, q) = k
             THEN class2hash[CHOOSE q \in rows : Renamed(old, new, q) = k]
             ELSE class2hash[k]]
     /\ moved' = moved \cup {last, w}
     /\ changes' = changes + 1
     /\ UNCHANGED <<class2file, file2class>>

-------------------------------------------------------------------------------
\* Mutant of Falling: the children of the children stay.
MutantFalling(p) == {p} \cup ({GetClassByHash(i) : i \in GetClassChildren(p)} \ {Root})

\* RemoveClassImpl: the paths it is called with, p and the names of the children of
\* each, which is why it needs their rows to lead to one another.
Falling(p) ==
  LET below[n \in 0 .. Depth] ==
        IF n = 0 THEN {p}
        ELSE below[n - 1] \cup
             {GetClassByHash(i) : i \in UNION {GetClassChildren(q) : q \in below[n - 1]}}
  IN below[Depth] \ {Root}

\* Mutant of Left: the removed class stays among the children of its parent.
MutantLeft(fallen, k) == class2hash[k]

\* The row of k when the classes in fallen are removed: each takes its id out of the
\* children of the parent its own row names.
Left(fallen, k) ==
  [class2hash[k] EXCEPT
     !.children = @ \ {class2hash[q].self :
                         q \in {r \in fallen : GetClassByHash(class2hash[r].parent) = k}}]

\* Mutant of Unfiled: the rows of CLASS2FILE stay.
MutantUnfiled(gone) == class2file

\* CLASS2FILE without the rows of the ids in gone.
Unfiled(gone) == {e \in class2file : e[1] \notin gone}

\* RemoveClasses(classes).  The files are found through CLASS2FILE, and KEYWORD2CLASS
\* keeps the ids.
RemoveClasses(p) ==
  LET fallen == Falling(p) \cap DOMAIN class2hash
      gone == {class2hash[q].self : q \in fallen}
  IN /\ changes < MaxChange
     /\ hash2class' = [i \in DOMAIN hash2class \ gone |-> hash2class[i]]
     /\ class2hash' = [k \in DOMAIN class2hash \ fallen |-> Left(fallen, k)]
     /\ class2file' = Unfiled(gone)
     /\ file2class' = {e \in file2class : e[2] \in gone => <<e[2], e[1]>> \notin class2file}
     /\ changes' = changes + 1
     /\ UNCHANGED <<keyword2class, moved>>

\* RemoveClasses(classes, files): EncodePath2Hash makes up an id for a path there is not,
\* which nothing is filed under.
RemoveClassesOf(p, files) ==
  LET cid == GenerateClassHash(p, DOMAIN hash2class)
  IN /\ class2file' = class2file \ ({cid} \X files)
     /\ file2class' = file2class \ (files \X {cid})
     /\ UNCHANGED <<class2hash, hash2class, keyword2class, moved, changes>>

-------------------------------------------------------------------------------
Init ==
  /\ class2hash = [k \in {Root} |-> Row(RootID, RootID, {})]
  /\ hash2class = [i \in {} |-> Root]
  /\ keyword2class = [w \in Word |-> {}]
  /\ class2file = {} /\ file2class = {}
  /\ moved = {}
  /\ changes = 0

Next ==
  \E p \in Path :
    \/ \E files \in SUBSET File : AddClass(p, files)
    \/ \E files \in (SUBSET File) \ {{}} : RemoveClassesOf(p, files)
    \/ \E w \in Word : UpdateClassName(p, w)
    \/ RemoveClasses(p)

Spec == Init /\ [][Next]_vars

-------------------------------------------------------------------------------
TypeOK ==
  /\ DOMAIN hash2class \subseteq Nat
  /\ \A i \in DOMAIN hash2class : hash2class[i] \in Path
  /\ DOMAIN class2hash \subseteq Path \cup {Root}
  /\ \A k \in DOMAIN class2hash :
       class2hash[k] \in [self : Nat, parent : Nat, children : SUBSET Nat]
  /\ keyword2class \in [Word -> SUBSET Nat]
  /\ class2file \subseteq Nat \X File /\ file2class \subseteq File \X Nat
  /\ moved \subseteq Word
  /\ changes \in 0 .. MaxChange

\* CLASS2HASH and HASH2CLASS lead to each other: no two paths share an id.
TwoWay ==
  /\ Root \in DOMAIN class2hash /\ class2hash[Root].self = RootID
  /\ \A k \in Exists :
       class2hash[k].self \in DOMAIN hash2class /\ hash2class[class2hash[k].self] = k
  /\ \A i \in DOMAIN hash2class :
       i # RootID /\ IsClassExist(hash2class[i]) /\ class2hash[hash2class[i]].self = i

\* A class listed as a child has the name of the class that lists it, and one word
\* more, after a rename too (what the test of updateClassName expects of a child).
ChildrenFollow ==
  \A k \in DOMAIN class2hash :
    \A i \in class2hash[k].children \cap DOMAIN hash2class : Parent(hash2class[i]) = k

\* The row of a class names its parent, the class whose path is one word shorter, and
\* that parent's row lists the class, and no others.
RowsAgree ==
  /\ \A k \in Exists :
       /\ IsClassExist(Parent(k))
       /\ class2hash[k].parent = class2hash[Parent(k)].self
       /\ class2hash[k].self \in class2hash[Parent(k)].children
  /\ \A k \in DOMAIN class2hash : class2hash[k].children \subseteq DOMAIN hash2class
  /\ ChildrenFollow

\* FILE2CLASS and CLASS2FILE are each other's inverse, and no file is under the id of a
\* class that is gone, whose next owner would have it.
FilesAgree ==
  /\ \A e \in class2file : e[1] \in DOMAIN hash2class
  /\ class2file = {<<e[2], e[1]>> : e \in file2class}

\* The class tables agree after every call: each class has one id and one place, in
\* the row of its parent, whatever was renamed or removed before (updateClassName,
\* RemoveClassImpl), and files are in classes there are.
Inv == TypeOK /\ TwoWay /\ RowsAgree /\ FilesAgree

-------------------------------------------------------------------------------
\* GetAllFileCountOfClass: the ids it has in its list after n rounds, from class k.
InCount(k) ==
  LET round[n \in 0 .. Depth] ==
        IF n = 0 THEN GetClassChildren(k)
        ELSE UNION {GetClassChildren(GetClassByHash(i)) : i \in round[n - 1]}
  IN round

\* GetClasses and getClassesInfo: the ids and names shown below class k.  The id is
\* found again from the name, and left out if it is that of k.
Shown(k) ==
  {e \in {<<GenerateClassHash(GetClassByHash(i), DOMAIN hash2class), GetClassByHash(i)>> :
           i \in GetClassChildren(k)} : e[1] # GetClassHash(k)}

Forest == INSTANCE ClassForest WITH
  name <- hash2class,
  files <- [i \in DOMAIN hash2class |-> {f \in File : <<i, f>> \in class2file}]

\* The tree of classes is shown as it is: the classes listed below a class are those one
\* word longer, and its count of files passes each class below it, and ends.  An id
\* without a name would send the count back to the root, and the worker would never
\* return.
TreeIsShown ==
  \A k \in DOMAIN class2hash :
    LET round == InCount(k) IN
      /\ Shown(k) = {<<i, hash2class[i]>> :
                       i \in {j \in DOMAIN hash2class : Parent(hash2class[j]) = k}}
      /\ round[Depth] = {}
      /\ UNION {round[n] : n \in 0 .. Depth} =
           {i \in DOMAIN hash2class : hash2class[i] # k /\ Forest!Under(k, hash2class[i])}

\* A query by class finds each class by every word of its path that no rename has
\* touched (KEYWORD2CLASS in QueryInArray), also if its id is not the hash of its path.
FoundByWords ==
  \A i \in DOMAIN hash2class : \A w \in WordsOf(hash2class[i]) \ moved :
    i \in keyword2class[w]

\* A class that is new has the files it was added with, and no others.
NewHasItsFiles ==
  [][\A i \in DOMAIN hash2class' \ DOMAIN hash2class, F \in SUBSET File :
       AddClass(hash2class'[i], F) => Forest!Add(hash2class'[i], F)]_vars

\* The tables implement ClassForest: an id and its files stay with a class under every
\* rename, the classes below follow or go with it, and no files come with an id that is
\* given again.
KeepsForest == Forest!Spec /\ NewHasItsFiles
===============================================================================
