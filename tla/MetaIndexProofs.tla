---------------------------- MODULE MetaIndexProofs ----------------------------
(***************************************************************************)
(* Proofs about MetaIndex, for every schema, all names and values, and any *)
(* number of files and items.                                              *)
(***************************************************************************)
EXTENDS MetaIndex, SetInduction, SequenceTheorems

\* An item whose name has no match table is one that unindexed or updated tells of:
\* what addMeta must know of the files it is not given, when it makes the table.
ItemsAreMarked ==
  \A f \in files, i \in Item : i \in meta[f] /\ i.name \notin tables
    => <<f, i.name>> \in unindexed \cup updated

\* The inductive invariant.
IndInv == Inv /\ ItemsAreMarked /\ ItemsAreMatched

-------------------------------------------------------------------------------
LEMMA InitIndInv == Init => IndInv
  BY MetaAssumption
  DEF Init, IndInv, Inv, TypeOK, NoStrayRows, ItemsAreMarked, ItemsAreMatched, FileID,
      Pair, Has

-------------------------------------------------------------------------------
LEMMA AddFileInv ==
  ASSUME IndInv, NEW f \in FileID, NEW items \in SUBSET Item, AddFile(f, items)
  PROVE  IndInv'
<1> USE DEF IndInv, Inv
<1>1. /\ match' \in [Name -> [Value -> SUBSET FileID]]
      /\ \A n \in Name, v \in Value, g \in FileID :
           g \in match'[n][v] <=>
             \/ g \in match[n][v]
             \/ g = f /\ n \in tables /\ \E i \in items : i.name = n /\ v \in i.values
  <2>1. /\ match \in [Name -> [Value -> SUBSET FileID]] /\ tables \in SUBSET Name
        /\ match' = Add(match, tables, f, items)
    BY DEF AddFile, TypeOK
  <2> QED BY <2>1 DEF Add
<1>2. \A g \in FileID : meta'[g] = IF g = f THEN items ELSE meta[g]
  BY DEF AddFile, TypeOK
<1>3. \A i \in items : i.name \in Name
  BY DEF Item
<1>4. /\ unindexed \subseteq unindexed'
      /\ \A i \in items : i.name \notin tables => <<f, i.name>> \in unindexed'
  BY DEF AddFile, Pair
<1>5. TypeOK'
  BY <1>1, <1>3 DEF AddFile, TypeOK, Pair
<1>6. NoStrayRows'
  <2> SUFFICES ASSUME NEW n \in Name, NEW v \in Value, NEW g \in FileID, g \in match'[n][v]
               PROVE  /\ n \in tables'
                      /\ <<g, n>> \notin updated' => g \in files' /\ Has(g, n, v)'
    BY <1>5 DEF NoStrayRows, TypeOK
  <2>1. CASE g \in match[n][v]
    <3>1. g \notin given => <<g, n>> \in updated
      BY <2>1 DEF NoStrayRows, TypeOK
    <3>2. g \in given => g # f
      BY DEF AddFile
    <3>3. n \in tables /\ (<<g, n>> \notin updated => g \in files /\ Has(g, n, v))
      BY <2>1 DEF NoStrayRows
    <3> QED BY <1>2, <3>1, <3>2, <3>3 DEF AddFile, Has
  <2>2. CASE g = f /\ n \in tables /\ \E i \in items : i.name = n /\ v \in i.values
    BY <1>2, <2>2 DEF AddFile, Has
  <2> QED BY <1>1, <2>1, <2>2
<1>7. ItemsAreMarked'
  BY <1>2, <1>4 DEF AddFile, ItemsAreMarked, TypeOK
<1>8. ItemsAreMatched'
  BY <1>1, <1>2, <1>4 DEF AddFile, ItemsAreMatched, Has, TypeOK
<1> QED BY <1>5, <1>6, <1>7, <1>8

LEMMA AddMetaInv ==
  ASSUME IndInv, NEW F \in SUBSET FileID, NEW item \in Item, NEW query \in BOOLEAN,
         AddMeta(F, item, query)
  PROVE  IndInv'
<1> USE DEF IndInv, Inv
<1>1. CASE UNCHANGED vars
  BY <1>1 DEF vars, TypeOK, NoStrayRows, ItemsAreMarked, ItemsAreMatched, Has
<1>2. CASE ~UNCHANGED vars
  <2> DEFINE E == mapExistFiles(F)
  <2>1. E \subseteq files /\ E \subseteq FileID
    BY DEF mapExistFiles
  <2> HIDE DEF E
  <2>2. item.name \in Name /\ item.values \subseteq Value
    BY DEF Item
  <2>3. /\ meta' = [f \in FileID |-> meta[f] \cup {i \in {item} : f \in E}]
        /\ tables' = tables \cup {n \in {item.name} : query}
        /\ match' = [n \in Name |->
                       [v \in Value |->
                          match[n][v] \cup
                            {f \in E : query /\ n = item.name /\ v \in item.values}]]
        /\ unindexed' = unindexed \cup {p \in Pair(E, {item.name}) : ~query}
        /\ UNCHANGED <<given, files, updated>>
    BY <1>2 DEF AddMeta, E
  <2>4. \A g \in FileID, i \in Item :
          i \in meta'[g] <=> i \in meta[g] \/ (g \in E /\ i = item)
    BY <2>3
  <2>5. /\ match' \in [Name -> [Value -> SUBSET FileID]]
        /\ \A n \in Name, v \in Value, g \in FileID :
             g \in match'[n][v] <=>
               \/ g \in match[n][v]
               \/ g \in E /\ query /\ n = item.name /\ v \in item.values
    BY <2>1, <2>3 DEF TypeOK
  <2>6. /\ unindexed \subseteq unindexed'
        /\ ~query => \A g \in E : <<g, item.name>> \in unindexed'
    BY <2>3 DEF Pair
  <2>7. \A n \in Name : n \in tables' <=> n \in tables \/ (query /\ n = item.name)
    BY <2>3
  <2>8. TypeOK'
    <3>1. meta' \in [FileID -> SUBSET Item]
      BY <2>3 DEF TypeOK
    <3>2. unindexed' \subseteq Pair(FileID, Name)
      BY <2>1, <2>2, <2>3 DEF TypeOK, Pair
    <3> QED BY <2>2, <2>3, <2>5, <3>1, <3>2 DEF TypeOK
  <2>9. NoStrayRows'
    <3> SUFFICES ASSUME NEW n \in Name, NEW v \in Value, NEW g \in FileID, g \in match'[n][v]
                 PROVE  /\ n \in tables'
                        /\ <<g, n>> \notin updated' => g \in files' /\ Has(g, n, v)'
      BY <2>8 DEF NoStrayRows, TypeOK
    <3>1. CASE g \in match[n][v]
      <4>1. n \in tables /\ (<<g, n>> \notin updated => g \in files /\ Has(g, n, v))
        BY <3>1 DEF NoStrayRows
      <4>2. \A i \in meta[g] : i \in meta'[g]
        BY <2>3
      <4> QED BY <2>3, <4>1, <4>2 DEF Has
    <3>2. CASE g \in E /\ query /\ n = item.name /\ v \in item.values
      BY <2>1, <2>3, <2>4, <2>7, <3>2 DEF Has
    <3> QED BY <2>5, <3>1, <3>2
  <2>10. ItemsAreMarked'
    BY <2>1, <2>2, <2>3, <2>4, <2>6, <2>7 DEF ItemsAreMarked, TypeOK, Item
  <2>11. ItemsAreMatched'
    <3> SUFFICES ASSUME NEW f \in files, NEW n \in tables',
                        <<f, n>> \notin unindexed' \cup updated',
                        NEW v \in Value, NEW i \in Item,
                        i \in meta'[f], i.name = n, v \in i.values
                 PROVE  f \in match'[n][v]
      <4>1. \A f \in files' : f \in FileID /\ meta'[f] \subseteq Item
        BY <2>8 DEF TypeOK
      <4> QED BY <2>3, <4>1 DEF ItemsAreMatched, Has
    <3>1. f \in FileID /\ n \in Name /\ <<f, n>> \notin unindexed \cup updated
      BY <2>3, <2>6, <2>8 DEF TypeOK
    <3>2. CASE i \in meta[f]
      <4>1. n \in tables
        BY <3>1, <3>2 DEF ItemsAreMarked
      <4> QED BY <2>5, <3>1, <3>2, <4>1 DEF ItemsAreMatched, Has
    <3>3. CASE f \in E /\ i = item
      BY <2>5, <2>6, <3>1, <3>3
    <3> QED BY <2>4, <3>1, <3>2, <3>3
  <2> QED BY <2>8, <2>9, <2>10, <2>11
<1> QED BY <1>1, <1>2

LEMMA UpdateFileMetaInv ==
  ASSUME IndInv, NEW f \in FileID, NEW n \in Name, NEW v \in Value,
         UpdateFileMeta(f, n, v)
  PROVE  IndInv'
<1> USE DEF IndInv, Inv
<1> DEFINE new == [name |-> n, values |-> {v}]
<1>1. PICK i \in meta[f] :
        i.name = n /\ meta' = [meta EXCEPT ![f] = (@ \ {i}) \cup {new}]
  BY DEF UpdateFileMeta
<1>2. new \in Item
  BY DEF Item
<1>3. /\ updated' = updated \cup {<<f, n>>}
      /\ UNCHANGED <<given, files, tables, match, unindexed>>
  BY DEF UpdateFileMeta
<1>4. \A g \in FileID : g # f => meta'[g] = meta[g]
  BY <1>1 DEF TypeOK
<1>5. \A j \in meta'[f] : j \in meta[f] \/ j = new
  BY <1>1 DEF TypeOK
<1>6. \A j \in meta[f] : j.name # n => j \in meta'[f]
  BY <1>1 DEF TypeOK
<1>7. TypeOK'
  <2>1. meta' \in [FileID -> SUBSET Item]
    BY <1>1, <1>2 DEF TypeOK
  <2>2. updated' \subseteq Pair(FileID, Name)
    BY <1>3 DEF TypeOK, Pair
  <2> QED BY <1>3, <2>1, <2>2 DEF TypeOK
<1> HIDE DEF new
<1>8. NoStrayRows'
  <2> SUFFICES ASSUME NEW m \in Name, NEW w \in Value, NEW g \in match[m][w],
                      <<g, m>> \notin updated'
               PROVE  g \in files /\ Has(g, m, w)'
    BY <1>3 DEF NoStrayRows
  <2>1. g \in FileID /\ g \in files /\ Has(g, m, w) /\ (g = f => m # n)
    BY <1>3 DEF NoStrayRows, TypeOK
  <2> QED BY <1>4, <1>6, <2>1 DEF Has
<1>9. ItemsAreMarked'
  <2> SUFFICES ASSUME NEW g \in files, NEW j \in Item, j \in meta'[g],
                      j.name \notin tables
               PROVE  <<g, j.name>> \in unindexed \cup updated'
    BY <1>3 DEF ItemsAreMarked
  <2>1. g \in FileID
    BY DEF TypeOK
  <2>2. CASE j \in meta[g]
    BY <1>3, <2>2 DEF ItemsAreMarked
  <2>3. CASE g = f /\ j = new
    BY <1>3, <2>3 DEF new
  <2> QED BY <1>4, <1>5, <2>1, <2>2, <2>3
<1>10. ItemsAreMatched'
  <2> SUFFICES ASSUME NEW g \in files, NEW m \in tables,
                      <<g, m>> \notin unindexed \cup updated',
                      NEW w \in Value, NEW j \in meta'[g],
                      j.name = m, w \in j.values
               PROVE  g \in match[m][w]
    BY <1>3 DEF ItemsAreMatched, Has
  <2>1. g \in FileID
    BY DEF TypeOK
  <2>2. j \in meta[g]
    BY <1>3, <1>4, <1>5, <2>1 DEF new
  <2> QED BY <1>3, <2>2 DEF ItemsAreMatched, Has
<1> QED BY <1>7, <1>8, <1>9, <1>10

LEMMA RemoveFileInv ==
  ASSUME IndInv, NEW f \in FileID, RemoveFile(f)
  PROVE  IndInv'
<1> USE DEF IndInv, Inv
<1>1. /\ match' \in [Name -> [Value -> SUBSET FileID]]
      /\ \A n \in Name, v \in Value, g \in FileID :
           g \in match'[n][v] <=>
             /\ g \in match[n][v]
             /\ ~(g = f /\ n \in tables /\ \E i \in meta[f] : i.name = n /\ v \in i.values)
  <2>1. /\ match \in [Name -> [Value -> SUBSET FileID]] /\ tables \in SUBSET Name
        /\ meta[f] \in SUBSET Item
        /\ match' = Delete(match, tables, f, meta[f])
    BY DEF RemoveFile, TypeOK
  <2> QED BY <2>1 DEF Delete
<1>2. \A g \in FileID : meta'[g] = IF g = f THEN {} ELSE meta[g]
  BY DEF RemoveFile, TypeOK
<1>3. TypeOK'
  BY <1>1 DEF RemoveFile, TypeOK
<1>4. NoStrayRows'
  <2> SUFFICES ASSUME NEW n \in Name, NEW v \in Value, NEW g \in FileID, g \in match'[n][v]
               PROVE  /\ n \in tables'
                      /\ <<g, n>> \notin updated' => g \in files' /\ Has(g, n, v)'
    BY <1>3 DEF NoStrayRows, TypeOK
  <2>1. g \in match[n][v]
    BY <1>1
  <2>2. n \in tables /\ (<<g, n>> \notin updated => g \in files /\ Has(g, n, v))
    BY <2>1 DEF NoStrayRows
  <2>3. g = f => ~Has(g, n, v)
    BY <1>1, <2>2 DEF Has
  <2> QED BY <1>2, <2>2, <2>3 DEF RemoveFile, Has
<1>5. ItemsAreMarked'
  BY <1>2 DEF RemoveFile, ItemsAreMarked, TypeOK
<1>6. ItemsAreMatched'
  BY <1>1, <1>2 DEF RemoveFile, ItemsAreMatched, Has, TypeOK
<1> QED BY <1>3, <1>4, <1>5, <1>6

\* The inductive step.
LEMMA NextIndInv == IndInv /\ [Next]_vars => IndInv'
<1> SUFFICES ASSUME IndInv, [Next]_vars PROVE IndInv'
  OBVIOUS
<1>1. ASSUME NEW f \in FileID, NEW items \in SUBSET Single, AddFile(f, items)
      PROVE  IndInv'
  BY <1>1, AddFileInv DEF Single
<1>2. ASSUME NEW F \in SUBSET FileID, NEW item \in Item, NEW query \in BOOLEAN,
             AddMeta(F, item, query)
      PROVE  IndInv'
  BY <1>2, AddMetaInv
<1>3. ASSUME NEW f \in FileID, NEW n \in Name, NEW v \in Value, UpdateFileMeta(f, n, v)
      PROVE  IndInv'
  BY <1>3, UpdateFileMetaInv
<1>4. ASSUME NEW f \in FileID, RemoveFile(f) PROVE IndInv'
  BY <1>4, RemoveFileInv
<1>5. CASE UNCHANGED vars
  BY <1>5
  DEF vars, IndInv, Inv, TypeOK, NoStrayRows, ItemsAreMarked, ItemsAreMatched, Has
<1> QED BY <1>1, <1>2, <1>3, <1>4, <1>5 DEF Next

LEMMA IndInvariance == Spec => []IndInv
  BY InitIndInv, NextIndInv, PTL DEF Spec

-------------------------------------------------------------------------------
\* The match tables (TableMeta) hold no row of a file that is gone or that never had the
\* value, however addFiles, addMeta, updateFile and removeFiles follow one another.
THEOREM Invariance == Spec => []Inv
<1>1. IndInv => Inv
  BY DEF IndInv
<1> QED BY <1>1, IndInvariance, PTL

\* An item that was given while its name had a match table is found by its value.
THEOREM GivenIsFound == Spec => []ItemsAreMatched
<1>1. IndInv => ItemsAreMatched
  BY DEF IndInv
<1> QED BY <1>1, IndInvariance, PTL
-------------------------------------------------------------------------------
\* What is proved of the machine of DBManager::Query: what each kind of symbol does to a
\* stack, then what the symbols of a condition do, one after the other.

MatchTables == [Name -> [Value -> SUBSET FileID]]

\* What a stack holds, before a result is undefined.
Cell ==
  {Constant(v) : v \in Value} \cup {Table(n) : n \in Name}
    \cup {Values(V) : V \in SUBSET Value} \cup {Files(F) : F \in SUBSET FileID}

\* The kinds of what is on a stack tell them apart.
LEMMA Kinds ==
  /\ \A v : /\ Constant(v).kind = "value"
            /\ Constant(v).value = v
  /\ \A n : /\ Table(n).kind = "table"
            /\ Table(n).name = n
  /\ \A V : /\ Values(V).kind = "values"
            /\ Values(V).values = V
  /\ \A F : /\ Files(F).kind = "files"
            /\ Files(F).files = F
  /\ \A op, n, count : /\ Operator(op, n, count).kind = "op"
                       /\ Operator(op, n, count).op = op
                       /\ Operator(op, n, count).count = count
                       /\ Operator(op, n, count).type = "color" <=> n \in ColorName
  BY DEF Constant, Table, Values, Files, Operator

\* A value, and a table, is pushed.
LEMMA Pushes ==
  ASSUME NEW M \in MatchTables, NEW T, NEW S, NEW s, s.kind # "op"
  PROVE  Step(M, T, S, s) = Append(S, s)
  BY DEF Step

\* The constants among the last of a stack.
Collected(S, count) ==
  {x.value : x \in {y \in {S[i] : i \in (Len(S) - count + 1) .. Len(S)} : y.kind = "value"}}

\* "in" takes as many constants as it counts, and leaves the set of them.
LEMMA Collects ==
  ASSUME NEW M \in MatchTables, NEW T, NEW S \in Seq(Cell), NEW n \in Name,
         NEW count \in Nat \ {0}, count <= Len(S)
  PROVE  Step(M, T, S, Operator("in", n, count))
           = Append(SubSeq(S, 1, Len(S) - count), Values(Collected(S, count)))
<1> DEFINE s == Operator("in", n, count)
<1>1. s.kind = "op" /\ s.op = "in" /\ s.count = count
  BY Kinds
<1> HIDE DEF s
<1>2. count # 0 /\ Len(S) \in Nat
  OBVIOUS
<1>3. Step(M, T, S, s)
        = Append(SubSeq(S, 1, Len(S) - count), Values(Collected(S, count)))
  BY <1>1, <1>2, Zenon DEF Step, Collected
<1> QED BY <1>3 DEF s

\* A comparison reads the table on the top, for what lies below it.
LEMMA LooksUp ==
  ASSUME NEW M \in MatchTables, NEW T, NEW S \in Seq(Cell), NEW s, s.kind = "op",
         s.op # "in", s.count = 0, Len(S) >= 2, S[Len(S)].kind = "table"
  PROVE  Step(M, T, S, s)
           = Append(SubSeq(S, 1, Len(S) - 2),
                    Lookup(s, S[Len(S)].name \in T, M[S[Len(S)].name], S[Len(S) - 1]))
<1>1. Len(S) \in Nat
  OBVIOUS
<1> QED BY <1>1 DEF Step

\* "and" takes what is on the top, when that is no table.
LEMMA Meets ==
  ASSUME NEW M \in MatchTables, NEW T, NEW S \in Seq(Cell), NEW s, s.kind = "op",
         s.op # "in", Len(S) >= 2, S[Len(S)].kind # "table"
  PROVE  Step(M, T, S, s)
           = Append(SubSeq(S, 1, Len(S) - 2), Both(S[Len(S)], S[Len(S) - 1]))
<1>1. Len(S) \in Nat
  OBVIOUS
<1> QED BY <1>1 DEF Step

\* The files a table has for a condition.
Matching(e, rows, V) ==
  {f \in FileID : \E k \in Value, v \in V : Compares(e, k, v) /\ f \in rows[k]}

\* A match table with a row is compared with a value, or with the values of an array.
LEMMA Finds ==
  ASSUME NEW rows \in [Value -> SUBSET FileID], \E k \in Value : rows[k] # {},
         NEW e, NEW V \in SUBSET Value, NEW right,
         \/ \E v \in Value : right = Constant(v) /\ V = {v}
         \/ right = Values(V) /\ e.type # "color"
  PROVE  Lookup(e, TRUE, rows, right) = Files(Matching(e, rows, V))
<1> DEFINE Hit(v) == {k \in DOMAIN rows : Compares(e, k, v)}
           keys == IF right.kind = "value" THEN Hit(right.value)
                   ELSE IF e.type = "color" THEN {}
                   ELSE UNION {Hit(v) : v \in right.values}
<1>1. \A k : k \in keys <=> k \in Value /\ \E v \in V : Compares(e, k, v)
  <2>1. CASE \E v \in Value : right = Constant(v) /\ V = {v}
    <3>1. PICK v \in Value : right = Constant(v) /\ V = {v}
      BY <2>1
    <3>2. right.kind = "value" /\ right.value = v
      BY <3>1, Kinds
    <3> QED BY <3>1, <3>2
  <2>2. CASE right = Values(V) /\ e.type # "color"
    <3>1. right.kind # "value" /\ right.values = V
      BY <2>2, Kinds
    <3>2. keys = UNION {Hit(v) : v \in V}
      BY <2>2, <3>1
    <3> QED BY <3>2
  <2> QED BY <2>1, <2>2
<1>2. right.kind # "files"
  BY Kinds
<1>3. Lookup(e, TRUE, rows, right) = Files(UNION {rows[k] : k \in keys})
  BY <1>2 DEF Lookup
<1>4. UNION {rows[k] : k \in keys} = Matching(e, rows, V)
  <2> HIDE DEF keys
  <2>1. \A f : f \in UNION {rows[k] : k \in keys} <=> \E k \in keys : f \in rows[k]
    OBVIOUS
  <2>2. \A f : f \in Matching(e, rows, V) <=> \E k \in keys : f \in rows[k]
    BY <1>1 DEF Matching
  <2> QED BY <2>1, <2>2
<1> QED BY <1>3, <1>4

\* What a program is made of.
Word ==
  {Constant(v) : v \in Value} \cup {Table(n) : n \in Name}
    \cup {Operator(op, n, i) : op \in {"eq", "gt", "near", "in", "and"}, n \in Name, i \in Nat}

\* A condition whose answer is proved: one with a value, and without a list of colours.
Answerable(c) == c.values # <<>> /\ (c.array => c.name \notin ColorName)

\* What is emitted of a condition: its constants from the last to the first, "in" if they
\* are an array, the table, and the comparison.
LEMMA EmittedOf ==
  ASSUME NEW c \in Condition, Answerable(c)
  PROVE  LET n == Len(c.values)
             m == n + (IF c.array THEN 1 ELSE 0)
         IN /\ n \in Nat \ {0} /\ (~c.array => n = 1)
            /\ Emit(c) \in Seq(Word)
            /\ Len(Emit(c)) = m + 2
            /\ \A j \in 1 .. n : Emit(c)[j] = Constant(c.values[n + 1 - j])
            /\ c.array => Emit(c)[n + 1] = Operator("in", c.name, n)
            /\ Emit(c)[m + 1] = Table(c.name)
            /\ Emit(c)[m + 2] = Operator(c.op, c.name, 0)
<1> DEFINE n == Len(c.values)
           m == n + (IF c.array THEN 1 ELSE 0)
           constants == [i \in 1 .. n |-> Constant(c.values[n + 1 - i])]
           in == IF c.array THEN <<Operator("in", c.name, n)>> ELSE <<>>
           rest == <<Table(c.name), Operator(c.op, c.name, 0)>>
<1>1. /\ c.values \in Seq(Value) /\ c.values # <<>> /\ c.name \in Name /\ c.array \in BOOLEAN
      /\ c.op \in {"eq", "gt", "near"}
      /\ ~c.array => n = 1
  BY DEF Condition, Answerable
<1>2. n \in Nat \ {0} /\ \A i \in 1 .. n : c.values[i] \in Value
  BY <1>1
<1>3. Emit(c) = (constants \o in) \o rest
  <2>1. CASE c.array
    <3>1. c.name \notin ColorName
      BY <2>1 DEF Answerable
    <3> QED BY <1>2, <2>1, <3>1 DEF Emit
  <2>2. CASE ~c.array
    BY <2>2 DEF Emit
  <2> QED BY <1>1, <2>1, <2>2
<1>4. /\ constants \in Seq(Word) /\ Len(constants) = n
      /\ \A i \in 1 .. n : constants[i] = Constant(c.values[n + 1 - i])
  <2>1. \A i \in 1 .. n : Constant(c.values[n + 1 - i]) \in Word
    <3> TAKE i \in 1 .. n
    <3>1. n + 1 - i \in 1 .. n
      BY <1>2
    <3>2. c.values[n + 1 - i] \in Value
      BY <1>2, <3>1
    <3> QED BY <3>2 DEF Word
  <2> QED BY <1>2, <2>1
<1>5. /\ \A j \in Nat : Operator("in", c.name, j) \in Word
      /\ Table(c.name) \in Word /\ Operator(c.op, c.name, 0) \in Word
  BY <1>1 DEF Word
<1>6. in \in Seq(Word) /\ Len(in) = m - n /\ (c.array => in[1] = Operator("in", c.name, n))
  BY <1>2, <1>5
<1>7. rest \in Seq(Word) /\ Len(rest) = 2 /\ rest[1] = Table(c.name)
        /\ rest[2] = Operator(c.op, c.name, 0)
  BY <1>5
<1>8. m \in {n, n + 1} /\ (c.array => m = n + 1)
  <2>1. CASE c.array
    <3>1. m = n + 1
      BY <2>1
    <3> QED BY <3>1
  <2>2. CASE ~c.array
    <3>1. m = n + 0
      BY <2>2
    <3>2. n + 0 = n
      BY <1>2
    <3> QED BY <2>2, <3>1, <3>2
  <2> QED BY <1>1, <2>1, <2>2
<1> HIDE DEF n, m, constants, in, rest
<1>9. /\ constants \o in \in Seq(Word) /\ Len(constants \o in) = m
      /\ \A j \in 1 .. n : (constants \o in)[j] = Constant(c.values[n + 1 - j])
      /\ c.array => (constants \o in)[n + 1] = Operator("in", c.name, n)
  BY <1>2, <1>4, <1>6, <1>8, ConcatProperties
<1> DEFINE head == constants \o in
<1>10. /\ head \o rest \in Seq(Word) /\ Len(head \o rest) = m + 2
       /\ \A j \in 1 .. m : (head \o rest)[j] = head[j]
       /\ (head \o rest)[m + 1] = rest[1] /\ (head \o rest)[m + 2] = rest[2]
  <2> HIDE DEF head
  <2>1. m \in Nat /\ head \in Seq(Word) /\ Len(head) = m
    BY <1>2, <1>8, <1>9 DEF head
  <2>2. /\ head \o rest \in Seq(Word) /\ Len(head \o rest) = m + 2
        /\ \A i \in 1 .. m + 2 :
             (head \o rest)[i] = IF i <= m THEN head[i] ELSE rest[i - m]
    <3>1. /\ head \o rest \in Seq(Word)
          /\ Len(head \o rest) = Len(head) + Len(rest)
          /\ \A i \in 1 .. Len(head) + Len(rest) :
               (head \o rest)[i] = IF i <= Len(head) THEN head[i] ELSE rest[i - Len(head)]
      BY <2>1, <1>7, ConcatProperties, Zenon
    <3> QED BY <2>1, <1>7, <3>1
  <2>3. m + 1 \in 1 .. m + 2 /\ m + 2 \in 1 .. m + 2 /\ ~(m + 1 <= m) /\ ~(m + 2 <= m)
         /\ (m + 1) - m = 1 /\ (m + 2) - m = 2
    BY <2>1
  <2>4. \A j \in 1 .. m : j \in 1 .. m + 2 /\ j <= m
    BY <2>1
  <2> QED BY <2>2, <2>3, <2>4
<1>11. \A j \in 1 .. n : j \in 1 .. m
  BY <1>2, <1>8
<1>12. c.array => n + 1 \in 1 .. m
  BY <1>2, <1>8
<1>13. /\ Emit(c) \in Seq(Word) /\ Len(Emit(c)) = m + 2
       /\ \A j \in 1 .. n : Emit(c)[j] = Constant(c.values[n + 1 - j])
       /\ c.array => Emit(c)[n + 1] = Operator("in", c.name, n)
       /\ Emit(c)[m + 1] = Table(c.name)
       /\ Emit(c)[m + 2] = Operator(c.op, c.name, 0)
  BY <1>3, <1>7, <1>9, <1>10, <1>11, <1>12
<1> QED BY <1>1, <1>2, <1>13 DEF n, m

\* After o symbols k is a stack of a run, and the symbols of E are the next.
Runs(k, M, T, E, o) == \A j \in 1 .. Len(E) : k[o + j] = Step(M, T, k[o + j - 1], E[j])

\* w is S with the last l of the constants of c on it, the last one first.
Pushed(c, S, w, l) ==
  /\ w \in Seq(Cell)
  /\ Len(w) = Len(S) + l
  /\ \A i \in 1 .. Len(S) : w[i] = S[i]
  /\ \A i \in 1 .. l : w[Len(S) + i] = Constant(c.values[Len(c.values) + 1 - i])

\* The constants of a condition are pushed on what was there.
LEMMA ConstantsArePushed ==
  ASSUME NEW c \in Condition, Answerable(c), NEW M \in MatchTables, NEW T,
         NEW k, NEW o \in Nat,
         Runs(k, M, T, Emit(c), o), k[o] \in Seq(Cell),
         NEW j \in 0 .. Len(c.values)
  PROVE  Pushed(c, k[o], k[o + j], j)
<1> DEFINE n == Len(c.values)
           s == Len(k[o])
           P == {l \in Nat : l <= n => Pushed(c, k[o], k[o + l], l)}
<1>1. n \in Nat \ {0} /\ s \in Nat /\ \A i \in 1 .. n : c.values[i] \in Value
  <2>1. c.values \in Seq(Value)
    BY DEF Condition
  <2>2. n \in Nat \ {0}
    BY EmittedOf
  <2>3. s \in Nat
    OBVIOUS
  <2> QED BY <2>1, <2>2, <2>3
<1>2. \A i \in 1 .. n : /\ i \in 1 .. Len(Emit(c))
                        /\ Emit(c)[i] = Constant(c.values[n + 1 - i])
  <2>1. Len(Emit(c)) = n + (IF c.array THEN 1 ELSE 0) + 2
    BY EmittedOf
  <2>2. Len(Emit(c)) \in {n + 2, n + 3}
    <3>1. (IF c.array THEN 1 ELSE 0) \in {0, 1}
      BY DEF Condition
    <3> HIDE DEF n
    <3> QED BY <1>1, <2>1, <3>1
  <2>3. \A i \in 1 .. n : i \in 1 .. Len(Emit(c))
    <3> HIDE DEF n
    <3> QED BY <1>1, <2>2
  <2> QED BY <2>3, EmittedOf
<1>3. 0 \in P
  <2>1. o + 0 = o /\ s + 0 = s
    BY <1>1
  <2>2. Pushed(c, k[o], k[o], 0)
    BY <2>1 DEF Pushed
  <2> QED BY <2>1, <2>2
<1>4. ASSUME NEW l \in P PROVE l + 1 \in P
  <2> SUFFICES ASSUME l + 1 <= n PROVE Pushed(c, k[o], k[o + (l + 1)], l + 1)
    OBVIOUS
  <2> HIDE DEF n, s
  <2> DEFINE w == k[o + l]
             x == Constant(c.values[n + 1 - (l + 1)])
  <2>1. l \in Nat /\ l + 1 \in 1 .. n /\ l <= n /\ n + 1 - (l + 1) \in 1 .. n
    BY <1>1
  <2>2. Pushed(c, k[o], w, l)
    BY <2>1
  <2>3. /\ w \in Seq(Cell) /\ Len(w) = s + l
        /\ \A i \in 1 .. s : w[i] = k[o][i]
        /\ \A i \in 1 .. l : w[s + i] = Constant(c.values[n + 1 - i])
    BY <2>2 DEF Pushed, n, s
  <2>4. x \in Cell
    BY <1>1, <2>1 DEF Cell
  <2>5. k[o + (l + 1)] = Append(w, x)
    <3>1. o + (l + 1) - 1 = o + l
      BY <2>1
    <3>2. Emit(c)[l + 1] = x /\ l + 1 \in 1 .. Len(Emit(c))
      BY <1>2, <2>1
    <3>3. k[o + (l + 1)] = Step(M, T, w, x)
      BY <3>1, <3>2 DEF Runs
    <3>4. x.kind # "op"
      BY Kinds
    <3> QED BY <3>3, <3>4, Pushes
  <2> HIDE DEF w, x
  <2>6. /\ Append(w, x) \in Seq(Cell) /\ Len(Append(w, x)) = s + l + 1
        /\ \A i \in 1 .. s + l : Append(w, x)[i] = w[i]
        /\ Append(w, x)[s + l + 1] = x
    BY <1>1, <2>1, <2>3, <2>4
  <2>7. \A i \in 1 .. s : i \in 1 .. s + l
    BY <1>1, <2>1
  <2>8. \A i \in 1 .. l + 1 : i = l + 1 \/ (i \in 1 .. l /\ s + i \in 1 .. s + l)
    BY <1>1, <2>1
  <2>9. s + (l + 1) = s + l + 1
    BY <1>1, <2>1
  <2>10. \A i \in 1 .. l + 1 : Append(w, x)[s + i] = Constant(c.values[n + 1 - i])
    <3> TAKE i \in 1 .. l + 1
    <3>1. CASE i = l + 1
      BY <2>6, <2>9, <3>1 DEF x
    <3>2. CASE i \in 1 .. l /\ s + i \in 1 .. s + l
      BY <2>3, <2>6, <3>2
    <3> QED BY <2>8, <3>1, <3>2
  <2>11. /\ Append(w, x) \in Seq(Cell) /\ Len(Append(w, x)) = s + (l + 1)
         /\ \A i \in 1 .. s : Append(w, x)[i] = k[o][i]
    BY <2>3, <2>6, <2>7, <2>9
  <2> QED BY <2>5, <2>10, <2>11 DEF Pushed, n, s
<1>5. P = Nat
  <2> HIDE DEF P
  <2>1. P \in SUBSET Nat
    BY DEF P
  <2> QED BY <1>3, <1>4, <2>1, Induction
<1>6. j \in P /\ j <= n
  <2>1. j \in Nat /\ j <= n
    BY <1>1
  <2> QED BY <1>5, <2>1
<1> QED BY <1>6

\* The files a match table has for a condition.
Found(M, c) ==
  Matching(Operator(c.op, c.name, 0), M[c.name], {c.values[i] : i \in 1 .. Len(c.values)})

\* What a condition leaves on the stack: the files its match table has for it.
LEMMA ConditionIsRun ==
  ASSUME NEW c \in Condition, Answerable(c),
         NEW M \in MatchTables, NEW T,
         c.name \in T, \E v \in Value : M[c.name][v] # {},
         NEW k, NEW o \in Nat, Runs(k, M, T, Emit(c), o), k[o] \in Seq(Cell)
  PROVE  k[o + Len(Emit(c))] = Append(k[o], Files(Found(M, c)))
<1> DEFINE n == Len(c.values)
           m == n + (IF c.array THEN 1 ELSE 0)
           E == Emit(c)
           S == k[o]
           s == Len(S)
           U == k[o + n]
           V == {c.values[i] : i \in 1 .. n}
           e == Operator(c.op, c.name, 0)
<1>1. /\ n \in Nat \ {0} /\ (~c.array => n = 1)
      /\ Len(E) = m + 2
      /\ c.array => E[n + 1] = Operator("in", c.name, n)
      /\ E[m + 1] = Table(c.name)
      /\ E[m + 2] = e
  BY EmittedOf
<1>2. /\ c.name \in Name /\ c.array \in BOOLEAN /\ V \subseteq Value /\ s \in Nat
      /\ \A i \in 1 .. n : c.values[i] \in Value
      /\ c.op # "in"
  <2>1. c.values \in Seq(Value) /\ c.name \in Name /\ c.array \in BOOLEAN /\ c.op # "in"
    BY DEF Condition
  <2> QED BY <2>1
<1>3. /\ U \in Seq(Cell) /\ Len(U) = s + n
      /\ \A i \in 1 .. s : U[i] = S[i]
      /\ \A i \in 1 .. n : U[s + i] = Constant(c.values[n + 1 - i])
  <2>1. n \in 0 .. Len(c.values)
    BY <1>1
  <2> HIDE DEF n
  <2>2. Pushed(c, k[o], k[o + n], n)
    BY <2>1, ConstantsArePushed
  <2> QED BY <2>2 DEF Pushed, n
<1>4. \A j \in 1 .. m + 2 : k[o + j] = Step(M, T, k[o + j - 1], E[j])
  BY <1>1 DEF Runs
<1>5. m \in Nat /\ (c.array => m = n + 1) /\ (~c.array => m = n)
  <2>1. CASE c.array
    <3>1. m = n + 1
      BY <2>1
    <3> QED BY <1>1, <2>1, <3>1
  <2>2. CASE ~c.array
    <3>1. m = n + 0
      BY <2>2
    <3>2. n + 0 = n
      BY <1>1
    <3> QED BY <1>1, <2>2, <3>1, <3>2
  <2> QED BY <1>2, <2>1, <2>2
<1> HIDE DEF n, m, E, S, s, U, V, e
<1>6. ASSUME NEW A \in Seq(Cell), Len(A) >= s, \A i \in 1 .. s : A[i] = S[i]
      PROVE  SubSeq(A, 1, s) = S
  BY <1>2, <1>6 DEF s, S
<1>7. \E right \in Cell : /\ k[o + m] = Append(S, right)
                          /\ \/ \E v \in Value : right = Constant(v) /\ V = {v}
                             \/ right = Values(V) /\ e.type # "color"
  <2>1. CASE ~c.array
    <3>1. n = 1 /\ m = 1
      BY <1>1, <1>5, <2>1
    <3> DEFINE v == c.values[1]
    <3>2. V = {v} /\ v \in Value
      BY <1>2, <3>1 DEF V
    <3>3. U[s + 1] = Constant(v)
      BY <1>3, <3>1
    <3>4. Constant(v) \in Cell
      BY <3>2 DEF Cell
    <3>5. U = Append(S, Constant(v))
      BY <1>2, <1>3, <3>1, <3>3, <3>4 DEF s, S
    <3> QED BY <3>1, <3>2, <3>4, <3>5 DEF U
  <2>2. CASE c.array
    <3> DEFINE in == Operator("in", c.name, n)
               X == Collected(U, n)
    <3>1. m = n + 1 /\ n + 1 \in 1 .. m + 2 /\ o + (n + 1) - 1 = o + n
      BY <1>1, <1>5, <2>2
    <3>2. k[o + m] = Step(M, T, U, in)
      BY <1>1, <1>4, <2>2, <3>1 DEF U
    <3>3. k[o + m] = Append(SubSeq(U, 1, Len(U) - n), Values(X))
      <4>1. n <= Len(U)
        BY <1>1, <1>2, <1>3
      <4> HIDE DEF X
      <4>2. Step(M, T, U, in) = Append(SubSeq(U, 1, Len(U) - n), Values(X))
        BY <1>1, <1>2, <1>3, <4>1, Collects DEF X, in
      <4> QED BY <3>2, <4>2
    <3>4. SubSeq(U, 1, Len(U) - n) = S
      <4>1. Len(U) - n = s /\ Len(U) >= s
        BY <1>1, <1>2, <1>3
      <4> QED BY <1>3, <1>6, <4>1
    <3>5. X = V
      <4>1. \A z : z \in X <=> \E i \in (Len(U) - n + 1) .. Len(U) :
                                 U[i].kind = "value" /\ z = U[i].value
        BY DEF Collected
      <4>2. \A i \in (Len(U) - n + 1) .. Len(U) :
              /\ s + n + 1 - i \in 1 .. n /\ i - s \in 1 .. n /\ s + (i - s) = i
              /\ n + 1 - (i - s) = s + n + 1 - i
        BY <1>1, <1>2, <1>3
      <4>3. \A i \in (Len(U) - n + 1) .. Len(U) :
              U[i].kind = "value" /\ U[i].value = c.values[s + n + 1 - i]
        BY <1>3, <4>2, Kinds
      <4>4. \A i \in 1 .. n : /\ s + n + 1 - i \in (Len(U) - n + 1) .. Len(U)
                              /\ s + n + 1 - (s + n + 1 - i) = i
        BY <1>1, <1>2, <1>3
      <4>5. \A z : z \in X <=> \E i \in 1 .. n : z = c.values[i]
        <5> HIDE DEF X
        <5>1. ASSUME NEW z \in X PROVE \E i \in 1 .. n : z = c.values[i]
          BY <4>1, <4>2, <4>3, <5>1
        <5>2. ASSUME NEW i \in 1 .. n PROVE c.values[i] \in X
          <6> DEFINE j == s + n + 1 - i
          <6>1. j \in (Len(U) - n + 1) .. Len(U) /\ s + n + 1 - j = i
            BY <4>4
          <6> HIDE DEF j
          <6>2. U[j].kind = "value" /\ U[j].value = c.values[i]
            BY <4>3, <6>1
          <6> QED BY <4>1, <6>1, <6>2
        <5> QED BY <5>1, <5>2
      <4> QED BY <4>5 DEF V
    <3>6. Values(V) \in Cell
      BY <1>2 DEF Cell
    <3>7. e.type # "color"
      BY <2>2, Kinds DEF Answerable, e
    <3> QED BY <3>3, <3>4, <3>5, <3>6, <3>7
  <2> QED BY <1>2, <2>1, <2>2
<1>8. PICK right \in Cell : /\ k[o + m] = Append(S, right)
                            /\ \/ \E v \in Value : right = Constant(v) /\ V = {v}
                               \/ right = Values(V) /\ e.type # "color"
  BY <1>7
<1> DEFINE W == Append(S, right)
           Z == Append(W, Table(c.name))
<1>9. /\ Table(c.name) \in Cell
      /\ W \in Seq(Cell) /\ Len(W) = s + 1 /\ W[s + 1] = right
      /\ \A i \in 1 .. s : W[i] = S[i]
  BY <1>2 DEF Cell, s, S
<1>10. /\ Z \in Seq(Cell) /\ Len(Z) = s + 2 /\ Z[s + 2] = Table(c.name) /\ Z[s + 1] = right
       /\ \A i \in 1 .. s : Z[i] = S[i]
  <2> HIDE DEF W
  <2> QED BY <1>2, <1>9
<1> HIDE DEF W, Z
<1>11. k[o + m + 1] = Z
  <2>1. m + 1 \in 1 .. m + 2 /\ o + (m + 1) - 1 = o + m /\ o + (m + 1) = o + m + 1
    BY <1>5
  <2>2. k[o + (m + 1)] = Step(M, T, k[o + (m + 1) - 1], E[m + 1])
    BY <1>4, <2>1
  <2>3. k[o + m + 1] = Step(M, T, W, Table(c.name))
    BY <1>1, <1>8, <2>1, <2>2 DEF W
  <2>4. Table(c.name).kind # "op"
    BY Kinds
  <2> QED BY <2>3, <2>4, Pushes DEF Z
<1>12. k[o + m + 2] = Append(S, Lookup(e, TRUE, M[c.name], right))
  <2>1. m + 2 \in 1 .. m + 2 /\ o + (m + 2) - 1 = o + m + 1 /\ o + (m + 2) = o + m + 2
    BY <1>5
  <2>2. k[o + m + 2] = Step(M, T, Z, e)
    BY <1>1, <1>4, <1>11, <2>1
  <2>3. e.kind = "op" /\ e.op # "in" /\ e.count = 0
    BY <1>2, Kinds DEF e
  <2>4. Len(Z) >= 2 /\ Len(Z) - 2 = s /\ Len(Z) - 1 = s + 1 /\ Len(Z) = s + 2
    BY <1>2, <1>10
  <2>5. Z[Len(Z)].kind = "table" /\ Z[Len(Z)].name = c.name
    BY <1>10, <2>4, Kinds
  <2>6. Step(M, T, Z, e) = Append(SubSeq(Z, 1, s), Lookup(e, c.name \in T, M[c.name], right))
    <3>1. Step(M, T, Z, e)
            = Append(SubSeq(Z, 1, Len(Z) - 2),
                     Lookup(e, Z[Len(Z)].name \in T, M[Z[Len(Z)].name], Z[Len(Z) - 1]))
      BY <1>10, <2>3, <2>4, <2>5, LooksUp
    <3> QED BY <1>10, <2>4, <2>5, <3>1
  <2>7. SubSeq(Z, 1, s) = S
    <3>1. Len(Z) >= s
      BY <1>2, <2>4
    <3> QED BY <1>6, <1>10, <3>1
  <2>8. (c.name \in T) = TRUE
    OBVIOUS
  <2> QED BY <2>2, <2>6, <2>7, <2>8
<1>13. Lookup(e, TRUE, M[c.name], right) = Files(Matching(e, M[c.name], V))
  <2>1. M[c.name] \in [Value -> SUBSET FileID]
    BY <1>2 DEF MatchTables
  <2> QED BY <1>2, <1>8, <2>1, Finds
<1>14. k[o + Len(Emit(c))] = k[o + m + 2]
  <2>1. o + (m + 2) = o + m + 2
    BY <1>5
  <2> QED BY <1>1, <2>1 DEF E
<1>15. Found(M, c) = Matching(e, M[c.name], V)
  BY DEF Found, e, V, n
<1> QED BY <1>12, <1>13, <1>14, <1>15 DEF S

\* The function Stacks chooses.
StacksFrom(k, M, T, P, n) ==
  [i \in 0 .. n |-> IF i = 0 THEN <<>> ELSE Step(M, T, k[i - 1], P[i])]

\* It is there: it can be continued by one symbol at a time.
LEMMA StacksExist ==
  ASSUME NEW M, NEW T, NEW P
  PROVE  \A n \in Nat : \E k : k = StacksFrom(k, M, T, P, n)
<1> DEFINE N == {n \in Nat : \E k : k = StacksFrom(k, M, T, P, n)}
<1>1. 0 \in N
  <2>1. [i \in 0 .. 0 |-> <<>>] = StacksFrom([i \in 0 .. 0 |-> <<>>], M, T, P, 0)
    BY DEF StacksFrom
  <2> QED BY <2>1
<1>2. ASSUME NEW n \in N PROVE n + 1 \in N
  <2>1. PICK k : k = StacksFrom(k, M, T, P, n)
    OBVIOUS
  <2> DEFINE l == [i \in 0 .. n + 1 |->
                     IF i \in 0 .. n THEN k[i] ELSE Step(M, T, k[i - 1], P[i])]
  <2>2. \A i \in 0 .. n + 1 : l[i] = IF i = 0 THEN <<>> ELSE Step(M, T, l[i - 1], P[i])
    <3> TAKE i \in 0 .. n + 1
    <3>1. CASE i = 0
      BY <3>1, <2>1 DEF StacksFrom
    <3>2. CASE i \in 1 .. n
      <4>1. i - 1 \in 0 .. n /\ i \in 0 .. n /\ i # 0
        BY <3>2
      <4>2. k[i] = Step(M, T, k[i - 1], P[i])
        BY <4>1, <2>1 DEF StacksFrom
      <4>3. l[i] = k[i] /\ l[i - 1] = k[i - 1]
        BY <4>1
      <4> QED BY <4>1, <4>2, <4>3
    <3>3. CASE i = n + 1
      <4>1. i - 1 \in 0 .. n /\ i \notin 0 .. n /\ i # 0 /\ i - 1 \in 0 .. n + 1
        BY <3>3
      <4>2. l[i - 1] = k[i - 1]
        BY <4>1
      <4> QED BY <4>1, <4>2
    <3> QED BY <3>1, <3>2, <3>3
  <2>3. l = StacksFrom(l, M, T, P, n + 1)
    <3> HIDE DEF l
    <3>1. DOMAIN l = 0 .. n + 1 /\ l = [i \in DOMAIN l |-> l[i]]
      BY DEF l
    <3> QED BY <3>1, <2>2 DEF StacksFrom
  <2> QED BY <2>3
<1>3. N = Nat
  <2> HIDE DEF N
  <2>1. N \in SUBSET Nat
    BY DEF N
  <2> QED BY <1>1, <1>2, <2>1, Induction
<1> QED BY <1>3

\* Stacks runs a program, from the empty stack.
LEMMA StacksRun ==
  ASSUME NEW M, NEW T, NEW P, Len(P) \in Nat
  PROVE  /\ Stacks(M, T, P)[0] = <<>>
         /\ Runs(Stacks(M, T, P), M, T, P, 0)
<1> DEFINE K == CHOOSE k : k = StacksFrom(k, M, T, P, Len(P))
<1>1. K = StacksFrom(K, M, T, P, Len(P))
  BY StacksExist
<1>2. Stacks(M, T, P) = K
  BY DEF Stacks, StacksFrom
<1> HIDE DEF K
<1>3. /\ 0 \in 0 .. Len(P)
      /\ \A j \in 1 .. Len(P) : j \in 0 .. Len(P) /\ j # 0 /\ 0 + j = j
  OBVIOUS
<1>4. K[0] = <<>> /\ \A j \in 1 .. Len(P) : K[j] = Step(M, T, K[j - 1], P[j])
  BY <1>1, <1>3 DEF StacksFrom
<1> QED BY <1>2, <1>3, <1>4 DEF Runs

\* A run of a program runs its parts, one after the other.
LEMMA RunsParts ==
  ASSUME NEW M, NEW T, NEW k, NEW o \in Nat, NEW A \in Seq(Word), NEW B \in Seq(Word),
         Runs(k, M, T, A \o B, o)
  PROVE  Runs(k, M, T, A, o) /\ Runs(k, M, T, B, o + Len(A))
<1> DEFINE a == Len(A)
           b == Len(B)
           C == A \o B
<1>1. a \in Nat /\ b \in Nat
  OBVIOUS
<1>2. Len(C) = a + b /\ \A i \in 1 .. a + b : C[i] = IF i <= a THEN A[i] ELSE B[i - a]
  BY ConcatProperties
<1> HIDE DEF a, b, C
<1>3. \A j \in 1 .. a + b : k[o + j] = Step(M, T, k[o + j - 1], C[j])
  BY <1>2 DEF Runs, C
<1>4. \A j \in 1 .. a : j \in 1 .. a + b /\ j <= a
  BY <1>1
<1>5. \A j \in 1 .. b : /\ a + j \in 1 .. a + b /\ ~(a + j <= a) /\ (a + j) - a = j
                        /\ o + (a + j) = (o + a) + j
                        /\ o + (a + j) - 1 = (o + a) + j - 1
  BY <1>1
<1>6. \A j \in 1 .. a : k[o + j] = Step(M, T, k[o + j - 1], A[j])
  BY <1>2, <1>3, <1>4
<1>7. \A j \in 1 .. b : k[(o + a) + j] = Step(M, T, k[(o + a) + j - 1], B[j])
  <2> TAKE j \in 1 .. b
  <2>1. C[a + j] = B[j]
    BY <1>2, <1>5
  <2>2. k[o + (a + j)] = Step(M, T, k[o + (a + j) - 1], C[a + j])
    BY <1>3, <1>5
  <2> QED BY <1>5, <2>1, <2>2
<1> QED BY <1>6, <1>7 DEF Runs, a, b

\* The symbols of one condition are its own.
LEMMA ProgramOfOne ==
  ASSUME NEW q, Len(q) = 1, Emit(q[1]) \in Seq(Word)
  PROVE  Program(q) = Emit(q[1])
<1> DEFINE from(p) == [i \in 0 .. Len(q) |->
                         IF i = 0 THEN <<>> ELSE p[i - 1] \o Emit(q[Len(q) + 1 - i])]
           one == [i \in 0 .. 1 |-> IF i = 0 THEN <<>> ELSE Emit(q[1])]
           K == CHOOSE p : p = from(p)
<1>1. <<>> \o Emit(q[1]) = Emit(q[1]) /\ Emit(q[1]) \o <<>> = Emit(q[1])
  BY ConcatEmptySeq
<1>2. one = from(one)
  <2>1. \A i \in 0 .. 1 : i = 0 \/ (i = 1 /\ one[i - 1] = <<>> /\ q[1 + 1 - i] = q[1])
    OBVIOUS
  <2> QED BY <1>1, <2>1
<1>3. K = from(K)
  BY <1>2
<1>4. Program(q) = K[Len(q)] \o <<>>
  BY DEF Program
<1> HIDE DEF K
<1>5. K[0] = <<>>
  BY <1>3
<1>6. K[1] = K[0] \o Emit(q[1])
  BY <1>3
<1> QED BY <1>1, <1>4, <1>5, <1>6

\* Of two they are those of the second, those of the first and "and".
LEMMA ProgramOfTwo ==
  ASSUME NEW q, Len(q) = 2, Emit(q[1]) \in Seq(Word), Emit(q[2]) \in Seq(Word)
  PROVE  Program(q) = (Emit(q[2]) \o Emit(q[1])) \o <<Operator("and", q[1].name, 0)>>
<1> DEFINE from(p) == [i \in 0 .. Len(q) |->
                         IF i = 0 THEN <<>> ELSE p[i - 1] \o Emit(q[Len(q) + 1 - i])]
           two == [i \in 0 .. 2 |-> IF i = 0 THEN <<>> ELSE IF i = 1 THEN Emit(q[2])
                                    ELSE Emit(q[2]) \o Emit(q[1])]
           K == CHOOSE p : p = from(p)
<1>1. <<>> \o Emit(q[2]) = Emit(q[2])
  BY ConcatEmptySeq
<1>2. two = from(two)
  <2>1. \A i \in 0 .. 2 : \/ i = 0
                          \/ i = 1 /\ two[i - 1] = <<>> /\ q[2 + 1 - i] = q[2]
                          \/ i = 2 /\ two[i - 1] = Emit(q[2]) /\ q[2 + 1 - i] = q[1]
    OBVIOUS
  <2> QED BY <1>1, <2>1
<1>3. K = from(K)
  BY <1>2
<1>4. Program(q) = K[Len(q)] \o <<Operator("and", q[1].name, 0)>>
  BY DEF Program
<1> HIDE DEF K
<1>5. \A i \in 0 .. 2 : K[i] = IF i = 0 THEN <<>> ELSE K[i - 1] \o Emit(q[3 - i])
  <2>1. \A i \in 0 .. 2 : 2 + 1 - i = 3 - i
    OBVIOUS
  <2> QED BY <1>3, <2>1
<1>6. K[0] = <<>> /\ K[1] = K[1 - 1] \o Emit(q[3 - 1]) /\ K[2] = K[2 - 1] \o Emit(q[3 - 2])
  BY <1>5
<1>7. 1 - 1 = 0 /\ 3 - 1 = 2 /\ 2 - 1 = 1 /\ 3 - 2 = 1
  OBVIOUS
<1> QED BY <1>1, <1>4, <1>6, <1>7

\* What Result answers to one condition: the files found for it.
LEMMA ResultOfOne ==
  ASSUME NEW M \in MatchTables, NEW T, NEW q \in Seq(Condition), Len(q) = 1,
         Answerable(q[1]), q[1].name \in T, \E v \in Value : M[q[1].name][v] # {}
  PROVE  Result(M, T, q) = Files(Found(M, q[1]))
<1> DEFINE E == Emit(q[1])
           k == Stacks(M, T, E)
           F == Files(Found(M, q[1]))
<1>1. q[1] \in Condition
  <2>1. 1 \in 1 .. Len(q)
    OBVIOUS
  <2> QED BY <2>1, ElementOfSeq
<1>2. E \in Seq(Word) /\ Len(E) \in Nat
  <2>1. E \in Seq(Word)
    BY <1>1, EmittedOf
  <2> QED BY <2>1
<1>3. Program(q) = E
  BY <1>2, ProgramOfOne
<1>4. k[0] = <<>> /\ Runs(k, M, T, E, 0)
  BY <1>2, StacksRun
<1> HIDE DEF k, F
<1>5. k[0] \in Seq(Cell)
  BY <1>4
<1>6. k[0 + Len(E)] = Append(k[0], F)
  <2> DEFINE c == q[1]
  <2>1. /\ c \in Condition /\ Answerable(c) /\ c.name \in T
        /\ \E v \in Value : M[c.name][v] # {}
        /\ Runs(k, M, T, Emit(c), 0) /\ 0 \in Nat
    BY <1>1, <1>4
  <2> HIDE DEF c
  <2>2. k[0 + Len(Emit(c))] = Append(k[0], Files(Found(M, c)))
    BY <1>5, <2>1, ConditionIsRun
  <2> QED BY <2>2 DEF c, F
<1>7. k[Len(E)] = Append(<<>>, F)
  BY <1>2, <1>4, <1>6
<1>8. Len(Append(<<>>, F)) = 1 /\ Append(<<>>, F)[1] = F
  OBVIOUS
<1>9. Result(M, T, q) = k[Len(E)][Len(k[Len(E)])]
  BY <1>3 DEF Result, k
<1> QED BY <1>7, <1>8, <1>9 DEF F

\* To two it answers the files found for both: "and" takes what the first leaves on top of
\* what the second left.
LEMMA ResultOfTwo ==
  ASSUME NEW M \in MatchTables, NEW T, NEW q \in Seq(Condition), Len(q) = 2,
         \A i \in 1 .. 2 : /\ Answerable(q[i]) /\ q[i].name \in T
                           /\ \E v \in Value : M[q[i].name][v] # {}
  PROVE  Result(M, T, q) = Files(Found(M, q[1]) \cap Found(M, q[2]))
<1> DEFINE A == Emit(q[2])
           B == Emit(q[1])
           and == Operator("and", q[1].name, 0)
           P == (A \o B) \o <<and>>
           k == Stacks(M, T, P)
           F == Found(M, q[2])
           G == Found(M, q[1])
<1>1. q[1] \in Condition /\ q[2] \in Condition /\ 1 \in 1 .. 2 /\ 2 \in 1 .. 2
  <2>1. 1 \in 1 .. Len(q) /\ 2 \in 1 .. Len(q)
    OBVIOUS
  <2> QED BY <2>1, ElementOfSeq
<1>2. q[1].name \in Name
  BY <1>1 DEF Condition
<1>3. A \in Seq(Word) /\ B \in Seq(Word)
  BY <1>1, EmittedOf
<1>4. <<and>> \in Seq(Word) /\ Len(<<and>>) = 1 /\ <<and>>[1] = and
  <2>1. and \in Word
    BY <1>2 DEF Word
  <2> HIDE DEF and
  <2> QED BY <2>1
<1> HIDE DEF A, B, and
<1>5. /\ Len(A) \in Nat /\ Len(B) \in Nat
      /\ A \o B \in Seq(Word) /\ Len(A \o B) = Len(A) + Len(B)
      /\ P \in Seq(Word) /\ Len(P) = Len(A) + Len(B) + 1
  <2>1. Len(A) \in Nat /\ Len(B) \in Nat
    BY <1>3
  <2>2. A \o B \in Seq(Word) /\ Len(A \o B) = Len(A) + Len(B)
    BY <1>3, ConcatProperties
  <2>3. P \in Seq(Word) /\ Len(P) = Len(A \o B) + Len(<<and>>)
    BY <1>4, <2>2, ConcatProperties
  <2> QED BY <1>4, <2>1, <2>2, <2>3
<1>6. Program(q) = P
  BY <1>3, ProgramOfTwo DEF A, B, and
<1>7. k[0] = <<>> /\ Runs(k, M, T, P, 0)
  BY <1>5, StacksRun
<1> HIDE DEF k, P
<1>8. Runs(k, M, T, A \o B, 0) /\ Runs(k, M, T, <<and>>, 0 + Len(A \o B))
  BY <1>4, <1>5, <1>7, RunsParts DEF P
<1>9. Runs(k, M, T, A, 0) /\ Runs(k, M, T, B, 0 + Len(A))
  BY <1>3, <1>8, RunsParts
<1>10. F \in SUBSET FileID /\ G \in SUBSET FileID
  BY DEF Found, Matching
<1> HIDE DEF F, G
<1> DEFINE one == Append(<<>>, Files(F))
           both == Append(one, Files(G))
<1>11. Files(F) \in Cell /\ Files(G) \in Cell
  BY <1>10 DEF Cell
<1>12. one \in Seq(Cell) /\ Len(one) = 1 /\ one[1] = Files(F)
  <2>1. <<>> \in Seq(Cell) /\ Len(<<>>) = 0
    BY EmptySeq
  <2> QED BY <1>11, <2>1
<1>13. both \in Seq(Cell) /\ Len(both) = 2 /\ both[1] = Files(F) /\ both[2] = Files(G)
  <2> HIDE DEF one
  <2>1. /\ both \in Seq(Cell) /\ Len(both) = Len(one) + 1
        /\ \A i \in 1 .. Len(one) : both[i] = one[i]
        /\ both[Len(one) + 1] = Files(G)
    <3> DEFINE x == Files(G)
    <3>1. one \in Seq(Cell) /\ x \in Cell
      BY <1>11, <1>12
    <3> HIDE DEF x
    <3>2. /\ Append(one, x) \in Seq(Cell) /\ Len(Append(one, x)) = Len(one) + 1
          /\ \A i \in 1 .. Len(one) : Append(one, x)[i] = one[i]
          /\ Append(one, x)[Len(one) + 1] = x
      BY <3>1, AppendProperties
    <3> QED BY <3>2 DEF x
  <2>2. Len(one) + 1 = 2 /\ 1 \in 1 .. Len(one)
    BY <1>12
  <2> QED BY <1>12, <2>1, <2>2
<1>14. k[0 + Len(A)] = one
  <2>1. k[0] \in Seq(Cell)
    BY <1>7
  <2>2. k[0 + Len(A)] = Append(k[0], Files(F))
    <3> DEFINE c == q[2]
    <3>1. /\ c \in Condition /\ Answerable(c) /\ c.name \in T
          /\ \E v \in Value : M[c.name][v] # {}
          /\ Runs(k, M, T, Emit(c), 0) /\ 0 \in Nat
      BY <1>1, <1>9 DEF A
    <3> HIDE DEF c
    <3>2. k[0 + Len(Emit(c))] = Append(k[0], Files(Found(M, c)))
      BY <2>1, <3>1, ConditionIsRun
    <3> QED BY <3>2 DEF c, A, F
  <2> QED BY <1>7, <2>2
<1>15. k[Len(A) + Len(B)] = both
  <2>1. k[0 + Len(A)] \in Seq(Cell) /\ 0 + Len(A) \in Nat
    BY <1>5, <1>12, <1>14
  <2>2. k[(0 + Len(A)) + Len(B)] = Append(k[0 + Len(A)], Files(G))
    <3> DEFINE c == q[1]
               o == 0 + Len(A)
    <3>1. /\ c \in Condition /\ Answerable(c) /\ c.name \in T
          /\ \E v \in Value : M[c.name][v] # {}
          /\ Runs(k, M, T, Emit(c), o) /\ o \in Nat /\ k[o] \in Seq(Cell)
      BY <1>1, <1>9, <2>1 DEF B
    <3> HIDE DEF c, o
    <3>2. k[o + Len(Emit(c))] = Append(k[o], Files(Found(M, c)))
      BY <3>1, ConditionIsRun
    <3> QED BY <3>2 DEF c, o, B, G
  <2>3. (0 + Len(A)) + Len(B) = Len(A) + Len(B)
    BY <1>5
  <2> QED BY <1>14, <2>2, <2>3
<1> HIDE DEF one, both
<1>16. k[Len(P)] = Step(M, T, both, and)
  <2>1. 1 \in 1 .. Len(<<and>>)
    BY <1>4
  <2>2. k[(0 + Len(A \o B)) + 1] = Step(M, T, k[(0 + Len(A \o B)) + 1 - 1], <<and>>[1])
    BY <1>8, <2>1 DEF Runs
  <2>3. /\ (0 + Len(A \o B)) + 1 = Len(P)
        /\ (0 + Len(A \o B)) + 1 - 1 = Len(A) + Len(B)
    BY <1>5
  <2> QED BY <1>4, <1>15, <2>2, <2>3
<1>17. k[Len(P)] = Append(SubSeq(both, 1, 0), Files(G \cap F))
  <2>1. Len(both) >= 2 /\ Len(both) - 2 = 0 /\ Len(both) - 1 = 1
    BY <1>13
  <2>2. both[Len(both)] = Files(G) /\ both[Len(both) - 1] = Files(F)
    BY <1>13, <2>1
  <2>3. and.kind = "op" /\ and.op # "in"
    BY Kinds DEF and
  <2>4. Files(G).kind = "files" /\ Files(G).files = G /\ Files(F).kind = "files"
          /\ Files(F).files = F
    BY Kinds
  <2>5. Both(both[Len(both)], both[Len(both) - 1]) = Files(G \cap F)
    BY <2>2, <2>4 DEF Both
  <2>6. Step(M, T, both, and)
          = Append(SubSeq(both, 1, Len(both) - 2), Both(both[Len(both)], both[Len(both) - 1]))
    BY <1>13, <2>1, <2>2, <2>3, <2>4, Meets
  <2> QED BY <1>16, <2>1, <2>5, <2>6
<1>18. k[Len(P)] = Append(<<>>, Files(G \cap F))
  <2>1. SubSeq(both, 1, 0) = <<>>
    BY <1>13
  <2> QED BY <1>17, <2>1
<1>19. \A x : Len(Append(<<>>, x)) = 1 /\ Append(<<>>, x)[1] = x
  OBVIOUS
<1>20. Result(M, T, q) = k[Len(P)][Len(k[Len(P)])]
  BY <1>6 DEF Result, k
<1> QED BY <1>18, <1>19, <1>20 DEF F, G

-------------------------------------------------------------------------------
\* When neither the match table nor FILE_META fell behind, the match table has a file
\* for a condition exactly when one of its items satisfies it.
LEMMA FoundHolds ==
  ASSUME IndInv, NEW f \in files, NEW c \in Condition,
         \E v \in Value : match[c.name][v] # {},
         <<f, c.name>> \notin unindexed \cup updated
  PROVE  f \in Found(match, c) <=> Holds(f, c)
<1> USE DEF IndInv, Inv
<1> DEFINE e == Operator(c.op, c.name, 0)
           n == c.name
<1>1. f \in FileID /\ n \in Name /\ match \in [Name -> [Value -> SUBSET FileID]]
  BY DEF Condition, TypeOK
<1>2. n \in tables
  BY <1>1 DEF NoStrayRows
<1>3. \A k \in Value : f \in match[n][k] <=> Has(f, n, k)
  BY <1>1, <1>2 DEF NoStrayRows, ItemsAreMatched
<1>4. DOMAIN c.values = 1 .. Len(c.values)
  <2>1. c.values \in Seq(Value)
    BY DEF Condition
  <2> QED BY <2>1
<1> HIDE DEF e, n
<1>5. f \in Found(match, c)
        <=> \E k \in Value, i \in 1 .. Len(c.values) :
              Compares(e, k, c.values[i]) /\ f \in match[n][k]
  BY <1>1 DEF Found, Matching, e, n
<1>6. Holds(f, c)
        <=> \E k \in Value, i \in 1 .. Len(c.values) :
              Has(f, n, k) /\ Compares(e, k, c.values[i])
  BY <1>4 DEF Holds, e, n
<1> QED BY <1>3, <1>5, <1>6

\* A query answers the files that satisfy its conditions.
LEMMA AnswersAreSelected == IndInv => QueryFinds
<1> SUFFICES ASSUME IndInv, NEW q \in Queries, Plain(q),
                    Pair(files, {q[i].name : i \in DOMAIN q}) \cap (unindexed \cup updated) = {}
             PROVE  Answers(match, tables, q, files) = {Selected(q)}
  BY DEF QueryFinds
<1>1. q \in Seq(Condition) /\ Len(q) \in 1 .. 2 /\ DOMAIN q = 1 .. Len(q)
  BY MetaAssumption DEF Plain
<1>2. match \in MatchTables /\ files \subseteq FileID
  BY DEF MatchTables, IndInv, Inv, TypeOK
<1>3. \A i \in 1 .. Len(q) : /\ q[i] \in Condition
                             /\ Answerable(q[i])
                             /\ \E v \in Value : match[q[i].name][v] # {}
  BY <1>1 DEF Plain, Answerable
<1>4. \A i \in 1 .. Len(q) : q[i].name \in tables
  <2> TAKE i \in 1 .. Len(q)
  <2>1. q[i].name \in Name
    BY <1>3 DEF Condition
  <2>2. PICK v \in Value : match[q[i].name][v] # {}
    BY <1>3
  <2> QED BY <2>1, <2>2 DEF IndInv, Inv, NoStrayRows
<1>5. \A f \in files, i \in 1 .. Len(q) : <<f, q[i].name>> \notin unindexed \cup updated
  BY <1>1 DEF Pair
<1>6. \A f \in files, i \in 1 .. Len(q) : f \in Found(match, q[i]) <=> Holds(f, q[i])
  BY <1>3, <1>5, FoundHolds
<1>7. PICK F : /\ Result(match, tables, q) = Files(F)
               /\ \A f : f \in F <=> \A i \in 1 .. Len(q) : f \in Found(match, q[i])
  <2>1. CASE Len(q) = 1
    <3>1. Result(match, tables, q) = Files(Found(match, q[1]))
      BY <1>1, <1>2, <1>3, <1>4, <2>1, ResultOfOne
    <3> QED BY <2>1, <3>1
  <2>2. CASE Len(q) = 2
    <3>1. Result(match, tables, q) = Files(Found(match, q[1]) \cap Found(match, q[2]))
      BY <1>1, <1>2, <1>3, <1>4, <2>2, ResultOfTwo
    <3> QED BY <2>2, <3>1
  <2> QED BY <1>1, <2>1, <2>2
<1>8. \A f : f \in Selected(q) <=> f \in files /\ \A i \in 1 .. Len(q) : Holds(f, q[i])
  BY <1>1 DEF Selected
<1>9. \A f \in files : f \in F <=> f \in Selected(q)
  BY <1>6, <1>7, <1>8
<1>10. F \cap files = Selected(q)
  BY <1>8, <1>9
<1>11. Files(F).kind = "files" /\ Files(F).files = F
  BY Kinds
<1>12. Answers(match, tables, q, files)
         = IF Files(F).kind = "files" THEN {Files(F).files \cap files} ELSE SUBSET files
  BY <1>7, Zenon DEF Answers
<1> QED BY <1>10, <1>11, <1>12

\* A query answers exactly the files whose items satisfy its conditions, whatever was
\* given, changed and removed before, when the tables it reads have a row and did not
\* fall behind FILE_META (DBManager::Query against GetFilesInfo).
THEOREM QueriesFind == Spec => []QueryFinds
  BY AnswersAreSelected, IndInvariance, PTL
===============================================================================
