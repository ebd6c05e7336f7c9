------------------------------- MODULE MetaIndex -------------------------------
(***************************************************************************)
(* The meta data of files and their match tables: addFiles, addMeta,       *)
(* updateFile and removeFiles of DBManager, TableMeta, and the tables of   *)
(* CStorageProxy (GetMetaTable, GetOrCreateMetaTable).                     *)
(*                                                                         *)
(* Each call is one action and ends in a commit.  The items of a file are  *)
(* kept as a set: where the code takes the first of a name, the model      *)
(* takes any.                                                              *)
(***************************************************************************)
EXTENDS QueryProgram, FiniteSets

CONSTANTS
  Schema,    \* the names whose match table is made when the library is opened
  Queries,   \* the queries that are made
  MaxFile,   \* bound: the largest file id
  MaxItem    \* bound: the items a file can be given

ASSUME MetaAssumption ==
  /\ Schema \subseteq Name
  /\ Queries \subseteq Seq(Condition)
  /\ MaxFile \in Nat
  /\ MaxItem \in Nat

VARIABLES
  given,      \* the ids that were used
  files,      \* the files that have a FILE_META row
  meta,       \* FILE_META: the items of each file
  tables,     \* MATCH_META: the names that have a match table
  match,      \* for each name, its match table: from values to files
  unindexed,  \* history: the files and names an item was given without the table
  updated     \* history: the files and names of which an item was changed

vars == <<given, files, meta, tables, match, unindexed, updated>>

FileID == 1 .. MaxFile
Item == [name : Name, values : (SUBSET Value) \ {{}}]
Pair(F, N) == F \X N

Init ==
  /\ given = {}
  /\ files = {}
  /\ meta = [f \in FileID |-> {}]
  /\ tables = Schema
  /\ match = [n \in Name |-> [v \in Value |-> {}]]
  /\ unindexed = {}
  /\ updated = {}

\* Mutant of Add: the row is written without what it held.
MutantAdd(M, T, f, items) ==
  [n \in Name |->
     [v \in Value |->
        IF n \in T /\ \E i \in items : i.name = n /\ v \in i.values THEN {f} ELSE M[n][v]]]

\* TableMeta::Add, of each item to the table of its name, if T has one.
Add(M, T, f, items) ==
  [n \in Name |->
     [v \in Value |->
        M[n][v] \cup {g \in {f} : n \in T /\ \E i \in items : i.name = n /\ v \in i.values}]]

\* Mutant of Delete: an item whose value is a list is passed over.
MutantDelete(M, T, f, items) ==
  [n \in Name |->
     [v \in Value |->
        M[n][v] \ {g \in {f} : n \in T /\ \E i \in items : i.name = n /\ i.values = {v}}]]

\* TableMeta::Delete, of each item of a file that goes.
Delete(M, T, f, items) ==
  [n \in Name |->
     [v \in Value |->
        M[n][v] \ {g \in {f} : n \in T /\ \E i \in items : i.name = n /\ v \in i.values}]]

\* AddFile, for a new id: items, one value each.  Its row of FILESNAP
\* is FileIndex's.
AddFile(f, items) ==
  /\ f \notin given
  /\ Cardinality(items) <= MaxItem
  /\ \A i, j \in items : i.name = j.name => i = j
  /\ given' = given \cup {f}
  /\ files' = files \cup {f}
  /\ meta' = [meta EXCEPT ![f] = items]
  /\ match' = Add(match, tables, f, items)
  /\ unindexed' = unindexed \cup Pair({f}, {i.name : i \in items} \ tables)
  /\ UNCHANGED <<tables, updated>>

\* Mutant of mapExistFiles: every file it is given.
MutantmapExistFiles(F) == F

\* mapExistFiles: the import of a file that was removed meanwhile goes no further.
mapExistFiles(F) == F \cap files

\* AddMeta, which makes the match table when there is none.  With query set, the facade
\* has a list of values for colours only; of anything else AddMeta throws before it
\* commits, and the worker ends with what it had.
AddMeta(F, item, query) ==
  LET existFiles == mapExistFiles(F)
  IN \/ existFiles = {} /\ UNCHANGED vars
     \/ /\ existFiles # {}
        /\ IF item.name \in ColorName THEN TRUE ELSE ~query /\ Cardinality(item.values) = 1
        /\ \A f \in existFiles : item \notin meta[f] /\ Cardinality(meta[f]) < MaxItem
        /\ meta' = [f \in FileID |-> meta[f] \cup {i \in {item} : f \in existFiles}]
        /\ tables' = tables \cup {n \in {item.name} : query}
        /\ match' = [n \in Name |->
                       [v \in Value |->
                          match[n][v] \cup
                            {f \in existFiles : query /\ n = item.name /\ v \in item.values}]]
        /\ unindexed' = unindexed \cup {p \in Pair(existFiles, {item.name}) : ~query}
        /\ UNCHANGED <<given, files, updated>>

\* UpdateFileMeta: an item of the name gets the value, and the match table is left
\* alone.  Of a file name an entry of FILESNAP is written too, one that nothing reads.
UpdateFileMeta(f, n, v) ==
  /\ f \in files
  /\ \E i \in meta[f] :
       /\ i.name = n
       /\ meta' = [meta EXCEPT ![f] = (@ \ {i}) \cup {[name |-> n, values |-> {v}]}]
  /\ updated' = updated \cup {<<f, n>>}
  /\ UNCHANGED <<given, files, tables, match, unindexed>>

\* RemoveFile.
RemoveFile(f) ==
  /\ f \in files
  /\ files' = files \ {f}
  /\ meta' = [meta EXCEPT ![f] = {}]
  /\ match' = Delete(match, tables, f, meta[f])
  /\ UNCHANGED <<given, tables, unindexed, updated>>

Single == {i \in Item : Cardinality(i.values) = 1}

Next ==
  \/ \E f \in FileID, items \in SUBSET Single : AddFile(f, items)
  \/ \E F \in SUBSET FileID, item \in Item, query \in BOOLEAN : AddMeta(F, item, query)
  \/ \E f \in FileID, n \in Name, v \in Value : UpdateFileMeta(f, n, v)
  \/ \E f \in FileID : RemoveFile(f)

Spec == Init /\ [][Next]_vars
-------------------------------------------------------------------------------
Has(f, n, v) == \E i \in meta[f] : i.name = n /\ v \in i.values

TypeOK ==
  /\ given \subseteq FileID
  /\ files \subseteq given
  /\ meta \in [FileID -> SUBSET Item]
  /\ tables \subseteq Name
  /\ match \in [Name -> [Value -> SUBSET FileID]]
  /\ unindexed \subseteq Pair(FileID, Name)
  /\ updated \subseteq Pair(FileID, Name)

\* A match table has no row of a name that has none, and a file in a row is there and
\* has the value, unless the value was changed after the row was written: what
\* removeFiles leaves behind, and what an import that outlives its file writes, is
\* nothing.
NoStrayRows ==
  \A n \in Name : \A v \in Value : \A f \in match[n][v] :
    n \in tables /\ (<<f, n>> \notin updated => f \in files /\ Has(f, n, v))

Inv == TypeOK /\ NoStrayRows

\* An item given while its name has a match table is found there, whatever was given to
\* and taken from other files in between.
ItemsAreMatched ==
  \A f \in files, n \in tables : <<f, n>> \notin unindexed \cup updated =>
    \A v \in Value : Has(f, n, v) => f \in match[n][v]

-------------------------------------------------------------------------------
\* The reference: the files that satisfy each condition by the items they have.
Holds(f, c) ==
  \E k \in Value, i \in DOMAIN c.values :
    /\ Has(f, c.name, k)
    /\ Compares(Operator(c.op, c.name, 0), k, c.values[i])

Selected(q) == {f \in files : \A i \in DOMAIN q : Holds(f, q[i])}

\* Queries of at most two conditions, on tables with a row, with values to compare
\* with, and without lists of colours.
Plain(q) ==
  /\ Len(q) \in 1 .. 2
  /\ \A i \in DOMAIN q :
       /\ \E v \in Value : match[q[i].name][v] # {}
       /\ q[i].values # <<>>
       /\ q[i].array => q[i].name \notin ColorName

\* A query answers the files that satisfy its conditions, both of them if there are two,
\* from the match tables as from FILE_META, when neither fell behind.
QueryFinds ==
  \A q \in Queries :
    /\ Plain(q)
    /\ Pair(files, {q[i].name : i \in DOMAIN q}) \cap (unindexed \cup updated) = {}
    => Answers(match, tables, q, files) = {Selected(q)}
===============================================================================
