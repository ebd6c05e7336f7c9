------------------------------- MODULE Storage --------------------------------
(***************************************************************************)
(* CDatabase (civetkern/src/database.cpp): one LMDB environment, one write *)
(* transaction that is kept open between calls, and the flag m_dOperator   *)
(* that decides whether Commit has anything to commit.                     *)
(*                                                                         *)
(* All named tables of the environment are one table here: a transaction   *)
(* covers them all.  LMDB itself (civetkern/src/lmdb) is modelled by what  *)
(* its API does to a transaction: a write that finds the map full leaves   *)
(* the transaction in an error state (MDB_TXN_ERROR), in which every later *)
(* read, write and commit is refused; a commit that fails ends it the same *)
(* way, and as the meta page is in the writable map the file may then hold *)
(* the new content or the old one.                                         *)
(***************************************************************************)
CONSTANTS
  Key,            \* the keys of the tables
  Value,          \* what a row can hold
  NoVal,          \* the absence of a row
  FilterWrites    \* BOOLEAN: do the callbacks given to Filter return a new value

ASSUME StorageAssumption ==
  /\ NoVal \notin Value
  /\ FilterWrites \in BOOLEAN

VARIABLES
  up,             \* the environment is open
  m_flag,         \* "MDB_WRITEMAP" or "MDB_RDONLY"
  m_pTransaction, \* "nullptr", "open", or "error" (kept, and refused by LMDB)
  m_dOperator,    \* "NORMAL" or "TRANSACTION"
  view,           \* what the open transaction reads
  file,           \* what the file holds: what the next transaction will read
  accepted,       \* history: the content as the calls that returned TRUE left it
  answer          \* history: the last call and what it returned

vars == <<up, m_flag, m_pTransaction, m_dOperator, view, file, accepted, answer>>

Content == [Key -> Value \cup {NoVal}]

Answer(op, ok, key, val) == [op |-> op, ok |-> ok, key |-> key, val |-> val]

NoAnswer == Answer("None", TRUE, NoVal, NoVal)

-------------------------------------------------------------------------------
Init ==
  /\ up = FALSE
  /\ m_flag = "MDB_WRITEMAP"
  /\ m_pTransaction = "nullptr"
  /\ m_dOperator = "NORMAL"
  /\ file = [k \in Key |-> NoVal]
  /\ view = file
  /\ accepted = file
  /\ answer = NoAnswer

\* mdb_txn_begin: a new transaction reads the file; it may fail and leave none.
TxnBegin ==
  \/ /\ m_pTransaction' = "open"
     /\ view' = file
  \/ /\ m_pTransaction' = "nullptr"
     /\ UNCHANGED view

\* CDatabase::CDatabase
Open(flag) ==
  /\ ~up
  /\ up' = TRUE
  /\ m_flag' = flag
  /\ TxnBegin
  /\ answer' = NoAnswer
  /\ UNCHANGED <<m_dOperator, file, accepted>>

\* Mutant of Ensure: Begin without its test of m_pTransaction.
MutantEnsure == TxnBegin

\* CDatabase::Begin: nothing to do when there is a transaction, even a failed one.
Ensure == IF m_pTransaction = "nullptr" THEN TxnBegin
          ELSE UNCHANGED <<m_pTransaction, view>>

Begin ==
  /\ up
  /\ Ensure
  /\ answer' = NoAnswer
  /\ UNCHANGED <<up, m_flag, m_dOperator, file, accepted>>

\* CDatabase::Get: a missing row, a failed begin and a failed transaction all
\* answer false.
Get(k) ==
  /\ up
  /\ Ensure
  /\ answer' = IF m_pTransaction' = "open" /\ view'[k] # NoVal
               THEN Answer("Get", TRUE, k, view'[k])
               ELSE Answer("Get", FALSE, k, NoVal)
  /\ UNCHANGED <<up, m_flag, m_dOperator, file, accepted>>

\* Mutant of Written: Put and Del without m_dOperator = TRANSACTION.
MutantWritten(op, k, v) ==
  /\ view' = [view EXCEPT ![k] = v]
  /\ accepted' = [accepted EXCEPT ![k] = v]
  /\ answer' = Answer(op, TRUE, k, v)
  /\ UNCHANGED <<m_pTransaction, m_dOperator>>

\* A write that LMDB takes.
Written(op, k, v) ==
  /\ view' = [view EXCEPT ![k] = v]
  /\ m_dOperator' = "TRANSACTION"
  /\ accepted' = [accepted EXCEPT ![k] = v]
  /\ answer' = Answer(op, TRUE, k, v)
  /\ UNCHANGED m_pTransaction

\* Mutant of Refused: a refused write that has already changed the row.
MutantRefused(op, k, v) ==
  /\ view' = [view EXCEPT ![k] = v]
  /\ m_dOperator' = "TRANSACTION"
  /\ answer' = Answer(op, FALSE, k, v)
  /\ UNCHANGED <<m_pTransaction, accepted>>

\* A write that LMDB refuses; MDB_MAP_FULL spoils an open write transaction.
Refused(op, k, v) ==
  /\ m_pTransaction' \in IF m_pTransaction = "open" /\ m_flag = "MDB_WRITEMAP"
                         THEN {"open", "error"} ELSE {m_pTransaction}
  /\ answer' = Answer(op, FALSE, k, v)
  /\ UNCHANGED <<view, m_dOperator, accepted>>

CanWrite == m_pTransaction = "open" /\ m_flag = "MDB_WRITEMAP"

\* CDatabase::Put.  It does not begin a transaction: its callers must have.
\* (A refusal that leaves an open transaction intact is the read-only case, or
\* a bad key or value size.)
Put(k, v) ==
  /\ up
  /\ \/ CanWrite /\ Written("Put", k, v)
     \/ Refused("Put", k, v)
  /\ UNCHANGED <<up, m_flag, file>>

\* CDatabase::Del: deleting a row that is not there is refused (MDB_NOTFOUND).
Del(k) ==
  /\ up
  /\ \/ CanWrite /\ view[k] # NoVal /\ Written("Del", k, NoVal)
     \/ Refused("Del", k, NoVal)
  /\ UNCHANGED <<up, m_flag, file>>

\* CDatabase::Filter, for one row whose callback returns a new value: the cursor
\* writes it, m_dOperator is left alone, and Filter answers TRUE whatever
\* mdb_cursor_put said.
Filter(k, v) ==
  /\ up
  /\ FilterWrites
  /\ CanWrite
  /\ view[k] # NoVal
  /\ \/ m_pTransaction' = "open" /\ view' = [view EXCEPT ![k] = v]
     \/ m_pTransaction' = "error" /\ UNCHANGED view
  /\ accepted' = [accepted EXCEPT ![k] = v]
  /\ answer' = Answer("Filter", TRUE, k, v)
  /\ UNCHANGED <<up, m_flag, m_dOperator, file>>

\* Mutant of TxnCommit: m_pTransaction is cleared before the result is tested.
MutantTxnCommit(done) ==
  /\ file' = IF done /\ m_pTransaction = "open" THEN view ELSE file
  /\ m_pTransaction' = "nullptr"
  /\ m_dOperator' = IF done THEN "NORMAL" ELSE m_dOperator

\* mdb_txn_commit: done, or failed with the file in either state.
TxnCommit(done) ==
  IF done
  THEN /\ m_pTransaction = "open"
       /\ file' = view
       /\ m_pTransaction' = "nullptr"
       /\ m_dOperator' = "NORMAL"
  ELSE /\ file' \in IF m_pTransaction = "open" THEN {file, view} ELSE {file}
       /\ m_pTransaction' = IF m_pTransaction = "open" THEN "error" ELSE m_pTransaction
       /\ UNCHANGED m_dOperator

\* Mutant of Commit: the result of mdb_txn_commit is dropped.
MutantCommit ==
  /\ up
  /\ \E done \in BOOLEAN : TxnCommit(done)
  /\ answer' = Answer("Commit", TRUE, NoVal, NoVal)
  /\ UNCHANGED <<up, m_flag, view, accepted>>

\* CDatabase::Commit
Commit ==
  /\ up
  /\ \/ /\ m_dOperator = "NORMAL"
        /\ answer' = Answer("Commit", TRUE, NoVal, NoVal)
        /\ UNCHANGED <<m_pTransaction, m_dOperator, file>>
     \/ /\ m_dOperator # "NORMAL"
        /\ \E done \in BOOLEAN :
             /\ TxnCommit(done)
             /\ answer' = Answer("Commit", done, NoVal, NoVal)
  /\ UNCHANGED <<up, m_flag, view, accepted>>

Stopped ==
  /\ up' = FALSE
  /\ m_pTransaction' = "nullptr"
  /\ m_dOperator' = "NORMAL"
  /\ accepted' = file'
  /\ answer' = NoAnswer
  /\ UNCHANGED <<m_flag, view>>

\* CDatabase::CloseDatabase and ~CDatabase: a last commit whose result nobody
\* reads, then the environment is closed.
Close ==
  /\ up
  /\ file' \in IF m_dOperator = "NORMAL" \/ m_pTransaction # "open"
               THEN {file} ELSE {file, view}
  /\ Stopped

\* The worker process ends between two calls or within one.
Crash ==
  /\ up
  /\ UNCHANGED file
  /\ Stopped

Next ==
  \/ \E flag \in {"MDB_WRITEMAP", "MDB_RDONLY"} : Open(flag)
  \/ Begin
  \/ \E k \in Key : Get(k) \/ Del(k)
  \/ \E k \in Key, v \in Value : Put(k, v) \/ Filter(k, v)
  \/ Commit
  \/ Close
  \/ Crash

Spec == Init /\ [][Next]_vars
-------------------------------------------------------------------------------
TypeOK ==
  /\ up \in BOOLEAN
  /\ m_flag \in {"MDB_WRITEMAP", "MDB_RDONLY"}
  /\ m_pTransaction \in {"nullptr", "open", "error"}
  /\ m_dOperator \in {"NORMAL", "TRANSACTION"}
  /\ view \in Content
  /\ file \in Content
  /\ accepted \in Content

\* NORMAL means that nothing was operated on: the open transaction reads what
\* the file holds, so that a Commit that returns at once leaves nothing behind
\* (the comments on DATABASE_OPERATOR, include/database.h:15-16).
NormalMeansClean ==
  m_pTransaction = "open" /\ m_dOperator = "NORMAL" => view = file

\* What the open transaction reads is what the calls that answered TRUE wrote.
ViewIsAccepted == m_pTransaction = "open" => view = accepted

\* With no transaction, and (callers of Filter aside) with nothing operated on,
\* nothing is awaiting commit.
NothingAwaits ==
  /\ m_pTransaction = "nullptr" => file = accepted
  /\ m_dOperator = "NORMAL" /\ ~FilterWrites => file = accepted

\* The inductive invariant behind the properties below: a closed store holds no
\* transaction, the flag agrees with the transaction, and the history agrees with
\* both.
Inv ==
  /\ TypeOK
  /\ ~up => m_pTransaction = "nullptr"
  /\ m_pTransaction = "nullptr" => m_dOperator = "NORMAL"
  /\ ViewIsAccepted
  /\ NothingAwaits

\* A commit that answered TRUE left everything accepted in the file, whatever
\* refused writes and failed commits came before it.
CommitMeansDurable ==
  answer.op = "Commit" /\ answer.ok => file = accepted

\* A read that succeeds returns the last value accepted for its key, across
\* commits, refused writes and restarts.
ReadYourWrites ==
  answer.op = "Get" /\ answer.ok => answer.val = accepted[answer.key]

\* The file changes only to the whole of what was accepted, never to a part of it.
AllOrNothing == [][file' \in {file, accepted}]_vars

\* Once LMDB has refused the transaction for an error, no call of this process
\* writes anything any more: only a restart helps.
ErrorUntilRestart ==
  [][m_pTransaction = "error" /\ up'
       => /\ m_pTransaction' = "error"
          /\ UNCHANGED <<file, accepted, m_dOperator>>]_vars

Contract == INSTANCE DurableStore WITH durable <- file, pending <- accepted

\* CDatabase implements the contract of DurableStore.
KeepsContract == Contract!Spec
===============================================================================
