----------------------------- MODULE DurableStore -----------------------------
(***************************************************************************)
(* What the callers of CDatabase (civetkern/src/database.cpp) rely on: a   *)
(* table whose accepted writes are visible at once and become durable all  *)
(* together, at a commit that answers TRUE.  The store may refuse a write, *)
(* may refuse a commit, and may lose every accepted write that no commit   *)
(* made durable; it never keeps a part of them, and never loses or changes *)
(* a durable one.  Storage.tla is shown to implement this specification.   *)
(***************************************************************************)
CONSTANTS
  Key,      \* the keys of the tables
  Value,    \* what a row can hold
  NoVal     \* the absence of a row

VARIABLES
  durable,  \* what a restart will find
  pending,  \* durable, and the writes accepted since
  answer    \* the last call and what it returned

abstractVars == <<durable, pending, answer>>

Content == [Key -> Value \cup {NoVal}]

Answer(op, ok, key, val) == [op |-> op, ok |-> ok, key |-> key, val |-> val]

NoAnswer == Answer("None", TRUE, NoVal, NoVal)

Init ==
  /\ durable = [k \in Key |-> NoVal]
  /\ pending = durable
  /\ answer = NoAnswer

\* A read answers FALSE when there is no row, and may also fail; a read that
\* succeeds returns the last value accepted for the key.
Read(k) ==
  /\ \/ answer' = Answer("Get", FALSE, k, NoVal)
     \/ /\ pending[k] # NoVal
        /\ answer' = Answer("Get", TRUE, k, pending[k])
  /\ UNCHANGED <<durable, pending>>

Write(op, k, v) ==
  /\ \/ /\ answer' = Answer(op, TRUE, k, v)
        /\ pending' = [pending EXCEPT ![k] = v]
     \/ /\ answer' = Answer(op, FALSE, k, v)
        /\ UNCHANGED pending
  /\ UNCHANGED durable

\* A commit that answers TRUE made everything accepted durable; one that answers
\* FALSE made all of it durable or none of it.
Sync ==
  /\ \/ /\ answer' = Answer("Commit", TRUE, NoVal, NoVal)
        /\ durable' = pending
     \/ /\ answer' = Answer("Commit", FALSE, NoVal, NoVal)
        /\ durable' \in {durable, pending}
  /\ UNCHANGED pending

\* The process ends, by a crash or an orderly close.
Stop ==
  /\ durable' \in {durable, pending}
  /\ pending' = durable'
  /\ answer' = NoAnswer

\* A call whose outcome the caller does not see.
Quiet ==
  /\ answer' = NoAnswer
  /\ UNCHANGED <<durable, pending>>

Next ==
  \/ \E k \in Key : Read(k)
  \/ \E k \in Key, v \in Value : Write("Put", k, v)
  \/ \E k \in Key : Write("Del", k, NoVal)
  \/ Sync
  \/ Stop
  \/ Quiet

Spec == Init /\ [][Next]_abstractVars
===============================================================================
