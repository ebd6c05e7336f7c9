---------------------------- MODULE StorageProofs -----------------------------
(***************************************************************************)
(* Proofs about Storage, for every set of keys and values.                 *)
(***************************************************************************)
EXTENDS Storage, TLAPS

-------------------------------------------------------------------------------
\* A write that is taken keeps the content well typed.
LEMMA ContentUpdate ==
  ASSUME NEW c \in Content, NEW k \in Key, NEW v \in Value \cup {NoVal}
  PROVE  [c EXCEPT ![k] = v] \in Content
  BY DEF Content

LEMMA InitInv == Init => Inv
  BY DEF Init, Inv, TypeOK, Content, ViewIsAccepted, NothingAwaits

\* The inductive step, one action at a time.
LEMMA NextInv == Inv /\ [Next]_vars => Inv'
<1> SUFFICES ASSUME Inv, [Next]_vars PROVE Inv'
  OBVIOUS
<1> USE DEF Inv, TypeOK, ViewIsAccepted, NothingAwaits
<1>1. ASSUME NEW flag \in {"MDB_WRITEMAP", "MDB_RDONLY"}, Open(flag) PROVE Inv'
  BY <1>1 DEF Open, TxnBegin
<1>2. CASE Begin
  BY <1>2 DEF Begin, Ensure, TxnBegin
<1>3. ASSUME NEW k \in Key, Get(k) PROVE Inv'
  BY <1>3 DEF Get, Ensure, TxnBegin
<1>4. ASSUME NEW k \in Key, NEW v \in Value, Put(k, v) PROVE Inv'
  <2>1. CASE CanWrite /\ Written("Put", k, v)
    BY <1>4, <2>1, ContentUpdate DEF Put, CanWrite, Written
  <2>2. CASE Refused("Put", k, v)
    BY <1>4, <2>2 DEF Put, Refused
  <2> QED BY <1>4, <2>1, <2>2 DEF Put
<1>5. ASSUME NEW k \in Key, Del(k) PROVE Inv'
  <2>1. CASE CanWrite /\ Written("Del", k, NoVal)
    BY <1>5, <2>1, ContentUpdate DEF Del, CanWrite, Written
  <2>2. CASE Refused("Del", k, NoVal)
    BY <1>5, <2>2 DEF Del, Refused
  <2> QED BY <1>5, <2>1, <2>2 DEF Del
<1>6. ASSUME NEW k \in Key, NEW v \in Value, Filter(k, v) PROVE Inv'
  <2>1. [accepted EXCEPT ![k] = v] \in Content /\ [view EXCEPT ![k] = v] \in Content
    BY ContentUpdate
  <2>2. /\ FilterWrites /\ m_pTransaction = "open"
        /\ UNCHANGED <<up, m_flag, m_dOperator, file>>
        /\ accepted' = [accepted EXCEPT ![k] = v]
    BY <1>6 DEF Filter, CanWrite
  <2>3. CASE m_pTransaction' = "open" /\ view' = [view EXCEPT ![k] = v]
    BY <2>1, <2>2, <2>3
  <2>4. CASE m_pTransaction' = "error" /\ UNCHANGED view
    BY <2>1, <2>2, <2>4
  <2> QED BY <1>6, <2>3, <2>4 DEF Filter
<1>7. CASE Commit
  BY <1>7 DEF Commit, TxnCommit
<1>8. CASE Close
  BY <1>8 DEF Close, Stopped
<1>9. CASE Crash
  BY <1>9 DEF Crash, Stopped
<1>10. CASE UNCHANGED vars
  BY <1>10 DEF vars
<1> QED
  BY <1>1, <1>2, <1>3, <1>4, <1>5, <1>6, <1>7, <1>8, <1>9, <1>10 DEF Next

\* The flag, the transaction and the file agree in every reachable state
\* (m_dOperator and m_pTransaction of CDatabase).
THEOREM Invariance == Spec => []Inv
<1>1. Init => Inv
  BY InitInv
<1>2. Inv /\ [Next]_vars => Inv'
  BY NextInv
<1> QED BY <1>1, <1>2, PTL DEF Spec

-------------------------------------------------------------------------------
\* When no Filter callback returns a new value, NORMAL always means that the open
\* transaction has nothing to commit, as the comments on DATABASE_OPERATOR say.
THEOREM NormalIsClean ==
  ASSUME ~FilterWrites
  PROVE  Spec => []NormalMeansClean
<1>1. Inv => NormalMeansClean
  BY DEF Inv, NormalMeansClean, ViewIsAccepted, NothingAwaits
<1> QED BY <1>1, Invariance, PTL

\* When no Filter callback returns a new value, a Commit that returns true has
\* made durable every write that returned true.
THEOREM CommitIsDurable ==
  ASSUME ~FilterWrites
  PROVE  Spec => []CommitMeansDurable
<1>1. Init => CommitMeansDurable
  BY DEF Init, CommitMeansDurable, NoAnswer, Answer
<1>2. Inv /\ CommitMeansDurable /\ [Next]_vars => CommitMeansDurable'
  <2> SUFFICES ASSUME Inv, CommitMeansDurable, [Next]_vars
               PROVE  CommitMeansDurable'
    OBVIOUS
  <2> USE DEF CommitMeansDurable, Answer, NoAnswer
  <2>1. CASE Commit
    BY <2>1 DEF Commit, TxnCommit, Inv, ViewIsAccepted, NothingAwaits
  <2>2. CASE \/ \E flag \in {"MDB_WRITEMAP", "MDB_RDONLY"} : Open(flag)
             \/ Begin \/ Close \/ Crash
    BY <2>2 DEF Open, Begin, Close, Crash, Stopped
  <2>3. CASE \E k \in Key : Get(k) \/ Del(k)
    BY <2>3 DEF Get, Del, Written, Refused
  <2>4. CASE \E k \in Key, v \in Value : Put(k, v) \/ Filter(k, v)
    BY <2>4 DEF Put, Filter, Written, Refused
  <2>5. CASE UNCHANGED vars
    BY <2>5 DEF vars
  <2> QED BY <2>1, <2>2, <2>3, <2>4, <2>5 DEF Next
<1> QED BY <1>1, <1>2, Invariance, PTL DEF Spec

\* A Get that succeeds returns the last value accepted for its key.
THEOREM ReadsAreCurrent == Spec => []ReadYourWrites
<1>1. Init => ReadYourWrites
  BY DEF Init, ReadYourWrites, NoAnswer, Answer
<1>2. Inv /\ Inv' /\ ReadYourWrites /\ [Next]_vars => ReadYourWrites'
  <2> SUFFICES ASSUME Inv, Inv', ReadYourWrites, [Next]_vars
               PROVE  ReadYourWrites'
    OBVIOUS
  <2> USE DEF ReadYourWrites, Answer, NoAnswer
  <2>1. ASSUME NEW k \in Key, Get(k) PROVE ReadYourWrites'
    BY <2>1 DEF Get, Inv, ViewIsAccepted
  <2>2. CASE \/ \E flag \in {"MDB_WRITEMAP", "MDB_RDONLY"} : Open(flag)
             \/ Begin \/ Commit \/ Close \/ Crash
    BY <2>2 DEF Open, Begin, Commit, Close, Crash, Stopped
  <2>3. CASE \E k \in Key : Del(k)
    BY <2>3 DEF Del, Written, Refused
  <2>4. CASE \E k \in Key, v \in Value : Put(k, v) \/ Filter(k, v)
    BY <2>4 DEF Put, Filter, Written, Refused
  <2>5. CASE UNCHANGED vars
    BY <2>5 DEF vars
  <2> QED BY <2>1, <2>2, <2>3, <2>4, <2>5 DEF Next
<1> QED BY <1>1, <1>2, Invariance, PTL DEF Spec

\* The file only ever goes from its old content to the whole accepted content.
THEOREM FileIsAtomic == Spec => AllOrNothing
<1>1. Inv /\ [Next]_vars => [file' \in {file, accepted}]_vars
  <2> SUFFICES ASSUME Inv, Next PROVE file' \in {file, accepted}
    OBVIOUS
  <2>1. CASE Commit
    BY <2>1 DEF Commit, TxnCommit, Inv, ViewIsAccepted
  <2>2. CASE Close
    BY <2>2 DEF Close, Inv, ViewIsAccepted
  <2>3. CASE UNCHANGED file
    BY <2>3
  <2> QED BY <2>1, <2>2, <2>3 DEF Next, Open, Begin, Get, Del, Put, Filter, Crash
<1> QED BY <1>1, Invariance, PTL DEF Spec, AllOrNothing

\* After LMDB has refused the transaction for an error, nothing is written, and
\* nothing is accepted, until the process restarts.
THEOREM ErrorIsFinal == Spec => ErrorUntilRestart
<1> DEFINE Final == m_pTransaction = "error" /\ up'
                      => /\ m_pTransaction' = "error"
                         /\ UNCHANGED <<file, accepted, m_dOperator>>
<1>1. Inv /\ [Next]_vars => [Final]_vars
  <2> SUFFICES ASSUME Inv, Next, m_pTransaction = "error", up'
               PROVE  /\ m_pTransaction' = "error"
                      /\ UNCHANGED <<file, accepted, m_dOperator>>
    OBVIOUS
  <2>1. up
    BY DEF Inv
  <2>2. CASE Begin \/ Commit
    BY <2>2 DEF Begin, Ensure, Commit, TxnCommit
  <2>3. CASE \E k \in Key : Get(k) \/ Del(k)
    BY <2>3 DEF Get, Ensure, Del, CanWrite, Refused
  <2>4. CASE \E k \in Key, v \in Value : Put(k, v) \/ Filter(k, v)
    BY <2>4 DEF Put, Filter, CanWrite, Refused
  <2> QED BY <2>1, <2>2, <2>3, <2>4 DEF Next, Open, Close, Crash, Stopped
<1> QED BY <1>1, Invariance, PTL DEF Spec, ErrorUntilRestart

-------------------------------------------------------------------------------
LEMMA InitRefines == Init => Contract!Init
  BY DEF Init, Contract!Init, NoAnswer, Answer, Contract!NoAnswer, Contract!Answer

\* Every step of CDatabase is a step of the contract.
LEMMA StepRefines ==
  ASSUME ~FilterWrites, Inv, Inv', [Next]_vars
  PROVE  [Contract!Next]_(Contract!abstractVars)
<1> USE DEF Answer, NoAnswer, Contract!Answer, Contract!NoAnswer
<1>1. CASE (\E flag \in {"MDB_WRITEMAP", "MDB_RDONLY"} : Open(flag)) \/ Begin
  <2>1. Contract!Quiet
    BY <1>1 DEF Open, Begin, Contract!Quiet
  <2> QED BY <2>1 DEF Contract!Next
<1>2. ASSUME NEW k \in Key, Get(k) PROVE Contract!Next
  <2>1. Contract!Read(k)
    BY <1>2 DEF Get, Inv, ViewIsAccepted, Contract!Read
  <2> QED BY <2>1 DEF Contract!Next
<1>3. ASSUME NEW k \in Key, Del(k) PROVE Contract!Next
  <2>1. Contract!Write("Del", k, NoVal)
    BY <1>3 DEF Del, Written, Refused, Contract!Write
  <2> QED BY <2>1 DEF Contract!Next
<1>4. ASSUME NEW k \in Key, NEW v \in Value, Put(k, v) PROVE Contract!Next
  <2>1. Contract!Write("Put", k, v)
    BY <1>4 DEF Put, Written, Refused, Contract!Write
  <2> QED BY <2>1 DEF Contract!Next
<1>5. CASE Commit
  <2>1. Contract!Sync
    BY <1>5 DEF Commit, TxnCommit, Inv, ViewIsAccepted, NothingAwaits, Contract!Sync
  <2> QED BY <2>1 DEF Contract!Next
<1>6. CASE Close \/ Crash
  <2>1. Contract!Stop
    BY <1>6 DEF Close, Crash, Stopped, Inv, ViewIsAccepted, Contract!Stop
  <2> QED BY <2>1 DEF Contract!Next
<1>7. ASSUME NEW k \in Key, NEW v \in Value, Filter(k, v) PROVE FALSE
  BY <1>7 DEF Filter
<1>8. CASE UNCHANGED vars
  BY <1>8 DEF vars, Contract!abstractVars
<1> QED
  BY <1>1, <1>2, <1>3, <1>4, <1>5, <1>6, <1>7, <1>8 DEF Next

\* CDatabase implements the durable store its callers rely on.
THEOREM Refinement ==
  ASSUME ~FilterWrites
  PROVE  Spec => KeepsContract
<1>1. Init => Contract!Init
  BY InitRefines
<1>2. Inv /\ Inv' /\ [Next]_vars => [Contract!Next]_(Contract!abstractVars)
  BY StepRefines
<1> QED BY <1>1, <1>2, Invariance, PTL DEF Spec, KeepsContract, Contract!Spec
===============================================================================
