----------------------------- MODULE MCClassTree ------------------------------
(***************************************************************************)
(* ClassTree with the hash of the code, on words whose hashes meet: that   *)
(* of <<4, 4>> is that of <<12>>, that of <<4, 12>> is that of <<4>>, and  *)
(* that of <<4, 12, 4>> is 0.                                              *)
(***************************************************************************)
EXTENDS ClassTree, TLC

Code == INSTANCE ClassHash

\* The hashes of the paths, computed once: TLC evaluates the operands of @@.
HashTable == <<>> @@ [p \in Path |-> Code!encode(p)]

ASSUME HashesMeet ==
  /\ Code!encode(<<4, 4>>) = Code!encode(<<12>>)
  /\ Code!encode(<<4, 12>>) = Code!encode(<<4>>)
  /\ Code!encode(<<4, 12, 4>>) = RootID

MCHash(p) == HashTable[p]
===============================================================================
