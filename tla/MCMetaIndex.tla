----------------------------- MODULE MCMetaIndex ------------------------------
(***************************************************************************)
(* MetaIndex with two files, texts whose match table is there from the     *)
(* start and colours whose table the first import makes, and the queries   *)
(* the interface and the tests make of them, of one condition and of two.  *)
(***************************************************************************)
EXTENDS MetaIndex

Compare(n, op, array, values) ==
  [name |-> n, op |-> op, array |-> array, values |-> values]

Conditions ==
  {Compare(n, op, FALSE, <<v>>) : n \in Name, op \in {"eq", "gt", "near"}, v \in Value}
  \cup {Compare(n, "eq", TRUE, s) : n \in Name, s \in {<<>>, <<1>>, <<1, 3>>}}

MCQueries == UNION {[1 .. n -> Conditions] : n \in 1 .. 2}
===============================================================================
