---------------------------- MODULE MCClientCache -----------------------------
(***************************************************************************)
(* ClientCache with two libraries of two ids each: the ids meet, and there *)
(* is a file that was there before the start and one to import in either.  *)
(***************************************************************************)
EXTENDS ClientCache

Symmetry == Permutations(Library)

\* Bound: after a query and another action have overlapped, which stays so, both
\* properties claim nothing more.
StillClaimed == "query" \in raced => raced = {"query"}
===============================================================================
