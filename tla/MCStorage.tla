------------------------------ MODULE MCStorage -------------------------------
(***************************************************************************)
(* Storage on two keys and two values: enough for a transaction to hold    *)
(* two writes of which one is refused, and for a row to be overwritten.    *)
(***************************************************************************)
EXTENDS Storage
===============================================================================
