------------------------------- MODULE MCKernel -------------------------------
(***************************************************************************)
(* Kernel with a library of the old schema, which holds one image, and a   *)
(* new one; two images to import, so that one is read while the other is   *)
(* under way, and ids enough for both in either library.                   *)
(***************************************************************************)
EXTENDS Kernel
===============================================================================
