----------------------------- MODULE MCMessaging ------------------------------
(***************************************************************************)
(* Messaging on two files and up to three requests: enough for a reply to  *)
(* be posted, merged or dropped while another waits in the Map, in the     *)
(* channel and in the renderer, and for a directory to have a file behind  *)
(* the one that fails.                                                     *)
(***************************************************************************)
EXTENDS Messaging

MCType == Served \cup {Images}
MCItem == File \cup (1 .. MaxRequest)

\* Bound: the tasks of posts that come before the first of them runs.
FewTasks == immediates <= 2
===============================================================================
