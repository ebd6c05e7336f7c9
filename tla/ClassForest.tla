----------------------------- MODULE ClassForest ------------------------------
(***************************************************************************)
(* What the users of classes rely on: a forest of class paths, each with   *)
(* an id that it keeps for as long as it exists, by whatever name (the     *)
(* comment on TABLE_CLASS2HASH, civetkern/include/Table.h), and with the   *)
(* files filed under it.  ClassTree is shown to implement this.            *)
(***************************************************************************)
EXTENDS Integers, Sequences

CONSTANTS
  Word,   \* what a component of a path can be
  File,   \* the files there are
  Depth   \* bound: the longest path

VARIABLES
  name,   \* the path of each id
  files   \* the files filed under each id

vars == <<name, files>>

Path == UNION {[1 .. n -> Word] : n \in 1 .. Depth}

Paths == {name[i] : i \in DOMAIN name}

Under(p, q) == Len(p) <= Len(q) /\ SubSeq(q, 1, Len(p)) = p

Init == name = <<>> /\ files = <<>>

\* A class is added below one there is, or at the top, with the files F and no others.
Add(p, F) ==
  /\ p \notin Paths
  /\ Len(p) = 1 \/ SubSeq(p, 1, Len(p) - 1) \in Paths
  /\ \E i \in DOMAIN name' \ DOMAIN name :
       /\ name' = [j \in DOMAIN name \cup {i} |-> IF j = i THEN p ELSE name[j]]
       /\ files' = [j \in DOMAIN name \cup {i} |-> IF j = i THEN F ELSE files[j]]

\* Files are put into a class.
Put(p, F) ==
  /\ files' = [i \in DOMAIN name |-> IF name[i] = p THEN files[i] \cup F ELSE files[i]]
  /\ UNCHANGED name

\* Files are taken out of a class.
Take(p, F) ==
  /\ files' = [i \in DOMAIN name |-> IF name[i] = p THEN files[i] \ F ELSE files[i]]
  /\ UNCHANGED name

\* A class is given another last word: every class below it follows.
Rename(p, w) ==
  LET q == [p EXCEPT ![Len(p)] = w] IN
    /\ p \in Paths
    /\ q \notin Paths
    /\ name' = [i \in DOMAIN name |->
                  IF Under(p, name[i])
                  THEN q \o SubSeq(name[i], Len(p) + 1, Len(name[i]))
                  ELSE name[i]]
    /\ UNCHANGED files

\* A class goes with every class below it; the files stay in no class of these.
Remove(p) ==
  LET left == {i \in DOMAIN name : ~ Under(p, name[i])} IN
    /\ p \in Paths
    /\ name' = [i \in left |-> name[i]]
    /\ files' = [i \in left |-> files[i]]

Next ==
  \E p \in Path :
    \/ \E F \in SUBSET File : Add(p, F) \/ Put(p, F) \/ Take(p, F)
    \/ \E w \in Word : Rename(p, w)
    \/ Remove(p)

Spec == Init /\ [][Next]_vars
===============================================================================
