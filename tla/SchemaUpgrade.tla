---------------------------- MODULE SchemaUpgrade -----------------------------
(***************************************************************************)
(* The file of a library, from mdb_env_open to the upgrade of its schema:  *)
(* CStorageProxy::TryUpdate (civetkern/src/StorageProxy.cpp) and upgrade   *)
(* (upgrader.cpp, upgrader.h).  A file of schema 1 is copied beside        *)
(* itself, closed, removed, replaced by the copy, opened again and         *)
(* converted there.  The result of the copy is not looked at, nor are      *)
(* those of the removal and the renaming.                                  *)
(*                                                                         *)
(* A file is what its last commit left; its FILESNAP rows are text (JSON)  *)
(* under schema 1 and CBOR under schema 2.                                 *)
(***************************************************************************)
EXTENDS Integers

CONSTANTS
  Library,   \* the libraries the user has, each a directory of its own
  None,      \* no library
  Image,     \* the images there are to import
  NoImage,   \* the absence of a row
  MaxFile    \* bound: the largest file id

ASSUME UpgradeAssumption ==
  /\ None \notin Library
  /\ NoImage \notin Image
  /\ MaxFile \in Nat

VARIABLES
  file,      \* for each library, the file under its name
  tmp,       \* for each library, the file under its name and ".tmp"
  phase,     \* what the worker is about to do
  addon,     \* the library that is open
  view,      \* what the transaction on it reads
  suffered   \* history: for each library, the accidents it has met

storage == <<file, tmp, phase, addon, view, suffered>>

FileID == 1 .. MaxFile
SCHEMA_VERSION == 2

Phase == {"down", "idle", "copy", "remove", "rename", "convert", "stuck", "ready"}

\* "cut": the copy failed or was interrupted.  "gap": the worker ended after the
\* removal and before the renaming.  "crossed": an import went on in this library
\* that had begun in another.
Accident == {"cut", "gap", "crossed"}

Database ==
  [ state : {"missing", "partial", "whole"},
    version : 0 .. SCHEMA_VERSION,         \* 0: there is no version row
    lastID : 0 .. MaxFile,
    rows : [FileID -> Image \cup {NoImage}],
    color : [FileID -> Image \cup {NoImage}],  \* the image a row's colours are of
    text : SUBSET FileID ]                 \* the FILESNAP rows that are JSON

NoRows == [i \in FileID |-> NoImage]

Lost(state) ==
  [state |-> state, version |-> 0, lastID |-> 0, rows |-> NoRows, color |-> NoRows,
   text |-> {}]

Missing == Lost("missing")
Partial == Lost("partial")
Empty == Lost("whole")

Images(d) == {d.rows[i] : i \in FileID} \ {NoImage}
RowsOf(d) == {i \in FileID : d.rows[i] # NoImage}

-------------------------------------------------------------------------------
\* CDatabase::CDatabase creates the file that is missing.
Created(d) == IF d.state = "missing" THEN Empty ELSE d

\* DBManager::DBManager on library l, the files being F: a file without a version is
\* stamped with that of the program, in the transaction; one of another version is
\* upgraded.  What opening a part of a copy does is not defined: the worker is not
\* said to do anything then but to end.
OpenOn(l, F) ==
  LET d == Created(F[l])
  IN /\ addon' = l
     /\ file' = [F EXCEPT ![l] = d]
     /\ \/ d.state = "partial" /\ phase' = "stuck" /\ view' = d
        \/ /\ d.state = "whole" /\ d.version \in {0, SCHEMA_VERSION}
           /\ phase' = "ready"
           /\ view' = [d EXCEPT !.version = SCHEMA_VERSION]
        \/ /\ d.state = "whole" /\ d.version \notin {0, SCHEMA_VERSION}
           /\ phase' = "copy"
           /\ view' = d

\* What mdb_env_copy2 can leave: it creates the file and refuses one that exists.
Copies(l) ==
  IF tmp[l].state = "missing" THEN {file[l], Missing, Partial} ELSE {tmp[l]}

\* Copy2.  Whatever it answers, TryUpdate goes on.
Copy ==
  /\ phase = "copy"
  /\ \E c \in Copies(addon) :
       /\ tmp' = [tmp EXCEPT ![addon] = c]
       /\ suffered' = [suffered EXCEPT ![addon] =
                         @ \cup {a \in {"cut"} : c.state # "whole"}]
  /\ phase' = "remove"
  /\ UNCHANGED <<file, addon, view>>

\* ReleaseCurrentDB, and the removal in replace (util.cpp).
Remove ==
  /\ phase = "remove"
  /\ file' = [file EXCEPT ![addon] = Missing]
  /\ phase' = "rename"
  /\ UNCHANGED <<tmp, addon, view, suffered>>

\* Mutant of Rename: the copy stays where it is.
MutantRename ==
  /\ phase = "rename"
  /\ phase' = "convert"
  /\ UNCHANGED <<file, tmp, addon, view, suffered>>

\* The renaming in replace; with no copy to rename, nothing happens.
Rename ==
  /\ phase = "rename"
  /\ file' = [file EXCEPT ![addon] = tmp[addon]]
  /\ tmp' = [tmp EXCEPT ![addon] = Missing]
  /\ phase' = "convert"
  /\ UNCHANGED <<addon, view, suffered>>

\* Mutant of Converted: upgrade without its Put of the version, which is what sets
\* m_dOperator: Filter does not, so that Commit does nothing.
MutantConverted(d) ==
  /\ view' = [d EXCEPT !.text = {}]
  /\ UNCHANGED file

\* upgrade: every row is parsed and written again, the version is put, and the
\* transaction committed.
Converted(d) ==
  /\ view' = [d EXCEPT !.text = {}, !.version = SCHEMA_VERSION]
  /\ file' = [file EXCEPT ![addon] = view']

\* The new CDatabase, and upgrade.  A row that is CBOR already would make
\* json::parse throw: there must be none.
Convert ==
  LET d == Created(file[addon])
  IN /\ phase = "convert"
     /\ \/ d.state = "partial" /\ phase' = "stuck" /\ UNCHANGED <<file, view>>
        \/ /\ d.state = "whole"
           /\ d.text = RowsOf(d)
           /\ Converted(d)
           /\ phase' = "ready"
     /\ UNCHANGED <<tmp, addon, suffered>>

\* The worker ends: in the middle of the copy it leaves a part of it or nothing;
\* between the removal and the renaming, the copy under its own name.
Stopped ==
  /\ phase # "down"
  /\ phase' = "down"
  /\ addon' = None
  /\ view' = Missing
  /\ tmp' \in {tmp} \cup
       {[tmp EXCEPT ![l] = Partial] :
          l \in {l \in Library : l = addon /\ phase = "copy" /\ tmp[l].state = "missing"}}
  /\ suffered' =
       [l \in Library |->
          suffered[l] \cup {a \in {"cut"} : tmp'[l] # tmp[l]}
                      \cup {a \in {"gap"} : l = addon /\ phase = "rename"}]
  /\ UNCHANGED file
===============================================================================
