-------------------------------- MODULE Kernel --------------------------------
(***************************************************************************)
(* The holder of the addon in the worker (src/public/Kernel.js, init and   *)
(* release of civetkern/src/interface.cpp), the configuration the renderer *)
(* writes (CivetConfig.ts, PageMenu.vue, Guider.vue), and the calls of an  *)
(* import (ImageService.ts) on top of SchemaUpgrade.                       *)
(*                                                                         *)
(* Every call of the worker goes through kernel(), without a name.  Its    *)
(* `current` is the default library when the worker was started: if there  *)
(* was one, undefined is another name, and the call releases the addon,    *)
(* reads the configuration again and opens the default library; if there   *)
(* was none, the first call that finds a library opens it for good.        *)
(***************************************************************************)
EXTENDS SchemaUpgrade

CONSTANTS
  OldLibrary,   \* the libraries written by the program of schema 1
  OldImage      \* the image such a library holds

ASSUME KernelAssumption ==
  /\ OldLibrary \subseteq Library
  /\ OldImage \in Image
  /\ MaxFile > 0

VARIABLES
  default,   \* app.default of cfg.json; None before the first library
  current,   \* `current` of Kernel.js
  _isInit,   \* `_isInit` of Kernel.js
  call,      \* the call under way
  stage,     \* for each image, what its import has come to
  id,        \* for each image, the id it was given
  born,      \* for each image, the library the id was generated in
  saved      \* history: for each library, the images addFiles has answered for

calls == <<default, current, _isInit, call>>
imports == <<stage, id, born, saved>>
vars == <<storage, calls, imports>>

Stage == {"new", "held", "added", "done", "lost"}
Op == {"none", "read", "generateFilesID", "addFiles", "addMeta"}
Call(op, g, l) == [op |-> op, image |-> g, default |-> l]
NoCall == Call("none", NoImage, None)

OldDatabase ==
  [Empty EXCEPT !.version = 1, !.lastID = 1, !.text = {1},
                !.rows = [NoRows EXCEPT ![1] = OldImage]]

Init ==
  /\ file = [l \in Library |-> IF l \in OldLibrary THEN OldDatabase ELSE Missing]
  /\ tmp = [l \in Library |-> Missing]
  /\ phase = "idle"
  /\ addon = None
  /\ view = Missing
  /\ suffered = [l \in Library |-> {}]
  /\ default \in Library \cup {None}
  /\ current = default
  /\ _isInit = FALSE
  /\ call = NoCall
  /\ stage = [g \in Image |-> IF g = OldImage THEN "done" ELSE "new"]
  /\ id = [g \in Image |-> 0]
  /\ born = [g \in Image |-> None]
  /\ saved = [l \in Library |-> {g \in {OldImage} : l \in OldLibrary}]

-------------------------------------------------------------------------------
\* ~CAxios: every table is closed with a commit.
Released == IF addon = None THEN file ELSE [file EXCEPT ![addon] = view]

\* Mutant of kernel: the addon is not released; its init then answers true at once.
MutantKernel ==
  \/ /\ addon = None /\ default # None
     /\ OpenOn(default, file)
     /\ _isInit' = TRUE
  \/ /\ addon # None
     /\ phase' = "ready"
     /\ UNCHANGED <<file, addon, view, _isInit>>

\* kernel(): undefined # current, so release and _init; or _init when it has not
\* been called; or the addon as it is.  Without a library _init answers false, and
\* the handler throws.
kernel ==
  \/ /\ current # None
     /\ OpenOn(default, Released)
     /\ _isInit' = TRUE
  \/ /\ current = None /\ ~_isInit /\ default # None
     /\ OpenOn(default, file)
     /\ _isInit' = TRUE
  \/ /\ current = None /\ _isInit
     /\ phase' = "ready"
     /\ UNCHANGED <<file, addon, view, _isInit>>

\* A method of the exported object: kernel(), then (when it returns) the addon's.
Begin(op, g) ==
  /\ phase = "idle"
  /\ kernel
  /\ call' = Call(op, g, default)
  /\ UNCHANGED <<tmp, suffered, default, current, imports>>

\* Any call that reads, and that of reInitDB, which is kernel() alone.
BeginRead == Begin("read", NoImage)

\* The parsers of an import (ImageService.ts): generateFilesID and addFiles without
\* a pause; addMeta when the colours have been clustered.
BeginImport(g) ==
  \/ stage[g] = "new" /\ Begin("generateFilesID", g)
  \/ stage[g] = "held" /\ Begin("addFiles", g)
  \/ stage[g] = "added" /\ Begin("addMeta", g)

\* WRITE_END, on the open library.
Save(d) == view' = d /\ file' = [file EXCEPT ![addon] = d]

\* Mutant of GenerateNextFilesID: the id is the counter before it is increased.
MutantGenerateNextFilesID(g) ==
  /\ view.lastID < MaxFile
  /\ Save([view EXCEPT !.lastID = @ + 1])
  /\ stage' = [stage EXCEPT ![g] = "held"]
  /\ id' = [id EXCEPT ![g] = IF view.lastID = 0 THEN 1 ELSE view.lastID]
  /\ born' = [born EXCEPT ![g] = addon]
  /\ UNCHANGED <<saved, suffered>>

GenerateNextFilesID(g) ==
  /\ view.lastID < MaxFile
  /\ Save([view EXCEPT !.lastID = @ + 1])
  /\ stage' = [stage EXCEPT ![g] = "held"]
  /\ id' = [id EXCEPT ![g] = view.lastID + 1]
  /\ born' = [born EXCEPT ![g] = addon]
  /\ UNCHANGED <<saved, suffered>>

\* An import that goes on in another library than that it has its id from.
Crossing(g) ==
  suffered' = [suffered EXCEPT ![addon] = @ \cup {a \in {"crossed"} : addon # born[g]}]

\* AddFile: the row of the id is written, whatever it held.
AddFiles(g) ==
  /\ Save([view EXCEPT !.rows[id[g]] = g])
  /\ stage' = [stage EXCEPT ![g] = "added"]
  /\ saved' = [saved EXCEPT ![addon] = @ \cup {g}]
  /\ Crossing(g)
  /\ UNCHANGED <<id, born>>

\* AddMeta: for a file there is (mapExistFiles), whichever it is.
AddMeta(g) ==
  /\ IF view.rows[id[g]] # NoImage
     THEN Save([view EXCEPT !.color[id[g]] = g])
     ELSE UNCHANGED <<view, file>>
  /\ stage' = [stage EXCEPT ![g] = "done"]
  /\ Crossing(g)
  /\ UNCHANGED <<id, born, saved>>

\* The method of the addon, when kernel() has returned.
Perform ==
  /\ phase = "ready"
  /\ \/ call.op = "read" /\ UNCHANGED <<file, view, suffered, imports>>
     \/ call.op = "generateFilesID" /\ GenerateNextFilesID(call.image)
     \/ call.op = "addFiles" /\ AddFiles(call.image)
     \/ call.op = "addMeta" /\ AddMeta(call.image)
  /\ phase' = "idle"
  /\ call' = NoCall
  /\ UNCHANGED <<tmp, addon, default, current, _isInit>>

\* onSwitch and onStartCivet of the renderer: the configuration is written, and a
\* reInitDB sent.
Switch(l) ==
  /\ default # l
  /\ default' = l
  /\ UNCHANGED <<storage, current, _isInit, call, imports>>

Upgrade ==
  /\ Copy \/ Remove \/ Rename \/ Convert
  /\ UNCHANGED <<calls, imports>>

\* The worker process ends at any moment; its imports end with it.
Crash ==
  /\ Stopped
  /\ call' = NoCall
  /\ stage' = [g \in Image |-> IF stage[g] \in {"held", "added"} THEN "lost" ELSE stage[g]]
  /\ UNCHANGED <<default, current, _isInit, id, born, saved>>

\* Kernel.js is loaded by the next worker.
Start ==
  /\ phase = "down"
  /\ phase' = "idle"
  /\ current' = default
  /\ _isInit' = FALSE
  /\ UNCHANGED <<file, tmp, addon, view, suffered, default, call, imports>>

Next ==
  \/ BeginRead
  \/ \E g \in Image : BeginImport(g)
  \/ Perform
  \/ \E l \in Library : Switch(l)
  \/ Upgrade
  \/ Crash
  \/ Start

Spec == Init /\ [][Next]_vars
-------------------------------------------------------------------------------
TypeOK ==
  /\ file \in [Library -> Database]
  /\ tmp \in [Library -> Database]
  /\ phase \in Phase
  /\ addon \in Library \cup {None}
  /\ view \in Database
  /\ suffered \in [Library -> SUBSET Accident]
  /\ default \in Library \cup {None}
  /\ current \in Library \cup {None}
  /\ _isInit \in BOOLEAN
  /\ call \in [op : Op, image : Image \cup {NoImage}, default : Library \cup {None}]
  /\ stage \in [Image -> Stage]
  /\ id \in [Image -> 0 .. MaxFile]
  /\ born \in [Image -> Library \cup {None}]
  /\ saved \in [Library -> SUBSET Image]

\* The version of a database tells the format of all its rows, in the file, in the
\* copy and after a crash at any point: a reader never meets a row in the other
\* format, and the upgrade never parses one it has already written.
FormatAgrees(d) ==
  /\ d.version = 1 => d.text = RowsOf(d)
  /\ d.version # 1 => d.text = {}

VersionTellsFormat ==
  /\ \A l \in Library : FormatAgrees(file[l]) /\ FormatAgrees(tmp[l])
  /\ phase = "ready" => view.version = SCHEMA_VERSION /\ view.text = {}

\* Types, and versions that can be trusted.
Inv == TypeOK /\ VersionTellsFormat

\* An image the worker has answered for is in the file of its library or in the copy
\* beside it, wherever the worker ended, unless the copy was cut or an import of
\* another library wrote here.
KeptSomewhere ==
  \A l \in Library :
    suffered[l] \cap {"cut", "crossed"} = {}
      => saved[l] \subseteq Images(file[l]) \cup Images(tmp[l])

\* A call reads all the images its library was ever given, of both schemas, unless
\* an accident has befallen it.
ServedWhole ==
  phase = "ready" /\ suffered[addon] = {} => saved[addon] \subseteq Images(view)

\* Colours are recorded with the image they are of, although they come long after
\* its row and name it by a number, unless an import of another library came by.
ColorIsOwn ==
  \A l \in Library : "crossed" \notin suffered[l] =>
    \A i \in FileID : file[l].color[i] \in {NoImage, file[l].rows[i]}

\* A worker that was started with a library answers each call from the library that
\* was the default when the call began.
CallsReachDefault ==
  phase = "ready" /\ current # None => addon = call.default
===============================================================================
