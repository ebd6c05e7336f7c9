----------------------------- MODULE KernelProofs ------------------------------
(***************************************************************************)
(* Proofs about Kernel, for any libraries and images and any number of ids *)
(* in each.  The first part is about the worker: what is open, what its    *)
(* transaction reads, and the format of the rows.                          *)
(***************************************************************************)
EXTENDS Kernel, TLAPS

Opened == {"copy", "remove", "rename", "convert", "stuck", "ready"}

SameContent(d, e) == d.rows = e.rows /\ d.color = e.color /\ d.lastID = e.lastID

WellFormed(d) == FormatAgrees(d) /\ (d.state = "missing" => d = Missing)

\* Every database there is, and the one that is read, is in the format of its version.
Formats ==
  /\ \A l \in Library : WellFormed(file[l]) /\ WellFormed(tmp[l])
  /\ WellFormed(view)

\* What the worker has open in each phase.
WorkerAgrees ==
  /\ phase \in Opened \/ (phase = "idle" /\ _isInit) => addon \in Library
  /\ phase = "down" => addon = None
  /\ current # None => default # None
  /\ addon \in Library /\ phase \in {"idle", "ready"}
       => view.version = SCHEMA_VERSION /\ view.text = {}
  /\ addon \in Library /\ phase \in {"idle", "copy", "ready"}
       => SameContent(view, file[addon])
  /\ phase \in {"copy", "remove"}
       => file[addon].version = 1 /\ file[addon].state = "whole"
  /\ phase = "rename" => file[addon] = Missing

\* What the call under way knows of its image and of its library.
CallAgrees ==
  /\ call.op \in {"generateFilesID", "addFiles", "addMeta"} => call.image \in Image
  /\ call.op = "addFiles" => stage[call.image] = "held"
  /\ call.op = "addMeta" => stage[call.image] = "added"
  /\ \A g \in Image : stage[g] \in {"held", "added"} => id[g] \in FileID /\ born[g] \in Library
  /\ phase \in Opened /\ current # None => addon = call.default

\* The inductive invariant of the worker.
WorkerInv == TypeOK /\ Formats /\ WorkerAgrees /\ CallAgrees

-------------------------------------------------------------------------------
LEMMA Constants ==
  /\ None \notin Library /\ NoImage \notin Image
  /\ OldLibrary \subseteq Library /\ OldImage \in Image
  /\ MaxFile \in Nat /\ MaxFile > 0 /\ SCHEMA_VERSION = 2
  BY UpgradeAssumption, KernelAssumption DEF SCHEMA_VERSION

\* The databases without a row.
LEMMA Lacking ==
  ASSUME NEW s \in {"missing", "partial", "whole"}
  PROVE  /\ Lost(s) \in Database
         /\ Lost(s).state = s /\ Lost(s).version = 0 /\ Lost(s).lastID = 0
         /\ Lost(s).rows = NoRows /\ Lost(s).color = NoRows /\ Lost(s).text = {}
         /\ WellFormed(Lost(s))
  BY Constants DEF Lost, Database, NoRows, WellFormed, FormatAgrees, Missing

\* Creating a file that is missing adds no row and no version to it.
LEMMA CreatedIsSame ==
  ASSUME NEW d \in Database, WellFormed(d)
  PROVE  /\ Created(d) \in Database /\ WellFormed(Created(d))
         /\ SameContent(Created(d), d)
         /\ Created(d).version = d.version /\ Created(d).text = d.text
         /\ Created(d).state \in {"partial", "whole"}
<1>1. CASE d.state = "missing"
  <2>1. d = Missing /\ Created(d) = Empty
    BY <1>1 DEF WellFormed, Created
  <2> QED BY <2>1, Lacking DEF Missing, Empty, SameContent
<1>2. CASE d.state # "missing"
  BY <1>2 DEF Created, SameContent, Database
<1> QED BY <1>1, <1>2

\* Opening library l, the files being F, loses nothing of any file.
LEMMA Opens ==
  ASSUME NEW l \in Library, NEW F \in [Library -> Database],
         \A m \in Library : WellFormed(F[m]), OpenOn(l, F)
  PROVE  /\ addon' = l /\ phase' \in {"stuck", "ready", "copy"}
         /\ file' \in [Library -> Database]
         /\ \A m \in Library : /\ WellFormed(file'[m]) /\ SameContent(file'[m], F[m])
                               /\ file'[m].version = F[m].version
         /\ view' \in Database /\ WellFormed(view') /\ SameContent(view', file'[l])
         /\ phase' = "ready" => view'.version = SCHEMA_VERSION /\ view'.text = {}
         /\ phase' = "copy" => file'[l].version = 1 /\ file'[l].state = "whole"
<1> DEFINE d == Created(F[l])
<1>1. /\ d \in Database /\ WellFormed(d) /\ SameContent(d, F[l])
      /\ d.version = F[l].version /\ d.state \in {"partial", "whole"}
  BY CreatedIsSame
<1>2. /\ addon' = l /\ file' = [F EXCEPT ![l] = d]
      /\ \/ d.state = "partial" /\ phase' = "stuck" /\ view' = d
         \/ /\ d.state = "whole" /\ d.version \in {0, SCHEMA_VERSION}
            /\ phase' = "ready" /\ view' = [d EXCEPT !.version = SCHEMA_VERSION]
         \/ /\ d.state = "whole" /\ d.version \notin {0, SCHEMA_VERSION}
            /\ phase' = "copy" /\ view' = d
  BY DEF OpenOn
<1> HIDE DEF d
<1>3. /\ file' \in [Library -> Database] /\ file'[l] = d
      /\ \A m \in Library : m # l => file'[m] = F[m]
  BY <1>1, <1>2
<1>4. \A m \in Library : /\ WellFormed(file'[m]) /\ SameContent(file'[m], F[m])
                         /\ file'[m].version = F[m].version
  BY <1>1, <1>3 DEF SameContent
<1>5. CASE /\ view' = d
           /\ \/ phase' = "stuck"
              \/ phase' = "copy" /\ d.state = "whole" /\ d.version \notin {0, SCHEMA_VERSION}
  <2>1. d.version \in 0 .. 2
    BY <1>1, Constants DEF Database
  <2>2. phase' = "copy" => d.version = 1 /\ d.state = "whole"
    BY <1>5, <2>1, Constants
  <2> QED BY <1>1, <1>2, <1>3, <1>4, <1>5, <2>2 DEF SameContent
<1>6. CASE /\ d.version \in {0, SCHEMA_VERSION} /\ phase' = "ready" /\ d.state = "whole"
           /\ view' = [d EXCEPT !.version = SCHEMA_VERSION]
  <2>1. /\ view' \in Database /\ view'.version = SCHEMA_VERSION /\ view'.text = d.text
        /\ view'.rows = d.rows /\ view'.color = d.color /\ view'.lastID = d.lastID
        /\ view'.state = "whole"
    BY <1>1, <1>6, Constants DEF Database
  <2>2. d.text = {}
    BY <1>1, <1>6, Constants DEF WellFormed, FormatAgrees
  <2>3. WellFormed(view')
    BY <2>1, <2>2, Constants DEF WellFormed, FormatAgrees
  <2> QED BY <1>2, <1>3, <1>4, <1>6, <2>1, <2>2, <2>3 DEF SameContent
<1> QED BY <1>2, <1>5, <1>6

\* What ~CAxios commits before the next library is opened is a version at most.
LEMMA ReleasedIsSame ==
  ASSUME WorkerInv, phase = "idle"
  PROVE  /\ Released \in [Library -> Database]
         /\ \A m \in Library :
              /\ WellFormed(Released[m]) /\ SameContent(Released[m], file[m])
              /\ Released[m].version = 1 => file[m].version = 1
              /\ file[m].version = SCHEMA_VERSION => Released[m].version = SCHEMA_VERSION
<1> USE DEF WorkerInv, TypeOK, Formats, WorkerAgrees
<1>1. CASE addon = None
  BY <1>1 DEF Released, SameContent
<1>2. CASE addon \in Library
  <2>1. /\ Released \in [Library -> Database] /\ Released[addon] = view
        /\ \A m \in Library : m # addon => Released[m] = file[m]
    BY <1>2, Constants DEF Released
  <2> QED BY <1>2, <2>1, Constants DEF SameContent
<1> QED BY <1>1, <1>2

\* Every call begins with what its library held.
LEMMA Begins ==
  ASSUME WorkerInv, NEW op \in Op, NEW g \in Image \cup {NoImage}, Begin(op, g)
  PROVE  /\ addon' \in Library /\ phase' \in {"stuck", "ready", "copy"}
         /\ file' \in [Library -> Database]
         /\ \A m \in Library :
              /\ WellFormed(file'[m]) /\ SameContent(file'[m], file[m])
              /\ file'[m].version = 1 => file[m].version = 1
              /\ file[m].version = SCHEMA_VERSION => file'[m].version = SCHEMA_VERSION
         /\ view' \in Database /\ WellFormed(view') /\ SameContent(view', file'[addon'])
         /\ phase' = "ready" => view'.version = SCHEMA_VERSION /\ view'.text = {}
         /\ phase' = "copy" => file'[addon'].version = 1 /\ file'[addon'].state = "whole"
         /\ _isInit' \in BOOLEAN
         /\ call' = Call(op, g, default)
         /\ current # None => addon' = default
         /\ UNCHANGED <<tmp, suffered, default, current, imports>>
<1>1. /\ phase = "idle" /\ kernel /\ call' = Call(op, g, default)
      /\ UNCHANGED <<tmp, suffered, default, current, imports>>
  BY DEF Begin
<1>2. CASE current # None /\ OpenOn(default, Released) /\ _isInit' = TRUE
  <2>1. default \in Library
    BY <1>2 DEF WorkerInv, WorkerAgrees, TypeOK
  <2> QED BY <1>1, <1>2, <2>1, Opens, ReleasedIsSame DEF SameContent
<1>3. CASE /\ current = None /\ ~_isInit /\ default # None
           /\ OpenOn(default, file) /\ _isInit' = TRUE
  <2>1. /\ default \in Library /\ file \in [Library -> Database]
        /\ \A m \in Library : WellFormed(file[m])
    BY <1>3 DEF WorkerInv, TypeOK, Formats
  <2> QED BY <1>1, <1>3, <2>1, Opens
<1>4. CASE /\ current = None /\ _isInit /\ phase' = "ready"
           /\ UNCHANGED <<file, addon, view, _isInit>>
  BY <1>1, <1>4 DEF WorkerInv, TypeOK, Formats, WorkerAgrees, SameContent
<1> QED BY <1>1, <1>2, <1>3, <1>4 DEF kernel

-------------------------------------------------------------------------------
LEMMA InitWorker == Init => WorkerInv
<1> SUFFICES ASSUME Init PROVE WorkerInv
  OBVIOUS
<1> USE DEF Init
<1>1. /\ OldDatabase \in Database /\ OldDatabase.version = 1 /\ OldDatabase.text = {1}
      /\ OldDatabase.rows = [NoRows EXCEPT ![1] = OldImage]
      /\ OldDatabase.state = "whole"
  <2>1. 1 \in FileID /\ NoRows \in [FileID -> Image \cup {NoImage}]
    BY Constants DEF FileID, NoRows
  <2>2. [NoRows EXCEPT ![1] = OldImage] \in [FileID -> Image \cup {NoImage}]
    BY <2>1, Constants
  <2>3. /\ Empty \in Database /\ Empty.state = "whole"
    BY Lacking DEF Empty
  <2>4. 1 \in 0 .. SCHEMA_VERSION /\ 1 \in 0 .. MaxFile /\ {1} \in SUBSET FileID
    BY <2>1, Constants
  <2>5. OldDatabase \in Database
    BY <2>2, <2>3, <2>4 DEF OldDatabase, Database
  <2>6. /\ OldDatabase.version = 1 /\ OldDatabase.text = {1} /\ OldDatabase.state = "whole"
        /\ OldDatabase.rows = [NoRows EXCEPT ![1] = OldImage]
    BY <2>3 DEF OldDatabase, Database
  <2> QED BY <2>5, <2>6
<1>2. RowsOf(OldDatabase) = {1}
  BY <1>1, Constants DEF RowsOf, NoRows, FileID
<1>3. WellFormed(OldDatabase) /\ WellFormed(Missing) /\ Missing \in Database
  BY <1>1, <1>2, Lacking DEF WellFormed, FormatAgrees, Missing
<1>4. Formats
  BY <1>3 DEF Formats
<1>5. TypeOK
  <2>1. call \in [op : Op, image : Image \cup {NoImage}, default : Library \cup {None}]
    BY DEF Call, NoCall, Op
  <2>2. file \in [Library -> Database] /\ tmp \in [Library -> Database] /\ view \in Database
    BY <1>1, <1>3
  <2>3. /\ saved \in [Library -> SUBSET Image] /\ suffered \in [Library -> SUBSET Accident]
        /\ stage \in [Image -> Stage] /\ id \in [Image -> 0 .. MaxFile]
        /\ born \in [Image -> Library \cup {None}]
    BY Constants DEF Stage
  <2> QED BY <2>1, <2>2, <2>3, Constants DEF TypeOK, Phase
<1>6. WorkerAgrees
  BY Constants DEF WorkerAgrees, Opened
<1>7. CallAgrees
  BY DEF CallAgrees, NoCall, Call, Opened
<1> QED BY <1>4, <1>5, <1>6, <1>7 DEF WorkerInv

LEMMA BeginWorker ==
  ASSUME WorkerInv, NEW op \in Op, NEW g \in Image \cup {NoImage}, Begin(op, g),
         op \in {"generateFilesID", "addFiles", "addMeta"} => g \in Image,
         op = "addFiles" => stage[g] = "held",
         op = "addMeta" => stage[g] = "added"
  PROVE  WorkerInv'
<1>1. TypeOK'
  BY Begins DEF TypeOK, WorkerInv, Phase, Call, imports
<1>2. Formats'
  BY Begins DEF Formats, WorkerInv, TypeOK
<1>3. WorkerAgrees'
  BY Begins DEF WorkerAgrees, WorkerInv, Opened
<1>4. CallAgrees'
  BY Begins DEF CallAgrees, WorkerInv, Call, imports
<1> QED BY <1>1, <1>2, <1>3, <1>4 DEF WorkerInv

\* What a call saves in the open library.
LEMMA Saves ==
  ASSUME WorkerInv, phase = "ready", addon \in Library,
         NEW d \in Database, d.version = SCHEMA_VERSION, d.text = {}, d.state = view.state,
         Save(d)
  PROVE  /\ view' = d /\ file' \in [Library -> Database] /\ file'[addon] = d
         /\ \A m \in Library : m # addon => file'[m] = file[m]
         /\ WellFormed(d)
<1>1. WellFormed(d)
  <2>1. view.state # "missing"
    BY Lacking, Constants DEF WorkerInv, Formats, WorkerAgrees, WellFormed, Missing
  <2> QED BY <2>1, Constants DEF WellFormed, FormatAgrees
<1> QED BY <1>1 DEF Save, WorkerInv, TypeOK

LEMMA UpgradeWorker ==
  ASSUME WorkerInv, Upgrade
  PROVE  WorkerInv'
<1> USE DEF WorkerInv
<1>1. UNCHANGED <<calls, imports>>
  BY DEF Upgrade
<1>2. CASE Copy
  <2>1. PICK c \in Copies(addon) :
          /\ tmp' = [tmp EXCEPT ![addon] = c]
          /\ suffered' = [suffered EXCEPT ![addon] =
                            @ \cup {a \in {"cut"} : c.state # "whole"}]
    BY <1>2 DEF Copy
  <2>2. /\ phase = "copy" /\ phase' = "remove" /\ UNCHANGED <<file, addon, view>>
        /\ addon \in Library
    BY <1>2 DEF Copy, WorkerAgrees, Opened
  <2>3. c \in Database /\ WellFormed(c)
    BY <2>2, Lacking DEF Copies, Missing, Partial, TypeOK, Formats
  <2>4. TypeOK'
    BY <1>1, <2>1, <2>2, <2>3 DEF TypeOK, Phase, Accident, calls, imports
  <2>5. Formats'
    BY <2>1, <2>2, <2>3 DEF Formats, TypeOK
  <2> QED BY <1>1, <2>2, <2>4, <2>5 DEF WorkerAgrees, CallAgrees, Opened, calls, imports
<1>3. CASE Remove
  <2>1. /\ phase = "remove" /\ phase' = "rename"
        /\ file' = [file EXCEPT ![addon] = Missing]
        /\ UNCHANGED <<tmp, addon, view, suffered>> /\ addon \in Library
    BY <1>3 DEF Remove, WorkerAgrees, Opened
  <2>2. Missing \in Database /\ WellFormed(Missing)
    BY Lacking DEF Missing
  <2>3. TypeOK'
    BY <1>1, <2>1, <2>2 DEF TypeOK, Phase, calls, imports
  <2>4. Formats'
    BY <2>1, <2>2 DEF Formats, TypeOK
  <2> QED BY <1>1, <2>1, <2>3, <2>4 DEF WorkerAgrees, CallAgrees, Opened, TypeOK, calls, imports
<1>4. CASE Rename
  <2>1. /\ phase = "rename" /\ phase' = "convert"
        /\ file' = [file EXCEPT ![addon] = tmp[addon]]
        /\ tmp' = [tmp EXCEPT ![addon] = Missing]
        /\ UNCHANGED <<addon, view, suffered>> /\ addon \in Library
    BY <1>4 DEF Rename, WorkerAgrees, Opened
  <2>2. Missing \in Database /\ WellFormed(Missing)
    BY Lacking DEF Missing
  <2>3. TypeOK'
    BY <1>1, <2>1, <2>2 DEF TypeOK, Phase, calls, imports
  <2>4. Formats'
    BY <2>1, <2>2 DEF Formats, TypeOK
  <2> QED BY <1>1, <2>1, <2>3, <2>4 DEF WorkerAgrees, CallAgrees, Opened, calls, imports
<1>5. CASE Convert
  <2> DEFINE d == Created(file[addon])
  <2>1. /\ phase = "convert" /\ addon \in Library /\ UNCHANGED <<tmp, addon, suffered>>
        /\ \/ phase' = "stuck" /\ UNCHANGED <<file, view>>
           \/ phase' = "ready" /\ d.state = "whole" /\ Converted(d)
    BY <1>5 DEF Convert, WorkerAgrees, Opened
  <2>2. d \in Database
    BY <2>1, CreatedIsSame DEF TypeOK, Formats
  <2> HIDE DEF d
  <2>3. CASE phase' = "stuck" /\ UNCHANGED <<file, view>>
    BY <1>1, <2>1, <2>3
    DEF TypeOK, Phase, Formats, WorkerAgrees, CallAgrees, Opened, calls, imports
  <2>4. CASE phase' = "ready" /\ d.state = "whole" /\ Converted(d)
    <3>1. /\ view' \in Database /\ view'.version = SCHEMA_VERSION /\ view'.text = {}
          /\ view'.state = "whole" /\ file' = [file EXCEPT ![addon] = view']
      <4>1. view' = [d EXCEPT !.text = {}, !.version = SCHEMA_VERSION]
        BY <2>4 DEF Converted
      <4>2. SCHEMA_VERSION \in 0 .. SCHEMA_VERSION /\ {} \in SUBSET FileID
        BY Constants
      <4>3. /\ view' \in Database /\ view'.version = SCHEMA_VERSION /\ view'.text = {}
            /\ view'.state = d.state
        BY <2>2, <4>1, <4>2 DEF Database
      <4> QED BY <2>4, <4>3 DEF Converted
    <3>2. WellFormed(view')
      BY <3>1, Constants DEF WellFormed, FormatAgrees
    <3>3. TypeOK'
      BY <1>1, <2>1, <2>4, <3>1 DEF TypeOK, Phase, calls, imports
    <3>4. Formats'
      BY <2>1, <3>1, <3>2 DEF Formats, TypeOK
    <3>5. WorkerAgrees' /\ CallAgrees'
      BY <1>1, <2>1, <2>4, <3>1
      DEF WorkerAgrees, CallAgrees, Opened, TypeOK, SameContent, calls, imports
    <3> QED BY <3>3, <3>4, <3>5
  <2> QED BY <2>1, <2>3, <2>4
<1> QED BY <1>2, <1>3, <1>4, <1>5 DEF Upgrade

LEMMA CrashWorker ==
  ASSUME WorkerInv, Crash
  PROVE  WorkerInv'
<1> USE DEF WorkerInv
<1>1. /\ phase' = "down" /\ addon' = None /\ view' = Missing /\ file' = file
      /\ call' = NoCall /\ UNCHANGED <<default, current, _isInit, id, born, saved>>
      /\ stage' = [g \in Image |->
                     IF stage[g] \in {"held", "added"} THEN "lost" ELSE stage[g]]
  BY DEF Crash, Stopped
<1>2. Missing \in Database /\ WellFormed(Missing) /\ Partial \in Database /\ WellFormed(Partial)
  BY Lacking DEF Missing, Partial
<1>3. tmp' = tmp \/ \E l \in Library : tmp' = [tmp EXCEPT ![l] = Partial]
  BY DEF Crash, Stopped
<1>4. tmp' \in [Library -> Database] /\ \A l \in Library : WellFormed(tmp'[l])
  BY <1>2, <1>3 DEF TypeOK, Formats
<1>5. suffered' \in [Library -> SUBSET Accident]
  BY DEF Crash, Stopped, TypeOK, Accident
<1>6. call' \in [op : Op, image : Image \cup {NoImage}, default : Library \cup {None}]
  BY <1>1 DEF Call, NoCall, Op
<1>7. TypeOK'
  BY <1>1, <1>2, <1>4, <1>5, <1>6 DEF TypeOK, Phase, Stage
<1>8. Formats'
  BY <1>1, <1>2, <1>4 DEF Formats
<1>9. WorkerAgrees'
  BY <1>1, Constants DEF WorkerAgrees, Opened
<1>10. CallAgrees'
  BY <1>1 DEF CallAgrees, Opened, NoCall, Call
<1> QED BY <1>7, <1>8, <1>9, <1>10

LEMMA PerformWorker ==
  ASSUME WorkerInv, Perform
  PROVE  WorkerInv'
<1> USE DEF WorkerInv
<1>1. /\ phase = "ready" /\ phase' = "idle" /\ call' = NoCall /\ addon \in Library
      /\ UNCHANGED <<tmp, addon, default, current, _isInit>>
      /\ view \in Database /\ view.version = SCHEMA_VERSION /\ view.text = {}
  BY DEF Perform, WorkerAgrees, Opened, TypeOK
<1>2. call' \in [op : Op, image : Image \cup {NoImage}, default : Library \cup {None}]
  BY <1>1 DEF Call, NoCall, Op
<1>3. call'.op = "none"
  BY <1>1 DEF NoCall, Call
<1>4. ASSUME NEW d \in Database, d.version = SCHEMA_VERSION, d.text = {}, d.state = view.state,
             Save(d)
      PROVE  /\ file' \in [Library -> Database] /\ view' \in Database
             /\ Formats' /\ WorkerAgrees'
  <2>1. /\ view' = d /\ file' \in [Library -> Database] /\ file'[addon] = d
        /\ \A m \in Library : m # addon => file'[m] = file[m]
        /\ WellFormed(d)
    BY <1>1, <1>4, Saves
  <2>2. Formats'
    BY <1>1, <2>1 DEF Formats
  <2>3. WorkerAgrees'
    BY <1>1, <1>4, <2>1 DEF WorkerAgrees, Opened, SameContent
  <2> QED BY <2>1, <2>2, <2>3
<1>5. CASE UNCHANGED <<file, view, suffered, imports>>
  BY <1>1, <1>2, <1>3, <1>5
  DEF TypeOK, Phase, Formats, WorkerAgrees, CallAgrees, Opened, imports
<1>6. ASSUME NEW g \in Image, GenerateNextFilesID(g)
      PROVE  WorkerInv'
  <2> DEFINE d == [view EXCEPT !.lastID = @ + 1]
  <2>1. /\ d \in Database /\ d.version = SCHEMA_VERSION /\ d.text = {}
        /\ d.state = view.state
    BY <1>1, <1>6, Constants DEF GenerateNextFilesID, Database
  <2>2. Save(d)
    BY <1>6 DEF GenerateNextFilesID
  <2> HIDE DEF d
  <2>3. /\ file' \in [Library -> Database] /\ view' \in Database
        /\ Formats' /\ WorkerAgrees'
    BY <1>4, <2>1, <2>2
  <2>4. view.lastID + 1 \in FileID
    BY <1>1, <1>6, Constants DEF GenerateNextFilesID, Database, FileID
  <2>5. /\ id' = [id EXCEPT ![g] = view.lastID + 1] /\ born' = [born EXCEPT ![g] = addon]
        /\ stage' = [stage EXCEPT ![g] = "held"] /\ UNCHANGED <<saved, suffered>>
    BY <1>6 DEF GenerateNextFilesID
  <2>6. TypeOK'
    BY <1>1, <1>2, <2>3, <2>4, <2>5 DEF TypeOK, Phase, Stage, FileID
  <2>7. CallAgrees'
    BY <1>1, <1>3, <2>4, <2>5 DEF CallAgrees, Opened, TypeOK
  <2> QED BY <2>3, <2>6, <2>7
<1>7. ASSUME NEW g \in Image, stage[g] = "held", AddFiles(g)
      PROVE  WorkerInv'
  <2> DEFINE d == [view EXCEPT !.rows[id[g]] = g]
  <2>1. /\ d \in Database /\ d.version = SCHEMA_VERSION /\ d.text = {}
        /\ d.state = view.state
    BY <1>1, <1>7 DEF CallAgrees, Database
  <2>2. Save(d)
    BY <1>7 DEF AddFiles
  <2> HIDE DEF d
  <2>3. /\ file' \in [Library -> Database] /\ view' \in Database
        /\ Formats' /\ WorkerAgrees'
    BY <1>4, <2>1, <2>2
  <2>4. /\ stage' = [stage EXCEPT ![g] = "added"]
        /\ saved' = [saved EXCEPT ![addon] = @ \cup {g}]
        /\ suffered' = [suffered EXCEPT ![addon] =
                          @ \cup {a \in {"crossed"} : addon # born[g]}]
        /\ UNCHANGED <<id, born>>
    BY <1>7 DEF AddFiles, Crossing
  <2>5. TypeOK'
    BY <1>1, <1>2, <2>3, <2>4 DEF TypeOK, Phase, Stage, Accident
  <2>6. CallAgrees'
    BY <1>1, <1>3, <1>7, <2>4 DEF CallAgrees, Opened, TypeOK
  <2> QED BY <2>3, <2>5, <2>6
<1>8. ASSUME NEW g \in Image, stage[g] = "added", AddMeta(g)
      PROVE  WorkerInv'
  <2> DEFINE d == [view EXCEPT !.color[id[g]] = g]
  <2>1. /\ d \in Database /\ d.version = SCHEMA_VERSION /\ d.text = {}
        /\ d.state = view.state
    BY <1>1, <1>8 DEF CallAgrees, Database
  <2>2. Save(d) \/ UNCHANGED <<view, file>>
    BY <1>8 DEF AddMeta
  <2> HIDE DEF d
  <2>3. /\ file' \in [Library -> Database] /\ view' \in Database
        /\ Formats' /\ WorkerAgrees'
    <3>1. CASE Save(d)
      BY <1>4, <2>1, <3>1
    <3>2. CASE UNCHANGED <<view, file>>
      BY <1>1, <3>2 DEF TypeOK, Formats, WorkerAgrees, Opened
    <3> QED BY <2>2, <3>1, <3>2
  <2>4. /\ stage' = [stage EXCEPT ![g] = "done"]
        /\ suffered' = [suffered EXCEPT ![addon] =
                          @ \cup {a \in {"crossed"} : addon # born[g]}]
        /\ UNCHANGED <<id, born, saved>>
    BY <1>8 DEF AddMeta, Crossing
  <2>5. TypeOK'
    BY <1>1, <1>2, <2>3, <2>4 DEF TypeOK, Phase, Stage, Accident
  <2>6. CallAgrees'
    BY <1>1, <1>3, <2>4 DEF CallAgrees, Opened, TypeOK
  <2> QED BY <2>3, <2>5, <2>6
<1>9. \/ UNCHANGED <<file, view, suffered, imports>>
      \/ call.image \in Image /\ GenerateNextFilesID(call.image)
      \/ call.image \in Image /\ stage[call.image] = "held" /\ AddFiles(call.image)
      \/ call.image \in Image /\ stage[call.image] = "added" /\ AddMeta(call.image)
  BY DEF Perform, CallAgrees
<1> QED BY <1>5, <1>6, <1>7, <1>8, <1>9

\* The inductive step.
LEMMA NextWorker == WorkerInv /\ [Next]_vars => WorkerInv'
<1> SUFFICES ASSUME WorkerInv, [Next]_vars PROVE WorkerInv'
  OBVIOUS
<1>1. CASE BeginRead
  BY <1>1, BeginWorker DEF BeginRead, Op
<1>2. ASSUME NEW g \in Image, BeginImport(g) PROVE WorkerInv'
  BY <1>2, BeginWorker DEF BeginImport, Op
<1>3. CASE Perform
  BY <1>3, PerformWorker
<1>4. ASSUME NEW l \in Library, Switch(l) PROVE WorkerInv'
  BY <1>4, Constants
  DEF Switch, storage, imports, WorkerInv, TypeOK, Formats, WorkerAgrees, CallAgrees
<1>5. CASE Upgrade
  BY <1>5, UpgradeWorker
<1>6. CASE Crash
  BY <1>6, CrashWorker
<1>7. CASE Start
  BY <1>7, Constants
  DEF Start, imports, WorkerInv, TypeOK, Phase, Formats, WorkerAgrees, CallAgrees, Opened
<1>8. CASE UNCHANGED vars
  BY <1>8
  DEF vars, storage, calls, imports, WorkerInv, TypeOK, Formats, WorkerAgrees, CallAgrees
<1> QED BY <1>1, <1>2, <1>3, <1>4, <1>5, <1>6, <1>7, <1>8 DEF Next

LEMMA WorkerInvariance == Spec => []WorkerInv
  BY InitWorker, NextWorker, PTL DEF Spec

\* Whatever the copy, the removal and the renaming did and wherever the worker ended
\* (TryUpdate, upgrade), the version of a library tells the format of all its rows.
THEOREM Invariance == Spec => []Inv
<1>1. WorkerInv => Inv
  <2> SUFFICES ASSUME WorkerInv PROVE Inv
    OBVIOUS
  <2>1. phase = "ready" => view.version = SCHEMA_VERSION /\ view.text = {}
    BY DEF WorkerInv, WorkerAgrees, Opened
  <2> QED BY <2>1 DEF Inv, WorkerInv, Formats, WellFormed, VersionTellsFormat
<1> QED BY <1>1, WorkerInvariance, PTL

\* Kernel.js, started with a library, answers each call from the one that was the
\* default when the call began, across switches, upgrades and restarts.
THEOREM DefaultIsReached == Spec => []CallsReachDefault
<1>1. WorkerInv => CallsReachDefault
  BY DEF WorkerInv, CallAgrees, CallsReachDefault, Opened
<1> QED BY <1>1, WorkerInvariance, PTL

-------------------------------------------------------------------------------
(***************************************************************************)
(* The second part is about what a library holds.                          *)
(***************************************************************************)

\* Ids beyond the counter are free, and colours are of the image of their row.
Ordered(d) ==
  /\ \A i \in FileID : i > d.lastID => d.rows[i] = NoImage
  /\ \A i \in FileID : d.color[i] \in {NoImage, d.rows[i]}

\* An import that holds an id of library l.
Holds(g, l) == stage[g] \in {"held", "added"} /\ born[g] = l

\* The file at which the images of l are looked for.
Where(l) == IF phase = "rename" /\ addon = l THEN tmp[l] ELSE file[l]

\* A copy beside a file that has not been upgraded has what the file has, and is there
\* from its making to the renaming.
CopyAgrees(l) ==
  "cut" \notin suffered[l] =>
    /\ tmp[l].state # "partial"
    /\ file[l].version = 1 /\ tmp[l].state = "whole" => SameContent(tmp[l], file[l])
    /\ addon = l /\ phase \in {"remove", "rename"} => tmp[l].state = "whole"

\* Only a library that needs no upgrade has given out ids, each once; the row of one is
\* free for the import that holds it.
IdsAgree(l) ==
  \A g \in Image : Holds(g, l) =>
    /\ file[l].version = SCHEMA_VERSION /\ id[g] <= file[l].lastID
    /\ \A h \in Image : Holds(h, l) /\ h # g => id[h] # id[g]
    /\ "crossed" \notin suffered[l] => file[l].rows[id[g]] \in {NoImage, g}

OrderAgrees(l) ==
  "crossed" \notin suffered[l] => Ordered(file[l]) /\ Ordered(tmp[l])

SavedAgrees(l) ==
  /\ suffered[l] \cap {"cut", "crossed"} = {}
       => saved[l] \subseteq Images(file[l]) \cup Images(tmp[l])
  /\ suffered[l] = {} => saved[l] \subseteq Images(Where(l))

LibraryAgrees(l) == CopyAgrees(l) /\ IdsAgree(l) /\ OrderAgrees(l) /\ SavedAgrees(l)

\* The inductive invariant of the libraries.
LibraryInv == WorkerInv /\ \A l \in Library : LibraryAgrees(l)

-------------------------------------------------------------------------------
LEMMA SameImages ==
  ASSUME NEW d, NEW e, SameContent(d, e)
  PROVE  Images(d) = Images(e) /\ (Ordered(d) <=> Ordered(e))
  BY DEF SameContent, Images, Ordered

LEMMA LackingOrdered ==
  ASSUME NEW s \in {"missing", "partial", "whole"}
  PROVE  Ordered(Lost(s)) /\ Images(Lost(s)) = {}
  BY Lacking DEF Ordered, NoRows, Images

\* A step that writes nothing into library l and does not take it into or out of the
\* exchange of its file leaves it in order, whatever else befalls it.
LEMMA Frame ==
  ASSUME WorkerInv, NEW l \in Library, LibraryAgrees(l),
         SameContent(file'[l], file[l]),
         file'[l].version = 1 => file[l].version = 1,
         file[l].version = SCHEMA_VERSION => file'[l].version = SCHEMA_VERSION,
         tmp'[l] = tmp[l] \/ ("cut" \in suffered'[l] /\ Ordered(tmp'[l])),
         suffered[l] \subseteq suffered'[l], saved'[l] = saved[l],
         suffered'[l] = {} => ~(phase = "rename" /\ addon = l),
         ~(addon' = l /\ phase' \in {"remove", "rename"}),
         \A g \in Image : Holds(g, l)' => Holds(g, l) /\ id'[g] = id[g]
  PROVE  LibraryAgrees(l)'
<1> USE DEF LibraryAgrees
<1>1. CopyAgrees(l)'
  BY DEF CopyAgrees, SameContent
<1>2. IdsAgree(l)'
  BY DEF IdsAgree, SameContent
<1>3. Images(file'[l]) = Images(file[l]) /\ (Ordered(file'[l]) <=> Ordered(file[l]))
  BY SameImages
<1>4. OrderAgrees(l)'
  BY <1>3 DEF OrderAgrees
<1>5. SavedAgrees(l)'
  <2>1. Where(l)' = file'[l]
    BY DEF Where
  <2>2. CASE tmp'[l] = tmp[l]
    BY <1>3, <2>1, <2>2 DEF SavedAgrees, Where
  <2>3. CASE "cut" \in suffered'[l]
    BY <2>3 DEF SavedAgrees
  <2> QED BY <2>2, <2>3
<1> QED BY <1>1, <1>2, <1>4, <1>5

LEMMA InitLibraries == Init => LibraryInv
<1> SUFFICES ASSUME Init, NEW l \in Library PROVE LibraryAgrees(l)
  BY InitWorker DEF LibraryInv
<1> USE DEF Init
<1>1. tmp[l] = Missing /\ Missing.state = "missing" /\ Ordered(Missing)
  BY Lacking, LackingOrdered DEF Missing
<1>2. \A g \in Image : ~Holds(g, l)
  BY DEF Holds
<1>3. CASE l \in OldLibrary
  <2>1. file[l] = OldDatabase /\ saved[l] = {OldImage}
    BY <1>3, Constants
  <2>2. /\ 1 \in FileID /\ NoRows = [i \in FileID |-> NoImage]
    BY Constants DEF FileID, NoRows
  <2>3. /\ OldDatabase.lastID = 1 /\ OldDatabase.color = NoRows
        /\ OldDatabase.rows = [NoRows EXCEPT ![1] = OldImage]
    BY Lacking DEF OldDatabase, Empty, Database
  <2>4. /\ OldDatabase.rows[1] = OldImage
        /\ \A i \in FileID : i # 1 => OldDatabase.rows[i] = NoImage
    BY <2>2, <2>3
  <2>5. Ordered(OldDatabase)
    BY <2>2, <2>3, <2>4 DEF Ordered, FileID
  <2>6. OldImage \in Images(OldDatabase)
    BY <2>2, <2>4, Constants DEF Images
  <2> QED BY <1>1, <1>2, <2>1, <2>5, <2>6
      DEF LibraryAgrees, CopyAgrees, IdsAgree, OrderAgrees, SavedAgrees, Where
<1>4. CASE l \notin OldLibrary
  <2>1. file[l] = Missing /\ saved[l] = {}
    BY <1>4
  <2> QED BY <1>1, <1>2, <2>1
      DEF LibraryAgrees, CopyAgrees, IdsAgree, OrderAgrees, SavedAgrees, Where
<1> QED BY <1>3, <1>4

LEMMA UpgradeLibraries ==
  ASSUME LibraryInv, Upgrade, NEW l \in Library
  PROVE  LibraryAgrees(l)'
<1> USE DEF LibraryInv
<1>1. UNCHANGED <<calls, imports>> /\ LibraryAgrees(l)
  BY DEF Upgrade
<1>2. \A g \in Image, m \in Library : Holds(g, m)' <=> Holds(g, m)
  BY <1>1 DEF Holds, imports
<1>3. CASE Copy
  <2>1. PICK c \in Copies(addon) :
          /\ tmp' = [tmp EXCEPT ![addon] = c]
          /\ suffered' = [suffered EXCEPT ![addon] =
                            @ \cup {a \in {"cut"} : c.state # "whole"}]
    BY <1>3 DEF Copy
  <2>2. /\ phase = "copy" /\ phase' = "remove" /\ UNCHANGED <<file, addon, view>>
        /\ addon \in Library /\ file[addon].version = 1
    BY <1>3 DEF Copy, WorkerInv, WorkerAgrees, Opened
  <2>3. CASE l # addon
    <3>1. /\ file'[l] = file[l] /\ tmp'[l] = tmp[l] /\ suffered'[l] = suffered[l]
          /\ saved'[l] = saved[l]
      BY <1>1, <2>1, <2>2, <2>3 DEF WorkerInv, TypeOK, imports
    <3> QED BY <1>1, <1>2, <2>2, <2>3, <3>1, Frame DEF SameContent, imports
  <2>4. CASE l = addon
    <3>1. /\ tmp'[l] = c /\ file'[l] = file[l] /\ saved'[l] = saved[l]
          /\ suffered'[l] = suffered[l] \cup {a \in {"cut"} : c.state # "whole"}
      BY <1>1, <2>1, <2>2, <2>4 DEF WorkerInv, TypeOK, imports
    <3>2. \/ c = file[l] \/ (c = tmp[l] /\ tmp[l].state # "missing")
          \/ c = Missing \/ c = Partial
      BY <2>4 DEF Copies
    <3>3. /\ Missing.state = "missing" /\ Partial.state = "partial"
          /\ Ordered(Missing) /\ Ordered(Partial)
      BY Lacking, LackingOrdered DEF Missing, Partial
    <3>4. "cut" \notin suffered'[l] =>
            "cut" \notin suffered[l] /\ c.state = "whole" /\ SameContent(c, file[l])
      <4>1. SameContent(file[l], file[l])
        BY DEF SameContent
      <4>2. SUFFICES ASSUME "cut" \notin suffered'[l], c.state = "whole"
                     PROVE  SameContent(c, file[l])
        BY <3>1
      <4>3. CASE c = tmp[l]
        BY <1>1, <2>2, <2>4, <3>1, <4>2, <4>3 DEF LibraryAgrees, CopyAgrees
      <4> QED BY <3>2, <3>3, <4>1, <4>2, <4>3
    <3>5. CopyAgrees(l)'
      BY <3>1, <3>4 DEF CopyAgrees
    <3>6. IdsAgree(l)'
      BY <1>1, <1>2, <3>1 DEF LibraryAgrees, IdsAgree, imports
    <3>7. OrderAgrees(l)'
      BY <1>1, <3>1, <3>2, <3>3 DEF LibraryAgrees, OrderAgrees
    <3>8. SavedAgrees(l)'
      <4>1. "cut" \notin suffered'[l] => suffered'[l] = suffered[l]
        BY <3>1
      <4>2. /\ Where(l)' = file[l] /\ Where(l) = file[l]
        BY <2>2, <3>1 DEF Where
      <4>3. c = file[l] \/ c = tmp[l] => Images(c) \subseteq Images(file[l]) \cup Images(tmp[l])
        OBVIOUS
      <4>4. "cut" \notin suffered'[l] => Images(c) = Images(file[l])
        BY <3>4, SameImages
      <4>5. "cut" \notin suffered'[l] /\ tmp[l].state = "whole" => Images(tmp[l]) = Images(file[l])
        BY <1>1, <2>2, <2>4, <3>4, SameImages DEF LibraryAgrees, CopyAgrees
      <4>6. "cut" \notin suffered'[l] /\ tmp[l].state # "whole" => Images(tmp[l]) = {}
        <5>1. SUFFICES ASSUME "cut" \notin suffered'[l], tmp[l].state # "whole"
                       PROVE  tmp[l] = Missing
          BY LackingOrdered DEF Missing
        <5>2. tmp[l].state \in {"missing", "partial", "whole"} /\ tmp[l].state # "partial"
          BY <1>1, <3>4, <5>1 DEF LibraryAgrees, CopyAgrees, WorkerInv, TypeOK, Database
        <5> QED BY <5>1, <5>2 DEF WorkerInv, Formats, WellFormed
      <4> QED BY <1>1, <3>1, <4>1, <4>2, <4>4, <4>5, <4>6 DEF LibraryAgrees, SavedAgrees
    <3> QED BY <3>5, <3>6, <3>7, <3>8 DEF LibraryAgrees
  <2> QED BY <2>3, <2>4
<1>4. CASE Remove
  <2>1. /\ phase = "remove" /\ phase' = "rename" /\ addon \in Library
        /\ file' = [file EXCEPT ![addon] = Missing]
        /\ UNCHANGED <<tmp, addon, view, suffered>>
        /\ file[addon].version = 1
    BY <1>4 DEF Remove, WorkerInv, WorkerAgrees, Opened
  <2>2. CASE l # addon
    <3>1. file'[l] = file[l] /\ saved'[l] = saved[l]
      BY <1>1, <2>1, <2>2 DEF WorkerInv, TypeOK, imports
    <3> QED BY <1>1, <1>2, <2>1, <2>2, <3>1, Frame DEF SameContent, imports
  <2>3. CASE l = addon
    <3>1. file'[l] = Missing /\ saved'[l] = saved[l]
      BY <1>1, <2>1, <2>3 DEF WorkerInv, TypeOK, imports
    <3>2. Missing.state = "missing" /\ Missing.version = 0 /\ Ordered(Missing)
      BY Lacking, LackingOrdered DEF Missing
    <3>3. CopyAgrees(l)'
      BY <1>1, <2>1, <2>3, <3>1, <3>2 DEF LibraryAgrees, CopyAgrees
    <3>4. IdsAgree(l)'
      BY <1>1, <1>2, <2>1, <2>3, Constants DEF LibraryAgrees, IdsAgree
    <3>5. OrderAgrees(l)'
      BY <1>1, <2>1, <3>1, <3>2 DEF LibraryAgrees, OrderAgrees
    <3>6. SavedAgrees(l)'
      <4>1. "cut" \notin suffered[l] => Images(tmp[l]) = Images(file[l])
        BY <1>1, <2>1, <2>3, SameImages DEF LibraryAgrees, CopyAgrees
      <4>2. Where(l)' = tmp[l] /\ Where(l) = file[l]
        BY <2>1, <2>3 DEF Where
      <4> QED BY <1>1, <2>1, <3>1, <4>1, <4>2 DEF LibraryAgrees, SavedAgrees
    <3> QED BY <3>3, <3>4, <3>5, <3>6 DEF LibraryAgrees
  <2> QED BY <2>2, <2>3
<1>5. CASE Rename
  <2>1. /\ phase = "rename" /\ phase' = "convert" /\ addon \in Library
        /\ file' = [file EXCEPT ![addon] = tmp[addon]]
        /\ tmp' = [tmp EXCEPT ![addon] = Missing]
        /\ UNCHANGED <<addon, view, suffered>> /\ file[addon] = Missing
    BY <1>5 DEF Rename, WorkerInv, WorkerAgrees, Opened
  <2>2. CASE l # addon
    <3>1. file'[l] = file[l] /\ tmp'[l] = tmp[l] /\ saved'[l] = saved[l]
      BY <1>1, <2>1, <2>2 DEF WorkerInv, TypeOK, imports
    <3> QED BY <1>1, <1>2, <2>1, <2>2, <3>1, Frame DEF SameContent, imports
  <2>3. CASE l = addon
    <3>1. file'[l] = tmp[l] /\ tmp'[l] = Missing /\ saved'[l] = saved[l]
      BY <1>1, <2>1, <2>3 DEF WorkerInv, TypeOK, imports
    <3>2. /\ Missing.state = "missing" /\ Missing.version = 0
          /\ Ordered(Missing) /\ Images(Missing) = {}
      BY Lacking, LackingOrdered DEF Missing
    <3>3. CopyAgrees(l)'
      BY <2>1, <3>1, <3>2 DEF CopyAgrees
    <3>4. IdsAgree(l)'
      BY <1>1, <1>2, <2>1, <2>3, <3>2, Constants DEF LibraryAgrees, IdsAgree
    <3>5. OrderAgrees(l)'
      BY <1>1, <2>1, <3>1, <3>2 DEF LibraryAgrees, OrderAgrees
    <3>6. SavedAgrees(l)'
      <4>1. Where(l)' = tmp[l] /\ Where(l) = tmp[l] /\ Images(file[l]) = {}
        BY <2>1, <2>3, <3>1, <3>2 DEF Where
      <4> QED BY <1>1, <2>1, <3>1, <3>2, <4>1 DEF LibraryAgrees, SavedAgrees
    <3> QED BY <3>3, <3>4, <3>5, <3>6 DEF LibraryAgrees
  <2> QED BY <2>2, <2>3
<1>6. CASE Convert
  <2>1. /\ phase = "convert" /\ phase' \in {"stuck", "ready"}
        /\ UNCHANGED <<tmp, addon, suffered>> /\ addon \in Library
    BY <1>6 DEF Convert, WorkerInv, WorkerAgrees, Opened
  <2>2. /\ SameContent(file'[l], file[l])
        /\ file'[l].version = 1 => file[l].version = 1
        /\ file[l].version = SCHEMA_VERSION => file'[l].version = SCHEMA_VERSION
    <3> DEFINE d == Created(file[addon])
    <3>1. d \in Database /\ SameContent(d, file[addon])
      BY <2>1, CreatedIsSame DEF WorkerInv, TypeOK, Formats
    <3>2. UNCHANGED file \/ Converted(d)
      BY <1>6 DEF Convert
    <3> HIDE DEF d
    <3>3. CASE UNCHANGED file
      BY <3>3 DEF SameContent
    <3>4. CASE Converted(d)
      <4>1. view' = [d EXCEPT !.text = {}, !.version = SCHEMA_VERSION]
        BY <3>4 DEF Converted
      <4>2. /\ view'.rows = d.rows /\ view'.color = d.color /\ view'.lastID = d.lastID
            /\ view'.version = SCHEMA_VERSION
        BY <3>1, <4>1 DEF Database
      <4>3. file' = [file EXCEPT ![addon] = view']
        BY <3>4 DEF Converted
      <4> QED BY <2>1, <3>1, <4>2, <4>3, Constants DEF SameContent, WorkerInv, TypeOK
    <3> QED BY <3>2, <3>3, <3>4
  <2> QED BY <1>1, <1>2, <2>1, <2>2, Frame DEF imports
<1> QED BY <1>3, <1>4, <1>5, <1>6 DEF Upgrade

\* The image takes the row that was kept for it; no other row changes.
LEMMA RowTaken ==
  ASSUME NEW d \in Database, NEW i \in FileID, NEW g \in Image, NEW e,
         e = [d EXCEPT !.rows[i] = g], Ordered(d),
         i <= d.lastID, d.rows[i] \in {NoImage, g}
  PROVE  Ordered(e) /\ Images(d) \cup {g} \subseteq Images(e)
<1>1. /\ e.lastID = d.lastID /\ e.color = d.color /\ e.rows[i] = g
      /\ \A j \in FileID : j # i => e.rows[j] = d.rows[j]
  BY DEF Database
<1>2. Images(d) \cup {g} \subseteq Images(e)
  BY <1>1, Constants DEF Images
<1>3. d.lastID \in Nat /\ i \in Nat
  BY Constants DEF Database, FileID
<1> QED BY <1>1, <1>2, <1>3 DEF Ordered

LEMMA PerformLibraries ==
  ASSUME LibraryInv, Perform, NEW l \in Library
  PROVE  LibraryAgrees(l)'
<1> USE DEF LibraryInv
<1>1. /\ phase = "ready" /\ phase' = "idle" /\ addon \in Library
      /\ UNCHANGED <<tmp, addon>> /\ LibraryAgrees(l)
      /\ view \in Database /\ view.version = SCHEMA_VERSION /\ view.text = {}
      /\ SameContent(view, file[addon])
      /\ \A m \in Library : Where(m) = file[m] /\ Where(m)' = file'[m]
  BY DEF Perform, WorkerInv, WorkerAgrees, Opened, TypeOK, Where
<1>2. CASE UNCHANGED <<file, view, suffered, imports>>
  <2>1. /\ SameContent(file'[l], file[l]) /\ saved'[l] = saved[l]
        /\ \A g \in Image : Holds(g, l)' => Holds(g, l) /\ id'[g] = id[g]
    BY <1>2 DEF SameContent, Holds, imports
  <2> QED BY <1>1, <1>2, <2>1, Frame
<1>3. ASSUME NEW d \in Database, NEW g \in Image, Save(d),
             d.version = SCHEMA_VERSION, d.text = {}, d.state = view.state
      PROVE  /\ file'[addon] = d /\ \A m \in Library : m # addon => file'[m] = file[m]
  BY <1>1, <1>3, Saves
<1>4. ASSUME NEW g \in Image, GenerateNextFilesID(g)
      PROVE  LibraryAgrees(l)'
  <2> DEFINE d == [view EXCEPT !.lastID = @ + 1]
  <2>1. /\ d \in Database /\ d.version = SCHEMA_VERSION /\ d.text = {}
        /\ d.state = view.state /\ d.rows = view.rows /\ d.color = view.color
        /\ d.lastID = view.lastID + 1
    BY <1>1, <1>4, Constants DEF GenerateNextFilesID, Database
  <2>2. Save(d)
    BY <1>4 DEF GenerateNextFilesID
  <2> HIDE DEF d
  <2>3. /\ file'[addon] = d /\ \A m \in Library : m # addon => file'[m] = file[m]
    BY <1>3, <2>1, <2>2
  <2>4. /\ id' = [id EXCEPT ![g] = view.lastID + 1] /\ born' = [born EXCEPT ![g] = addon]
        /\ stage' = [stage EXCEPT ![g] = "held"] /\ UNCHANGED <<saved, suffered>>
    BY <1>4 DEF GenerateNextFilesID
  <2>5. /\ id'[g] = view.lastID + 1 /\ Holds(g, addon)'
        /\ \A h \in Image : h # g => /\ id'[h] = id[h]
                                  /\ \A m \in Library : Holds(h, m)' <=> Holds(h, m)
        /\ \A m \in Library : m # addon => ~Holds(g, m)'
    BY <1>1, <2>4 DEF Holds, WorkerInv, TypeOK
  <2>6. CASE l # addon
    BY <1>1, <2>3, <2>4, <2>5, <2>6, Frame DEF SameContent
  <2>7. CASE l = addon
    <3>1. view.lastID = file[l].lastID /\ view.lastID \in Nat /\ file'[l] = d
          /\ view.rows = file[l].rows /\ view.color = file[l].color
      BY <1>1, <2>3, <2>7, Constants DEF SameContent, Database
    <3>2. CopyAgrees(l)'
      BY <1>1, <2>1, <2>4, <3>1, Constants DEF LibraryAgrees, CopyAgrees
    <3>3. "crossed" \notin suffered[l] => Ordered(file[l])
      BY <1>1 DEF LibraryAgrees, OrderAgrees
    <3>4. OrderAgrees(l)'
      <4>1. Ordered(file[l]) => Ordered(d)
        BY <2>1, <3>1 DEF Ordered, FileID
      <4> QED BY <1>1, <2>4, <3>1, <4>1 DEF LibraryAgrees, OrderAgrees
    <3>5. IdsAgree(l)'
      <4>1. \A h \in Image : Holds(h, l) => id[h] \in FileID /\ id[h] <= view.lastID
        BY <1>1, <3>1 DEF LibraryAgrees, IdsAgree, Holds, WorkerInv, CallAgrees
      <4>2. view.lastID + 1 \in FileID
        BY <1>4, <3>1, Constants DEF GenerateNextFilesID, FileID
      <4>3. "crossed" \notin suffered[l] => view.rows[view.lastID + 1] = NoImage
        BY <3>1, <3>3, <4>2 DEF Ordered
      <4> SUFFICES ASSUME NEW h \in Image, Holds(h, l)'
                   PROVE  /\ file'[l].version = SCHEMA_VERSION /\ id'[h] <= file'[l].lastID
                          /\ \A k \in Image : Holds(k, l)' /\ k # h => id'[k] # id'[h]
                          /\ "crossed" \notin suffered'[l]
                               => file'[l].rows[id'[h]] \in {NoImage, h}
        BY DEF IdsAgree
      <4>4. CASE h = g
        <5>1. \A k \in Image : Holds(k, l)' /\ k # h => id'[k] # id'[h]
          BY <2>5, <3>1, <4>1, <4>4 DEF FileID
        <5> QED BY <2>1, <2>4, <2>5, <3>1, <4>3, <4>4, <5>1
      <4>5. CASE h # g
        <5>1. Holds(h, l) /\ id'[h] = id[h]
          BY <2>5, <4>5
        <5>2. \A k \in Image : Holds(k, l)' /\ k # h => id'[k] # id'[h]
          <6> SUFFICES ASSUME NEW k \in Image, Holds(k, l)', k # h PROVE id'[k] # id'[h]
            OBVIOUS
          <6>1. CASE k = g
            BY <2>5, <3>1, <4>1, <5>1, <6>1 DEF FileID
          <6>2. CASE k # g
            BY <1>1, <2>5, <5>1, <6>2 DEF LibraryAgrees, IdsAgree
          <6> QED BY <6>1, <6>2
        <5>3. id'[h] <= file'[l].lastID
          BY <2>1, <3>1, <4>1, <5>1 DEF FileID
        <5>4. "crossed" \notin suffered'[l] => file'[l].rows[id'[h]] \in {NoImage, h}
          BY <1>1, <2>1, <2>4, <3>1, <5>1 DEF LibraryAgrees, IdsAgree
        <5> QED BY <2>1, <3>1, <5>2, <5>3, <5>4
      <4> QED BY <4>4, <4>5
    <3>6. SavedAgrees(l)'
      <4>1. Images(d) = Images(file[l])
        BY <2>1, <3>1 DEF Images
      <4> QED BY <1>1, <2>4, <3>1, <4>1 DEF LibraryAgrees, SavedAgrees
    <3> QED BY <3>2, <3>4, <3>5, <3>6 DEF LibraryAgrees
  <2> QED BY <2>6, <2>7
<1>5. ASSUME NEW g \in Image, stage[g] = "held", AddFiles(g)
      PROVE  LibraryAgrees(l)'
  <2> DEFINE d == [view EXCEPT !.rows[id[g]] = g]
  <2>1. id[g] \in FileID /\ born[g] \in Library
    BY <1>5 DEF WorkerInv, CallAgrees
  <2>2. /\ d \in Database /\ d.version = SCHEMA_VERSION /\ d.text = {}
        /\ d.state = view.state /\ d.lastID = view.lastID
        /\ d.rows = [view.rows EXCEPT ![id[g]] = g]
    BY <1>1, <2>1 DEF Database
  <2>3. Save(d)
    BY <1>5 DEF AddFiles
  <2>4. d = [view EXCEPT !.rows[id[g]] = g]
    OBVIOUS
  <2> HIDE DEF d
  <2>5. /\ file'[addon] = d /\ \A m \in Library : m # addon => file'[m] = file[m]
    BY <1>3, <2>2, <2>3
  <2>6. /\ stage' = [stage EXCEPT ![g] = "added"]
        /\ saved' = [saved EXCEPT ![addon] = @ \cup {g}]
        /\ suffered' = [suffered EXCEPT ![addon] =
                          @ \cup {a \in {"crossed"} : addon # born[g]}]
        /\ UNCHANGED <<id, born>>
    BY <1>5 DEF AddFiles, Crossing
  <2>7. \A h \in Image, m \in Library : Holds(h, m)' <=> Holds(h, m)
    BY <1>5, <2>6 DEF Holds, WorkerInv, TypeOK
  <2>8. CASE l # addon
    <3>1. saved'[l] = saved[l] /\ suffered'[l] = suffered[l]
      BY <2>6, <2>8 DEF WorkerInv, TypeOK
    <3> QED BY <1>1, <2>5, <2>6, <2>7, <2>8, <3>1, Frame DEF SameContent
  <2>9. CASE l = addon
    <3>1. /\ file'[l] = d /\ saved'[l] = saved[l] \cup {g}
          /\ suffered'[l] = suffered[l] \cup {a \in {"crossed"} : addon # born[g]}
          /\ view.rows = file[l].rows /\ view.lastID = file[l].lastID
      BY <1>1, <2>5, <2>6, <2>9 DEF WorkerInv, TypeOK, SameContent
    <3>2. CopyAgrees(l)'
      BY <1>1, <2>2, <3>1, Constants DEF LibraryAgrees, CopyAgrees
    <3>3. CASE "crossed" \in suffered'[l]
      <4>1. IdsAgree(l)'
        BY <1>1, <2>2, <2>6, <2>7, <3>1, <3>3 DEF LibraryAgrees, IdsAgree
      <4> QED BY <3>2, <3>3, <4>1 DEF LibraryAgrees, OrderAgrees, SavedAgrees
    <3>4. CASE "crossed" \notin suffered'[l]
      <4>1. suffered'[l] = suffered[l] /\ addon = born[g]
        BY <3>1, <3>4
      <4>2. /\ Holds(g, l) /\ id[g] <= view.lastID /\ view.rows[id[g]] \in {NoImage, g}
            /\ Ordered(file[l]) /\ Ordered(tmp[l])
        BY <1>1, <1>5, <2>9, <3>1, <3>4, <4>1
        DEF Holds, LibraryAgrees, IdsAgree, OrderAgrees
      <4>3. /\ Ordered(view) /\ Images(view) = Images(file[l])
        BY <1>1, <2>9, <4>2, SameImages
      <4>4. Ordered(d) /\ Images(view) \cup {g} \subseteq Images(d)
        BY <1>1, <2>1, <2>4, <4>2, <4>3, RowTaken
      <4>5. OrderAgrees(l)'
        BY <1>1, <3>1, <4>2, <4>4 DEF OrderAgrees
      <4>6. SavedAgrees(l)'
        BY <1>1, <3>1, <4>1, <4>3, <4>4 DEF LibraryAgrees, SavedAgrees
      <4>7. IdsAgree(l)'
        <5> SUFFICES ASSUME NEW h \in Image, Holds(h, l)
                     PROVE  d.rows[id[h]] \in {NoImage, h}
          BY <1>1, <2>2, <2>6, <2>7, <3>1 DEF LibraryAgrees, IdsAgree
        <5>1. CASE h = g
          BY <1>1, <2>1, <2>2, <5>1 DEF Database
        <5>2. CASE h # g
          <6>1. id[h] # id[g] /\ id[h] \in FileID
            BY <1>1, <4>2, <5>2 DEF Holds, LibraryAgrees, IdsAgree, WorkerInv, CallAgrees
          <6>2. d.rows[id[h]] = file[l].rows[id[h]]
            BY <1>1, <2>1, <2>2, <3>1, <6>1 DEF Database
          <6> QED BY <1>1, <3>4, <4>1, <6>2 DEF LibraryAgrees, IdsAgree
        <5> QED BY <5>1, <5>2
      <4> QED BY <3>2, <4>5, <4>6, <4>7 DEF LibraryAgrees
    <3> QED BY <3>3, <3>4
  <2> QED BY <2>8, <2>9
<1>6. ASSUME NEW g \in Image, stage[g] = "added", AddMeta(g)
      PROVE  LibraryAgrees(l)'
  <2> DEFINE d == [view EXCEPT !.color[id[g]] = g]
  <2>1. id[g] \in FileID /\ born[g] \in Library
    BY <1>6 DEF WorkerInv, CallAgrees
  <2>2. /\ d \in Database /\ d.version = SCHEMA_VERSION /\ d.text = {}
        /\ d.state = view.state /\ d.lastID = view.lastID /\ d.rows = view.rows
        /\ d.color = [view.color EXCEPT ![id[g]] = g]
    BY <1>1, <2>1 DEF Database
  <2>3. \/ view.rows[id[g]] # NoImage /\ Save(d)
        \/ UNCHANGED <<view, file>>
    BY <1>6 DEF AddMeta
  <2> HIDE DEF d
  <2>4. /\ stage' = [stage EXCEPT ![g] = "done"]
        /\ suffered' = [suffered EXCEPT ![addon] =
                          @ \cup {a \in {"crossed"} : addon # born[g]}]
        /\ UNCHANGED <<id, born, saved>>
    BY <1>6 DEF AddMeta, Crossing
  <2>5. /\ \A h \in Image, m \in Library : Holds(h, m)' => Holds(h, m)
        /\ \A m \in Library : suffered[m] \subseteq suffered'[m]
    BY <1>1, <2>4 DEF Holds, WorkerInv, TypeOK
  <2>6. CASE UNCHANGED <<view, file>>
    BY <1>1, <2>4, <2>5, <2>6, Frame DEF SameContent
  <2>7. CASE view.rows[id[g]] # NoImage /\ Save(d)
    <3>1. /\ file'[addon] = d /\ \A m \in Library : m # addon => file'[m] = file[m]
      BY <1>3, <2>2, <2>7
    <3>2. CASE l # addon
      BY <1>1, <2>4, <2>5, <3>1, <3>2, Frame DEF SameContent
    <3>3. CASE l = addon
      <4>1. /\ file'[l] = d
            /\ suffered'[l] = suffered[l] \cup {a \in {"crossed"} : addon # born[g]}
            /\ view.rows = file[l].rows /\ view.lastID = file[l].lastID
            /\ view.color = file[l].color
        BY <1>1, <2>4, <3>1, <3>3 DEF WorkerInv, TypeOK, SameContent
      <4>2. CopyAgrees(l)'
        BY <1>1, <2>2, <4>1, Constants DEF LibraryAgrees, CopyAgrees
      <4>3. IdsAgree(l)'
        BY <1>1, <2>2, <2>4, <2>5, <4>1 DEF LibraryAgrees, IdsAgree
      <4>4. OrderAgrees(l)'
        <5> SUFFICES ASSUME "crossed" \notin suffered'[l]
                     PROVE  Ordered(d) /\ Ordered(tmp[l])
          BY <1>1, <4>1 DEF OrderAgrees
        <5>1. /\ Holds(g, l) /\ view.rows[id[g]] = g
              /\ Ordered(file[l]) /\ Ordered(tmp[l])
          BY <1>1, <1>6, <2>7, <3>3, <4>1
          DEF Holds, LibraryAgrees, IdsAgree, OrderAgrees
        <5>2. Ordered(view)
          BY <4>1, <5>1 DEF Ordered
        <5>3. \A i \in FileID : d.color[i] = IF i = id[g] THEN g ELSE view.color[i]
          BY <1>1, <2>1, <2>2 DEF Database
        <5> QED BY <2>2, <5>1, <5>2, <5>3 DEF Ordered
      <4>5. SavedAgrees(l)'
        <5>1. Images(d) = Images(file[l])
          BY <2>2, <4>1 DEF Images
        <5> QED BY <1>1, <2>4, <2>5, <4>1, <5>1 DEF LibraryAgrees, SavedAgrees
      <4> QED BY <4>2, <4>3, <4>4, <4>5 DEF LibraryAgrees
    <3> QED BY <3>2, <3>3
  <2> QED BY <2>3, <2>6, <2>7
<1>7. \/ UNCHANGED <<file, view, suffered, imports>>
      \/ call.image \in Image /\ GenerateNextFilesID(call.image)
      \/ call.image \in Image /\ stage[call.image] = "held" /\ AddFiles(call.image)
      \/ call.image \in Image /\ stage[call.image] = "added" /\ AddMeta(call.image)
  BY DEF Perform, WorkerInv, CallAgrees
<1> QED BY <1>2, <1>4, <1>5, <1>6, <1>7

LEMMA CrashLibraries ==
  ASSUME LibraryInv, Crash, NEW l \in Library
  PROVE  LibraryAgrees(l)'
<1> USE DEF LibraryInv
<1>1. /\ UNCHANGED <<file, id, born, saved>> /\ phase' = "down" /\ LibraryAgrees(l)
      /\ stage' = [h \in Image |->
                     IF stage[h] \in {"held", "added"} THEN "lost" ELSE stage[h]]
  BY DEF Crash, Stopped
<1>2. suffered'[l] = suffered[l] \cup {a \in {"cut"} : tmp'[l] # tmp[l]}
                                \cup {a \in {"gap"} : l = addon /\ phase = "rename"}
  BY DEF Crash, Stopped
<1>3. tmp'[l] = tmp[l] \/ tmp'[l] = Partial
  BY DEF Crash, Stopped, WorkerInv, TypeOK
<1>4. Ordered(Partial)
  BY LackingOrdered DEF Partial
<1>5. \A h \in Image : ~Holds(h, l)'
  BY <1>1 DEF Holds
<1>6. SameContent(file'[l], file[l])
  BY <1>1 DEF SameContent
<1> QED BY <1>1, <1>2, <1>3, <1>4, <1>5, <1>6, Frame

\* The inductive step.
LEMMA NextLibraries == LibraryInv /\ [Next]_vars => LibraryInv'
<1> SUFFICES ASSUME LibraryInv, [Next]_vars, NEW l \in Library PROVE LibraryAgrees(l)'
  BY NextWorker DEF LibraryInv
<1>1. WorkerInv /\ LibraryAgrees(l)
  BY DEF LibraryInv
<1>2. ASSUME NEW op \in Op, NEW g \in Image \cup {NoImage}, Begin(op, g)
      PROVE  LibraryAgrees(l)'
  <2>1. phase = "idle" /\ phase' \in {"stuck", "ready", "copy"}
    BY <1>1, <1>2, Begins DEF Begin
  <2>2. /\ SameContent(file'[l], file[l])
        /\ file'[l].version = 1 => file[l].version = 1
        /\ file[l].version = SCHEMA_VERSION => file'[l].version = SCHEMA_VERSION
        /\ UNCHANGED <<tmp, suffered, imports>>
    BY <1>1, <1>2, Begins
  <2> QED BY <1>1, <2>1, <2>2, Frame DEF Holds, imports
<1>3. CASE BeginRead
  BY <1>2, <1>3 DEF BeginRead, Op
<1>4. ASSUME NEW g \in Image, BeginImport(g) PROVE LibraryAgrees(l)'
  BY <1>2, <1>4 DEF BeginImport, Op
<1>5. CASE Perform
  BY <1>5, PerformLibraries
<1>6. CASE Upgrade
  BY <1>6, UpgradeLibraries
<1>7. CASE Crash
  BY <1>7, CrashLibraries
<1>8. CASE Start
  <2>1. phase = "down" /\ phase' = "idle"
        /\ UNCHANGED <<file, tmp, addon, view, suffered, imports>>
    BY <1>8 DEF Start
  <2> QED BY <1>1, <2>1, Frame DEF SameContent, Holds, imports
<1>9. CASE UNCHANGED <<storage, imports>>
  BY <1>1, <1>9
  DEF storage, imports, LibraryAgrees, CopyAgrees, IdsAgree, OrderAgrees, SavedAgrees,
      Where, Holds
<1> QED BY <1>3, <1>4, <1>5, <1>6, <1>7, <1>8, <1>9 DEF Next, Switch, vars

LEMMA LibraryInvariance == Spec => []LibraryInv
  BY InitLibraries, NextLibraries, PTL DEF Spec

\* Wherever the worker ends during copy, removal, renaming and conversion, an image it
\* has answered for is in the file of its library or in the copy beside it, unless the
\* copy itself was cut or an import of another library wrote here.
THEOREM ImagesAreKept == Spec => []KeptSomewhere
<1>1. LibraryInv => KeptSomewhere
  BY DEF LibraryInv, LibraryAgrees, SavedAgrees, KeptSomewhere
<1> QED BY <1>1, LibraryInvariance, PTL

\* A call reads every image its library was given, of both schemas, as long as no
\* accident has befallen it.
THEOREM ImagesAreServed == Spec => []ServedWhole
<1>1. LibraryInv => ServedWhole
  <2> SUFFICES ASSUME LibraryInv, phase = "ready", suffered[addon] = {}
               PROVE  saved[addon] \subseteq Images(view)
    BY DEF ServedWhole
  <2>1. addon \in Library /\ SameContent(view, file[addon])
    BY DEF LibraryInv, WorkerInv, WorkerAgrees, Opened
  <2>2. Where(addon) = file[addon] /\ Images(view) = Images(file[addon])
    BY <2>1, SameImages DEF Where
  <2> QED BY <2>1, <2>2 DEF LibraryInv, LibraryAgrees, SavedAgrees
<1> QED BY <1>1, LibraryInvariance, PTL

\* The colours of an import, saved long after the row and under its number only, are
\* those of the row's own image, unless an import of another library came by.
THEOREM ColorsAreOwn == Spec => []ColorIsOwn
<1>1. LibraryInv => ColorIsOwn
  BY DEF LibraryInv, LibraryAgrees, OrderAgrees, Ordered, ColorIsOwn
<1> QED BY <1>1, LibraryInvariance, PTL
===============================================================================
