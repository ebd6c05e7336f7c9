----------------------------- MODULE ClientCache ------------------------------
(***************************************************************************)
(* The store of the renderer (src/renderer/store/modules/Cache.js), which  *)
(* keeps every file of the library in memory, and how App.vue, PageMenu.vue*)
(* and ViewPanel.vue drive it, against the worker that owns the library.   *)
(*                                                                         *)
(* Each `await` of an action is a step; other actions, announcements of    *)
(* imported files and answers run in between.  Messages are in order in    *)
(* both directions (Messaging has what the pipeline drops; here imports    *)
(* do not overlap).  The two lists of recieveCounts are one, that of the   *)
(* files without a class, which is every file; classes and tags, which     *)
(* init also asks for, are left out.  A query and getClassesAndFiles are   *)
(* alike: they show what is answered, whichever files that is.             *)
(***************************************************************************)
EXTENDS Integers, Sequences, FiniteSets, SequencesExt

CONSTANTS
  Library,
  None,      \* the entry of a file the cache does not know
  Before,    \* the number of files each library has before the start
  MaxFile    \* bound: the ids given in one library

ASSUME CacheAssumption ==
  /\ Library # {} /\ None \notin Library
  /\ MaxFile \in Nat \ {0} /\ Before \in 0 .. MaxFile

FileID == 1 .. MaxFile
NoID == 0      \* the id of a file whose meta data could not be read
Key == FileID \cup {NoID}
Hole == -1     \* an undefined item of viewItems

VARIABLES
  open,       \* the library the worker has open
  held,       \* for each library, the ids of its files
  lastID,     \* for each library, the last id given
  unread,     \* the files stored whose reading has not come to an end
  requests,   \* the channel to the worker
  replies,    \* the channel to the renderer
  files,      \* Cache.files: for each id, the library its file is of
  viewItems,  \* state.viewItems, as ids
  allCount,   \* state.allCount
  unclasses,  \* state.unclasses
  init,       \* what the action init waits for
  gathered,   \* what it has been answered: unclasses and filesSnap
  counting,   \* an action addFiles waits for the counts
  querying,   \* an action query waits for its result
  lost,       \* history: the files of the library open stored and never announced
  showing,    \* history: viewItems is the whole cache, or a result
  raced       \* history: which actions have overlapped

worker == <<open, held, lastID, unread>>
channels == <<requests, replies>>
view == <<files, viewItems, allCount, unclasses, showing>>
actions == <<init, gathered, counting, querying>>
history == <<lost, raced>>
vars == <<worker, channels, view, actions, history>>

Reply == {"counts", "snap", "info", "query", "reinit", "images"}
InitStage == {"mounted", "idle", "reinit", "counts", "snap", "info"}
Race == {"init", "query", "late", "switch", "met", "removal", "stays"}

Message(type, l, F) == [type |-> type, library |-> l, ids |-> F]
Send(type, l, F) == requests' = Append(requests, Message(type, l, F))
Overlaps(r, happened) == raced' = raced \cup {x \in {r} : happened}

\* The files of F, the keys of an object, in ascending order.
Listed(F) ==
  CHOOSE s \in [1 .. Cardinality(F) -> F] : \A i, j \in DOMAIN s : i < j => s[i] < s[j]
Known == {f \in Key : files[f] # None}

Init ==
  /\ open \in Library
  /\ held = [l \in Library |-> 1 .. Before]
  /\ lastID = [l \in Library |-> Before]
  /\ unread = {}
  /\ requests = <<>> /\ replies = <<>>
  /\ files = [f \in Key |-> None]
  /\ viewItems = <<>>
  /\ allCount = 0 /\ unclasses = 0
  /\ init = "mounted"
  /\ gathered = [unclasses |-> {}, filesSnap |-> {}]
  /\ counting = FALSE /\ querying = FALSE
  /\ showing = "all"
  /\ lost = {} /\ raced = {}

-------------------------------------------------------------------------------
\* The worker stores an imported file, and announces it when its colours are done,
\* unless one of the parsers behind throws.
Store ==
  /\ lastID[open] < MaxFile
  /\ lastID' = [lastID EXCEPT ![open] = @ + 1]
  /\ held' = [held EXCEPT ![open] = @ \cup {lastID'[open]}]
  /\ unread' = unread \cup {<<open, lastID'[open]>>}
  /\ raced' = raced \cup {r \in {"query"} : querying}
                   \cup {r \in {"met"} : "switch" \in raced}
  /\ UNCHANGED <<open, channels, view, actions, lost>>

Announce ==
  /\ \E u \in unread :
       /\ unread' = unread \ {u}
       /\ replies' = Append(replies, Message("images", u[1], {u[2]}))
  /\ UNCHANGED <<open, held, lastID, requests, view, actions, history>>

Abandon ==
  /\ \E u \in unread :
       /\ unread' = unread \ {u}
       /\ lost' = lost \cup {u[2]}
  /\ UNCHANGED <<open, held, lastID, channels, view, actions, raced>>

\* A file whose meta data cannot be read is not stored and announced all the same, with
\* the id it was made with.  Bound: not again when one has been announced.
Misread ==
  /\ NoID \notin Known /\ \A i \in DOMAIN replies : replies[i].ids # {NoID}
  /\ replies' = Append(replies, Message("images", open, {NoID}))
  /\ UNCHANGED <<worker, requests, view, actions, history>>

\* The worker's handlers.  Ids of files that are gone get no info; what a query
\* finds is any of the files there are, those that were never announced too.
Handle ==
  /\ requests # <<>>
  /\ requests' = Tail(requests)
  /\ LET req == Head(requests)
         Answer(F) == replies' = Append(replies, Message(req.type, open', F))
     IN \/ /\ req.type \in {"counts", "snap"}
           /\ UNCHANGED <<open, held, raced>>
           /\ Answer(held[open])
        \/ /\ req.type = "info"
           /\ UNCHANGED <<open, held, raced>>
           /\ Answer(req.ids \cap held[open])
        \/ /\ req.type = "query"
           /\ UNCHANGED <<open, held>>
           /\ \E F \in SUBSET held[open] :
                /\ Answer(F)
                /\ Overlaps("query", F \cap (lost \ Known) # {})
        \/ /\ req.type = "remove"
           /\ held' = [held EXCEPT ![open] = @ \ req.ids]
           /\ UNCHANGED <<open, replies, raced>>
        \/ /\ req.type = "reinit"
           /\ open' = req.library
           /\ UNCHANGED <<held, raced>>
           /\ Answer({})
  /\ UNCHANGED <<lastID, unread, view, actions, lost>>

\* dispatch('init') of App.vue.
Mounted ==
  /\ init = "mounted"
  /\ init' = "counts"
  /\ Send("counts", None, {})
  /\ UNCHANGED <<worker, replies, view, gathered, counting, querying, history>>

\* Nothing is on its way between the renderer and the worker.
Settled ==
  /\ requests = <<>> /\ replies = <<>> /\ unread = {}
  /\ init = "idle" /\ ~counting /\ ~querying

\* onSwitch of PageMenu.vue: dispatch('init') when the worker has answered.  Bounds:
\* one switch, when nothing is on its way and nothing has overlapped.
Switch(l) ==
  /\ Settled /\ raced = {} /\ l # open
  /\ init' = "reinit"
  /\ Send("reinit", l, {})
  /\ Overlaps("switch", TRUE)
  /\ lost' = {}
  /\ UNCHANGED <<worker, replies, view, gathered, counting, querying>>

\* The action query, of the filter bar, and getClassesAndFiles.
Query ==
  /\ ~querying
  /\ querying' = TRUE
  /\ Send("query", None, {})
  /\ Overlaps("query", \/ init # "idle" \/ unread # {}
                    \/ \E i \in DOMAIN replies :
                         replies[i].type = "images" /\ replies[i].ids # {NoID})
  /\ UNCHANGED <<worker, replies, view, init, gathered, counting, lost>>

\* Mutant of Display: the files are put behind the items that are there.
MutantDisplay(F, items) == items \o Listed(F)

\* mutations.display: item by item over what is there; the list is not cut.
Display(F, items) ==
  LET all == Listed(F)
  IN all \o SubSeq(items, Len(all) + 1, Len(items))

\* The route '/': display.
ShowAll ==
  /\ viewItems' = Display(Known, viewItems)
  /\ showing' = "all"
  /\ UNCHANGED <<worker, channels, files, allCount, unclasses, actions, history>>

\* mutations.removeFiles, of an item of the view.  The items before it are asked for
\* their id: an undefined one throws, when the cache has forgotten the file and the
\* worker has not been told.  A file without an id has `undefined` for one (FileBase):
\* its item goes, and the cache keeps it under 0.  Bound: one such removal.
RemoveFiles(f) ==
  /\ f = NoID => "stays" \notin raced
  /\ \E i \in DOMAIN viewItems :
       /\ viewItems[i] = f /\ \A j \in 1 .. i - 1 : viewItems[j] # f
       /\ IF \E j \in 1 .. i - 1 : viewItems[j] = Hole
          THEN UNCHANGED <<viewItems, allCount, requests>>
          ELSE /\ viewItems' = RemoveAt(viewItems, i)
               /\ allCount' = allCount - 1
               /\ Send("remove", None, {f})
  /\ files' = [k \in Key |-> IF k = f /\ f # NoID THEN None ELSE files[k]]
  /\ raced' = raced \cup {"removal"}
                \cup {r \in {"stays"} : f = NoID}
                \cup {r \in {"init"} : init # "idle"}
                \cup {r \in {"query"} : querying}
                \cup {r \in {"late"} :
                        \/ \E u \in unread : u[2] = f
                        \/ \E i \in DOMAIN replies :
                             replies[i].type = "images" /\ f \in replies[i].ids}
  /\ UNCHANGED <<worker, replies, unclasses, showing, actions, lost>>

-------------------------------------------------------------------------------
\* mutations.init: files are added to the cache or replaced in it, none is dropped.
CommitInit(msg) ==
  /\ files' = [f \in Key |-> IF f \in msg.ids THEN msg.library ELSE files[f]]
  /\ viewItems' = Display(Known \cup msg.ids, viewItems)
  /\ unclasses' = Cardinality(gathered.unclasses)
  /\ allCount' = Cardinality(gathered.filesSnap)
  /\ showing' = "all"

\* The answers the action init waits for, one after the other.
OnInit(msg) ==
  /\ msg.type = init
  /\ \/ /\ init = "reinit"
        /\ init' = "counts"
        /\ Send("counts", None, {})
        /\ UNCHANGED <<gathered, view>>
     \/ /\ init = "counts"
        /\ init' = "snap"
        /\ gathered' = [gathered EXCEPT !.unclasses = msg.ids]
        /\ Send("snap", None, {})
        /\ UNCHANGED <<files, viewItems, allCount, showing>>
        /\ unclasses' = IF counting THEN Cardinality(msg.ids) ELSE unclasses
     \/ /\ init = "snap"
        /\ init' = "info"
        /\ gathered' = [gathered EXCEPT !.filesSnap = msg.ids]
        /\ Send("info", None, msg.ids)
        /\ UNCHANGED view
     \/ /\ init = "info"
        /\ init' = "idle"
        /\ CommitInit(msg)
        /\ gathered' = [unclasses |-> {}, filesSnap |-> {}]
        /\ UNCHANGED requests
  /\ counting' = (counting /\ msg.type # "counts")
  /\ UNCHANGED <<querying, history>>

\* updateCounts of the actions addFiles that wait; an answer nobody waits for is
\* dropped.
OnCounts(msg) ==
  /\ msg.type = "counts" /\ init # "counts"
  /\ unclasses' = IF counting THEN Cardinality(msg.ids) ELSE unclasses
  /\ counting' = FALSE
  /\ UNCHANGED <<requests, files, viewItems, allCount, showing, init, gathered, querying, history>>

\* mutations.query: what the cache does not know is undefined.
OnQuery(msg) ==
  /\ msg.type = "query"
  /\ viewItems' = [i \in DOMAIN Listed(msg.ids) |->
                     IF Listed(msg.ids)[i] \in Known THEN Listed(msg.ids)[i] ELSE Hole]
  /\ showing' = "result"
  /\ querying' = FALSE
  /\ UNCHANGED <<requests, files, allCount, unclasses, init, gathered, counting, history>>

\* Mutant of AddFiles: a file the cache knows is counted again.
MutantAddFiles(msg) ==
  LET new == msg.ids \ Known
  IN /\ files' = [f \in Key |-> IF f \in new THEN msg.library ELSE files[f]]
     /\ viewItems' = viewItems \o Listed(new)
     /\ allCount' = allCount + Cardinality(msg.ids)

\* mutations.addFiles: a file of a known id is only updated.
AddFiles(msg) ==
  LET new == msg.ids \ Known
  IN /\ files' = [f \in Key |-> IF f \in new THEN msg.library ELSE files[f]]
     /\ viewItems' = viewItems \o Listed(new)
     /\ allCount' = allCount + Cardinality(new)

\* onUpdateImages of App.vue.
OnImages(msg) ==
  /\ msg.type = "images"
  /\ AddFiles(msg)
  /\ counting' = TRUE
  /\ Send("counts", None, {})
  /\ Overlaps("init", init # "idle")
  /\ UNCHANGED <<unclasses, showing, init, gathered, querying, lost>>

Deliver ==
  /\ replies # <<>>
  /\ replies' = Tail(replies)
  /\ LET msg == Head(replies)
     IN OnInit(msg) \/ OnCounts(msg) \/ OnQuery(msg) \/ OnImages(msg)
  /\ UNCHANGED worker

Next ==
  \/ Store \/ Announce \/ Abandon \/ Misread \/ Handle
  \/ Mounted
  \/ \E l \in Library : Switch(l)
  \/ Query
  \/ ShowAll
  \/ \E f \in Key : RemoveFiles(f)
  \/ Deliver

Spec == Init /\ [][Next]_vars
-------------------------------------------------------------------------------
TypeOK ==
  /\ open \in Library
  /\ held \in [Library -> SUBSET FileID]
  /\ lastID \in [Library -> 0 .. MaxFile]
  /\ unread \subseteq Library \X FileID
  /\ files \in [Key -> Library \cup {None}]
  /\ viewItems \in Seq(Key \cup {Hole})
  /\ allCount \in Int /\ unclasses \in Nat
  /\ init \in InitStage
  /\ counting \in BOOLEAN /\ querying \in BOOLEAN
  /\ showing \in {"all", "result"}
  /\ lost \subseteq FileID
  /\ raced \subseteq Race

\* When everything sent has arrived, the cache has the files of the library, but for
\* those whose import was given up after they were stored, and it has nothing else but a
\* file that could not be read; its count is theirs, and that of the unclassified files
\* is of all but files given up: unless a file was announced or removed while init
\* waited, removed before it was announced, or removed from a view with a hole of an
\* overlapped query.  The count of unclassified files is not taken again after a removal,
\* and that of all files is wrong when a file that could not be read was removed.  After
\* a switch, what the library held is there, beside what is left of the one before; a file
\* it is given later may meet an id of that one.
CacheFollows ==
  Settled =>
    /\ raced \subseteq {"removal", "stays"} =>
         /\ Known \ {NoID} \subseteq held[open] /\ held[open] \subseteq Known \cup lost
         /\ \A f \in Known : files[f] = open
         /\ "stays" \notin raced => allCount = Cardinality(Known)
         /\ raced = {} => \E L \in SUBSET lost : unclasses = Cardinality(held[open] \ L)
    /\ raced \subseteq {"switch", "removal", "stays"} =>
         /\ \A f \in held[open] \ lost : files[f] = open
         /\ raced = {"switch"} /\ NoID \notin Known => allCount = Cardinality(held[open])

\* At every moment the view names files the cache has, none of them twice, and all
\* of them when no result is shown: unless a query overlapped init, an import or a
\* removal, or found a file that was never announced.  A file that could not be read
\* stays in the cache when its item is removed.
ViewIsOfCache ==
  "query" \notin raced =>
    /\ IsInjective(viewItems)
    /\ ToSet(viewItems) \subseteq Known
    /\ showing = "all" => ToSet(viewItems) \cup {f \in {NoID} : "stays" \in raced} = Known

\* Types, and a view without holes or repeats.
Inv == TypeOK /\ ViewIsOfCache
===============================================================================
