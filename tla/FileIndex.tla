------------------------------ MODULE FileIndex -------------------------------
(***************************************************************************)
(* The file, tag, class and keyword tables of DBManager                    *)
(* (civetkern/src/db_manager.cpp) and the API calls that keep them in step *)
(* with one another: generateFilesID, addFiles, setTags, removeTags,       *)
(* addClasses and removeClasses (with and without files), removeFiles.     *)
(*                                                                         *)
(* A row that holds a sorted vector without repetitions is a set.  A word  *)
(* is its index in the dictionary (GetWordsIndex): the order matters, as   *)
(* rows are sorted by it.  Classes are those directly under the root, each *)
(* named by its one word; paths and renaming are the matter of ClassTree.  *)
(*                                                                         *)
(* db is what the open transaction reads and disk what the file holds      *)
(* (view and file of Storage).  A call of the N-API is one synchronous     *)
(* call of the worker's event loop, so it is one action; only SetTags,     *)
(* which commits once per word on its way, is cut at its commits.          *)
(***************************************************************************)
EXTENDS Integers, FiniteSets

CONSTANTS
  MaxFile,    \* bound: the largest file id handed out
  Word,       \* the word indexes a row can hold
  TagWord,    \* those of words used as tags
  ClassWord,  \* those of words used as class names
  KeepTags,   \* BOOLEAN: callers of setTags repeat the tags the files have
  Repeats,    \* BOOLEAN: callers of setTags may name a tag twice
  Crashes     \* BOOLEAN: the worker process may end at any moment

ASSUME FileIndexAssumption ==
  /\ MaxFile \in Nat
  /\ Word \subseteq Nat /\ IsFiniteSet(Word)
  /\ TagWord \subseteq Word /\ ClassWord \subseteq Word
  /\ KeepTags \in BOOLEAN /\ Repeats \in BOOLEAN /\ Crashes \in BOOLEAN

FileID == 0 .. MaxFile   \* 0 is the key of the id counter, and a file never resolved
Bit == {"init", "tag", "class"}

VARIABLES
  db,      \* the tables as the calls read them
  disk,    \* the tables as of the last commit
  job,     \* the SetTags call under way, or Idle
  held,    \* ids the import holds and has not passed to addFiles yet
  issued   \* history: every id handed out

vars == <<db, disk, job, held, issued>>

-------------------------------------------------------------------------------
Tables ==
  [ lastID : Nat,                          \* FILESNAP, row 0
    meta : SUBSET FileID,                  \* the rows of FILE_META
    snap : [FileID -> SUBSET Bit],         \* FILESNAP, "step"; {} is no row
    file2tag : [FileID -> SUBSET Word],
    tag2file : [Word -> SUBSET FileID],
    tagRows : SUBSET Word,                 \* the rows of TAG2FILE, empty ones too
    tagIndx : SUBSET Word,                 \* the words TAG_INDX lists
    hash2class : SUBSET Word,              \* the classes there are
    file2class : [FileID -> SUBSET Word],
    class2file : [Word -> SUBSET FileID],
    file2keyword : [FileID -> SUBSET Word],
    keyword2file : [Word -> SUBSET FileID] ]

NoRow == [f \in FileID |-> {}]
NoWordRow == [w \in Word |-> {}]

Empty ==
  [ lastID |-> 0, meta |-> {}, snap |-> NoRow,
    file2tag |-> NoRow, tag2file |-> NoWordRow, tagRows |-> {}, tagIndx |-> {},
    hash2class |-> {}, file2class |-> NoRow, class2file |-> NoWordRow,
    file2keyword |-> NoRow, keyword2file |-> NoWordRow ]

Idle == [files |-> {}, tags |-> {}, todo |-> {}, twice |-> FALSE, busy |-> FALSE]

Jobs == [files : SUBSET FileID, tags : SUBSET Word, todo : SUBSET Word,
         twice : BOOLEAN, busy : BOOLEAN]

\* What the callers can name: the ids handed out, and 0 for an import that failed
\* before it had one.
Known == issued \cup {0}

-------------------------------------------------------------------------------
\* mapExistFiles
Existing(d, F) == F \cap d.meta

\* IsFileExist
IsFileExist(d, f) == IF f = 0 THEN d.lastID > 0 ELSE d.snap[f] # {}

\* AddFile, for each of F: the FILE_META row and a new FILESNAP row.
AddRows(d, F) ==
  [d EXCEPT
     !.meta = @ \cup F,
     !.snap = [f \in FileID |-> IF f \in F THEN {"init"} ELSE @[f]]]

\* AddTagPY: the word is listed under its letter.
AddTagPY(d, w) == [d EXCEPT !.tagIndx = @ \cup {w}]

\* Mutant of AddFileID2Tag: nothing is written for an empty list of files.
MutantAddFileID2Tag(d, F, w) ==
  [d EXCEPT
     !.tag2file = [v \in Word |-> IF v = w THEN @[v] \cup F ELSE @[v]],
     !.tagRows = @ \cup {v \in {w} : F # {}}]

\* AddFileID2Tag: the row of the word is written even for no file at all.
AddFileID2Tag(d, F, w) ==
  [d EXCEPT
     !.tag2file = [v \in Word |-> IF v = w THEN @[v] \cup F ELSE @[v]],
     !.tagRows = @ \cup {w}]

\* The FILE2TAG part of SetTags: the new tags take the place of the old ones.
SetTagRows(d, F, T) ==
  [d EXCEPT !.file2tag = [f \in FileID |-> IF f \in F THEN T ELSE @[f]]]

\* Mutant of Bind: BindKeywordAndFile without AddFileID2Keyword.
MutantBind(d, F, W) ==
  [d EXCEPT
     !.file2keyword = [f \in FileID |-> @[f] \cup (IF f \in F THEN W ELSE {})]]

\* BindKeywordAndFile: AddKeyword2File and AddFileID2Keyword, for each of F and W.
Bind(d, F, W) ==
  [d EXCEPT
     !.file2keyword = [f \in FileID |-> @[f] \cup (IF f \in F THEN W ELSE {})],
     !.keyword2file = [w \in Word |-> @[w] \cup (IF w \in W THEN F ELSE {})]]

\* The n smallest of a set of words.
Lowest(S, n) == {w \in S : Cardinality({x \in S : x < w}) < n}

\* Mutant of RemoveKeywords: the words lost with the second half of the row are
\* cleaned from KEYWORD2FILE too.
MutantRemoveKeywords(d, F, W) ==
  LET row == [f \in FileID |-> Lowest(d.file2keyword[f] \ W,
                                     Cardinality(d.file2keyword[f] \ W) \div 2)]
  IN [d EXCEPT
        !.file2keyword = [f \in FileID |-> IF f \in F THEN row[f] ELSE @[f]],
        !.keyword2file =
           [w \in Word |-> @[w] \ {f \in F : w \in d.file2keyword[f] \ row[f]}]]

\* RemoveKeywords.  The row is written back with half the size of its records
\* (sizeof(WordIndex) for a WordRef), so that only the first half of the words
\* that remain can be read again; KEYWORD2FILE loses the files of the words that
\* were found and erased.
RemoveKeywords(d, F, W) ==
  [d EXCEPT
     !.file2keyword =
        [f \in FileID |-> IF f \in F
                          THEN Lowest(@[f] \ W, Cardinality(@[f] \ W) \div 2)
                          ELSE @[f]],
     !.keyword2file =
        [w \in Word |-> IF w \in W
                        THEN @[w] \ {f \in F : w \in d.file2keyword[f]}
                        ELSE @[w]]]

\* Mutant of RemoveRows: the rows of the file go, the lists it is in stay.
MutantRemoveRows(d, F) ==
  [d EXCEPT
     !.meta = @ \ F,
     !.snap = [f \in FileID |-> IF f \in F THEN {} ELSE @[f]],
     !.file2tag = [f \in FileID |-> IF f \in F THEN {} ELSE @[f]],
     !.file2class = [f \in FileID |-> IF f \in F THEN {} ELSE @[f]]]

\* RemoveFile, for the files of F that have a FILE_META row.  FILE2KEYWORD keeps
\* the row of the file.
RemoveRows(d, F) ==
  [d EXCEPT
     !.meta = @ \ F,
     !.snap = [f \in FileID |-> IF f \in F THEN {} ELSE @[f]],
     !.tag2file = [w \in Word |-> @[w] \ {f \in F : w \in d.file2tag[f]}],
     !.tagRows = @ \cup {w \in Word : \E f \in F : w \in d.file2tag[f]},
     !.file2tag = [f \in FileID |-> IF f \in F THEN {} ELSE @[f]],
     !.class2file = [w \in Word |-> @[w] \ {f \in F : w \in d.file2class[f]}],
     !.file2class = [f \in FileID |-> IF f \in F THEN {} ELSE @[f]],
     !.keyword2file = [w \in Word |-> @[w] \ {f \in F : w \in d.file2keyword[f]}]]

\* SetSnapStep, for each of F: a file with no row is given one.
SetStep(d, F, bit) ==
  [d EXCEPT !.snap = [f \in FileID |-> IF f \in F THEN @[f] \cup {bit} ELSE @[f]]]

\* Mutant of RemoveTagRows: RemoveTags without its SetSnapStep.
MutantTagStep(d, F, T) ==
  [d EXCEPT
     !.file2tag = [f \in FileID |-> IF f \in F THEN @[f] \ T ELSE @[f]],
     !.tag2file = [w \in Word |-> IF w \in T THEN @[w] \ F ELSE @[w]]]

\* Mutant of RemoveTagRows: TAG2FILE loses the files for good when any of their
\* tags goes.
MutantTagLists(d, F, T) ==
  [d EXCEPT
     !.file2tag = [f \in FileID |-> IF f \in F THEN @[f] \ T ELSE @[f]],
     !.snap = [f \in FileID |->
                 IF f \in F /\ d.file2tag[f] # {} /\ d.file2tag[f] \subseteq T
                 THEN @[f] \ {"tag"} ELSE @[f]],
     !.tag2file = [w \in Word |-> @[w] \ F]]

\* The FILE2TAG and TAG2FILE part of RemoveTags.
RemoveTagRows(d, F, T) ==
  [d EXCEPT
     !.file2tag = [f \in FileID |-> IF f \in F THEN @[f] \ T ELSE @[f]],
     !.snap = [f \in FileID |->
                 IF f \in F /\ d.file2tag[f] # {} /\ d.file2tag[f] \subseteq T
                 THEN @[f] \ {"tag"} ELSE @[f]],
     !.tag2file = [w \in Word |-> IF w \in T THEN @[w] \ F ELSE @[w]]]

\* AddClassImpl, AddClass2FileID and AddFileID2Class.
AddClassRows(d, C, F) ==
  [d EXCEPT
     !.hash2class = @ \cup C,
     !.class2file = [w \in Word |-> IF w \in C THEN @[w] \cup F ELSE @[w]],
     !.file2class = [f \in FileID |-> IF f \in F THEN @[f] \cup C ELSE @[f]]]

\* The FILE2CLASS and CLASS2FILE part of RemoveClasses(classes, files).
RemoveMembers(d, C, F) ==
  [d EXCEPT
     !.class2file = [w \in Word |-> IF w \in C THEN @[w] \ F ELSE @[w]],
     !.file2class = [f \in FileID |-> IF f \in F THEN @[f] \ C ELSE @[f]]]

\* Mutant of RemoveClassRows: step 1 of RemoveClassImpl is left out.
MutantRemoveClassRows(d, C) ==
  [d EXCEPT
     !.hash2class = @ \ C,
     !.class2file = [w \in Word |-> IF w \in C THEN {} ELSE @[w]]]

\* RemoveClassImpl, for each class of C: the files are found through CLASS2FILE.
RemoveClassRows(d, C) ==
  [d EXCEPT
     !.hash2class = @ \ C,
     !.file2class = [f \in FileID |-> @[f] \ {c \in C : f \in d.class2file[c]}],
     !.class2file = [w \in Word |-> IF w \in C THEN {} ELSE @[w]]]

-------------------------------------------------------------------------------
Init ==
  /\ db = Empty
  /\ disk = Empty
  /\ job = Idle
  /\ held = {}
  /\ issued = {}

\* WRITE_END: what the call leaves in db is in the file when it returns.
Save(d) == db' = d /\ disk' = d

\* Mutant of GenerateNextFilesID: no WRITE_END.
MutantGenerateNextFilesID(cnt) ==
  LET last == db.lastID + cnt
      ids == db.lastID + 1 .. last
  IN /\ ~job.busy
     /\ last <= MaxFile
     /\ db' = [db EXCEPT !.lastID = last]
     /\ held' = held \cup ids
     /\ issued' = issued \cup ids
     /\ UNCHANGED <<job, disk>>

\* GenerateNextFilesID
GenerateNextFilesID(cnt) ==
  LET last == db.lastID + cnt
      ids == db.lastID + 1 .. last
  IN /\ ~job.busy
     /\ last <= MaxFile
     /\ Save([db EXCEPT !.lastID = last])
     /\ held' = held \cup ids
     /\ issued' = issued \cup ids
     /\ UNCHANGED job

\* AddFiles: the importer passes the id it has just been given.
AddFiles(F) ==
  /\ ~job.busy
  /\ Save(AddRows(db, F))
  /\ held' = held \ F
  /\ UNCHANGED <<job, issued>>

RemoveFiles(F) ==
  /\ ~job.busy
  /\ Save(RemoveRows(db, Existing(db, F)))
  /\ UNCHANGED <<job, held, issued>>

\* SetTags, up to its loop over the words.
SetTagsBegin(F, T, twice) ==
  /\ ~job.busy
  /\ job' = [files |-> Existing(db, F), tags |-> T, todo |-> T,
             twice |-> twice, busy |-> TRUE]
  /\ UNCHANGED <<db, disk, held, issued>>

\* One word of the loop: AddTagPY ends with a commit of all that was written so
\* far; AddFileID2Tag and the keyword rows come after it.
SetTagsWord(w) ==
  /\ job.busy
  /\ w \in job.todo
  /\ disk' = AddTagPY(db, w)
  /\ db' = Bind(AddFileID2Tag(AddTagPY(db, w), job.files, w), job.files, {w})
  /\ job' = [job EXCEPT !.todo = @ \ {w}]
  /\ UNCHANGED <<held, issued>>

\* The rest of SetTags.  The size of the FILE2TAG row is taken from the caller's
\* list, so that one more index is read past the end of the vector when the list
\* names a tag twice.
SetTagsEnd ==
  LET files == {f \in job.files : IsFileExist(db, f)}
  IN /\ job.busy
     /\ job.todo = {}
     /\ \E beyond \in IF job.twice THEN {{w} : w \in Word} ELSE {{}} :
          Save(SetStep(SetTagRows(db, files, job.tags \cup beyond), files, "tag"))
     /\ job' = Idle
     /\ UNCHANGED <<held, issued>>

\* Mutant of RemoveTags: no WRITE_END.
MutantRemoveTags(F, T) ==
  /\ ~job.busy
  /\ db' = RemoveKeywords(RemoveTagRows(db, F, T), F, T)
  /\ UNCHANGED <<disk, job, held, issued>>

RemoveTags(F, T) ==
  /\ ~job.busy
  /\ Save(RemoveKeywords(RemoveTagRows(db, F, T), F, T))
  /\ UNCHANGED <<job, held, issued>>

\* AddClasses(classes, files)
AddClasses(C, F) ==
  LET files == Existing(db, F)
  IN /\ ~job.busy
     /\ Save(SetStep(Bind(AddClassRows(db, C, files), files, C), files, "class"))
     /\ UNCHANGED <<job, held, issued>>

\* RemoveClasses(classes, files): no WRITE_BEGIN, no WRITE_END.
RemoveClassesOf(C, F) ==
  /\ ~job.busy
  /\ db' = RemoveMembers(RemoveKeywords(db, F, C), C, F)
  /\ UNCHANGED <<disk, job, held, issued>>

\* RemoveClasses(classes)
RemoveClasses(C) ==
  /\ ~job.busy
  /\ Save(RemoveClassRows(db, C))
  /\ UNCHANGED <<job, held, issued>>

\* DBManager::~DBManager: every table is closed with a commit.
Release ==
  /\ ~job.busy
  /\ Save(db)
  /\ UNCHANGED <<job, held, issued>>

\* The worker process ends, within a call or between two, and is started again.
\* A write that finds the map full ends here too: LMDB then refuses every call
\* until the restart (ErrorUntilRestart of Storage).
Crash ==
  /\ Crashes
  /\ db' = disk
  /\ job' = Idle
  /\ held' = {}
  /\ UNCHANGED <<disk, issued>>

\* setTags as its callers use it.
MaySet(F, T) == KeepTags => \A f \in F : db.file2tag[f] \subseteq T

Some(S) == (SUBSET S) \ {{}}

Next ==
  \/ \E cnt \in 1 .. 2 : GenerateNextFilesID(cnt)
  \/ \E F \in Some(held) : AddFiles(F)
  \/ \E F \in Some(Known) : RemoveFiles(F)
  \/ \E F \in Some(Known), T \in Some(TagWord), twice \in {FALSE, Repeats} :
       MaySet(F, T) /\ SetTagsBegin(F, T, twice)
  \/ \E w \in Word : SetTagsWord(w)
  \/ SetTagsEnd
  \/ \E F \in Some(Known), T \in Some(TagWord) : RemoveTags(F, T)
  \/ \E F \in SUBSET Known, C \in Some(ClassWord) : AddClasses(C, F)
  \/ \E F \in Some(Known), C \in Some(ClassWord) : RemoveClassesOf(C, F)
  \/ \E C \in Some(ClassWord) : RemoveClasses(C)
  \/ Release
  \/ Crash

Spec == Init /\ [][Next]_vars
-------------------------------------------------------------------------------
\* What the reading calls return.

\* GetFilesSnap: the rows of FILESNAP but that of the counter.
GetFilesSnap(d) == {f \in FileID \ {0} : d.snap[f] # {}}
GetUntagFiles(d) == {f \in GetFilesSnap(d) : "tag" \notin d.snap[f]}
GetUnClassifyFiles(d) == {f \in GetFilesSnap(d) : "class" \notin d.snap[f]}
GetTagsOfFile(d, f) == d.file2tag[f]

\* Query on a tag, a class or a keyword: the row of the table (Table.cpp).
FilesOfTag(d, w) == d.tag2file[w]
FilesOfClass(d, c) == d.class2file[c]
FilesOfKeyword(d, w) == d.keyword2file[w]

\* GetAllTags reads one vector per index of TAG_INDX and takes the file lists by
\* position, but GetFilesIDByTagIndex skips an index that has no TAG2FILE row.
ListsOfAllTags(d) == d.tagIndx \cap d.tagRows

-------------------------------------------------------------------------------
TypeOK ==
  /\ db \in Tables
  /\ disk \in Tables
  /\ job \in Jobs
  /\ held \subseteq FileID
  /\ issued \subseteq FileID

\* getUnTagFiles returns exactly the files there are that have no tag, although it
\* reads a bit of FILESNAP that setTags, removeTags and removeFiles keep by hand.
UntaggedIsExact ==
  GetUntagFiles(db) = {f \in db.meta : GetTagsOfFile(db, f) = {}}

\* A file is found under each of its tags by a query, and each of them is listed
\* by getAllTags, whatever was removed before and wherever a crash cut setTags.
TagsAreFound ==
  \A f \in FileID : \A w \in GetTagsOfFile(db, f) :
    /\ f \in db.meta
    /\ f \in FilesOfTag(db, w)
    /\ w \in ListsOfAllTags(db)

\* A file is found by the keyword of each of its tags and classes, as long as the
\* word is not used for both: truncating FILE2KEYWORD hides no file from a search.
KeywordsFind ==
  \A f \in FileID :
    /\ \A w \in GetTagsOfFile(db, f) \ ClassWord : f \in FilesOfKeyword(db, w)
    /\ \A w \in db.file2class[f] \ TagWord : f \in FilesOfKeyword(db, w)

\* The keywords recorded with a file that exists lead back to it: removeFiles can
\* rely on the row to find what it has to clean.
KeywordRowsLeadBack ==
  \A f \in db.meta : \A w \in db.file2keyword[f] : f \in FilesOfKeyword(db, w)

\* FILE2CLASS and CLASS2FILE are each other's inverse, for files and classes there
\* are only; a file that is in a class is never reported as unclassified.
MembershipIsTwoWay ==
  /\ \A f \in FileID, c \in Word :
       f \in FilesOfClass(db, c) <=> c \in db.file2class[f]
  /\ \A f \in FileID : db.file2class[f] \subseteq db.hash2class
  /\ \A f \in FileID : db.file2class[f] # {} => f \in db.meta \ GetUnClassifyFiles(db)

\* The parts of the inductive invariant, on the tables as read and as saved: a
\* FILESNAP row for every file and no other, with the bits its tags and classes
\* call for; every row that names a file or a word is answered by the row of that
\* file or word, where the code keeps them so; and no keyword row waits for an id
\* that is still to be used.
FilesAgree(d) ==
  /\ d.meta \subseteq 1 .. d.lastID
  /\ \A f \in d.meta : "init" \in d.snap[f]
  /\ \A f \in FileID \ d.meta : d.snap[f] = {}

TagsAgree(d) ==
  \A f \in FileID :
    /\ "tag" \in d.snap[f] <=> d.file2tag[f] # {}
    /\ \A w \in d.file2tag[f] :
         f \in d.tag2file[w] /\ w \in d.tagIndx /\ w \in d.tagRows

ClassesAgree(d) ==
  \A f \in FileID :
    /\ d.file2class[f] # {} => "class" \in d.snap[f]
    /\ \A c \in Word : f \in d.class2file[c] <=> c \in d.file2class[f]
    /\ d.file2class[f] \subseteq d.hash2class

KeywordsAgree(d) ==
  \A f \in FileID :
    /\ \A w \in d.file2tag[f] \ ClassWord : f \in d.keyword2file[w]
    /\ \A w \in d.file2class[f] \ TagWord : f \in d.keyword2file[w]
    /\ f \in d.meta => \A w \in d.file2keyword[f] : f \in d.keyword2file[w]
    /\ f > d.lastID => d.file2keyword[f] = {}

Agree(d) == FilesAgree(d) /\ TagsAgree(d) /\ ClassesAgree(d) /\ KeywordsAgree(d)

\* What the loop of SetTags has already done for the words it has left behind.
JobAgrees ==
  job.busy =>
    /\ job.files \subseteq db.meta
    /\ job.tags # {}
    /\ job.twice => Repeats
    /\ \A w \in job.tags \ job.todo :
         /\ job.files \subseteq db.tag2file[w]
         /\ job.files \subseteq db.keyword2file[w]
         /\ w \in db.tagIndx /\ w \in db.tagRows

\* The ids the importer holds have no row yet, and the counter on disk is beyond
\* every id handed out.
IdsAgree ==
  /\ db.lastID = disk.lastID
  /\ issued \subseteq 1 .. disk.lastID
  /\ held \subseteq issued \ db.meta
  /\ \A f \in held : db.file2keyword[f] = {}

\* The inductive invariant of the module, for callers that name no tag twice.
Inv == TypeOK /\ Agree(db) /\ Agree(disk) /\ JobAgrees /\ IdsAgree

\* FILE2TAG and TAG2FILE are each other's inverse between calls: a query on a tag
\* returns no file that does not have it.
TagTwoWay ==
  ~job.busy => \A f \in FileID, w \in Word :
                 f \in FilesOfTag(db, w) <=> w \in GetTagsOfFile(db, f)

\* Between calls, getAllTags has a file list for every word it lists.
AllTagsAreServed == ~job.busy => ListsOfAllTags(db) = db.tagIndx

\* Between calls nothing is unsaved but what removeClasses(classes, files) does, which
\* has no WRITE_END: the class and keyword rows of files.
SavedOnReturn ==
  ~job.busy => db = [disk EXCEPT !.file2class = db.file2class,
                                 !.class2file = db.class2file,
                                 !.file2keyword = db.file2keyword,
                                 !.keyword2file = db.keyword2file]

\* An id is handed out once, whatever crashes.
IdsAreFresh ==
  [][(db.lastID + 1 .. db'.lastID) \cap issued = {}]_vars
===============================================================================
