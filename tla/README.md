# A specification of civet

civet keeps a library of images on a desktop: it imports files, tags them, sorts
them into classes and searches them. It is an Electron program. A C++ addon,
`civetkern`, stores everything in an LMDB database; a hidden *worker* window owns
the addon and imports files; the *renderer* window shows them; the *main* process
passes messages between the two. This directory models the parts where the program
can go wrong in ways its tests would hardly show, checks the models with TLC on
small instances, and proves the most important results with TLAPS.

## 1. The system

| Component | State | Operations | Talks to |
|---|---|---|---|
| `CDatabase` (`civetkern/src/database.cpp`) | the environment, one transaction `m_pTransaction` kept open between calls, the flag `m_dOperator` | open, `Begin`, `Get`, `Put`, `Del`, `Filter`, cursors, `Commit`, `Copy2`, close | LMDB |
| `CStorageProxy` (`StorageProxy.cpp`, `upgrader.*`) | the current `CDatabase`, open tables, the dictionary of words, meta tables | forwards every call; `GetWordsIndex`; `TryUpdate` (copy, replace, reopen) | `CDatabase` |
| `DBManager` (`db_manager.cpp`) | none of its own; some twenty tables that must agree with one another | `generateFilesID`, `addFiles`, `removeFiles`, `setTags`, `removeTags`, `addClasses`, `removeClasses`, `updateClassName`, `addMeta`, `updateFile`, `query`, the `get...` calls | `CStorageProxy` |
| Query (`Table.cpp`, `RPN.cpp`, `Expression`, `Condition`, `QueryRule.h`) | a stack while a query runs | parse to reversed polish form, run | tables, meta tables |
| N-API facade (`civetkern.cpp`, `interface.cpp`), `Kernel.js` | one `DBManager`; the name of the current database | convert and call; init, release | worker |
| `MessagePipeline`, `Timer` (`worker/MessageTransfer.ts`) | the `Map` of replies to be sent, the timer's handle | `post`, the timer's task and tick, the listener | main process |
| `ResourceService`, `ImageService` (`worker/`) | imports under way | twenty handlers; parsers of meta data, thumbnail, path and colours | `Kernel.js`, `MessagePipeline` |
| `RendererMock`, `ServiceHub`, `ResourceLoader` | a websocket | download a file and import it | `ResourceService` |
| Main process (`main/index.js`) | the two windows | relay both ways, export | both windows |
| `Service` (`renderer/components/utils/Service.js`) | the callbacks registered per type | `send`, `get`, the listener | main process |
| `Cache` (`renderer/store/modules/Cache.js`, `FileBase.js`, `Tree.js`) | files, tags, classes, counts | the store's actions and mutations | `Service` |

Not listed are configuration, logging, the table of pinyin letters, the window
components and the vendored libraries (LMDB, the JSON and PEGTL headers); `PROJECT.json`
names the parts of civet left out, with the reason.

### What is hard, and what each part must guarantee

- **One transaction for everything.** No call of `DBManager` opens a transaction of
  its own: reads and writes share the one `Begin` finds, `Commit` works only if the
  flag says that something was written, and callers ignore what either returns.
  *A commit that answers true leaves everything accepted in the file; the file never
  holds a part of a transaction; after LMDB has refused a transaction nothing more is
  written.*
- **Redundant tables.** A tag is in `FILE2TAG`, `TAG2FILE`, `TAG_INDX`, two keyword
  tables and a bit of `FILESNAP`; each call keeps its own subset of them by hand, one
  (`setTags`) commits on its way, one (`removeClasses` of files) never commits.
  *The lists lead to each other whatever was removed before and wherever a crash came.*
- **Replies that are merged, dropped and matched by type.** The worker holds replies
  back, drops those of earlier requests, and the renderer gives a reply to every get
  that waits for its type. *Every get whose handler answers is answered, and every file whose
  reading has ended is shown.*
- **Class paths**, hashed from words whose indexes are truncated, and renamed in place
  over four tables, with files under the ids. *A class is found by its path, its id and
  its words; an id that is given again brings no files with it.*
- **The copy of the database** that an upgrade puts in the place of the original.
  *What was answered for is in the file or in the copy beside it at every moment.*
- **One addon, opened by name at every call**, while an import of the library before
  still goes on. *Each call reaches the library it was made for.*
- **Match tables** for meta data, made when they are first needed, and a query program
  whose operators take what is on a stack. *A query answers the files that satisfy it.*
- **A second copy of everything in the renderer**, filled by one action in four waits
  while announcements and removals run. *When nothing is on its way, it is the library.*

The hazards behind these, each at its line, are the list `hazards` of `PROJECT.json`.

## 2. The modules

| Layer | Contract | Model | Proofs |
|---|---|---|---|
| transaction | `DurableStore` | `Storage` | `StorageProofs` |
| file of a library, holder of the addon | in the invariants | `SchemaUpgrade`, `Kernel` | `KernelProofs` |
| tables of files, tags, classes, keywords | in the invariants | `FileIndex` | `FileIndexProofs` |
| tree of classes | `ClassForest` | `ClassTree`, `ClassHash` | `ClassTreeProofs` |
| meta data and queries | `Selected` in `MetaIndex` | `MetaIndex`, `QueryProgram` | `MetaIndexProofs` |
| messages and imports | in the properties | `MessagePipeline`, `Messaging` | `MessagingProofs` |
| store of the renderer | in the invariants | `ClientCache` | `ClientCacheProofs` |

`SetInduction` holds induction over the numbers, stated with sets (section 4). A module
`MC...` gives constants that a configuration cannot write and says what the instance is.

### DurableStore and Storage: the transaction

`DurableStore` is the contract the callers of `CDatabase` rely on: `durable`, what a
restart finds; `pending`, that plus the writes accepted since; and `answer`, the last
call and its result. It has a step for each outcome a caller can see.

`Storage` is `CDatabase`. Its variables are the class's members (`m_pTransaction`,
`m_dOperator`, `m_flag`), what the transaction reads (`view`) and what the file holds
(`file`), and two history variables, `accepted` and `answer`. There is one action
for each method. All named tables are one here, as one transaction covers them.
LMDB is external, modelled by what its API does to a transaction: `mdb_put` that finds
the map full leaves the transaction in an error state that refuses everything, and
`mdb_txn_commit` may fail with the file in either state. A `Crash` may come at any
moment. `FilterWrites` says whether callbacks given to `Filter` return a new value:
those of `DBManager` do not; that of `Upgrader<1,2>` (`upgrader.h`) does, and `upgrade`
puts the version after it, which sets the flag.

`Contract` in `Storage` is the refinement: `durable` is `file`, `pending` is
`accepted`. It holds as long as no `Filter` callback writes.

### SchemaUpgrade and Kernel: which file, which library

`SchemaUpgrade` has, for each library, the file under its name and the one under its
name and `.tmp`, each missing, partial or whole; `addon`, the library that is open, and
`view`, what its transaction reads. Opening a file of schema 1 leads through `Copy`,
`Remove`, `Rename` and `Convert`, one action for each step of `TryUpdate` and `replace`
whose result is on the disk; the worker may end between any two. `Copies` is what
`mdb_env_copy2` can leave: it refuses a name that exists, and nobody looks at its answer.
A row is text or CBOR, and the version says which; a row of the wrong format would make
the parser throw.

`Kernel` extends it with the holder of the addon (`current`, `_isInit`, the default
library of the configuration), a call under way (`Begin`, `Perform`), and the three calls
an import makes (`generateFilesID`, `addFiles`, `addMeta` for the colours), between which
the user may `Switch` libraries. `Crash` and `Start` end the worker and load `Kernel.js`
again. `saved` records the images that were answered for; `suffered` names the accidents a
library has met: its copy was *cut*, the worker ended in the *gap* between removal and
renaming, an import *crossed* into it.

### FileIndex: the tables

`FileIndex` is the part of `DBManager` that keeps file, tag, class and keyword tables
in step. A record of the type `Tables` holds the tables; `db` is that record as the
open transaction reads it, `disk` as of the last commit: the `view` and `file` of
`Storage` when nothing is refused. The helpers of the code (`AddFileID2Tag`,
`BindKeywordAndFile`, `SetSnapStep`, `RemoveKeywords`, ...) are operators from tables
to tables, and an action applies those its call makes, in order, and ends in `Save`
where the code has `WRITE_END`. As the addon's calls are synchronous and made by one
event loop, a call is one action; only `SetTags`, which commits in `AddTagPY` once per
word, is cut there (`SetTagsBegin`, `SetTagsWord`, `SetTagsEnd`), so that a crash finds
what the code would leave. `held` and `issued` follow the ids from `generateFilesID` to
`addFiles`.

What the code does to the data is kept where properties see it: `RemoveKeywords`
writes half the bytes and so loses half the words that remain (`Lowest`); `SetTags`
replaces `FILE2TAG` and only adds to `TAG2FILE`; `RemoveClassesOf` neither begins nor
commits; `SetTagsEnd` takes the length of the row from the caller's list (`Repeats`
allows lists that name a tag twice, as `addTag` of `Cache.js` can send).
Abstracted: a word is its index in the dictionary, a row without repetitions is a set,
the value of a `FILE_META` row is left out, and classes are those directly under the
root.

### ClassForest, ClassTree and ClassHash: the classes

`ClassForest` is what users of classes see: a set of paths closed under taking the
parent, each with an id that no rename changes and the files filed under it. Classes are
added below one there is, renamed or removed with all that is below them; files are put
into a class and taken out.

`ClassTree` has the five tables of classes: `CLASS2HASH` (for each key a row of `.`,
`..` and the children), `HASH2CLASS`, `KEYWORD2CLASS`, `CLASS2FILE` and `FILE2CLASS` (the
last two as sets of pairs). Its actions are the calls `addClasses`, `removeClasses` of
files, `updateClassName` and `removeClasses` with one path. `AddClass` keeps the row
`AddClassImpl` writes for a parent that was never added, `UpdateClassName` the transfer of
the whole keyword row and the descent that stops after one level (`Followers`),
`RemoveClasses` the way from names to rows to children to names (`Falling`), the parent
found through the row (`Left`) and the files found through `CLASS2FILE` (`Unfiled`).
`Shown` is what `GetClasses` lists, which finds each id again from its name; `InCount` is
the loop of `GetAllFileCountOfClass`. Constants say how callers behave: `ParentsFirst` (the
tree of the interface adds below a class it shows) and `Deep` (a class with grandchildren
is renamed). The hash is a constant operator; `ClassHash` is that of the code, with the
truncation of `serialize` and the signed characters of `encode`, and `MCClassTree` uses it. The other rows of a file and its
removal are `FileIndex`'s, and so is the crash that takes back what `RemoveClassesOf` left
to the next commit. The new name of a class differs in its last word, which is the use
`updateClassName` is meant for (`function.test.js:153`). `Renamed` replaces as many words
as the old path has where the code replaces as many characters, the same for names that
begin with that path.

### QueryProgram and MetaIndex: meta data and queries

`QueryProgram` follows a query from its conditions through the program `RPN` makes of it
(`Emit`, `Program`) to the stack machine of `Query` (`Step`, `Stacks`, `Result`) and the
comparison of a condition with a match table (`Lookup`, `Both`). What is read where nothing
is (below the stack, a cursor without a row) is `Undefined`, and `Answers` has any set of
files for it.

`MetaIndex` has `FILE_META` (`meta`), the names that have a match table (`tables`), and
the tables (`match`); its actions are `AddFile`, `AddMeta`, `UpdateFileMeta` and
`RemoveFile`, with `mapExistFiles` in front of what an import brings late. `unindexed` and
`updated` record the items given before their table was there and those changed behind its
back. `Selected` is the reference a query is compared with: the files that satisfy each
condition by the items they have.

### MessagePipeline and Messaging: gets and imports

`MessagePipeline` has the `Map` as the sequence of its entries, the timer (`handle`,
the intervals that run, the tasks `setImmediate` has scheduled) and the channel
`sent`. `Put` is what `post` does to the map: drop smaller ids of the type, merge under
the same key, or append. `PostStray` is a message posted as a string and a list, as the
parsers do: its key is `undefined,undefined`, and the next one throws.

`Messaging` extends it with the renderer's gets (`waiting`, `answer`), the channel of
requests, the listener of the worker (`Handle`) and the imports (`stage`, `owner`,
`inOrder`). A handler may send nothing: it throws (there is no library), it returns nothing
(`getAllTagsWithImages`), or the type has none and the listener itself throws; `refused`
records those requests. A file is read up to its thumbnail (`BeginRead`, the parser of the
meta data), up to its colours (`ReadPath`, that of the path) and to its end (`EndRead`);
the two parsers may each post a stray, and any of the three steps may throw, which loses
the file and those behind it in its directory (`Abandon`). `readDir` of a directory inside
another is not awaited: its files are read beside those behind it, and are in the model as
files of no directory; that they are in order among themselves, which needs two of them
beside a third file, is left out. The listener of the renderer (`Deliver`) gives a reply to
every get that waits for its type. IPC keeps the order of messages between two processes and the main
process adds a hop, so each direction is one queue; no message is lost.
Constants say how callers behave: `Overlap` (the types of which a get is sent while one
waits), `OneImport` (an import starts when the one before is shown), `Strays`.

### ClientCache: the store of the renderer

`ClientCache` has the cache (`files`), the list on the screen (`viewItems`) and the counts
beside it, the actions of the store that wait (`init`, `counting`, `querying`), both
channels, and the worker as the sets of files of its libraries. Each `await` is a step. It
takes from `Messaging` that answers come and in order, for a worker with a library, whose
handlers answer (the first start, without one, is the run `hang`), and from
`FileIndex` that a call sees the files there are. A file that is stored is announced
(`Announce`), or its import is given up because a parser behind the storage throws
(`Abandon`): it stays in the library and, until the next `init`, unknown to the cache
(`lost`). A file whose meta data cannot be read is not stored and announced all the same,
without an id (`Misread`); the cache keeps it under 0 (`NoID`), and the removal of its item
does not take it out. `raced` records which actions have
overlapped, so that the properties can say what goes wrong without it and hold otherwise.

## 3. The runs

| Run | Question | Instance |
|---|---|---|
| `storage` | Does `CDatabase` keep the contract, when writes are refused, commits fail and the process crashes? | 2 keys, 2 values |
| `storage_filter_writes` | What is left of it when `Filter` writes? | 2 keys, 2 values |
| `index_tags` | Do the tag, class, keyword and snapshot tables agree, with a crash anywhere? | 2 files, 2 words, one of them tag and class |
| `index_keep` | Is `TAG2FILE` the inverse of `FILE2TAG` when callers repeat a file's tags? | 2 files, 3 tags, no crashes |
| `index_retag` | And when they do not? No: violated | 2 files, 2 tags |
| `meta_query` | Do queries find what has the meta data asked for? | texts and colours, 2 values, 2 files of 2 items, all queries of 1 and 2 conditions |
| `library` | Is an image lost or given to the wrong library by upgrades, switches and crashes? | an old library of one image and a new one, 2 images to import, 3 ids |
| `client_cache` | Does the store of the renderer follow the library, but for imports that fail? | 2 libraries of 2 ids, one file of each there before |
| `messages` | Are gets answered with news or their own reply if their handlers answer, and files shown? | 3 requests of 3 types, 2 files |
| `hang` | Is every get of `replyMessageMap` answered? No: not when its handler throws | 2 requests |
| `class_tree` | Do the class tables implement a forest with lasting ids and files? | 2 words, 1 file, 3 classes up to 3 deep, 2 renames or removals |
| `class_rename` | Do grandchildren follow when a class is renamed? No: violated | the same |

*Why the instances are large enough.* Two keys let a transaction hold a write that was taken
beside one that was refused; two values an overwrite. Two files let a row keep one when
it loses the other, and the second can be given its id after the first was removed.
A keyword row is cut in half, so two words are needed to lose one and three for one to
survive; `index_keep` has three. In `meta_query` the values 1 and 3 are not near each
other, one name has its match table from the start and the other when colours come, and two
items let a file have one that is indexed and one that is not. In `library` two imports
let one be read while the other is under way, and three ids let an image of one library
land on the row of another. In `client_cache` the ids of the two libraries meet, and each
has a file that was there before and one to come. Three requests let a reply of a type wait
in the map while another is in the channel and a get waits; two files are a directory with
one behind the one that fails. The words of `MCClassTree` are 4 and 12 because their
hashes meet: the first class below a class has the hash of its parent, two classes of
different depth share one, and one path has hash 0 (the `ASSUME` there has TLC check
this). Three classes are a chain of three, or a parent with two children; two
renames or removals let an id be given up and given to another path.

*Bounds.* `MaxFile`, `MaxRequest`, `MaxClass`, `MaxChange`, `MaxItem` and `Depth` are the
only counts that are cut, each in a guard or a type; `ClientCache` also has at most one
`init`, one `query` and one switch under way, the switch only when nothing has overlapped
before, one announcement without an id that the cache does not know, and one removal of its
item. Two runs have a state constraint. `StillClaimed` of `client_cache` cuts the states in
which a query and another action have overlapped: `raced` never shrinks and neither
property claims anything of them or of what follows. `FewTasks` of `messages` cuts those in
which three posts came before the first of their tasks ran; `MessagingProofs` has any
number of them for every safety property of the run. `client_cache` uses the symmetry of the
libraries, which no action tells apart.

*What is proved needs no bound.* `StorageProofs`, `KernelProofs`, `FileIndexProofs`,
`MetaIndexProofs`, `MessagingProofs`, `ClassTreeProofs` and `ClientCacheProofs` state
every invariant, action property and refinement of their runs for every value of the
constants: there the run is the first check, and shows that the case happens.

*Deadlock* is not checked in `messages` and `hang`, which come to rest when the requests
the bound allows are answered; it is checked in every other run.

*Each property has a mutant*: a definition of the model changed as a plausible slip in
the code would (named `Mutant...`, beside the original), under which the run must find
the property violated.

### What the runs show

- `CDatabase` implements its contract for the callers the program has. The flag is not
  set by `Filter`: with `FilterWrites`, `NormalMeansClean` and `CommitMeansDurable` fail
  and only what `storage_filter_writes` checks is left. The upgrader is saved by the
  `Put` that follows.
- An upgrade keeps every image in the file or in the copy beside it, wherever the worker
  ends, and rows and version change together: except that a copy that failed, or what an
  interrupted upgrade left under its name, replaces the only good file, as the answer of
  `mdb_env_copy2` is not looked at. When the worker ends between removal and renaming,
  the next one creates an empty database; the images stay in the `.tmp` file, which
  nobody looks at again, and ids start from one.
- A worker that was started with a library releases the addon and opens the default one
  again at *every* call, as `current` is never updated. A switch thus takes effect in the
  middle of an import: `addFiles` overwrites a row of the other library by an id of the
  first, and colours go to the file of that number there. A worker that was started
  without one keeps the first library it opens, and every later switch, which answers
  true, changes nothing.
- Ids of classes are unique and last, and their files with them, although hashes of
  short paths often meet and an id given up is soon given again. A path of hash 0 is
  silently refused. A class whose descent is deeper than two is not renamed with its
  ancestor (`class_rename`); from there on removals can leave an id without a name in a
  list of children, and the count of files then never ends (with `Deep` and
  `MaxClass = 6`, after three classes were added, the top one renamed, the three added
  again and the renamed one removed).
- `getUnTagFiles` is exact, tagged files are found under each tag and each tag is
  listed, for any order of calls and crashes. Half a keyword row is lost by
  `RemoveKeywords`, and still no file disappears from a search: the search reads
  `KEYWORD2FILE`, which is not cut. What goes wrong is the opposite: a removed file can
  stay in the list of a word that was lost (`KeywordRowsLeadBack` is about files there
  are).
- What a call returned is in the file, but for the rows `removeClasses` of files leaves
  to the next commit (`SavedOnReturn`).
- A second `setTags` that drops a tag leaves the file in its list (`index_retag`). The
  interface repeats a file's tags when it adds one, which hides this from its users; but
  a list that names a tag twice, which `addTag` can send, stores what lies behind the
  vector as a tag (with `Repeats`, `Inv` of `FileIndex` fails).
- `AllTagsAreServed` is checked without crashes only: after one in `setTags` a word is
  listed that has no `TAG2FILE` row, and `GetAllTags` then reads past its lists.
- A query of one or two conditions answers the files that have what it asks for. With
  three, one `and` is emitted all the same and the third condition has no effect, while
  the filter bar collects keyword, type, time and colour in one query. Empty arrays,
  arrays of colours, and match tables without a row are read where nothing is.
  `updateFile` leaves the old value in the match table for good, and an item given before
  its table exists is never indexed.
- The store of the renderer follows the library when its actions do not overlap. A file
  announced while `init` waits is missing from the count for good; an announcement that
  comes after the removal brings the file back; a query that finds files not yet
  announced puts `undefined` into the view, and a removal then throws after the cache
  forgot the file and before the worker is told. A file whose import was given up after it
  was stored is in the library, in what a query finds and in no view of all files until
  the next `init`. One whose meta data could not be read is in the cache and in the count
  as file 0, and stays there, uncounted, when its item is removed. A switch clears nothing: a file that is
  imported later can be taken for one of the library before. Each exclusion of
  `CacheFollows` and `ViewIsOfCache` is needed: without it TLC finds the property
  violated.
- Every get whose handler answers is answered although replies are dropped, because a
  reply is only dropped when another of its type is in the map, and the renderer does not
  look at ids.
  For the same reason an overlapping get may be given the reply to an earlier request:
  `OwnAnswer` is about the types whose gets take turns. What holds in general is
  `AnswersAreNews`.
- Files of imports that overlap may never be announced, as `post` drops the message of
  the earlier one; `ReadIsShown` is checked for imports that take turns. A file that
  throws takes the rest of its directory with it (`Abandon`): the property speaks of
  files whose reading has ended.
- A get whose handler sends nothing waits until a later get of its type is answered
  (`hang`). The program meets this at its first start, where `init` asks for the
  unclassified files of a library that does not exist yet: the handler calls a method of
  null, and `init` goes on when the first import asks for them again. Three types of
  `replyMessageMap` can never be answered: `hasDirectory` and
  `getImagesWithDirectoryFormat` have no handler and that of `getAllTagsWithImages` returns
  nothing; no component in use sends them.

### Fairness

`FairSpec` of `Messaging` has weak fairness of the steps an event loop takes when they are
ready: the worker's listener, its timer, the renderer's listener, and the steps of each
file's import, whose waits (image resizing, clustering) end in a result or an error.
Nothing is assumed of the user: `Get` and `Import` have no fairness. `Handle`, `BeginRead`,
`ReadPath` and `EndRead` are fair as a whole, never in a chosen outcome: that a handler
answers or a file is read to its end is not assumed. The other modules make no
liveness claim: nothing obliges a caller to commit, an upgrade to finish or a user to go
on. `CacheFollows` speaks of the moments at which nothing is on its way.

## 4. The proofs

All theorems hold for every value of the constants that satisfies the named assumptions of
the modules (`StorageAssumption`, `UpgradeAssumption`, `KernelAssumption`,
`FileIndexAssumption`, `ClassTreeAssumption`, `HashAssumption`, `QueryAssumption`,
`MetaAssumption`, `PipelineAssumption`, `MessagingAssumption`, `CacheAssumption`), and of the conditions on
callers they name. `PROJECT.json` lists them. The argument in each module is an inductive
invariant; what follows says what it adds to the properties and why.

`StorageProofs`. `Inv` relates the members to the history: no transaction when closed, the
flag NORMAL without a transaction, the transaction reads what was accepted
(`ViewIsAccepted`), and nothing is awaiting commit when there is no transaction or
the flag is NORMAL (`NothingAwaits`). The last part is what makes `NormalMeansClean` and
`CommitMeansDurable` inductive; a failed commit keeps flag and transaction, so that it
is kept there. From `Inv` follow `NormalIsClean` and `CommitIsDurable` (for
`~FilterWrites`), `ReadsAreCurrent`, `FileIsAtomic` and `ErrorIsFinal`; and
`Refinement`, in two lemmas: initial states map to initial states (`InitRefines`), every
step to a step of the contract or a stutter (`StepRefines`).

`KernelProofs`. `WorkerInv` is about the process: types, the format of the rows in each
file, copy and view (`Formats`), what is open in each phase (`WorkerAgrees`), and that a
call under way is one its import was due (`CallAgrees`). From it follow `Invariance` and
`DefaultIsReached`. `LibraryInv` is about each library by itself: what its file and copy
hold in each phase and after each accident, and where the ids of imports lie
(`LibraryAgrees`). A step touches the open library; `Frame` carries the others over. From
it follow `ImagesAreKept`, `ImagesAreServed` and `ColorsAreOwn`.

`FileIndexProofs`. The visible properties are not inductive: a crash takes `db` back to
`disk`, so `Agree` is stated of both; it has a part for files, tags, classes and
keywords. `JobAgrees` says what the loop of `SetTags` has done for the words behind it,
which is what makes the `FILE2TAG` row it writes at the end agree with lists written
before; `IdsAgree` that the counter in the file is beyond every id handed out and that
no keyword row waits for one. There is a lemma for each helper (`RemoveRowsAgrees`,
...), and one step for each action in the inductive step. `ReturnedIsSaved` compares `db`
and `disk` with a second invariant, that they differ in the class rows `removeClasses`
left and nowhere else (`SavedBut`); `TagsAreTwoWay` and `ListedTagsAreServed`, for callers
that keep tags and without crashes, need a third (`ListsLeadBack`): in the middle of a
`setTags`, the lists that already name the file are those of its words. The theorems
assume `~Repeats`.

`ClassTreeProofs`. `TreeInv` is `Inv`, and that `HASH2CLASS` is a function with finitely
many ids. The conditions are those of the run, `ParentsFirst` and `~Deep`. The two hard
calls are first put in another form: a rename of a class without grandchildren is the
renaming of every path under it (`RenameIsRenaming`), a removal takes exactly the classes
under the path (`FallingIsUnder`, `RemoveIsRemoving`), which is an induction over the
depth of the recursive descent. `RoundIsLevel` is the same for the count: after `n` rounds
its list has the classes `n + 1` words longer, so it passes each class once and is empty at
last. `ClassesAreFound` and `Refinement` follow from the same forms; the refinement also
needs that no id without a name has files (`FilesAgree`), or a class that is given an id
again would have more than it was added with (`NewHasItsFiles`, which `KeepsForest` has
beside `Forest!Spec`, as the contract alone lets a class be added with any files).

`MetaIndexProofs`. `IndInv` is `Inv` with `ItemsAreMatched` and with `ItemsAreMarked`: an
item whose name has no match table was given before it or changed. `AddMeta`, which makes
the table, must know this of the files it is not given, or they would be found missing
there. `QueriesFind` has two halves. That the tables agree with `FILE_META` (`FoundHolds`)
is the invariant read in both directions, `NoStrayRows` and `ItemsAreMatched`. That the
program computes what the tables have is about the stack machine: there is a lemma for
each kind of symbol (`Pushes`, `Collects`, `LooksUp`, `Meets`), an induction over the
constants of an array (`ConstantsArePushed`), and from them that the symbols of a condition
leave one list of files on top of whatever was on the stack (`ConditionIsRun`), so that
"and" finds the answers to the two conditions next to each other. `Plain` says for which
queries: a third condition is never joined, an array takes as many constants as `in`
counts, which is none for colours, and a table without a row is read before its first one.

`MessagingProofs` is first about the timer, for messages of any types and any number of
posts: one interval runs when the handle is set and none when it is not
(`OneTimerRuns`), and a reply never waits for a timer that does not run
(`RepliesAreServed`). Then it is about the replies: `ReplyInv` has the types of both channels and the map
(`Channels`, with each id in one place of one of them), that the request whose reply was
an answer is on its way no more (`AnswersAreSpent`), and for the types outside `Overlap`
that the get that waits is the only one whose reply is under way (`Turns`). `Put` is a recursive function over the
entries of the map; that what it returns is a part of them with the new one is an
induction over their number (`LaterIsKept`).

`ClientCacheProofs`. Neither property is inductive: what the cache will have depends on
what is in both channels, in order, when a removal, an announcement or a switch comes
between two answers of `init`. `IndInv` has three parts, each of which needs the one
before.

- `ViewInv`, from which `ViewNamesTheCache` follows. `Questions`: what `init` and `query`
  wait for is once in one of the channels, and nothing else of its type.
  `AnswersCover`: the library has no files but those in the answer under way, in the
  cache, to be removed by a message under way, to be announced, or given up. `QueryIsKnown`:
  while a query waits that overlaps nothing, no removal is behind it and the cache keeps the
  files it will find. `StaysKnown`: the file without an id is in the cache once its item was
  removed.
- `CacheInv`: what the cache lacks and has too much, in the library of the start
  (`StartFollows`), after a switch (`SwitchFollows`) and while `init` waits
  (`InitFollows`: what it has gathered is the library but for files to be announced or given
  up).
- `CountsInv`: an answer to the question for the counts misses only files whose
  announcement is behind it in the channel (`CountsMiss`), and each announcement asks
  again.

`CacheHasTheLibrary` is `IndInv` at a moment when both channels are empty
(`SettledFollows`). The list of the ids of a set in ascending order is a choice of the
model: that there is one is an induction over the size of the set (`ListExists`).

*Induction.* `SetInduction` derives from the library's well-foundedness of numbers that a
set of numbers that has 0 and the successor of each of its elements has all of them. In
this form the provers can use it: the proof names the set. That a recursive function
satisfies its defining equation is shown each time it is used (`IterationExists`,
`KeptExists`, `StacksExist`).

*Only model-checked*: the liveness properties `GetIsAnswered` and `ReadIsShown`, which are
out of the prover's reach. Every other property of a passing run is stated by a theorem;
those of `FileIndex` and `ClassTree` under the conditions on callers named above. Of the
runs that expect a violation there is nothing to prove.

## 5. What is not modelled, and what remains

Remaining, in this order:

1. `FileIndex` composed with the refusals of `Storage`: what the tables look like when a
   call's commit is refused and its caller goes on. Each is modelled; the product is too
   large for a run and would need the proofs to be composed.
2. The rest of the renderer's store: the tree of classes, the list of tags and names of
   files, whose mutations change the store and send one message.
3. `ClassTree` with the removal of files and the snapshot bit of `FileIndex`, on classes
   of any depth.
4. Queries: the texts the grammar accepts, the conversion of dates and colours, and the
   operators that end in an assertion.
5. The import from the browser extension, one more caller of `readImages`.

The keywords of files that `updateClassName` writes (db_manager.cpp:647-654) are in no
model: `ClassTree` has the names, ids and files of the classes it renames, and `FileIndex`
has no renaming. The dictionary of words is not modelled, since its one call reads, adds and records an
index with nothing in between; the modules take words as their indexes. The upgrade
thread and its queue of writes are in the code and never started. Left out for good:
window layout and input, logging, the pinyin table, thumbnails and the clustering of
colours, LMDB's inside and the JSON and PEGTL libraries. These vendored files and the
table of letters are most of the lines under `src/civetkern` (json.hpp alone has 25
thousand, mdb.c 11 thousand), so that the mapped lines are a small share of all lines
while they cover most functions of the storage, the worker and the messages that change
state.
