------------------------------ MODULE Messaging -------------------------------
(***************************************************************************)
(* The renderer's Service (src/renderer/components/utils/Service.js), the  *)
(* relay of the main process (src/main/index.js), and the message handler  *)
(* and the imports of the worker (ResourceService.ts, ImageService.ts) on  *)
(* top of MessagePipeline.                                                 *)
(*                                                                         *)
(* A get is answered by the first message of its reply type that reaches   *)
(* the renderer, whatever request that message replies to: neither the     *)
(* channel nor the callbacks look at the id.  The item a reply carries is  *)
(* the id of the request it answers; an announcement of imported files     *)
(* carries the files.  IPC between two processes keeps the order, and the  *)
(* relay is one more such hop, so each direction is one queue.             *)
(***************************************************************************)
EXTENDS MessagePipeline, FiniteSets

CONSTANTS
  Served,      \* the reply types of replyMessageMap, which a get waits for
  Images,      \* the type of the announcements ("updateImageList")
  File,        \* the files there are to import
  MaxRequest,  \* bound: the number of requests sent
  Overlap,     \* the reply types of which a get is sent while one of the type waits
  OneImport,   \* BOOLEAN: an import starts when the one before has been shown
  Strays       \* BOOLEAN: parsers report by post(type, list)

ASSUME MessagingAssumption ==
  /\ Type = Served \cup {Images} /\ Images \notin Served
  /\ MaxRequest \in Nat
  /\ Item = File \cup (1 .. MaxRequest) /\ File \cap Nat = {}
  /\ Overlap \subseteq Served
  /\ OneImport \in BOOLEAN /\ Strays \in BOOLEAN

Request == 1 .. MaxRequest

VARIABLES
  requestID,  \* the last id given to a request
  requests,   \* the channel to the worker
  waiting,    \* for each request, the type its get waits for; {} if none
  answer,     \* for each request, the items its get was answered with
  stage,      \* for each file: what its import has come to
  owner,      \* for each file: the request that imports it; 0 if none
  inOrder,    \* the requests that import a directory, one file after the other
  shown,      \* the files the renderer has been told of
  refused     \* history: the requests for which nothing was sent back

renderer == <<requestID, requests, waiting, answer>>
imports == <<stage, owner, inOrder>>
vars == <<renderer, imports, shown, refused, pipeline>>

\* A file is read up to its thumbnail, then up to its colours.
Stage == {"new", "sent", "queued", "reading", "named", "posted", "lost"}

Init ==
  /\ PipelineInit
  /\ requestID = 0
  /\ requests = <<>>
  /\ waiting = [r \in Request |-> {}]
  /\ answer = [r \in Request |-> {}]
  /\ stage = [f \in File |-> "new"]
  /\ owner = [f \in File |-> 0]
  /\ inOrder = {}
  /\ shown = {} /\ refused = {}

-------------------------------------------------------------------------------
\* service.send, and the relay to the worker.
Send(type) ==
  /\ requestID < MaxRequest
  /\ requestID' = requestID + 1
  /\ requests' = Append(requests, [type |-> type, id |-> requestID + 1])

\* service.get: send, then wait for the reply type.
Get(type) ==
  /\ type \in Overlap \/ \A r \in Request : type \notin waiting[r]
  /\ Send(type)
  /\ waiting' = [waiting EXCEPT ![requestID + 1] = {type}]
  /\ UNCHANGED <<answer, imports, shown, refused, pipeline>>

\* The import of the paths the user chose: of files, or of a directory of them.  Those of
\* a directory in it are read beside those behind it, like files; so is one alone.
Import(F, directory) ==
  /\ directory => \E f, g \in F : f # g
  /\ \A f \in F : stage[f] = "new"
  /\ OneImport => \A f \in File : stage[f] \in {"new", "lost"} \/ f \in shown
  /\ Send(Images)
  /\ stage' = [f \in File |-> IF f \in F THEN "sent" ELSE stage[f]]
  /\ owner' = [f \in File |-> IF f \in F THEN requestID + 1 ELSE owner[f]]
  /\ inOrder' = inOrder \cup {r \in {requestID + 1} : directory}
  /\ UNCHANGED <<waiting, answer, shown, refused, pipeline>>

\* The listener of 'message-from-main'.  A handler of a read request replies in the
\* same turn; or nothing is sent back, when it throws, for there may be no library, when
\* it returns nothing, or when the type has none, which throws in the listener.  An
\* import leaves its files to be read.
Handle ==
  /\ requests # <<>>
  /\ requests' = Tail(requests)
  /\ LET req == Head(requests)
     IN \/ /\ req.type \in Served
           /\ Post(req.type, req.id, {req.id})
           /\ UNCHANGED <<imports, refused>>
        \/ /\ req.type \in Served
           /\ refused' = refused \cup {req.id}
           /\ UNCHANGED <<imports, pipeline>>
        \/ /\ req.type = Images
           /\ stage' = [f \in File |-> IF owner[f] = req.id THEN "queued" ELSE stage[f]]
           /\ UNCHANGED <<owner, inOrder, refused, pipeline>>
  /\ UNCHANGED <<requestID, waiting, answer, shown>>

\* A file whose reading throws; in a directory it takes those behind it with it.
Abandon(f) ==
  stage' = [g \in File |->
              IF g = f \/ (owner[g] = owner[f] /\ owner[f] \in inOrder
                           /\ stage[g] = "queued")
              THEN "lost" ELSE stage[g]]

\* A parser, which may post a stray and goes on all the same (the loop over _parsers
\* does not break), or throws: in the storage, or because a stray waits.
Parse(f, then) ==
  \/ /\ stage' = [stage EXCEPT ![f] = then]
     /\ \/ UNCHANGED pipeline
        \/ Strays /\ PostStray
  \/ /\ Abandon(f)
     /\ UNCHANGED pipeline

\* The parser of the meta data, before the wait for the thumbnail.
BeginRead(f) ==
  /\ stage[f] = "queued"
  /\ owner[f] \in inOrder =>
       \A g \in File : owner[g] = owner[f] => stage[g] \notin {"reading", "named"}
  /\ Parse(f, "reading")
  /\ UNCHANGED <<owner, inOrder, renderer, shown, refused>>

\* The parser of the path, before the wait for the colours.
ReadPath(f) ==
  /\ stage[f] = "reading"
  /\ Parse(f, "named")
  /\ UNCHANGED <<owner, inOrder, renderer, shown, refused>>

\* The colours are done: readImages posts the file; or their clustering is refused.
EndRead(f) ==
  /\ stage[f] = "named"
  /\ \/ /\ stage' = [stage EXCEPT ![f] = "posted"]
        /\ Post(Images, owner[f], {f})
     \/ /\ Abandon(f)
        /\ UNCHANGED pipeline
  /\ UNCHANGED <<owner, inOrder, renderer, shown, refused>>

Timer ==
  /\ Immediate \/ Tick
  /\ UNCHANGED <<renderer, imports, shown, refused>>

\* Mutant of Deliver: a reply answers the get with its id, and no other.
MutantDeliver ==
  /\ sent # <<>>
  /\ sent' = Tail(sent)
  /\ LET msg == Head(sent)
         answered == {r \in Request : msg.type \in waiting[r] /\ r = msg.id}
     IN /\ waiting' = [r \in Request |-> IF r \in answered THEN {} ELSE waiting[r]]
        /\ answer' = [r \in Request |-> IF r \in answered THEN msg.items ELSE answer[r]]
        /\ shown' = IF msg.type = Images THEN shown \cup msg.items ELSE shown
  /\ UNCHANGED <<requestID, requests, imports, refused,
                 messageQueue, handle, intervals, immediates>>

\* The listener of 'message-to-renderer' calls every callback registered for the
\* type; a promise takes the first call and ignores those after it.
Deliver ==
  /\ sent # <<>>
  /\ sent' = Tail(sent)
  /\ LET msg == Head(sent)
         answered == {r \in Request : msg.type \in waiting[r]}
     IN /\ waiting' = [r \in Request |-> IF r \in answered THEN {} ELSE waiting[r]]
        /\ answer' = [r \in Request |-> IF r \in answered THEN msg.items ELSE answer[r]]
        /\ shown' = IF msg.type = Images THEN shown \cup msg.items ELSE shown
  /\ UNCHANGED <<requestID, requests, imports, refused,
                 messageQueue, handle, intervals, immediates>>

Next ==
  \/ \E type \in Served : Get(type)
  \/ \E F \in (SUBSET File) \ {{}}, directory \in BOOLEAN : Import(F, directory)
  \/ Handle
  \/ \E f \in File : BeginRead(f) \/ ReadPath(f) \/ EndRead(f)
  \/ Timer
  \/ Deliver

Spec == Init /\ [][Next]_vars

\* The event loops run what is ready: messages are taken, timers fire, and the
\* reading of a file comes to an end.
Fairness ==
  /\ WF_vars(Handle)
  /\ WF_vars(Timer)
  /\ WF_vars(Deliver)
  /\ \A f \in File : WF_vars(BeginRead(f)) /\ WF_vars(ReadPath(f)) /\ WF_vars(EndRead(f))

FairSpec == Spec /\ Fairness
-------------------------------------------------------------------------------
TypeOK ==
  /\ PipelineTypeOK
  /\ requestID \in 0 .. MaxRequest
  /\ requests \in Seq([type : Type, id : Request])
  /\ waiting \in [Request -> SUBSET Type]
  /\ answer \in [Request -> SUBSET Item]
  /\ stage \in [File -> Stage]
  /\ owner \in [File -> 0 .. MaxRequest]
  /\ inOrder \subseteq Request
  /\ shown \subseteq File
  /\ refused \subseteq Request

Inv == TypeOK /\ OneTimer /\ QueueIsServed

\* Every get is answered unless the handler of its own request sent nothing, although
\* a reply is dropped when one to a later request is posted before the timer fires.
GetIsAnswered ==
  \A r \in Request : (waiting[r] # {}) ~> (waiting[r] = {} \/ r \in refused)

\* A caller that sends no get while one of the type waits is answered with the reply
\* to its own request, not with one computed before, whatever other types do.
OwnAnswer ==
  [][\A r \in Request :
       waiting[r] \cap Overlap = {} /\ answer'[r] # answer[r] => answer'[r] = {r}]_vars

\* A get is never answered with a reply that has answered an earlier one: the answer
\* is news, though it may be that to an earlier request.
AnswersAreNews ==
  [][\A r, s \in Request :
       answer[r] = {} /\ answer'[r] # {} => answer[s] # answer'[r]]_vars

\* Every file whose reading has ended is shown, if imports do not overlap: the
\* files of one import are merged, never dropped.
ReadIsShown == \A f \in File : (stage[f] = "posted") ~> (f \in shown)

\* Every request of replyMessageMap gets the reply listed with it
\* (src/renderer/components/utils/Service.js:6-23).
EveryGetIsAnswered ==
  \A r \in Request : (waiting[r] # {}) ~> (waiting[r] = {})
===============================================================================
