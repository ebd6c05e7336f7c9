--------------------------- MODULE FileIndexProofs ----------------------------
(***************************************************************************)
(* Proofs about FileIndex, for every number of files and every vocabulary, *)
(* with crashes at any point.  The helpers of the module are functions     *)
(* from tables to tables; one lemma per helper says that it keeps Agree,   *)
(* and the inductive step combines them as the calls do.                   *)
(***************************************************************************)
EXTENDS FileIndex, TLAPS

-------------------------------------------------------------------------------
LEMMA FileIDFacts == /\ 0 \in FileID
                     /\ FileID \subseteq Nat
                     /\ MaxFile \in Nat
  BY FileIndexAssumption DEF FileID

LEMMA EmptyAgrees == Empty \in Tables /\ Agree(Empty)
  BY FileIDFacts
  DEF Empty, NoRow, NoWordRow, Tables, Agree, FilesAgree, TagsAgree, ClassesAgree,
      KeywordsAgree

\* Removing files takes their ids from every list in which their rows say they are.
LEMMA RemoveRowsAgrees ==
  ASSUME NEW d \in Tables, Agree(d), NEW F \in SUBSET FileID, F \subseteq d.meta
  PROVE  RemoveRows(d, F) \in Tables /\ Agree(RemoveRows(d, F))
<1> DEFINE e == RemoveRows(d, F)
<1>1. /\ e \in Tables
      /\ e.lastID = d.lastID
      /\ e.meta = d.meta \ F
      /\ e.snap = [f \in FileID |-> IF f \in F THEN {} ELSE d.snap[f]]
      /\ e.tag2file = [w \in Word |-> d.tag2file[w] \ {f \in F : w \in d.file2tag[f]}]
      /\ d.tagRows \subseteq e.tagRows
      /\ e.tagIndx = d.tagIndx
      /\ e.file2tag = [f \in FileID |-> IF f \in F THEN {} ELSE d.file2tag[f]]
      /\ e.hash2class = d.hash2class
      /\ e.class2file = [w \in Word |-> d.class2file[w] \ {f \in F : w \in d.file2class[f]}]
      /\ e.file2class = [f \in FileID |-> IF f \in F THEN {} ELSE d.file2class[f]]
      /\ e.keyword2file = [w \in Word |-> d.keyword2file[w] \ {f \in F : w \in d.file2keyword[f]}]
      /\ e.file2keyword = d.file2keyword
  BY DEF RemoveRows, Tables
<1> HIDE DEF e
<1> USE DEF Tables, Agree
<1>2. FilesAgree(e)
  BY <1>1 DEF FilesAgree
<1>3. TagsAgree(e)
  BY <1>1 DEF TagsAgree
<1>4. ClassesAgree(e)
  BY <1>1 DEF ClassesAgree
<1>5. KeywordsAgree(e)
  <2> SUFFICES ASSUME NEW f \in FileID
               PROVE  /\ \A w \in e.file2tag[f] \ ClassWord : f \in e.keyword2file[w]
                      /\ \A w \in e.file2class[f] \ TagWord : f \in e.keyword2file[w]
                      /\ f \in e.meta => \A w \in e.file2keyword[f] : f \in e.keyword2file[w]
                      /\ f > e.lastID => e.file2keyword[f] = {}
    BY DEF KeywordsAgree
  <2>1. ASSUME NEW w \in Word, f \in d.keyword2file[w], f \notin F
        PROVE  f \in e.keyword2file[w]
    BY <1>1, <2>1
  <2>2. CASE f \in F
    BY <1>1, <2>2 DEF KeywordsAgree
  <2>3. CASE f \notin F
    BY <1>1, <2>1, <2>3 DEF KeywordsAgree
  <2> QED BY <2>2, <2>3
<1> QED BY <1>1, <1>2, <1>3, <1>4, <1>5 DEF e

\* A larger counter.
LEMMA NextIDsAgrees ==
  ASSUME NEW d \in Tables, Agree(d), NEW n \in Nat, n >= d.lastID
  PROVE  /\ [d EXCEPT !.lastID = n] \in Tables
         /\ Agree([d EXCEPT !.lastID = n])
<1> DEFINE e == [d EXCEPT !.lastID = n]
<1>1. /\ e \in Tables
      /\ e.lastID = n
      /\ e.meta = d.meta /\ e.snap = d.snap
      /\ e.file2tag = d.file2tag /\ e.tag2file = d.tag2file
      /\ e.tagRows = d.tagRows /\ e.tagIndx = d.tagIndx
      /\ e.hash2class = d.hash2class
      /\ e.file2class = d.file2class /\ e.class2file = d.class2file
      /\ e.file2keyword = d.file2keyword /\ e.keyword2file = d.keyword2file
  BY DEF Tables
<1> HIDE DEF e
<1>2. FilesAgree(e)
  BY <1>1 DEF FilesAgree, Agree, Tables
<1>3. TagsAgree(e) /\ ClassesAgree(e)
  BY <1>1 DEF TagsAgree, ClassesAgree, Agree
<1>4. KeywordsAgree(e)
  BY <1>1, FileIDFacts DEF KeywordsAgree, Agree, Tables
<1> QED BY <1>1, <1>2, <1>3, <1>4 DEF e, Agree

\* Rows for ids that were handed out and have no row of any kind.
LEMMA AddRowsAgrees ==
  ASSUME NEW d \in Tables, Agree(d), NEW F \in SUBSET FileID,
         F \subseteq 1 .. d.lastID, F \cap d.meta = {},
         \A f \in F : d.file2keyword[f] = {}
  PROVE  AddRows(d, F) \in Tables /\ Agree(AddRows(d, F))
<1> DEFINE e == AddRows(d, F)
<1>1. /\ e \in Tables
      /\ e.lastID = d.lastID
      /\ e.meta = d.meta \cup F
      /\ e.snap = [f \in FileID |-> IF f \in F THEN {"init"} ELSE d.snap[f]]
      /\ e.file2tag = d.file2tag /\ e.tag2file = d.tag2file
      /\ e.tagRows = d.tagRows /\ e.tagIndx = d.tagIndx
      /\ e.hash2class = d.hash2class
      /\ e.file2class = d.file2class /\ e.class2file = d.class2file
      /\ e.file2keyword = d.file2keyword /\ e.keyword2file = d.keyword2file
  BY DEF AddRows, Tables, Bit
<1> HIDE DEF e
<1>2. \A f \in F : d.file2tag[f] = {} /\ d.file2class[f] = {}
  BY DEF Agree, FilesAgree, TagsAgree, ClassesAgree
<1>3. FilesAgree(e)
  <2>1. e.meta \subseteq 1 .. e.lastID
    BY <1>1 DEF FilesAgree, Agree
  <2>2. \A f \in e.meta : "init" \in e.snap[f]
    BY <1>1 DEF FilesAgree, Agree, Tables
  <2>3. \A f \in FileID \ e.meta : e.snap[f] = {}
    BY <1>1 DEF FilesAgree, Agree
  <2> QED BY <2>1, <2>2, <2>3 DEF FilesAgree
<1>4. TagsAgree(e)
  BY <1>1, <1>2 DEF TagsAgree, Agree
<1>5. ClassesAgree(e)
  BY <1>1, <1>2 DEF ClassesAgree, Agree
<1>6. KeywordsAgree(e)
  BY <1>1 DEF KeywordsAgree, Agree
<1> QED BY <1>1, <1>3, <1>4, <1>5, <1>6 DEF e, Agree

\* Listing one more word, and adding files to the row of a word.
LEMMA TagLists ==
  ASSUME NEW d \in Tables, Agree(d), NEW F \in SUBSET FileID, NEW w \in Word
  PROVE  /\ AddTagPY(d, w) \in Tables /\ Agree(AddTagPY(d, w))
         /\ AddFileID2Tag(d, F, w) \in Tables /\ Agree(AddFileID2Tag(d, F, w))
<1> DEFINE e == AddTagPY(d, w)
           g == AddFileID2Tag(d, F, w)
<1>1. /\ e \in Tables
      /\ e.lastID = d.lastID
      /\ e.meta = d.meta /\ e.snap = d.snap
      /\ e.file2tag = d.file2tag /\ e.tag2file = d.tag2file
      /\ e.tagRows = d.tagRows /\ e.tagIndx = d.tagIndx \cup {w}
      /\ e.hash2class = d.hash2class
      /\ e.file2class = d.file2class /\ e.class2file = d.class2file
      /\ e.file2keyword = d.file2keyword /\ e.keyword2file = d.keyword2file
  BY DEF AddTagPY, Tables
<1>2. /\ g \in Tables
      /\ g.lastID = d.lastID
      /\ g.meta = d.meta /\ g.snap = d.snap
      /\ g.file2tag = d.file2tag
      /\ g.tag2file = [v \in Word |-> IF v = w THEN d.tag2file[v] \cup F ELSE d.tag2file[v]]
      /\ g.tagRows = d.tagRows \cup {w} /\ g.tagIndx = d.tagIndx
      /\ g.hash2class = d.hash2class
      /\ g.file2class = d.file2class /\ g.class2file = d.class2file
      /\ g.file2keyword = d.file2keyword /\ g.keyword2file = d.keyword2file
  BY DEF AddFileID2Tag, Tables
<1> HIDE DEF e, g
<1>3. FilesAgree(e) /\ ClassesAgree(e) /\ KeywordsAgree(e) /\ TagsAgree(e)
  BY <1>1 DEF FilesAgree, ClassesAgree, KeywordsAgree, TagsAgree, Agree
<1>4. FilesAgree(g) /\ ClassesAgree(g) /\ KeywordsAgree(g)
  BY <1>2 DEF FilesAgree, ClassesAgree, KeywordsAgree, Agree
<1>5. TagsAgree(g)
  BY <1>2 DEF TagsAgree, Agree, Tables
<1> QED BY <1>1, <1>2, <1>3, <1>4, <1>5 DEF e, g, Agree

\* Binding words to files that exist.
LEMMA BindFields ==
  ASSUME NEW d \in Tables, NEW F \in SUBSET FileID, NEW W \in SUBSET Word
  PROVE  /\ Bind(d, F, W) \in Tables
         /\ Bind(d, F, W).lastID = d.lastID
         /\ Bind(d, F, W).meta = d.meta /\ Bind(d, F, W).snap = d.snap
         /\ Bind(d, F, W).file2tag = d.file2tag /\ Bind(d, F, W).tag2file = d.tag2file
         /\ Bind(d, F, W).tagRows = d.tagRows /\ Bind(d, F, W).tagIndx = d.tagIndx
         /\ Bind(d, F, W).hash2class = d.hash2class
         /\ Bind(d, F, W).file2class = d.file2class
         /\ Bind(d, F, W).class2file = d.class2file
         /\ Bind(d, F, W).file2keyword =
              [f \in FileID |-> d.file2keyword[f] \cup (IF f \in F THEN W ELSE {})]
         /\ Bind(d, F, W).keyword2file =
              [w \in Word |-> d.keyword2file[w] \cup (IF w \in W THEN F ELSE {})]
  BY DEF Bind, Tables

LEMMA BindAgrees ==
  ASSUME NEW d \in Tables, Agree(d), NEW F \in SUBSET FileID, NEW W \in SUBSET Word,
         F \subseteq d.meta
  PROVE  Agree(Bind(d, F, W))
<1> DEFINE e == Bind(d, F, W)
<1>1. /\ e.lastID = d.lastID
      /\ e.meta = d.meta /\ e.snap = d.snap
      /\ e.file2tag = d.file2tag /\ e.tag2file = d.tag2file
      /\ e.tagRows = d.tagRows /\ e.tagIndx = d.tagIndx
      /\ e.hash2class = d.hash2class
      /\ e.file2class = d.file2class /\ e.class2file = d.class2file
      /\ e.file2keyword = [f \in FileID |-> d.file2keyword[f] \cup (IF f \in F THEN W ELSE {})]
      /\ e.keyword2file = [w \in Word |-> d.keyword2file[w] \cup (IF w \in W THEN F ELSE {})]
  BY BindFields
<1> HIDE DEF e
<1>2. FilesAgree(e) /\ TagsAgree(e) /\ ClassesAgree(e)
  BY <1>1 DEF FilesAgree, ClassesAgree, TagsAgree, Agree
<1>3. KeywordsAgree(e)
  BY <1>1, FileIDFacts DEF KeywordsAgree, FilesAgree, Agree, Tables
<1> QED BY <1>2, <1>3 DEF e, Agree

LEMMA SetStepFields ==
  ASSUME NEW d \in Tables, NEW F \in SUBSET FileID, NEW bit \in Bit
  PROVE  LET e == SetStep(d, F, bit) IN
         /\ e \in Tables
         /\ e.lastID = d.lastID /\ e.meta = d.meta
         /\ e.snap = [f \in FileID |-> IF f \in F THEN d.snap[f] \cup {bit} ELSE d.snap[f]]
         /\ e.file2tag = d.file2tag /\ e.tag2file = d.tag2file
         /\ e.tagRows = d.tagRows /\ e.tagIndx = d.tagIndx
         /\ e.hash2class = d.hash2class
         /\ e.file2class = d.file2class /\ e.class2file = d.class2file
         /\ e.file2keyword = d.file2keyword /\ e.keyword2file = d.keyword2file
  BY DEF SetStep, Tables

LEMMA SetTagRowsFields ==
  ASSUME NEW d \in Tables, NEW F \in SUBSET FileID, NEW T \in SUBSET Word
  PROVE  LET e == SetTagRows(d, F, T) IN
         /\ e \in Tables
         /\ e.lastID = d.lastID /\ e.meta = d.meta /\ e.snap = d.snap
         /\ e.file2tag = [f \in FileID |-> IF f \in F THEN T ELSE d.file2tag[f]]
         /\ e.tag2file = d.tag2file
         /\ e.tagRows = d.tagRows /\ e.tagIndx = d.tagIndx
         /\ e.hash2class = d.hash2class
         /\ e.file2class = d.file2class /\ e.class2file = d.class2file
         /\ e.file2keyword = d.file2keyword /\ e.keyword2file = d.keyword2file
  BY DEF SetTagRows, Tables

\* The end of SetTags: the FILE2TAG rows and the tag bit, once every tag has its
\* TAG2FILE, TAG_INDX and keyword rows.
LEMMA SetTagsAgrees ==
  ASSUME NEW d \in Tables, Agree(d),
         NEW F \in SUBSET FileID, F \subseteq d.meta,
         NEW T \in SUBSET Word, T # {},
         \A w \in T : /\ F \subseteq d.tag2file[w] /\ F \subseteq d.keyword2file[w]
                      /\ w \in d.tagIndx /\ w \in d.tagRows
  PROVE  LET e == SetStep(SetTagRows(d, F, T), F, "tag") IN e \in Tables /\ Agree(e)
<1> DEFINE g == SetTagRows(d, F, T)
           e == SetStep(g, F, "tag")
<1>0. /\ g \in Tables
      /\ g.lastID = d.lastID /\ g.meta = d.meta /\ g.snap = d.snap
      /\ g.file2tag = [f \in FileID |-> IF f \in F THEN T ELSE d.file2tag[f]]
      /\ g.tag2file = d.tag2file
      /\ g.tagRows = d.tagRows /\ g.tagIndx = d.tagIndx
      /\ g.hash2class = d.hash2class
      /\ g.file2class = d.file2class /\ g.class2file = d.class2file
      /\ g.file2keyword = d.file2keyword /\ g.keyword2file = d.keyword2file
  BY SetTagRowsFields
<1> HIDE DEF g
<1>1. /\ e \in Tables
      /\ e.lastID = d.lastID /\ e.meta = d.meta
      /\ e.snap = [f \in FileID |-> IF f \in F THEN d.snap[f] \cup {"tag"} ELSE d.snap[f]]
      /\ e.file2tag = [f \in FileID |-> IF f \in F THEN T ELSE d.file2tag[f]]
      /\ e.tag2file = d.tag2file
      /\ e.tagRows = d.tagRows /\ e.tagIndx = d.tagIndx
      /\ e.hash2class = d.hash2class
      /\ e.file2class = d.file2class /\ e.class2file = d.class2file
      /\ e.file2keyword = d.file2keyword /\ e.keyword2file = d.keyword2file
  <2>1. g \in Tables /\ "tag" \in Bit
    BY <1>0 DEF Bit
  <2>2. /\ e \in Tables
        /\ e.lastID = g.lastID /\ e.meta = g.meta
        /\ e.snap = [f \in FileID |-> IF f \in F THEN g.snap[f] \cup {"tag"} ELSE g.snap[f]]
        /\ e.file2tag = g.file2tag /\ e.tag2file = g.tag2file
        /\ e.tagRows = g.tagRows /\ e.tagIndx = g.tagIndx
        /\ e.hash2class = g.hash2class
        /\ e.file2class = g.file2class /\ e.class2file = g.class2file
        /\ e.file2keyword = g.file2keyword /\ e.keyword2file = g.keyword2file
    BY <2>1, SetStepFields
  <2> HIDE DEF e
  <2> QED BY <1>0, <2>2
<1> HIDE DEF e
<1> USE DEF Agree, Tables
<1>2. FilesAgree(e)
  BY <1>1 DEF FilesAgree
<1>3. TagsAgree(e)
  BY <1>1 DEF TagsAgree
<1>4. ClassesAgree(e)
  BY <1>1 DEF ClassesAgree
<1>5. KeywordsAgree(e)
  BY <1>1 DEF KeywordsAgree
<1> QED BY <1>1, <1>2, <1>3, <1>4, <1>5 DEF e, g

\* Taking tags from files, in FILE2TAG, TAG2FILE and the tag bit.
LEMMA RemoveTagRowsAgrees ==
  ASSUME NEW d \in Tables, Agree(d), NEW F \in SUBSET FileID, NEW T \in SUBSET Word
  PROVE  LET e == RemoveTagRows(d, F, T) IN
         /\ e \in Tables /\ Agree(e)
         /\ e.lastID = d.lastID /\ e.meta = d.meta
         /\ e.file2keyword = d.file2keyword
         /\ e.file2tag = [f \in FileID |-> IF f \in F THEN d.file2tag[f] \ T ELSE d.file2tag[f]]
<1> DEFINE e == RemoveTagRows(d, F, T)
<1>1. /\ e \in Tables
      /\ e.lastID = d.lastID /\ e.meta = d.meta
      /\ e.snap = [f \in FileID |->
                     IF f \in F /\ d.file2tag[f] # {} /\ d.file2tag[f] \subseteq T
                     THEN d.snap[f] \ {"tag"} ELSE d.snap[f]]
      /\ e.file2tag = [f \in FileID |-> IF f \in F THEN d.file2tag[f] \ T ELSE d.file2tag[f]]
      /\ e.tag2file = [w \in Word |-> IF w \in T THEN d.tag2file[w] \ F ELSE d.tag2file[w]]
      /\ e.tagRows = d.tagRows /\ e.tagIndx = d.tagIndx
      /\ e.hash2class = d.hash2class
      /\ e.file2class = d.file2class /\ e.class2file = d.class2file
      /\ e.file2keyword = d.file2keyword /\ e.keyword2file = d.keyword2file
  BY DEF RemoveTagRows, Tables
<1> HIDE DEF e
<1>2. FilesAgree(e)
  BY <1>1 DEF FilesAgree, Agree, Tables
<1>3. TagsAgree(e)
  <2> SUFFICES ASSUME NEW f \in FileID
               PROVE  /\ "tag" \in e.snap[f] <=> e.file2tag[f] # {}
                      /\ \A w \in e.file2tag[f] :
                           f \in e.tag2file[w] /\ w \in e.tagIndx /\ w \in e.tagRows
    BY DEF TagsAgree
  <2>1. "tag" \in e.snap[f] <=> e.file2tag[f] # {}
    BY <1>1 DEF TagsAgree, Agree
  <2>2. \A w \in e.file2tag[f] :
          f \in e.tag2file[w] /\ w \in e.tagIndx /\ w \in e.tagRows
    BY <1>1 DEF TagsAgree, Agree, Tables
  <2> QED BY <2>1, <2>2
<1>4. ClassesAgree(e)
  BY <1>1 DEF ClassesAgree, Agree, Tables
<1>5. KeywordsAgree(e)
  BY <1>1 DEF KeywordsAgree, Agree
<1> QED BY <1>1, <1>2, <1>3, <1>4, <1>5 DEF e, Agree

\* What RemoveKeywords makes of the tables d: what is left of a FILE2KEYWORD row is a
\* part of it without the words removed.
KeywordsCut(d, F, W, e) ==
  /\ e \in Tables
  /\ e.lastID = d.lastID /\ e.meta = d.meta /\ e.snap = d.snap
  /\ e.file2tag = d.file2tag /\ e.tag2file = d.tag2file
  /\ e.tagRows = d.tagRows /\ e.tagIndx = d.tagIndx
  /\ e.hash2class = d.hash2class
  /\ e.file2class = d.file2class /\ e.class2file = d.class2file
  /\ \A f \in F : e.file2keyword[f] \subseteq d.file2keyword[f] \ W
  /\ \A f \in FileID \ F : e.file2keyword[f] = d.file2keyword[f]
  /\ \A w \in W : e.keyword2file[w] = d.keyword2file[w] \ {f \in F : w \in d.file2keyword[f]}
  /\ \A w \in Word \ W : e.keyword2file[w] = d.keyword2file[w]

LEMMA RemoveKeywordsFields ==
  ASSUME NEW d \in Tables, NEW F \in SUBSET FileID, NEW W \in SUBSET Word
  PROVE  KeywordsCut(d, F, W, RemoveKeywords(d, F, W))
<1> DEFINE half == [f \in FileID |-> Lowest(d.file2keyword[f] \ W,
                                            Cardinality(d.file2keyword[f] \ W) \div 2)]
           row == [f \in FileID |-> IF f \in F THEN half[f] ELSE d.file2keyword[f]]
           files == [w \in Word |-> IF w \in W
                                    THEN d.keyword2file[w] \ {f \in F : w \in d.file2keyword[f]}
                                    ELSE d.keyword2file[w]]
           e == RemoveKeywords(d, F, W)
<1>1. \A f \in FileID : half[f] \subseteq d.file2keyword[f] \ W
  BY DEF Lowest
<1>2. e = [d EXCEPT !.file2keyword = row, !.keyword2file = files]
  BY DEF RemoveKeywords, Tables
<1>3. row \in [FileID -> SUBSET Word] /\ files \in [Word -> SUBSET FileID]
  BY <1>1 DEF Tables
<1>4. /\ \A f \in F : row[f] \subseteq d.file2keyword[f] \ W
      /\ \A f \in FileID \ F : row[f] = d.file2keyword[f]
  BY <1>1
<1>5. /\ \A w \in W : files[w] = d.keyword2file[w] \ {f \in F : w \in d.file2keyword[f]}
      /\ \A w \in Word \ W : files[w] = d.keyword2file[w]
  OBVIOUS
<1> HIDE DEF half, row, files, e
<1> QED BY <1>2, <1>3, <1>4, <1>5 DEF Tables, KeywordsCut, e

\* Taking words from the keyword rows of files that have them as tag or class no more.
LEMMA RemoveKeywordsAgrees ==
  ASSUME NEW d \in Tables, Agree(d), NEW F \in SUBSET FileID, NEW W \in SUBSET Word,
         \A f \in F : /\ (d.file2tag[f] \ ClassWord) \cap W = {}
                      /\ (d.file2class[f] \ TagWord) \cap W = {}
  PROVE  RemoveKeywords(d, F, W) \in Tables /\ Agree(RemoveKeywords(d, F, W))
<1> DEFINE e == RemoveKeywords(d, F, W)
<1>0. KeywordsCut(d, F, W, e)
  BY RemoveKeywordsFields
<1> HIDE DEF e
<1> USE <1>0 DEF KeywordsCut
<1>2. FilesAgree(e) /\ TagsAgree(e) /\ ClassesAgree(e)
  BY DEF FilesAgree, TagsAgree, ClassesAgree, Agree
<1>3. KeywordsAgree(e)
  <2> SUFFICES ASSUME NEW f \in FileID
               PROVE  /\ \A w \in e.file2tag[f] \ ClassWord : f \in e.keyword2file[w]
                      /\ \A w \in e.file2class[f] \ TagWord : f \in e.keyword2file[w]
                      /\ f \in e.meta => \A w \in e.file2keyword[f] : f \in e.keyword2file[w]
                      /\ f > e.lastID => e.file2keyword[f] = {}
    BY DEF KeywordsAgree
  <2>1. /\ \A w \in d.file2tag[f] \ ClassWord : f \in d.keyword2file[w]
        /\ \A w \in d.file2class[f] \ TagWord : f \in d.keyword2file[w]
        /\ f \in d.meta => \A w \in d.file2keyword[f] : f \in d.keyword2file[w]
        /\ f > d.lastID => d.file2keyword[f] = {}
    BY DEF KeywordsAgree, Agree
  <2>2. /\ d.file2tag[f] \subseteq Word /\ d.file2class[f] \subseteq Word
        /\ d.file2keyword[f] \subseteq Word
    BY DEF Tables
  <2>3. \A w \in Word : f \notin F \/ w \notin W => (f \in d.keyword2file[w] => f \in e.keyword2file[w])
    OBVIOUS
  <2>4. e.file2keyword[f] \subseteq d.file2keyword[f] /\ (f \in F => e.file2keyword[f] \cap W = {})
    OBVIOUS
  <2> QED BY <2>1, <2>2, <2>3, <2>4
<1> QED BY <1>2, <1>3 DEF e, Agree

\* A class gains files: its rows, their keyword and their class bit.
LEMMA AddClassesAgrees ==
  ASSUME NEW d \in Tables, Agree(d), NEW C \in SUBSET Word, NEW F \in SUBSET FileID,
         F \subseteq d.meta
  PROVE  LET e == SetStep(Bind(AddClassRows(d, C, F), F, C), F, "class")
         IN e \in Tables /\ Agree(e)
<1> DEFINE g == AddClassRows(d, C, F)
           b == Bind(g, F, C)
           e == SetStep(b, F, "class")
<1>1. /\ g \in Tables
      /\ g.lastID = d.lastID /\ g.meta = d.meta /\ g.snap = d.snap
      /\ g.file2tag = d.file2tag /\ g.tag2file = d.tag2file
      /\ g.tagRows = d.tagRows /\ g.tagIndx = d.tagIndx
      /\ g.hash2class = d.hash2class \cup C
      /\ g.class2file = [w \in Word |-> IF w \in C THEN d.class2file[w] \cup F ELSE d.class2file[w]]
      /\ g.file2class = [f \in FileID |-> IF f \in F THEN d.file2class[f] \cup C ELSE d.file2class[f]]
      /\ g.file2keyword = d.file2keyword /\ g.keyword2file = d.keyword2file
  BY DEF AddClassRows, Tables
<1> HIDE DEF g
<1>2. /\ b \in Tables
      /\ b.lastID = g.lastID /\ b.meta = g.meta /\ b.snap = g.snap
      /\ b.file2tag = g.file2tag /\ b.tag2file = g.tag2file
      /\ b.tagRows = g.tagRows /\ b.tagIndx = g.tagIndx
      /\ b.hash2class = g.hash2class
      /\ b.file2class = g.file2class /\ b.class2file = g.class2file
      /\ b.file2keyword = [f \in FileID |-> g.file2keyword[f] \cup (IF f \in F THEN C ELSE {})]
      /\ b.keyword2file = [w \in Word |-> g.keyword2file[w] \cup (IF w \in C THEN F ELSE {})]
  BY <1>1, BindFields
<1> HIDE DEF b
<1>3. "class" \in Bit
  BY DEF Bit
<1>4. /\ e \in Tables
      /\ e.lastID = b.lastID /\ e.meta = b.meta
      /\ e.snap = [f \in FileID |-> IF f \in F THEN b.snap[f] \cup {"class"} ELSE b.snap[f]]
      /\ e.file2tag = b.file2tag /\ e.tag2file = b.tag2file
      /\ e.tagRows = b.tagRows /\ e.tagIndx = b.tagIndx
      /\ e.hash2class = b.hash2class
      /\ e.file2class = b.file2class /\ e.class2file = b.class2file
      /\ e.file2keyword = b.file2keyword /\ e.keyword2file = b.keyword2file
  BY <1>2, <1>3, SetStepFields
<1> HIDE DEF e
<1>5. FilesAgree(e) /\ TagsAgree(e)
  BY <1>1, <1>2, <1>4 DEF FilesAgree, TagsAgree, Agree, Tables
<1>6. ClassesAgree(e)
  BY <1>1, <1>2, <1>4 DEF ClassesAgree, Agree, Tables
<1>7. KeywordsAgree(e)
  <2> SUFFICES ASSUME NEW f \in FileID
               PROVE  /\ \A w \in e.file2tag[f] \ ClassWord : f \in e.keyword2file[w]
                      /\ \A w \in e.file2class[f] \ TagWord : f \in e.keyword2file[w]
                      /\ f \in e.meta => \A w \in e.file2keyword[f] : f \in e.keyword2file[w]
                      /\ f > e.lastID => e.file2keyword[f] = {}
    BY DEF KeywordsAgree
  <2>1. /\ d.file2tag[f] \subseteq Word /\ d.file2class[f] \subseteq Word
        /\ d.file2keyword[f] \subseteq Word
    BY DEF Tables
  <2>2. \A w \in Word : /\ f \in d.keyword2file[w] => f \in e.keyword2file[w]
                        /\ w \in C /\ f \in F => f \in e.keyword2file[w]
    BY <1>1, <1>2, <1>4
  <2>3. /\ e.file2class[f] = d.file2class[f] \cup (IF f \in F THEN C ELSE {})
        /\ e.file2keyword[f] = d.file2keyword[f] \cup (IF f \in F THEN C ELSE {})
        /\ e.file2tag[f] = d.file2tag[f] /\ e.meta = d.meta /\ e.lastID = d.lastID
    BY <1>1, <1>2, <1>4
  <2>4. f \in F => ~(f > d.lastID)
    BY FileIDFacts DEF Agree, FilesAgree, Tables
  <2> QED BY <2>1, <2>2, <2>3, <2>4 DEF KeywordsAgree, Agree
<1> QED BY <1>4, <1>5, <1>6, <1>7 DEF e, b, g, Agree

\* Files leave classes, and classes go.
LEMMA RemoveMembersFields ==
  ASSUME NEW d \in Tables, NEW C \in SUBSET Word, NEW F \in SUBSET FileID
  PROVE  LET e == RemoveMembers(d, C, F) IN
         /\ e \in Tables
         /\ e.lastID = d.lastID /\ e.meta = d.meta /\ e.snap = d.snap
         /\ e.file2tag = d.file2tag /\ e.tag2file = d.tag2file
         /\ e.tagRows = d.tagRows /\ e.tagIndx = d.tagIndx
         /\ e.hash2class = d.hash2class
         /\ e.class2file = [w \in Word |-> IF w \in C THEN d.class2file[w] \ F ELSE d.class2file[w]]
         /\ e.file2class = [f \in FileID |-> IF f \in F THEN d.file2class[f] \ C ELSE d.file2class[f]]
         /\ e.file2keyword = d.file2keyword /\ e.keyword2file = d.keyword2file
  BY DEF RemoveMembers, Tables

LEMMA RemoveClassRowsAgrees ==
  ASSUME NEW d \in Tables, Agree(d), NEW C \in SUBSET Word
  PROVE  LET e == RemoveClassRows(d, C) IN
         /\ e \in Tables /\ Agree(e)
         /\ e.lastID = d.lastID /\ e.meta = d.meta
         /\ e.file2keyword = d.file2keyword
<1> DEFINE e == RemoveClassRows(d, C)
<1>1. /\ e \in Tables
      /\ e.lastID = d.lastID /\ e.meta = d.meta /\ e.snap = d.snap
      /\ e.file2tag = d.file2tag /\ e.tag2file = d.tag2file
      /\ e.tagRows = d.tagRows /\ e.tagIndx = d.tagIndx
      /\ e.hash2class = d.hash2class \ C
      /\ e.file2class = [f \in FileID |-> d.file2class[f] \ {c \in C : f \in d.class2file[c]}]
      /\ e.class2file = [w \in Word |-> IF w \in C THEN {} ELSE d.class2file[w]]
      /\ e.file2keyword = d.file2keyword /\ e.keyword2file = d.keyword2file
  BY DEF RemoveClassRows, Tables
<1> HIDE DEF e
<1>2. FilesAgree(e) /\ TagsAgree(e)
  BY <1>1 DEF FilesAgree, TagsAgree, Agree
<1>3. ClassesAgree(e)
  BY <1>1 DEF ClassesAgree, Agree, Tables
<1>4. KeywordsAgree(e)
  BY <1>1 DEF KeywordsAgree, Agree
<1> QED BY <1>1, <1>2, <1>3, <1>4 DEF e, Agree

\* RemoveClasses(classes, files) as a whole.  The two parts write different tables.
LEMMA RemoveClassesOfAgrees ==
  ASSUME NEW d \in Tables, Agree(d), NEW C \in SUBSET ClassWord, NEW F \in SUBSET FileID
  PROVE  LET e == RemoveMembers(RemoveKeywords(d, F, C), C, F)
         IN e \in Tables /\ Agree(e)
<1> DEFINE k == RemoveKeywords(d, F, C)
           e == RemoveMembers(k, C, F)
<1>1. C \in SUBSET Word
  BY FileIndexAssumption
<1>2. KeywordsCut(d, F, C, k)
  BY <1>1, RemoveKeywordsFields
<1> HIDE DEF k
<1>0. k \in Tables
  BY <1>2 DEF KeywordsCut
<1>3. /\ e \in Tables
      /\ e.lastID = k.lastID /\ e.meta = k.meta /\ e.snap = k.snap
      /\ e.file2tag = k.file2tag /\ e.tag2file = k.tag2file
      /\ e.tagRows = k.tagRows /\ e.tagIndx = k.tagIndx
      /\ e.hash2class = k.hash2class
      /\ e.class2file = [w \in Word |-> IF w \in C THEN k.class2file[w] \ F ELSE k.class2file[w]]
      /\ e.file2class = [f \in FileID |-> IF f \in F THEN k.file2class[f] \ C ELSE k.file2class[f]]
      /\ e.file2keyword = k.file2keyword /\ e.keyword2file = k.keyword2file
  BY <1>0, <1>1, RemoveMembersFields
<1> HIDE DEF e
<1> USE DEF KeywordsCut
<1>4. FilesAgree(e) /\ TagsAgree(e)
  BY <1>2, <1>3 DEF FilesAgree, TagsAgree, Agree
<1>5. ClassesAgree(e)
  BY <1>1, <1>2, <1>3 DEF ClassesAgree, Agree, Tables
<1>6. KeywordsAgree(e)
  <2> SUFFICES ASSUME NEW f \in FileID
               PROVE  /\ \A w \in e.file2tag[f] \ ClassWord : f \in e.keyword2file[w]
                      /\ \A w \in e.file2class[f] \ TagWord : f \in e.keyword2file[w]
                      /\ f \in e.meta => \A w \in e.file2keyword[f] : f \in e.keyword2file[w]
                      /\ f > e.lastID => e.file2keyword[f] = {}
    BY DEF KeywordsAgree
  <2>1. /\ \A w \in d.file2tag[f] \ ClassWord : f \in d.keyword2file[w]
        /\ \A w \in d.file2class[f] \ TagWord : f \in d.keyword2file[w]
        /\ f \in d.meta => \A w \in d.file2keyword[f] : f \in d.keyword2file[w]
        /\ f > d.lastID => d.file2keyword[f] = {}
    BY DEF KeywordsAgree, Agree
  <2>2. /\ d.file2tag[f] \subseteq Word /\ d.file2class[f] \subseteq Word
        /\ d.file2keyword[f] \subseteq Word
    BY DEF Tables
  <2>3. \A w \in Word : /\ f \notin F => (f \in d.keyword2file[w] => f \in e.keyword2file[w])
                        /\ w \notin C => (f \in d.keyword2file[w] => f \in e.keyword2file[w])
    BY <1>2, <1>3
  <2>4. /\ e.file2keyword[f] \subseteq d.file2keyword[f]
        /\ f \in F => e.file2keyword[f] \cap C = {}
    BY <1>2, <1>3
  <2>5. /\ e.file2class[f] \subseteq d.file2class[f]
        /\ f \in F => e.file2class[f] \cap C = {}
        /\ e.file2tag[f] = d.file2tag[f] /\ e.meta = d.meta /\ e.lastID = d.lastID
    BY <1>2, <1>3
  <2> QED BY <2>1, <2>2, <2>3, <2>4, <2>5
<1> QED BY <1>3, <1>4, <1>5, <1>6 DEF e, k, Agree

-------------------------------------------------------------------------------
LEMMA InitInv == Init => Inv
<1> SUFFICES ASSUME Init PROVE Inv
  OBVIOUS
<1>1. Idle \in Jobs
  BY DEF Idle, Jobs
<1>2. TypeOK
  BY <1>1, EmptyAgrees DEF Init, TypeOK
<1>3. JobAgrees /\ IdsAgree
  BY DEF Init, JobAgrees, IdsAgree, Idle, Empty
<1> QED BY <1>2, <1>3, EmptyAgrees DEF Init, Inv

\* A call that ends with WRITE_END, hands out no id and touches no job: it is enough
\* that the tables it saves agree.
LEMMA SaveInv ==
  ASSUME Inv, ~job.busy, NEW e \in Tables, Agree(e), Save(e),
         job' = job, issued' = issued, held' \subseteq held,
         e.lastID = db.lastID, held' \cap e.meta = {},
         \A f \in held' : e.file2keyword[f] = {}
  PROVE  Inv'
<1> USE DEF Inv
<1>1. TypeOK'
  BY DEF TypeOK, Save
<1>2. JobAgrees'
  BY DEF JobAgrees
<1>3. IdsAgree'
  BY DEF IdsAgree, Save
<1>4. Agree(db)' /\ Agree(disk)'
  BY DEF Save, Agree, FilesAgree, TagsAgree, ClassesAgree, KeywordsAgree
<1> QED BY <1>1, <1>2, <1>3, <1>4

LEMMA GenerateNextFilesIDInv ==
  ASSUME Inv, NEW cnt \in 1 .. 2, GenerateNextFilesID(cnt)
  PROVE  Inv'
<1> DEFINE last == db.lastID + cnt
           ids == db.lastID + 1 .. last
           e == [db EXCEPT !.lastID = last]
<1>1. /\ ~job.busy /\ last <= MaxFile
      /\ db' = e /\ disk' = e /\ job' = job
      /\ held' = held \cup ids /\ issued' = issued \cup ids
  BY DEF GenerateNextFilesID, Save
<1>2. db \in Tables /\ Agree(db) /\ job \in Jobs /\ held \subseteq FileID
      /\ issued \subseteq FileID
  BY DEF Inv, TypeOK
<1>3. db.lastID \in Nat /\ last \in Nat /\ last >= db.lastID
  BY <1>2 DEF Tables
<1>4. e \in Tables /\ Agree(e)
  BY <1>2, <1>3, NextIDsAgrees
<1>5. ids \subseteq FileID
  BY <1>1, <1>3, FileIDFacts DEF FileID
<1>6. e.lastID = last /\ e.meta = db.meta /\ e.file2keyword = db.file2keyword
  BY <1>2 DEF Tables
<1> HIDE DEF e
<1>7. TypeOK'
  BY <1>1, <1>2, <1>4, <1>5 DEF TypeOK
<1>8. JobAgrees'
  BY <1>1 DEF JobAgrees
<1>9. IdsAgree'
  <2>1. IdsAgree /\ db.lastID = disk.lastID /\ db.meta \subseteq 1 .. db.lastID
    BY DEF Inv, IdsAgree, Agree, FilesAgree
  <2>2. issued \cup ids \subseteq 1 .. last
    <3>1. issued \subseteq 1 .. db.lastID
      BY <2>1 DEF IdsAgree
    <3>2. 1 .. db.lastID \subseteq 1 .. last
      BY <1>3
    <3>3. ids \subseteq 1 .. last
      BY <1>3
    <3> QED BY <3>1, <3>2, <3>3
  <2>3. ids \cap db.meta = {}
    BY <1>3, <2>1
  <2>4. \A f \in ids : db.file2keyword[f] = {}
    BY <1>2, <1>3, <1>5 DEF Agree, KeywordsAgree
  <2>5. held \subseteq issued \ db.meta /\ \A f \in held : db.file2keyword[f] = {}
    BY <2>1 DEF IdsAgree
  <2> QED BY <1>1, <1>6, <2>2, <2>3, <2>4, <2>5 DEF IdsAgree
<1>10. Agree(db)' /\ Agree(disk)'
  BY <1>1, <1>4 DEF Agree, FilesAgree, TagsAgree, ClassesAgree, KeywordsAgree
<1> QED BY <1>7, <1>8, <1>9, <1>10 DEF Inv

LEMMA AddFilesInv ==
  ASSUME Inv, NEW F \in SUBSET held, AddFiles(F)
  PROVE  Inv'
<1> DEFINE e == AddRows(db, F)
<1>1. /\ ~job.busy /\ Save(e) /\ job' = job /\ issued' = issued
      /\ held' = held \ F
  BY DEF AddFiles
<1>2. db \in Tables /\ Agree(db) /\ F \in SUBSET FileID
  BY DEF Inv, TypeOK
<1>3. /\ F \subseteq 1 .. db.lastID /\ F \cap db.meta = {}
      /\ \A f \in F : db.file2keyword[f] = {}
  BY DEF Inv, IdsAgree
<1>4. e \in Tables /\ Agree(e)
  BY <1>2, <1>3, AddRowsAgrees
<1>5. /\ e.lastID = db.lastID /\ e.meta = db.meta \cup F
      /\ e.file2keyword = db.file2keyword
  BY <1>2 DEF AddRows, Tables
<1> HIDE DEF e
<1>6. held' \cap e.meta = {} /\ \A f \in held' : e.file2keyword[f] = {}
  BY <1>1, <1>5 DEF Inv, IdsAgree
<1> QED BY <1>1, <1>4, <1>5, <1>6, SaveInv

LEMMA RemoveFilesInv ==
  ASSUME Inv, NEW F \in SUBSET Known, RemoveFiles(F)
  PROVE  Inv'
<1> DEFINE G == Existing(db, F)
           e == RemoveRows(db, G)
<1>1. /\ ~job.busy /\ Save(e) /\ job' = job /\ issued' = issued /\ held' = held
  BY DEF RemoveFiles
<1>2. db \in Tables /\ Agree(db)
  BY DEF Inv, TypeOK
<1>3. G \subseteq db.meta /\ G \in SUBSET FileID
  BY <1>2 DEF Existing, Tables
<1> HIDE DEF G
<1>4. e \in Tables /\ Agree(e)
  BY <1>2, <1>3, RemoveRowsAgrees
<1>5. /\ e.lastID = db.lastID /\ e.meta = db.meta \ G
      /\ e.file2keyword = db.file2keyword
  BY <1>2 DEF RemoveRows, Tables
<1> HIDE DEF e
<1>6. held' \cap e.meta = {} /\ \A f \in held' : e.file2keyword[f] = {}
  BY <1>1, <1>5 DEF Inv, IdsAgree
<1> QED BY <1>1, <1>4, <1>5, <1>6, SaveInv

LEMMA SetTagsBeginInv ==
  ASSUME Inv, NEW F \in SUBSET Known, NEW T \in SUBSET TagWord, T # {},
         NEW twice \in {FALSE, Repeats}, SetTagsBegin(F, T, twice)
  PROVE  Inv'
<1>1. /\ job' = [files |-> Existing(db, F), tags |-> T, todo |-> T,
                 twice |-> twice, busy |-> TRUE]
      /\ db' = db /\ disk' = disk /\ held' = held /\ issued' = issued
  BY DEF SetTagsBegin
<1>2. Existing(db, F) \subseteq db.meta /\ db.meta \subseteq FileID
  BY DEF Existing, Inv, TypeOK, Tables
<1>3. TypeOK'
  BY <1>1, <1>2, FileIndexAssumption DEF Inv, TypeOK, Jobs
<1>4. JobAgrees'
  <2>1. twice => Repeats
    OBVIOUS
  <2>2. /\ job'.files \subseteq db'.meta /\ job'.tags = T /\ job'.todo = T
        /\ job'.twice = twice
    BY <1>1, <1>2
  <2> QED BY <2>1, <2>2 DEF JobAgrees
<1>5. IdsAgree' /\ Agree(db)' /\ Agree(disk)'
  BY <1>1 DEF Inv, IdsAgree, Agree, FilesAgree, TagsAgree, ClassesAgree, KeywordsAgree
<1> QED BY <1>3, <1>4, <1>5 DEF Inv

LEMMA SetTagsWordInv ==
  ASSUME Inv, NEW w \in Word, SetTagsWord(w)
  PROVE  Inv'
<1> DEFINE a == AddTagPY(db, w)
           b == AddFileID2Tag(a, job.files, w)
           e == Bind(b, job.files, {w})
<1>1. /\ job.busy /\ w \in job.todo
      /\ disk' = a /\ db' = e
      /\ job' = [job EXCEPT !.todo = @ \ {w}]
      /\ held' = held /\ issued' = issued
  BY DEF SetTagsWord
<1>2. /\ db \in Tables /\ Agree(db) /\ job \in Jobs
      /\ job.files \in SUBSET FileID /\ job.files \subseteq db.meta
      /\ db.lastID = disk.lastID
  BY <1>1 DEF Inv, TypeOK, Jobs, JobAgrees, IdsAgree
<1>3. a \in Tables /\ Agree(a)
  BY <1>2, TagLists
<1>4. /\ a.lastID = db.lastID /\ a.meta = db.meta
      /\ a.tag2file = db.tag2file /\ a.tagRows = db.tagRows
      /\ a.tagIndx = db.tagIndx \cup {w}
      /\ a.file2keyword = db.file2keyword /\ a.keyword2file = db.keyword2file
  BY <1>2 DEF AddTagPY, Tables
<1> HIDE DEF a
<1>5. b \in Tables /\ Agree(b)
  BY <1>2, <1>3, TagLists
<1>6. /\ b.lastID = a.lastID /\ b.meta = a.meta
      /\ b.tag2file = [v \in Word |-> IF v = w THEN a.tag2file[v] \cup job.files
                                      ELSE a.tag2file[v]]
      /\ b.tagRows = a.tagRows \cup {w} /\ b.tagIndx = a.tagIndx
      /\ b.file2keyword = a.file2keyword /\ b.keyword2file = a.keyword2file
  BY <1>3 DEF AddFileID2Tag, Tables
<1> HIDE DEF b
<1>7. e \in Tables /\ Agree(e)
  BY <1>2, <1>4, <1>5, <1>6, BindFields, BindAgrees
<1>8. /\ e.lastID = db.lastID /\ e.meta = db.meta
      /\ e.tag2file = b.tag2file /\ e.tagRows = b.tagRows /\ e.tagIndx = b.tagIndx
      /\ e.file2keyword =
           [f \in FileID |-> b.file2keyword[f] \cup (IF f \in job.files THEN {w} ELSE {})]
      /\ e.keyword2file =
           [v \in Word |-> b.keyword2file[v] \cup (IF v \in {w} THEN job.files ELSE {})]
  <2>1. {w} \in SUBSET Word
    OBVIOUS
  <2> QED BY <1>2, <1>4, <1>5, <1>6, <2>1, BindFields
<1> HIDE DEF e
<1>9. TypeOK'
  BY <1>1, <1>3, <1>7 DEF Inv, TypeOK, Jobs
<1>10. JobAgrees'
  <2>1. /\ job'.files = job.files /\ job'.tags = job.tags
        /\ job'.todo = job.todo \ {w} /\ job'.twice = job.twice
    BY <1>1, <1>2 DEF Jobs
  <2>2. \A v \in job.tags : v \in Word
    BY <1>2 DEF Jobs
  <2>3. ASSUME NEW v \in job.tags, v \notin job.todo \/ v = w
        PROVE  /\ job.files \subseteq e.tag2file[v]
               /\ job.files \subseteq e.keyword2file[v]
               /\ v \in e.tagIndx /\ v \in e.tagRows
    BY <1>1, <1>4, <1>6, <1>8, <2>2, <2>3 DEF Inv, JobAgrees
  <2> QED BY <1>1, <1>2, <1>8, <2>1, <2>3 DEF Inv, JobAgrees
<1>11. IdsAgree'
  <2>1. held \cap job.files = {} /\ held \subseteq FileID
    BY <1>2 DEF Inv, IdsAgree, TypeOK
  <2>2. \A f \in held : e.file2keyword[f] = {}
    BY <1>4, <1>6, <1>8, <2>1 DEF Inv, IdsAgree
  <2> QED BY <1>1, <1>2, <1>4, <1>8, <2>2 DEF Inv, IdsAgree
<1>12. Agree(db)' /\ Agree(disk)'
  BY <1>1, <1>3, <1>7 DEF Agree, FilesAgree, TagsAgree, ClassesAgree, KeywordsAgree
<1> QED BY <1>9, <1>10, <1>11, <1>12 DEF Inv

LEMMA SetTagsEndInv ==
  ASSUME Inv, ~Repeats, SetTagsEnd
  PROVE  Inv'
<1> DEFINE F == {f \in job.files : IsFileExist(db, f)}
           e == SetStep(SetTagRows(db, F, job.tags), F, "tag")
<1>1. /\ job.busy /\ job.todo = {} /\ job' = Idle
      /\ held' = held /\ issued' = issued
  BY DEF SetTagsEnd
<1>2. ~job.twice
  BY <1>1 DEF Inv, JobAgrees
<1>3. db' = e /\ disk' = e
  <2>1. PICK beyond \in {{}} :
          Save(SetStep(SetTagRows(db, F, job.tags \cup beyond), F, "tag"))
    BY <1>2 DEF SetTagsEnd
  <2>2. job.tags \cup beyond = job.tags
    OBVIOUS
  <2> QED BY <2>1, <2>2 DEF Save
<1>4. /\ db \in Tables /\ Agree(db)
      /\ job.files \in SUBSET FileID /\ job.files \subseteq db.meta
      /\ job.tags \in SUBSET Word /\ job.tags # {}
      /\ \A w \in job.tags : /\ job.files \subseteq db.tag2file[w]
                             /\ job.files \subseteq db.keyword2file[w]
                             /\ w \in db.tagIndx /\ w \in db.tagRows
  BY <1>1 DEF Inv, TypeOK, Jobs, JobAgrees
<1>5. F \in SUBSET FileID /\ F \subseteq db.meta /\ F \subseteq job.files
  BY <1>4
<1>6. e.lastID = db.lastID /\ e.meta = db.meta /\ e.file2keyword = db.file2keyword
  BY <1>4 DEF SetStep, SetTagRows, Tables
<1> HIDE DEF F
<1>7. e \in Tables /\ Agree(e)
  BY <1>4, <1>5, SetTagsAgrees
<1> HIDE DEF e
<1>8. TypeOK' /\ JobAgrees'
  BY <1>1, <1>3, <1>7 DEF Inv, TypeOK, JobAgrees, Jobs, Idle
<1>9. IdsAgree'
  BY <1>1, <1>3, <1>6 DEF Inv, IdsAgree
<1>10. Agree(db)' /\ Agree(disk)'
  BY <1>3, <1>7 DEF Agree, FilesAgree, TagsAgree, ClassesAgree, KeywordsAgree
<1> QED BY <1>8, <1>9, <1>10 DEF Inv

LEMMA RemoveTagsInv ==
  ASSUME Inv, NEW F \in SUBSET Known, NEW T \in SUBSET TagWord, RemoveTags(F, T)
  PROVE  Inv'
<1> DEFINE g == RemoveTagRows(db, F, T)
           e == RemoveKeywords(g, F, T)
<1>1. ~job.busy /\ Save(e) /\ job' = job /\ issued' = issued /\ held' = held
  BY DEF RemoveTags
<1>2. /\ db \in Tables /\ Agree(db) /\ F \in SUBSET FileID /\ T \in SUBSET Word
  BY FileIDFacts, FileIndexAssumption DEF Inv, TypeOK, Known
<1>3. /\ g \in Tables /\ Agree(g)
      /\ g.lastID = db.lastID /\ g.meta = db.meta
      /\ g.file2keyword = db.file2keyword
      /\ g.file2tag = [f \in FileID |-> IF f \in F THEN db.file2tag[f] \ T ELSE db.file2tag[f]]
  BY <1>2, RemoveTagRowsAgrees
<1> HIDE DEF g
<1>4. \A f \in F : /\ (g.file2tag[f] \ ClassWord) \cap T = {}
                   /\ (g.file2class[f] \ TagWord) \cap T = {}
  BY <1>2, <1>3
<1>5. e \in Tables /\ Agree(e)
  BY <1>2, <1>3, <1>4, RemoveKeywordsAgrees
<1>6. KeywordsCut(g, F, T, e)
  BY <1>2, <1>3, RemoveKeywordsFields
<1> HIDE DEF e
<1>7. /\ e.lastID = db.lastID /\ e.meta = db.meta
      /\ \A f \in FileID : e.file2keyword[f] \subseteq db.file2keyword[f]
  BY <1>3, <1>6 DEF KeywordsCut
<1>8. held' \cap e.meta = {} /\ \A f \in held' : e.file2keyword[f] = {}
  BY <1>1, <1>7 DEF Inv, IdsAgree, TypeOK
<1> QED BY <1>1, <1>5, <1>7, <1>8, SaveInv

LEMMA AddClassesInv ==
  ASSUME Inv, NEW F \in SUBSET Known, NEW C \in SUBSET ClassWord, AddClasses(C, F)
  PROVE  Inv'
<1> DEFINE G == Existing(db, F)
           e == SetStep(Bind(AddClassRows(db, C, G), G, C), G, "class")
<1>1. ~job.busy /\ Save(e) /\ job' = job /\ issued' = issued /\ held' = held
  BY DEF AddClasses
<1>2. /\ db \in Tables /\ Agree(db) /\ C \in SUBSET Word
  BY FileIndexAssumption DEF Inv, TypeOK
<1>3. G \subseteq db.meta /\ G \in SUBSET FileID
  BY <1>2 DEF Existing, Tables
<1> HIDE DEF G
<1>4. e \in Tables /\ Agree(e)
  BY <1>2, <1>3, AddClassesAgrees
<1>5. /\ e.lastID = db.lastID /\ e.meta = db.meta
      /\ \A f \in FileID \ G : e.file2keyword[f] = db.file2keyword[f]
  BY <1>2 DEF SetStep, Bind, AddClassRows, Tables
<1> HIDE DEF e
<1>6. held' \cap e.meta = {} /\ \A f \in held' : e.file2keyword[f] = {}
  BY <1>1, <1>3, <1>5 DEF Inv, IdsAgree, TypeOK
<1> QED BY <1>1, <1>4, <1>5, <1>6, SaveInv

LEMMA RemoveClassesOfInv ==
  ASSUME Inv, NEW F \in SUBSET Known, NEW C \in SUBSET ClassWord, RemoveClassesOf(C, F)
  PROVE  Inv'
<1> DEFINE k == RemoveKeywords(db, F, C)
           e == RemoveMembers(k, C, F)
<1>1. /\ ~job.busy /\ db' = e /\ disk' = disk /\ job' = job
      /\ issued' = issued /\ held' = held
  BY DEF RemoveClassesOf
<1>2. /\ db \in Tables /\ Agree(db) /\ F \in SUBSET FileID /\ C \in SUBSET Word
  BY FileIDFacts, FileIndexAssumption DEF Inv, TypeOK, Known
<1>3. e \in Tables /\ Agree(e)
  BY <1>2, RemoveClassesOfAgrees
<1>4. KeywordsCut(db, F, C, k)
  BY <1>2, RemoveKeywordsFields
<1>5. k \in Tables
  BY <1>4 DEF KeywordsCut
<1> HIDE DEF k
<1>6. e.lastID = k.lastID /\ e.meta = k.meta /\ e.file2keyword = k.file2keyword
  BY <1>5 DEF RemoveMembers, Tables
<1> HIDE DEF e
<1>7. /\ e.lastID = db.lastID /\ e.meta = db.meta
      /\ \A f \in FileID : e.file2keyword[f] \subseteq db.file2keyword[f]
  BY <1>4, <1>6 DEF KeywordsCut
<1>8. TypeOK' /\ JobAgrees'
  BY <1>1, <1>3 DEF Inv, TypeOK, JobAgrees
<1>9. IdsAgree'
  BY <1>1, <1>7 DEF Inv, IdsAgree, TypeOK
<1>10. Agree(db)' /\ Agree(disk)'
  BY <1>1, <1>3 DEF Inv, Agree, FilesAgree, TagsAgree, ClassesAgree, KeywordsAgree
<1> QED BY <1>8, <1>9, <1>10 DEF Inv

LEMMA RemoveClassesInv ==
  ASSUME Inv, NEW C \in SUBSET ClassWord, RemoveClasses(C)
  PROVE  Inv'
<1> DEFINE e == RemoveClassRows(db, C)
<1>1. ~job.busy /\ Save(e) /\ job' = job /\ issued' = issued /\ held' = held
  BY DEF RemoveClasses
<1>2. /\ db \in Tables /\ Agree(db) /\ C \in SUBSET Word
  BY FileIndexAssumption DEF Inv, TypeOK
<1>3. /\ e \in Tables /\ Agree(e) /\ e.lastID = db.lastID /\ e.meta = db.meta
      /\ e.file2keyword = db.file2keyword
  BY <1>2, RemoveClassRowsAgrees
<1> HIDE DEF e
<1>4. held' \cap e.meta = {} /\ \A f \in held' : e.file2keyword[f] = {}
  BY <1>1, <1>3 DEF Inv, IdsAgree
<1> QED BY <1>1, <1>3, <1>4, SaveInv

LEMMA CrashInv ==
  ASSUME Inv, Crash
  PROVE  Inv'
<1>1. db' = disk /\ disk' = disk /\ job' = Idle /\ held' = {} /\ issued' = issued
  BY DEF Crash
<1>2. TypeOK' /\ JobAgrees' /\ IdsAgree'
  BY <1>1 DEF Inv, TypeOK, JobAgrees, IdsAgree, Idle, Jobs
<1>3. Agree(db)' /\ Agree(disk)'
  BY <1>1 DEF Inv, Agree, FilesAgree, TagsAgree, ClassesAgree, KeywordsAgree
<1> QED BY <1>2, <1>3 DEF Inv

\* Every step keeps the invariant, one case per call.
LEMMA NextInv ==
  ASSUME Inv, ~Repeats, [Next]_vars
  PROVE  Inv'
<1>1. CASE \E cnt \in 1 .. 2 : GenerateNextFilesID(cnt)
  BY <1>1, GenerateNextFilesIDInv
<1>2. CASE \E F \in Some(held) : AddFiles(F)
  BY <1>2, AddFilesInv DEF Some
<1>3. CASE \E F \in Some(Known) : RemoveFiles(F)
  BY <1>3, RemoveFilesInv DEF Some
<1>4. CASE \E F \in Some(Known), T \in Some(TagWord), twice \in {FALSE, Repeats} :
             MaySet(F, T) /\ SetTagsBegin(F, T, twice)
  <2>1. PICK F \in Some(Known), T \in Some(TagWord), twice \in {FALSE, Repeats} :
               SetTagsBegin(F, T, twice)
    BY <1>4, Zenon
  <2>2. F \in SUBSET Known /\ T \in SUBSET TagWord /\ T # {}
    BY DEF Some
  <2> QED BY <2>1, <2>2, SetTagsBeginInv, Zenon
<1>5. CASE \E w \in Word : SetTagsWord(w)
  BY <1>5, SetTagsWordInv
<1>6. CASE SetTagsEnd
  BY <1>6, SetTagsEndInv
<1>7. CASE \E F \in Some(Known), T \in Some(TagWord) : RemoveTags(F, T)
  BY <1>7, RemoveTagsInv DEF Some
<1>8. CASE \E F \in SUBSET Known, C \in Some(ClassWord) : AddClasses(C, F)
  BY <1>8, AddClassesInv DEF Some
<1>9. CASE \E F \in Some(Known), C \in Some(ClassWord) : RemoveClassesOf(C, F)
  BY <1>9, RemoveClassesOfInv DEF Some
<1>10. CASE \E C \in Some(ClassWord) : RemoveClasses(C)
  BY <1>10, RemoveClassesInv DEF Some
<1>11. CASE Release
  <2>1. /\ ~job.busy /\ Save(db) /\ job' = job /\ issued' = issued /\ held' = held
    BY <1>11 DEF Release
  <2>2. /\ db \in Tables /\ Agree(db) /\ held' \cap db.meta = {}
        /\ \A f \in held' : db.file2keyword[f] = {}
    BY <2>1 DEF Inv, TypeOK, IdsAgree
  <2> QED BY <2>1, <2>2, SaveInv
<1>12. CASE Crash
  BY <1>12, CrashInv
<1>13. CASE UNCHANGED vars
  BY <1>13 DEF vars, Inv, TypeOK, Agree, FilesAgree, TagsAgree, ClassesAgree,
               KeywordsAgree, JobAgrees, IdsAgree
<1> QED BY <1>1, <1>2, <1>3, <1>4, <1>5, <1>6, <1>7, <1>8, <1>9, <1>10, <1>11, <1>12,
           <1>13 DEF Next

-------------------------------------------------------------------------------
\* The tables agree with one another at every moment, as read and as saved, whatever
\* calls are made and wherever a crash cuts them, when no call names a tag twice.
THEOREM Invariance ==
  ASSUME ~Repeats
  PROVE  Spec => []Inv
<1>1. Init => Inv
  BY InitInv
<1>2. Inv /\ [Next]_vars => Inv'
  BY NextInv
<1> QED BY <1>1, <1>2, PTL DEF Spec

\* getUnTagFiles returns exactly the files that have no tag.
THEOREM UntaggedFilesAreExact ==
  ASSUME ~Repeats
  PROVE  Spec => []UntaggedIsExact
<1>1. Inv => UntaggedIsExact
  <2> SUFFICES ASSUME Inv PROVE UntaggedIsExact
    OBVIOUS
  <2>1. /\ FilesAgree(db) /\ TagsAgree(db) /\ db \in Tables
    BY DEF Inv, Agree, TypeOK
  <2>2. db.meta \subseteq FileID \ {0}
    BY <2>1 DEF FilesAgree, Tables
  <2>3. GetFilesSnap(db) = db.meta
    BY <2>1, <2>2 DEF GetFilesSnap, FilesAgree
  <2> QED BY <2>1, <2>2, <2>3
          DEF UntaggedIsExact, GetUntagFiles, GetTagsOfFile, TagsAgree
<1>2. Spec => []Inv
  BY Invariance
<1> QED BY <1>1, <1>2, PTL

\* A file is found under each of its tags, and every one of them is listed.
THEOREM TaggedFilesAreFound ==
  ASSUME ~Repeats
  PROVE  Spec => []TagsAreFound
<1>1. Inv => TagsAreFound
  <2> SUFFICES ASSUME Inv PROVE TagsAreFound
    OBVIOUS
  <2>1. FilesAgree(db) /\ TagsAgree(db)
    BY DEF Inv, Agree
  <2> QED BY <2>1 DEF FilesAgree, TagsAgree, TagsAreFound, GetTagsOfFile, FilesOfTag,
                      ListsOfAllTags
<1>2. Spec => []Inv
  BY Invariance
<1> QED BY <1>1, <1>2, PTL

LEMMA KeywordsAnswer == Inv => KeywordsFind /\ KeywordRowsLeadBack
<1> SUFFICES ASSUME Inv PROVE KeywordsFind /\ KeywordRowsLeadBack
  OBVIOUS
<1>1. KeywordsAgree(db) /\ db \in Tables
  BY DEF Inv, Agree, TypeOK
<1> QED BY <1>1 DEF KeywordsAgree, KeywordsFind, KeywordRowsLeadBack, GetTagsOfFile,
                    FilesOfKeyword, Tables

\* A file is found by the keyword of each of its tags and classes, although the row
\* of its keywords is cut in half by every removal.
THEOREM FilesAreFoundByKeyword ==
  ASSUME ~Repeats
  PROVE  Spec => []KeywordsFind
<1>1. Spec => []Inv
  BY Invariance
<1> QED BY <1>1, KeywordsAnswer, PTL

\* What the row of a file's keywords still names leads back to it, so that removeFiles
\* cleans what it reads there.
THEOREM KeywordsAreReturned ==
  ASSUME ~Repeats
  PROVE  Spec => []KeywordRowsLeadBack
<1>1. Spec => []Inv
  BY Invariance
<1> QED BY <1>1, KeywordsAnswer, PTL

\* Files and classes name each other, and a classified file is not reported as
\* unclassified.
THEOREM MembershipIsMutual ==
  ASSUME ~Repeats
  PROVE  Spec => []MembershipIsTwoWay
<1>1. Inv => MembershipIsTwoWay
  <2> SUFFICES ASSUME Inv PROVE MembershipIsTwoWay
    OBVIOUS
  <2>1. FilesAgree(db) /\ ClassesAgree(db) /\ db \in Tables
    BY DEF Inv, Agree, TypeOK
  <2>2. \A f \in FileID, c \in Word : f \in FilesOfClass(db, c) <=> c \in db.file2class[f]
    BY <2>1 DEF ClassesAgree, FilesOfClass
  <2>3. \A f \in FileID : db.file2class[f] \subseteq db.hash2class
    BY <2>1 DEF ClassesAgree
  <2>4. \A f \in FileID : db.file2class[f] # {} => f \in db.meta \ GetUnClassifyFiles(db)
    BY <2>1 DEF ClassesAgree, FilesAgree, GetUnClassifyFiles
  <2> QED BY <2>2, <2>3, <2>4 DEF MembershipIsTwoWay
<1>2. Spec => []Inv
  BY Invariance
<1> QED BY <1>1, <1>2, PTL

\* No id is handed out twice, whatever crashes.
THEOREM IdsAreNeverReused ==
  ASSUME ~Repeats
  PROVE  Spec => IdsAreFresh
<1>1. Inv => (db.lastID + 1 .. db'.lastID) \cap issued = {}
  BY DEF Inv, TypeOK, IdsAgree, Tables
<1>2. Spec => []Inv
  BY Invariance
<1> QED BY <1>1, <1>2, PTL DEF Spec, IdsAreFresh

-------------------------------------------------------------------------------
\* Tables that differ only in the rows removeClasses(classes, files) leaves unsaved.
SavedBut(d, e) ==
  /\ d.lastID = e.lastID /\ d.meta = e.meta /\ d.snap = e.snap
  /\ d.file2tag = e.file2tag /\ d.tag2file = e.tag2file
  /\ d.tagRows = e.tagRows /\ d.tagIndx = e.tagIndx /\ d.hash2class = e.hash2class

LEMMA SavedButIsEqual ==
  ASSUME NEW d \in Tables, NEW e \in Tables
  PROVE  SavedBut(d, e) <=>
           d = [e EXCEPT !.file2class = d.file2class, !.class2file = d.class2file,
                         !.file2keyword = d.file2keyword, !.keyword2file = d.keyword2file]
  BY DEF SavedBut, Tables

LEMMA RemoveClassesOfSavesBut ==
  ASSUME NEW d \in Tables, NEW F \in SUBSET FileID, NEW C \in SUBSET Word
  PROVE  SavedBut(RemoveMembers(RemoveKeywords(d, F, C), C, F), d)
<1>1. /\ RemoveKeywords(d, F, C) \in Tables
      /\ SavedBut(RemoveKeywords(d, F, C), d)
  <2>1. KeywordsCut(d, F, C, RemoveKeywords(d, F, C))
    BY RemoveKeywordsFields
  <2> QED BY <2>1 DEF KeywordsCut, SavedBut
<1> DEFINE k == RemoveKeywords(d, F, C)
<1> HIDE DEF k
<1>2. SavedBut(RemoveMembers(k, C, F), k)
  BY <1>1 DEF RemoveMembers, SavedBut, Tables, k
<1> QED BY <1>1, <1>2 DEF SavedBut, k

\* When a call returns, all it wrote is in the file, but for removeClasses of files.
THEOREM ReturnedIsSaved ==
  ASSUME ~Repeats
  PROVE  Spec => []SavedOnReturn
<1> DEFINE Saved == ~job.busy => SavedBut(db, disk)
<1>1. Init => Saved
  BY DEF Init, SavedBut
<1>2. Inv /\ Saved /\ [Next]_vars => Saved'
  <2> SUFFICES ASSUME Inv, Saved, [Next]_vars PROVE Saved'
    OBVIOUS
  <2>1. CASE db' = disk'
    BY <2>1 DEF SavedBut
  <2>2. CASE \E F \in Some(Known), C \in Some(ClassWord) : RemoveClassesOf(C, F)
    <3>1. PICK F \in Some(Known), C \in Some(ClassWord) : RemoveClassesOf(C, F)
      BY <2>2
    <3>2. F \in SUBSET FileID /\ C \in SUBSET Word /\ db \in Tables
      BY FileIDFacts, FileIndexAssumption DEF Some, Known, Inv, TypeOK
    <3>3. SavedBut(db', db) /\ disk' = disk /\ job' = job
      BY <3>1, <3>2, RemoveClassesOfSavesBut DEF RemoveClassesOf
    <3> QED BY <3>1, <3>3 DEF RemoveClassesOf, SavedBut
  <2>3. CASE job'.busy
    BY <2>3
  <2>4. CASE UNCHANGED vars
    BY <2>4 DEF vars, SavedBut
  <2>5. ASSUME NEW w \in Word, SetTagsWord(w) PROVE job'.busy
    BY <2>5 DEF SetTagsWord, Inv, TypeOK, Jobs
  <2>6. ASSUME NEW F, NEW T, NEW twice, SetTagsBegin(F, T, twice) PROVE job'.busy
    BY <2>6 DEF SetTagsBegin
  <2>7. ASSUME NEW cnt, GenerateNextFilesID(cnt) PROVE db' = disk'
    BY <2>7 DEF GenerateNextFilesID, Save
  <2>8. ASSUME NEW F, AddFiles(F) \/ RemoveFiles(F) PROVE db' = disk'
    BY <2>8 DEF AddFiles, RemoveFiles, Save
  <2>9. ASSUME NEW F, NEW C, RemoveTags(F, C) \/ AddClasses(C, F) \/ RemoveClasses(C)
        PROVE  db' = disk'
    BY <2>9 DEF RemoveTags, AddClasses, RemoveClasses, Save
  <2>10. SetTagsEnd \/ Release \/ Crash => db' = disk'
    <3>1. \A d : Save(d) => db' = disk'
      BY DEF Save
    <3> QED BY <3>1, Zenon DEF SetTagsEnd, Release, Crash
  <2> QED BY <2>1, <2>2, <2>3, <2>4, <2>5, <2>6, <2>7, <2>8, <2>9, <2>10, Zenon DEF Next
<1>3. Inv /\ Saved => SavedOnReturn
  BY SavedButIsEqual DEF Inv, TypeOK, SavedOnReturn
<1>4. Spec => []Inv
  BY Invariance
<1> QED BY <1>1, <1>2, <1>3, <1>4, PTL DEF Spec

-------------------------------------------------------------------------------
\* The lists of a tag lead back to the file, or will when the loop of SetTags ends; and
\* SetTags drops no tag of the files it is given.
ListsLeadBack ==
  /\ \A f \in FileID, w \in Word : f \in db.tag2file[w] =>
       w \in db.file2tag[f] \/ (job.busy /\ f \in job.files /\ w \in job.tags \ job.todo)
  /\ job.busy => /\ job.todo \subseteq job.tags
                 /\ \A f \in job.files : db.file2tag[f] \subseteq job.tags

\* Every word that is listed has a row.
ListedHaveRows == db.tagIndx \subseteq db.tagRows

SameTags(d, e) ==
  /\ d.file2tag = e.file2tag /\ d.tag2file = e.tag2file
  /\ d.tagRows = e.tagRows /\ d.tagIndx = e.tagIndx

LEMMA OtherCallsKeepTags ==
  ASSUME Inv, NEW F, NEW C, NEW n,
         \/ GenerateNextFilesID(n) \/ AddFiles(F) \/ AddClasses(C, F)
         \/ RemoveClassesOf(C, F) \/ RemoveClasses(C) \/ Release \/ UNCHANGED vars
  PROVE  SameTags(db', db) /\ job' = job
<1>0. db \in Tables
  BY DEF Inv, TypeOK
<1>1. CASE GenerateNextFilesID(n)
  BY <1>0, <1>1 DEF GenerateNextFilesID, Save, SameTags, Tables
<1>2. CASE AddFiles(F)
  BY <1>0, <1>2 DEF AddFiles, AddRows, Save, SameTags, Tables
<1>3. CASE AddClasses(C, F)
  BY <1>0, <1>3 DEF AddClasses, SetStep, Bind, AddClassRows, Save, SameTags, Tables
<1>4. CASE RemoveClassesOf(C, F)
  BY <1>0, <1>4 DEF RemoveClassesOf, RemoveMembers, RemoveKeywords, SameTags, Tables
<1>5. CASE RemoveClasses(C)
  BY <1>0, <1>5 DEF RemoveClasses, RemoveClassRows, Save, SameTags, Tables
<1>6. CASE Release \/ UNCHANGED vars
  BY <1>6 DEF Release, Save, SameTags, vars
<1> QED BY <1>1, <1>2, <1>3, <1>4, <1>5, <1>6

LEMMA NextLists ==
  ASSUME Inv, ~Repeats, ~Crashes, [Next]_vars
  PROVE  /\ ListedHaveRows => ListedHaveRows'
         /\ KeepTags /\ ListsLeadBack => ListsLeadBack'
<1>0. db \in Tables /\ job \in Jobs /\ Known \subseteq FileID
  BY FileIDFacts DEF Inv, TypeOK, Known
<1>1. CASE SameTags(db', db) /\ job' = job
  BY <1>1 DEF SameTags, ListedHaveRows, ListsLeadBack
<1>2. ASSUME NEW F \in SUBSET Known, RemoveFiles(F)
      PROVE  /\ ListedHaveRows => ListedHaveRows'
             /\ ListsLeadBack => ListsLeadBack'
  <2> DEFINE G == Existing(db, F)
  <2>1. /\ ~job.busy /\ job' = job /\ db' = RemoveRows(db, G)
    BY <1>2 DEF RemoveFiles, Save
  <2> HIDE DEF G
  <2>2. /\ db'.tag2file = [w \in Word |-> db.tag2file[w] \ {f \in G : w \in db.file2tag[f]}]
        /\ db'.file2tag = [f \in FileID |-> IF f \in G THEN {} ELSE db.file2tag[f]]
        /\ db.tagRows \subseteq db'.tagRows /\ db'.tagIndx = db.tagIndx
    BY <1>0, <2>1 DEF RemoveRows, Tables
  <2> QED BY <2>1, <2>2 DEF ListedHaveRows, ListsLeadBack
<1>3. ASSUME NEW F \in SUBSET Known, NEW T \in SUBSET TagWord, NEW twice,
             MaySet(F, T), SetTagsBegin(F, T, twice)
      PROVE  /\ ListedHaveRows => ListedHaveRows'
             /\ KeepTags /\ ListsLeadBack => ListsLeadBack'
  <2>1. /\ ~job.busy /\ db' = db
        /\ job' = [files |-> Existing(db, F), tags |-> T, todo |-> T,
                   twice |-> twice, busy |-> TRUE]
    BY <1>3 DEF SetTagsBegin
  <2>2. KeepTags => \A f \in Existing(db, F) : db.file2tag[f] \subseteq T
    BY <1>3 DEF MaySet, Existing
  <2> QED BY <2>1, <2>2 DEF ListedHaveRows, ListsLeadBack
<1>4. ASSUME NEW w \in Word, SetTagsWord(w)
      PROVE  /\ ListedHaveRows => ListedHaveRows'
             /\ ListsLeadBack => ListsLeadBack'
  <2>1. /\ job.busy /\ w \in job.todo /\ job' = [job EXCEPT !.todo = @ \ {w}]
        /\ db' = Bind(AddFileID2Tag(AddTagPY(db, w), job.files, w), job.files, {w})
    BY <1>4 DEF SetTagsWord
  <2>2. /\ job'.files = job.files /\ job'.tags = job.tags /\ job'.busy
        /\ job'.todo = job.todo \ {w}
    BY <1>0, <2>1 DEF Jobs
  <2>3. /\ db'.file2tag = db.file2tag
        /\ db'.tag2file = [v \in Word |-> IF v = w THEN db.tag2file[v] \cup job.files
                                                   ELSE db.tag2file[v]]
        /\ db'.tagRows = db.tagRows \cup {w} /\ db'.tagIndx = db.tagIndx \cup {w}
    BY <1>0, <2>1 DEF Bind, AddFileID2Tag, AddTagPY, Tables
  <2>4. ListedHaveRows => ListedHaveRows'
    BY <2>3 DEF ListedHaveRows
  <2>5. ASSUME ListsLeadBack PROVE ListsLeadBack'
    <3>1. ASSUME NEW f \in FileID, NEW v \in Word, f \in db'.tag2file[v]
          PROVE  v \in db'.file2tag[f] \/ (f \in job.files /\ v \in job'.tags \ job'.todo)
      <4>1. CASE f \in db.tag2file[v]
        BY <2>2, <2>3, <2>5, <4>1 DEF ListsLeadBack
      <4>2. CASE v = w /\ f \in job.files
        BY <2>1, <2>2, <2>5, <4>2 DEF ListsLeadBack
      <4> QED BY <2>3, <3>1, <4>1, <4>2
    <3>2. /\ job'.todo \subseteq job'.tags
          /\ \A f \in job'.files : db'.file2tag[f] \subseteq job'.tags
      BY <2>1, <2>2, <2>3, <2>5 DEF ListsLeadBack
    <3> QED BY <2>2, <3>1, <3>2 DEF ListsLeadBack
  <2> QED BY <2>4, <2>5
<1>5. CASE SetTagsEnd
  <2>1. /\ job.busy /\ job.todo = {} /\ ~job.twice /\ job' = Idle
        /\ job.files \subseteq db.meta
    BY <1>5 DEF SetTagsEnd, Inv, JobAgrees
  <2> DEFINE files == {f \in job.files : IsFileExist(db, f)}
  <2>2. files = job.files
    BY <1>0, <2>1 DEF Inv, Agree, FilesAgree, IsFileExist, Tables
  <2>3. db' = SetStep(SetTagRows(db, files, job.tags), files, "tag")
    <3>1. PICK beyond \in IF job.twice THEN {{w} : w \in Word} ELSE {{}} :
            Save(SetStep(SetTagRows(db, files, job.tags \cup beyond), files, "tag"))
      BY <1>5 DEF SetTagsEnd
    <3>2. job.tags \cup beyond = job.tags
      BY <2>1
    <3> QED BY <3>1, <3>2 DEF Save
  <2> HIDE DEF files
  <2>4. /\ db'.tag2file = db.tag2file /\ db'.tagRows = db.tagRows /\ db'.tagIndx = db.tagIndx
        /\ db'.file2tag = [f \in FileID |-> IF f \in job.files THEN job.tags
                                             ELSE db.file2tag[f]]
    BY <1>0, <2>2, <2>3 DEF SetStep, SetTagRows, Tables
  <2>5. ListsLeadBack => ListsLeadBack'
    BY <2>1, <2>4 DEF ListsLeadBack, Idle
  <2> QED BY <2>4, <2>5 DEF ListedHaveRows
<1>6. ASSUME NEW F \in SUBSET Known, NEW T \in SUBSET TagWord, RemoveTags(F, T)
      PROVE  /\ ListedHaveRows => ListedHaveRows'
             /\ ListsLeadBack => ListsLeadBack'
  <2>1. /\ ~job.busy /\ job' = job
        /\ db' = RemoveKeywords(RemoveTagRows(db, F, T), F, T)
    BY <1>6 DEF RemoveTags, Save
  <2>2. /\ db'.tag2file = [w \in Word |-> IF w \in T THEN db.tag2file[w] \ F
                                                    ELSE db.tag2file[w]]
        /\ db'.file2tag = [f \in FileID |-> IF f \in F THEN db.file2tag[f] \ T
                                                      ELSE db.file2tag[f]]
        /\ db'.tagRows = db.tagRows /\ db'.tagIndx = db.tagIndx
    BY <1>0, <2>1 DEF RemoveKeywords, RemoveTagRows, Tables
  <2> QED BY <2>1, <2>2 DEF ListedHaveRows, ListsLeadBack
<1>7. ASSUME NEW F \in Some(Known), NEW T \in Some(TagWord), NEW twice \in {FALSE, Repeats},
             MaySet(F, T) /\ SetTagsBegin(F, T, twice)
      PROVE  /\ ListedHaveRows => ListedHaveRows'
             /\ KeepTags /\ ListsLeadBack => ListsLeadBack'
  <2>1. F \in SUBSET Known /\ T \in SUBSET TagWord
    BY DEF Some
  <2> QED BY <1>3, <1>7, <2>1
<1>8. ASSUME NEW F \in Some(Known), RemoveFiles(F)
      PROVE  /\ ListedHaveRows => ListedHaveRows'
             /\ KeepTags /\ ListsLeadBack => ListsLeadBack'
  BY <1>2, <1>8 DEF Some
<1>9. ASSUME NEW F \in Some(Known), NEW T \in Some(TagWord), RemoveTags(F, T)
      PROVE  /\ ListedHaveRows => ListedHaveRows'
             /\ KeepTags /\ ListsLeadBack => ListsLeadBack'
  BY <1>6, <1>9 DEF Some
<1>10. ASSUME NEW F, NEW C, NEW n,
              \/ GenerateNextFilesID(n) \/ AddFiles(F) \/ AddClasses(C, F)
              \/ RemoveClassesOf(C, F) \/ RemoveClasses(C) \/ Release \/ UNCHANGED vars
       PROVE  /\ ListedHaveRows => ListedHaveRows'
              /\ KeepTags /\ ListsLeadBack => ListsLeadBack'
  BY <1>1, <1>10, OtherCallsKeepTags
<1>11. ~Crash
  BY DEF Crash
<1> QED BY <1>4, <1>5, <1>7, <1>8, <1>9, <1>10, <1>11, Zenon DEF Next

\* When every call of setTags names the tags the files have, as addTag of the interface
\* does, TAG2FILE is the inverse of FILE2TAG between calls, as long as no crash cuts one.
THEOREM TagsAreTwoWay ==
  ASSUME ~Repeats, ~Crashes, KeepTags
  PROVE  Spec => []TagTwoWay
<1>1. Init => ListsLeadBack
  BY DEF Init, Empty, NoRow, NoWordRow, Idle, ListsLeadBack
<1>2. Inv /\ ListsLeadBack /\ [Next]_vars => ListsLeadBack'
  BY NextLists
<1>3. Inv /\ ListsLeadBack => TagTwoWay
  BY DEF Inv, Agree, TagsAgree, ListsLeadBack, TagTwoWay, FilesOfTag, GetTagsOfFile
<1>4. Spec => []Inv
  BY Invariance
<1> QED BY <1>1, <1>2, <1>3, <1>4, PTL DEF Spec

\* Every word getAllTags lists has a list of files, as long as no crash cuts setTags.
THEOREM ListedTagsAreServed ==
  ASSUME ~Repeats, ~Crashes
  PROVE  Spec => []AllTagsAreServed
<1>1. Init => ListedHaveRows
  BY DEF Init, Empty, ListedHaveRows
<1>2. Inv /\ ListedHaveRows /\ [Next]_vars => ListedHaveRows'
  BY NextLists
<1>3. ListedHaveRows => AllTagsAreServed
  BY DEF ListedHaveRows, AllTagsAreServed, ListsOfAllTags
<1>4. Spec => []Inv
  BY Invariance
<1> QED BY <1>1, <1>2, <1>3, <1>4, PTL DEF Spec
===============================================================================
