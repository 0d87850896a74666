----------------------------- MODULE KnowledgeBase -----------------------------
(***************************************************************************)
(* The knowledge base of fraud policies: retrieval/ingest.py reads and     *)
(* chunks every document, then deletes the collection, creates it again    *)
(* and uploads the chunks, while documents are edited, the ingest may die  *)
(* at any point, and others search.                                        *)
(***************************************************************************)
EXTENDS Chunker, Bags

CONSTANTS
    Files,      \* the .md files, in the order main() reads them
    Documents,  \* file -> what it may contain: [id, titled, sections]
    Ingests,    \* processes of ingest.py
    EditBound   \* edits of the files told apart

ASSUME BaseAssumption ==
    /\ Files \in Seq(ToSet(Files))
    /\ \A j, k \in DOMAIN Files : Files[j] = Files[k] => j = k
    /\ EditBound \in Nat

VARIABLES
    disk,       \* file -> its document
    edits,      \* edits so far
    exists,     \* whether there is a collection
    collection, \* bag of the chunks in it
    ingest,     \* i -> where main() is, and what it has in its hands
    report      \* what "INGESTION COMPLETE" said of this collection (history)

baseVars == <<disk, edits, exists, collection, ingest, report>>

FileSet == ToSet(Files)

Asleep == [at |-> "idle", read |-> <<>>, queue |-> {}, inserted |-> 0]

NoReport == [read |-> <<>>, inserted |-> 0]

BaseInit ==
    /\ disk \in [FileSet -> UNION {Documents[f] : f \in FileSet}]
    /\ \A f \in FileSet : disk[f] \in Documents[f]
    /\ edits = 0
    /\ exists = FALSE
    /\ collection = EmptyBag
    /\ ingest = [i \in Ingests |-> Asleep]
    /\ report = NoReport

\* chunk_document: the chunks of a document, each told apart by its place.
ChunksOf(f, d) ==
    UNION {{[file |-> f, doc |-> d.id, section |-> s, part |-> k] :
                k \in DOMAIN ChunkSection(d.sections[s])} : s \in DOMAIN d.sections}

\* "no H1 title found", or a heading that leaves no room.
DocumentRaises(d) == ~d.titled \/ \E s \in DOMAIN d.sections : SectionRaises(d.sections[s])

\* all_chunks, of the documents read so far in the order of Files.
BatchOf(read) == UNION {ChunksOf(Files[k], read[k]) : k \in DOMAIN read}

-----------------------------------------------------------------------------

Edit(f) ==
    /\ edits < EditBound
    /\ \E d \in Documents[f] \ {disk[f]} : disk' = [disk EXCEPT ![f] = d]
    /\ edits' = edits + 1
    /\ UNCHANGED <<exists, collection, ingest, report>>

Goes(i, state) == ingest' = [ingest EXCEPT ![i] = state]

BeginIngest(i) ==
    /\ ingest[i].at = "idle"
    /\ Goes(i, [Asleep EXCEPT !.at = "read"])
    /\ UNCHANGED <<disk, edits, exists, collection, report>>

\* load_documents, one file after the other; a bad one ends the ingest.
ReadFile(i) ==
    /\ ingest[i].at = "read" /\ Len(ingest[i].read) < Len(Files)
    /\ LET d == disk[Files[Len(ingest[i].read) + 1]]
       IN  Goes(i, IF DocumentRaises(d) THEN Asleep ELSE [ingest[i] EXCEPT !.read = Append(@, d)])
    /\ UNCHANGED <<disk, edits, exists, collection, report>>

\* Everything read: no chunks end the ingest, else they are embedded.
Embed(i) ==
    /\ ingest[i].at = "read" /\ Len(ingest[i].read) = Len(Files)
    /\ LET batch == BatchOf(ingest[i].read)
       IN  Goes(i, IF batch = {} THEN Asleep
                   ELSE [ingest[i] EXCEPT !.at = "delete", !.queue = batch])
    /\ UNCHANGED <<disk, edits, exists, collection, report>>

\* Mutated form: a collection that exists is kept and added to.
Delete_Kept(i) ==
    /\ ingest[i].at = "delete"
    /\ report' = NoReport
    /\ Goes(i, [ingest[i] EXCEPT !.at = "create"])
    /\ UNCHANGED <<disk, edits, exists, collection>>

\* clear_collection: delete ...
Delete(i) ==
    /\ ingest[i].at = "delete"
    /\ exists' = FALSE
    /\ collection' = EmptyBag
    /\ report' = NoReport
    /\ Goes(i, [ingest[i] EXCEPT !.at = "create"])
    /\ UNCHANGED <<disk, edits>>

\* ... and create_schema, which skips a collection that exists ...
CreateSchema(i) ==
    /\ ingest[i].at = "create"
    /\ Goes(i, [ingest[i] EXCEPT !.at = IF exists THEN "upload" ELSE "creating"])
    /\ UNCHANGED <<disk, edits, exists, collection, report>>

\* ... and asks for it in a second call, which raises if another made it meanwhile.
CreateCollection(i) ==
    /\ ingest[i].at = "creating"
    /\ exists' = TRUE
    /\ Goes(i, IF exists THEN Asleep ELSE [ingest[i] EXCEPT !.at = "upload"])
    /\ UNCHANGED <<disk, edits, collection, report>>

\* upsert_chunks: the batch sends its objects in requests that may overtake one
\* another; an object that fails is only counted.
Upload(i, c) ==
    /\ ingest[i].at = "upload" /\ c \in ingest[i].queue
    /\ exists
    /\ collection' = collection (+) SetToBag({c})
    /\ Goes(i, [ingest[i] EXCEPT !.queue = @ \ {c}, !.inserted = @ + 1])
    /\ UNCHANGED <<disk, edits, exists, report>>

\* ... also one that was stored before its request timed out.
UploadFails(i, c) ==
    /\ ingest[i].at = "upload" /\ c \in ingest[i].queue
    /\ Goes(i, [ingest[i] EXCEPT !.queue = @ \ {c}])
    /\ \/ UNCHANGED collection
       \/ exists /\ collection' = collection (+) SetToBag({c})
    /\ UNCHANGED <<disk, edits, exists, report>>

FinishIngest(i) ==
    /\ ingest[i].at = "upload" /\ ingest[i].queue = {}
    /\ report' = [read |-> ingest[i].read, inserted |-> ingest[i].inserted]
    /\ Goes(i, Asleep)
    /\ UNCHANGED <<disk, edits, exists, collection>>

\* The process dies, or a call raises, the one under way without effect: the
\* next ingest is a new process.
IngestDies(i) ==
    /\ ingest[i].at # "idle"
    /\ Goes(i, Asleep)
    /\ UNCHANGED <<disk, edits, exists, collection, report>>

BaseNext ==
    \/ \E f \in FileSet : Edit(f)
    \/ \E i \in Ingests :
        \/ BeginIngest(i) \/ ReadFile(i) \/ Embed(i) \/ Delete(i) \/ CreateSchema(i)
        \/ CreateCollection(i) \/ FinishIngest(i) \/ IngestDies(i)
    \/ \E i \in Ingests : \E c \in ingest[i].queue : Upload(i, c) \/ UploadFails(i, c)

\* hybrid_search: the collection of the moment, or an exception.
CanSearch == exists

-----------------------------------------------------------------------------

IngestState == {"idle", "read", "delete", "create", "creating", "upload"}

BaseTypeOK ==
    /\ edits \in 0 .. EditBound
    /\ exists \in BOOLEAN
    /\ IsABag(collection)
    /\ \A i \in Ingests : ingest[i].at \in IngestState /\ ingest[i].inserted \in Nat

Loaded == BagToSet(collection)

\* "EVERY chunk must respect CHUNK_MAX_WORDS", "splitting must preserve the
\* words, not drop the tail" (tests/test_chunker.py): a chunk is loaded only from
\* sections that are cut to fit, whatever section a document is written from.
ChunksFit == Loaded # {} => EverySectionFits

\* "fresh start every ingest run - avoids stale chunks from a previous doc
\* version lingering alongside new ones" (ingest.py): through edits in between,
\* ingests that died halfway and objects that failed, the chunks of a file are
\* of one version of it, none is there twice, and at least as many of what the
\* ingest read are there as it reported - all, when it reports that many.
CollectionIsAnEdition ==
    /\ \A a, b \in Loaded : a.file = b.file => a.doc = b.doc
    /\ \A c \in Loaded : collection[c] = 1
    /\ report # NoReport =>
          /\ Loaded \subseteq BatchOf(report.read)
          /\ Cardinality(Loaded) >= report.inserted
=============================================================================
