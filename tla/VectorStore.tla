----------------------------- MODULE VectorStore -----------------------------
(***************************************************************************)
(* The vector store of the RAG engine, rag_engine/retrieval.py: indexing   *)
(* the chunks of a document in batches, searching and deleting.  The       *)
(* collection (Qdrant) is external: a map from point ids to chunks.  The   *)
(* client calls are synchronous, so calls follow one another; a batch that *)
(* fails leaves the batches before it.  A chunk is its document, the       *)
(* version of its text and its chunk_index.                                *)
(***************************************************************************)
EXTENDS Integers, Sequences

CONSTANTS
    Documents,
    MaxChunks,     \* bound: the chunks of a document
    BatchSize,     \* points per upsert (100 in the code)
    MaxVersions    \* bound: calls of index_chunks

ASSUME StoreAssumption ==
    MaxChunks \in Nat \ {0} /\ BatchSize \in Nat \ {0} /\ MaxVersions \in Nat

Ids == 0 .. MaxChunks - 1
Chunk == [document : Documents, version : 1..MaxVersions, index : Ids]
NoChunk == [document |-> "none"]

VARIABLES
    points,     \* the collection
    pending,    \* the chunks of the call under way that are not yet upserted
    next,       \* the id of the first of them
    version,    \* calls of index_chunks so far
    indexed,    \* history: of every document, the chunks it was last indexed with
    reached     \* history: of every document, how far the ids that later calls
                \* for other documents have written reach

vars == <<points, pending, next, version, indexed, reached>>

Init ==
    /\ points = [id \in Ids |-> NoChunk]
    /\ pending = << >>
    /\ next = 0
    /\ version = 0
    /\ indexed = [d \in Documents |-> << >>]
    /\ reached = [d \in Documents |-> 0]

\* The chunks that ingestion makes of a document that has n of them.
ChunkAt(d, v, id) == [document |-> d, version |-> v, index |-> id]
ChunksOf(d, v, n) == [i \in 1..n |-> ChunkAt(d, v, i - 1)]

\* index_chunks: ids are counted from 0 in every call, whatever the document.  A
\* document without chunks is not indexed at all.
IndexChunks(d, n) ==
    /\ pending = << >>
    /\ version < MaxVersions
    /\ version' = version + 1
    /\ pending' = ChunksOf(d, version + 1, n)
    /\ next' = 0
    /\ indexed' = [indexed EXCEPT ![d] = << >>]
    /\ UNCHANGED <<points, reached>>

Min2(a, b) == IF a < b THEN a ELSE b
Max2(a, b) == IF a < b THEN b ELSE a

\* The batch of k points is in the collection: the histories of the documents,
\* that of the call's own once its last batch is.
Upserted(k) ==
    LET own == pending[k].document
        last == k = Len(pending)
    IN  /\ indexed' = IF last THEN
                         [indexed EXCEPT ![own] = ChunksOf(own, version, next + k)]
                      ELSE indexed
        /\ reached' = [d \in Documents |-> IF d # own THEN Max2(reached[d], next + k)
                                           ELSE IF last THEN 0 ELSE reached[d]]

\* Faulty variant: the next batch begins one point early.
UpsertBatchOverlapping ==
    /\ pending # << >>
    /\ LET k == Min2(BatchSize, Len(pending))
       IN  /\ points' = [id \in Ids |-> IF id \in next .. next + k - 1
                                        THEN pending[id - next + 1] ELSE points[id]]
           /\ pending' = SubSeq(pending, k + 1, Len(pending))
           /\ next' = next + k - 1
           /\ Upserted(k)
    /\ UNCHANGED version

\* Faulty variant: the last point of a batch is not sent.
UpsertBatchShort ==
    /\ pending # << >>
    /\ LET k == Min2(BatchSize, Len(pending))
       IN  /\ points' = [id \in Ids |-> IF id \in next .. next + k - 2
                                        THEN pending[id - next + 1] ELSE points[id]]
           /\ pending' = SubSeq(pending, k + 1, Len(pending))
           /\ next' = next + k
           /\ Upserted(k)
    /\ UNCHANGED version

\* The next batch is upserted; after the last the call succeeds.
UpsertBatch ==
    /\ pending # << >>
    /\ LET k == Min2(BatchSize, Len(pending))
       IN  /\ points' = [id \in Ids |-> IF id \in next .. next + k - 1
                                        THEN pending[id - next + 1] ELSE points[id]]
           /\ pending' = SubSeq(pending, k + 1, Len(pending))
           /\ next' = next + k
           /\ Upserted(k)
    /\ UNCHANGED version

\* The upsert fails, and with it the call.
UpsertFails ==
    /\ pending # << >>
    /\ pending' = << >>
    /\ UNCHANGED <<points, next, version, indexed, reached>>

\* delete_document: the points whose payload names the document.
DeleteDocument(d) ==
    /\ pending = << >>
    /\ points' = [id \in Ids |-> IF points[id].document = d THEN NoChunk ELSE points[id]]
    /\ indexed' = [indexed EXCEPT ![d] = << >>]
    /\ UNCHANGED <<pending, next, version, reached>>

Next ==
    \/ \E d \in Documents : DeleteDocument(d) \/ \E n \in 1..MaxChunks : IndexChunks(d, n)
    \/ UpsertBatch
    \/ UpsertFails

Spec == Init /\ [][Next]_vars

----------------------------------------------------------------------------
\* Properties.

Point == Chunk \cup {NoChunk}

\* Types; the chunks of a call fit the ids still to be given.
TypeOK ==
    /\ points \in [Ids -> Point]
    /\ pending \in Seq(Chunk)
    /\ next \in 0..MaxChunks
    /\ pending # << >> => next + Len(pending) <= MaxChunks
    /\ version \in 0..MaxVersions
    /\ indexed \in [Documents -> Seq(Chunk)]
    /\ \A d \in Documents : Len(indexed[d]) <= MaxChunks
    /\ reached \in [Documents -> 0..MaxChunks]

\* Until a document is indexed again or deleted, the collection keeps every chunk
\* it was last indexed with, except at the ids that calls for other documents
\* have written since: neither a batch that failed nor the deletion of another
\* document takes any of them.
IndexedIsKept ==
    \A d \in Documents : \A i \in DOMAIN indexed[d] :
        i > reached[d] => points[i - 1] = indexed[d][i]

\* The collection is layered: every chunk lies at its own index, and no point
\* is newer than one before it, whichever calls failed half-way and whichever
\* documents were deleted in between.
NewestFirst ==
    \A i, j \in Ids : points[i] # NoChunk /\ points[j] # NoChunk =>
        /\ points[i].index = i
        /\ i < j => points[i].version >= points[j].version

\* A call under way has written the chunks of one document at the ids before
\* next, and has those for the ids from there on still pending; that document
\* is not indexed meanwhile.
CallUnderWay ==
    /\ \A id \in Ids : points[id] # NoChunk => points[id].version <= version
    /\ pending # << >> => \E d \in Documents :
          /\ indexed[d] = << >>
          /\ \A id \in Ids : id < next => points[id] = ChunkAt(d, version, id)
          /\ \A i \in DOMAIN pending : pending[i] = ChunkAt(d, version, next + i - 1)

\* A document is indexed with chunks of its own.
IndexedIsOwn == \A d \in Documents : \A i \in DOMAIN indexed[d] : indexed[d][i].document = d

IInv == TypeOK /\ NewestFirst /\ CallUnderWay /\ IndexedIsOwn
=============================================================================
