----------------------------- MODULE Knowledge ------------------------------
(***************************************************************************)
(* The knowledge base: KnowledgeService.ingest, its chunker and its route. *)
(*                                                                         *)
(* A thread serves one POST /knowledge/documents after the other.  A       *)
(* document is its normalized content, of which only the length matters    *)
(* here: a chunk is an interval of its characters.                         *)
(***************************************************************************)
EXTENDS Integers, Sequences

CONSTANTS
    Threads,     \* the threads that serve requests
    Contents,    \* what is ingested, up to the content hash
    Length,      \* the number of characters of each
    Documents,   \* the primary keys of documents
    NoContent,   \* the content of a row that does not exist
    NoDocument,  \* no primary key
    MaxChars,    \* knowledge_max_document_chars
    ChunkSize,   \* knowledge_chunk_size
    Overlap,     \* knowledge_chunk_overlap
    MaxChunks    \* knowledge_max_chunks_per_document

ASSUME ContentsAssumption ==
    NoContent \notin Contents /\ Length \in [Contents -> Nat \ {0}]
ASSUME DocumentsAssumption == NoDocument \notin Documents
\* core/config.py:48, and the constructor of DeterministicChunker.
ASSUME ChunkAssumption ==
    /\ ChunkSize \in Nat /\ Overlap \in Nat /\ Overlap < ChunkSize
    /\ MaxChunks \in Nat \ {0} /\ MaxChars \in Nat

VARIABLES
    documents,   \* the committed documents: the content of each
    chunks,      \* the committed document_chunks of each, by chunk_index
    sess         \* the local state of each thread's session

vars == <<documents, chunks, sess>>

-----------------------------------------------------------------------------
\* A chunk: the characters after "from", up to "to".
Chunk == [from : Nat, to : Nat]

\* A session: the content, where the next chunk starts, the chunks so far, and
\* the key of the document once it is inserted.
Session == [pc : {"idle", "chunking", "inserting", "filling", "committing"},
            content : Contents \cup {NoContent}, start : Nat,
            pieces : Seq(Chunk), id : Documents \cup {NoDocument}]

Closed == [pc |-> "idle", content |-> NoContent, start |-> 0,
           pieces |-> <<>>, id |-> NoDocument]

TypeOK == /\ documents \in [Documents -> Contents \cup {NoContent}]
          /\ chunks \in [Documents -> Seq(Chunk)]
          /\ sess \in [Threads -> Session]

Init == /\ documents = [d \in Documents |-> NoContent]
        /\ chunks = [d \in Documents |-> <<>>]
        /\ sess = [t \in Threads |-> Closed]

Continue(t, session) == /\ sess' = [sess EXCEPT ![t] = session]
                        /\ UNCHANGED <<documents, chunks>>

-----------------------------------------------------------------------------
(* The request, and the chunker.                                           *)

\* A committed document has the content hash.
Stored(content) == \E d \in Documents : documents[d] = content

\* find_by_hash finds nothing.  A document that is known is answered as it is,
\* and one that is too long refused; both change nothing.
Ingest(t, content) ==
    /\ sess[t].pc = "idle"
    /\ Length[content] <= MaxChars /\ ~Stored(content)
    /\ Continue(t, [Closed EXCEPT !.pc = "chunking", !.content = content])

\* The limit on chunks (mutant: reached one too early).
FullEarly(s) == s.pc = "chunking" /\ Len(s.pieces) >= MaxChunks - 1
Full(s) == s.pc = "chunking" /\ Len(s.pieces) >= MaxChunks

ChunkEnd(s) == IF s.start + ChunkSize < Length[s.content]
               THEN s.start + ChunkSize ELSE Length[s.content]

\* Where the chunk after one that ends at "end" starts (mutant: the operands are
\* swapped).
NextStartSwapped(end) == Overlap - end
NextStart(end) == end - Overlap

\* One turn of the chunker's loop.
CutChunk(t) ==
    /\ sess[t].pc = "chunking" /\ ~Full(sess[t])
    /\ LET s == sess[t]
           end == ChunkEnd(s)
       IN  Continue(t, [s EXCEPT
             !.pieces = Append(@, [from |-> s.start, to |-> end]),
             !.pc = IF end = Length[s.content] THEN "inserting" ELSE @,
             !.start = IF end = Length[s.content] THEN @ ELSE NextStart(end)])

\* The loop would start another chunk: DomainError, and nothing was written.
RefuseChunks(t) == Full(sess[t]) /\ Continue(t, Closed)

-----------------------------------------------------------------------------
(* KnowledgeRepository.create and the commit.                              *)

\* Another open session has inserted a document with the hash (mutant: it
\* is reserved from the check on).
PendingFromCheck(t) ==
    \E u \in Threads \ {t} : sess[u].content = sess[t].content
Pending(t) ==
    \E u \in Threads \ {t} : /\ sess[u].id # NoDocument
                             /\ sess[u].content = sess[t].content

\* uuid4: a key that neither a row nor an open session uses.
Unused(d) == documents[d] = NoContent /\ \A t \in Threads : sess[t].id # d

\* The chunks are embedded, and the document is flushed; the INSERT waits for
\* a session that has inserted the same hash.
InsertDocument(t, d) ==
    /\ sess[t].pc = "inserting" /\ Unused(d)
    /\ ~Pending(t) /\ ~Stored(sess[t].content)
    /\ Continue(t, [sess[t] EXCEPT !.pc = "filling", !.id = d])

\* The hash was committed since the check: the session is rolled back.
InsertFails(t) ==
    /\ sess[t].pc = "inserting" /\ ~Pending(t) /\ Stored(sess[t].content)
    /\ Continue(t, Closed)

\* The second flush, of all chunks.
InsertChunks(t) ==
    /\ sess[t].pc = "filling"
    /\ Continue(t, [sess[t] EXCEPT !.pc = "committing"])

\* session.commit: the document and its chunks become visible together (mutant:
\* the commit comes after the first flush already).
CommitEarly(t) ==
    /\ sess[t].pc \in {"filling", "committing"}
    /\ documents' = [documents EXCEPT ![sess[t].id] = sess[t].content]
    /\ chunks' = [chunks EXCEPT ![sess[t].id] =
                    IF sess[t].pc = "filling" THEN <<>> ELSE sess[t].pieces]
    /\ sess' = [sess EXCEPT ![t] = Closed]
Commit(t) ==
    /\ sess[t].pc = "committing"
    /\ documents' = [documents EXCEPT ![sess[t].id] = sess[t].content]
    /\ chunks' = [chunks EXCEPT ![sess[t].id] = sess[t].pieces]
    /\ sess' = [sess EXCEPT ![t] = Closed]

\* The provider fails or answers with the wrong number of embeddings, or the
\* process dies.
Abort(t) == sess[t].pc # "idle" /\ Continue(t, Closed)

Advance(t) == \/ CutChunk(t) \/ RefuseChunks(t)
              \/ \E d \in Documents : InsertDocument(t, d)
              \/ InsertFails(t) \/ InsertChunks(t) \/ Commit(t)

Next == \E t \in Threads : \/ \E content \in Contents : Ingest(t, content)
                           \/ Advance(t) \/ Abort(t)

Spec == Init /\ [][Next]_vars

\* A thread keeps running, and PostgreSQL serves the waiters of a unique key
\* in their order.
FairSpec == Spec /\ \A t \in Threads : SF_vars(Advance(t))

-----------------------------------------------------------------------------
(* Properties.                                                             *)

\* The chunks cover a content from its first character to its last, each one
\* starts exactly Overlap characters before the end of the one before, all
\* but the last have ChunkSize characters, none is empty, and no chunk comes
\* after one that has reached the end (services/knowledge.py:33).
Cover(pieces, length) ==
    /\ pieces # <<>> /\ Len(pieces) <= MaxChunks
    /\ pieces[1].from = 0 /\ pieces[Len(pieces)].to = length
    /\ \A i \in 1..Len(pieces) : pieces[i].from < pieces[i].to
    /\ \A i \in 1..(Len(pieces) - 1) :
          /\ pieces[i + 1].from = pieces[i].to - Overlap
          /\ pieces[i].to = pieces[i].from + ChunkSize
          /\ pieces[i].to < length

\* Whoever overlaps and whatever is cut off, a document is never in the tables
\* without all of its chunks, nor chunks without their document
\* (services/knowledge.py:172).
DocumentsAreWhole ==
    \A d \in Documents : IF documents[d] = NoContent
                         THEN chunks[d] = <<>>
                         ELSE Cover(chunks[d], Length[documents[d]])

\* Every ingest takes effect at once, in its commit, and the loop cuts what the
\* contract's formula says (services/knowledge.py:20, 141).
Contract == INSTANCE KnowledgeContract WITH
    library <- [d \in Documents |-> [content |-> documents[d], chunks |-> chunks[d]]]
ContractHolds == Contract!Spec

\* Check-then-insert by several sessions never stores a content twice
\* (services/knowledge.py:141).
StoredOnce ==
    \A d, e \in Documents :
       documents[d] # NoContent /\ documents[d] = documents[e] => d = e

\* A document is refused by the limit on chunks only when the allowed chunks,
\* overlapping as they do, cannot hold it (services/knowledge.py:40).
RefusedOnlyWhenTooLong ==
    \A t \in Threads :
       Full(sess[t]) =>
          Length[sess[t].content] > MaxChunks * (ChunkSize - Overlap) + Overlap

\* Every ingest ends: the chunker makes progress, and nobody waits for the same
\* content for ever.
EveryIngestEnds == \A t \in Threads : sess[t].pc # "idle" ~> sess[t].pc = "idle"

-----------------------------------------------------------------------------
(* The inductive invariant behind the theorems of Knowledge_proofs.        *)

\* How far one chunk brings the chunker.
Stride == Contract!Stride

\* Each chunk is where the formula puts it, and none is too long.
Placed(pieces) ==
    \A i \in 1..Len(pieces) : /\ pieces[i].from = (i - 1) * Stride
                              /\ pieces[i].to <= pieces[i].from + ChunkSize

\* The chunks a session has cut so far, and where the next one starts.
Underway(pieces, start, length) ==
    /\ Len(pieces) <= MaxChunks /\ start = Len(pieces) * Stride /\ start < length
    /\ \A i \in 1..Len(pieces) : /\ pieces[i].from < pieces[i].to
                                 /\ pieces[i].to = pieces[i].from + ChunkSize
                                 /\ pieces[i].to < length
    /\ \A i \in 1..(Len(pieces) - 1) : pieces[i + 1].from = pieces[i].to - Overlap
    /\ pieces # <<>> => pieces[1].from = 0 /\ start = pieces[Len(pieces)].to - Overlap

\* What a session is like at each step.
Shape(s) ==
    /\ s.pc # "idle" => /\ s.content \in Contents
                        /\ Length[s.content] <= MaxChars /\ Placed(s.pieces)
    /\ s.pc = "chunking" => Underway(s.pieces, s.start, Length[s.content])
    /\ s.pc \in {"inserting", "filling", "committing"} =>
          Cover(s.pieces, Length[s.content])
    /\ s.id # NoDocument <=> s.pc \in {"filling", "committing"}

\* The key and the hash it has inserted are in no committed row.
Claims(s) ==
    s.id # NoDocument => documents[s.id] = NoContent /\ ~Stored(s.content)

\* Two sessions insert neither the same key nor the same hash.
Apart(s, z) ==
    s.id # NoDocument /\ z.id # NoDocument => s.id # z.id /\ s.content # z.content

KnowledgeInv ==
    /\ TypeOK /\ DocumentsAreWhole /\ StoredOnce
    /\ \A t \in Threads : Shape(sess[t]) /\ Claims(sess[t])
    /\ \A t, u \in Threads : t # u => Apart(sess[t], sess[u])
=============================================================================
