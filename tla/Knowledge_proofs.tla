-------------------------- MODULE Knowledge_proofs ---------------------------
(***************************************************************************)
(* Theorems about Knowledge, for any threads, contents, lengths, limits,   *)
(* chunk sizes and overlaps smaller than the chunk size.                   *)
(***************************************************************************)
EXTENDS Knowledge, TLAPS

USE ContentsAssumption, DocumentsAssumption, ChunkAssumption

-----------------------------------------------------------------------------
(* The chunker.                                                            *)

LEMMA StrideTyped == Stride \in Nat /\ Stride > 0 /\ Stride + Overlap = ChunkSize
BY DEF Stride, Contract!Stride

\* One turn of the loop keeps the chunks in order, and completes the cover when
\* it reaches the end.
LEMMA CutOne ==
  ASSUME NEW pieces \in Seq(Chunk), NEW start \in Nat, NEW length \in Nat,
         Underway(pieces, start, length), Placed(pieces), Len(pieces) < MaxChunks,
         NEW end,
         end = IF start + ChunkSize < length THEN start + ChunkSize ELSE length,
         NEW more, more = Append(pieces, [from |-> start, to |-> end])
  PROVE  /\ more \in Seq(Chunk) /\ Placed(more)
         /\ end = length => Cover(more, length)
         /\ end # length => /\ end - Overlap \in Nat
                            /\ Underway(more, end - Overlap, length)
<1>1. PICK n \in Nat : n = Len(pieces)
  OBVIOUS
<1>2. PICK k \in Nat : k = Stride /\ k > 0 /\ k + Overlap = ChunkSize
  BY StrideTyped
<1>3. /\ n < MaxChunks /\ start = n * k /\ start < length
      /\ \A i \in 1..n : /\ pieces[i].from < pieces[i].to
                         /\ pieces[i].to = pieces[i].from + ChunkSize
                         /\ pieces[i].to < length
      /\ \A i \in 1..(n - 1) : pieces[i + 1].from = pieces[i].to - Overlap
      /\ n # 0 => pieces[1].from = 0 /\ start = pieces[n].to - Overlap
  BY <1>1, <1>2 DEF Underway
<1>4. end \in Nat /\ start < end /\ end <= length
  <2>1. ChunkSize \in Nat /\ ChunkSize > 0 /\ start < length
    BY <1>2, <1>3
  <2>2. end = IF start + ChunkSize < length THEN start + ChunkSize ELSE length
    OBVIOUS
  <2> QED
    BY ONLY <2>1, <2>2, start \in Nat, length \in Nat
<1>5. [from |-> start, to |-> end] \in Chunk
  BY <1>4 DEF Chunk
<1>6. /\ more \in Seq(Chunk) /\ Len(more) = n + 1 /\ more # <<>>
      /\ more[n + 1].from = start /\ more[n + 1].to = end
      /\ \A i \in 1..n : more[i] = pieces[i]
  <2>1. more \in Seq(Chunk) /\ Len(more) = Len(pieces) + 1
    BY <1>5
  <2>2. more[Len(pieces) + 1] = [from |-> start, to |-> end]
    OBVIOUS
  <2>3. \A i \in 1..Len(pieces) : more[i] = pieces[i]
    OBVIOUS
  <2>4. more # <<>>
    BY <1>1, <2>1
  <2> QED
    BY ONLY <1>1, <2>1, <2>2, <2>3, <2>4
<1>7. \A i \in 1..n : i \in 1..(n + 1) /\ (i # n => i \in 1..(n - 1) /\ i + 1 \in 1..n)
  BY ONLY n \in Nat
<1>8. \A i \in 1..(n + 1) : i \in 1..n \/ i = n + 1
  BY ONLY n \in Nat
<1>9. \A i \in 1..(n + 1) : more[i].from < more[i].to
  BY ONLY <1>3, <1>4, <1>6, <1>8
<1>10. more[1].from = 0
  <2>1. CASE n = 0
    BY <1>2, <1>3, <1>6, <2>1
  <2>2. CASE n # 0
    <3>1. 1 \in 1..n
      BY <2>2
    <3> QED
      BY <1>3, <1>6, <2>2, <3>1
  <2> QED
    BY <2>1, <2>2
<1>11. \A i \in 1..n : more[i + 1].from = more[i].to - Overlap
  <2>1. SUFFICES ASSUME NEW i \in 1..n PROVE more[i + 1].from = more[i].to - Overlap
    OBVIOUS
  <2>2. more[i] = pieces[i]
    BY <1>6
  <2>3. CASE i = n
    BY <1>3, <1>6, <2>2, <2>3
  <2>4. CASE i # n
    <3>1. i \in 1..(n - 1) /\ i + 1 \in 1..n
      BY <1>7, <2>4
    <3>2. more[i + 1] = pieces[i + 1]
      BY <1>6, <3>1
    <3> QED
      BY <1>3, <2>2, <3>1, <3>2
  <2> QED
    BY <2>3, <2>4
<1>12. \A i \in 1..n : more[i].to = more[i].from + ChunkSize /\ more[i].to < length
  BY ONLY <1>3, <1>6
<1>13. end = length => Cover(more, length)
  <2>1. SUFFICES ASSUME end = length PROVE Cover(more, length)
    OBVIOUS
  <2>2. Len(more) <= MaxChunks /\ more[Len(more)].to = length /\ Len(more) - 1 = n
    BY <1>3, <1>6, <2>1
  <2> QED
    BY <1>6, <1>9, <1>10, <1>11, <1>12, <2>2 DEF Cover
<1>14. end # length => end - Overlap \in Nat /\ Underway(more, end - Overlap, length)
  <2>1. SUFFICES ASSUME end # length
                 PROVE  end - Overlap \in Nat /\ Underway(more, end - Overlap, length)
    OBVIOUS
  <2>2. end = start + ChunkSize /\ end < length
    BY <2>1
  <2>3. end - Overlap = start + k /\ end - Overlap \in Nat /\ end - Overlap < length
    BY <1>2, <2>2
  <2>4. (n + 1) * k = n * k + k
    BY ONLY n \in Nat, k \in Nat
  <2>5. end - Overlap = Len(more) * Stride
    BY ONLY <1>2, <1>3, <1>6, <2>3, <2>4
  <2>6. \A i \in 1..(n + 1) : more[i].to = more[i].from + ChunkSize /\ more[i].to < length
    BY ONLY <1>6, <1>8, <1>12, <2>2
  <2>7. /\ Len(more) <= MaxChunks /\ Len(more) - 1 = n
        /\ end - Overlap = more[Len(more)].to - Overlap
    BY <1>3, <1>6
  <2> QED
    BY ONLY <1>6, <1>9, <1>10, <1>11, <2>3, <2>5, <2>6, <2>7 DEF Underway
<1>15. ASSUME NEW i \in 1..(n + 1)
       PROVE  more[i].from = (i - 1) * k /\ more[i].to <= more[i].from + ChunkSize
  <2>1. CASE i = n + 1
    <3>1. more[i].from = start /\ more[i].to = end /\ end <= start + ChunkSize
      BY <1>6, <2>1
    <3>2. i - 1 = n
      BY <2>1
    <3> QED
      BY <1>3, <3>1, <3>2
  <2>2. CASE i # n + 1
    <3>1. i \in 1..n /\ more[i] = pieces[i]
      BY <1>6, <1>8, <2>2
    <3>2. \A j \in 1..n : /\ pieces[j].from = (j - 1) * k
                          /\ pieces[j].to <= pieces[j].from + ChunkSize
      BY <1>1, <1>2 DEF Placed
    <3> QED
      BY <3>1, <3>2
  <2> QED
    BY <2>1, <2>2
<1>16. Placed(more)
  BY <1>2, <1>6, <1>15 DEF Placed
<1> QED
  BY <1>6, <1>13, <1>14, <1>16

\* Before its first turn the chunker has covered nothing.
LEMMA CutNothing ==
  ASSUME NEW length \in Nat \ {0}
  PROVE  Underway(<<>>, 0, length) /\ Placed(<<>>)
<1>1. 0 * Stride = 0
  BY StrideTyped
<1>2. \A i \in 1..0 : FALSE
  OBVIOUS
<1>3. \A i \in 1..(0 - 1) : FALSE
  OBVIOUS
<1> QED
  BY <1>1, <1>2, <1>3 DEF Underway, Placed

-----------------------------------------------------------------------------
(* Sessions.                                                               *)

LEMMA ClosedTyped ==
  /\ Closed \in Session /\ Closed.pc = "idle" /\ Closed.id = NoDocument
  /\ Shape(Closed) /\ Claims(Closed)
<1>1. <<>> \in Seq(Chunk)
  OBVIOUS
<1> QED
  BY <1>1 DEF Closed, Session, Shape, Claims

\* A step that only a session itself sees keeps the invariant when the session
\* ends up sound.
LEMMA ContinueInv ==
  ASSUME KnowledgeInv, NEW t \in Threads, NEW z \in Session, Continue(t, z),
         Shape(z), Claims(z),
         \A u \in Threads \ {t} : Apart(z, sess[u]) /\ Apart(sess[u], z)
  PROVE  KnowledgeInv'
<1>1. /\ documents' = documents /\ chunks' = chunks
      /\ \A u \in Threads : sess'[u] = IF u = t THEN z ELSE sess[u]
      /\ TypeOK' /\ DocumentsAreWhole' /\ StoredOnce'
  BY DEF KnowledgeInv, TypeOK, Continue, DocumentsAreWhole, StoredOnce
<1>2. ASSUME NEW u \in Threads PROVE Shape(sess[u])' /\ Claims(sess[u])'
  <2>1. PICK y : y = sess'[u] /\ Shape(y) /\ Claims(y)
    BY <1>1 DEF KnowledgeInv
  <2>2. Shape(y)' /\ Claims(y)'
    BY <1>1, <2>1 DEF Shape, Claims, Stored, Underway, Cover, Placed
  <2> QED
    BY <2>1, <2>2 DEF Shape, Claims, Stored, Underway, Cover, Placed
<1>3. ASSUME NEW u \in Threads, NEW v \in Threads, u # v
      PROVE  Apart(sess[u], sess[v])'
  <2>1. Apart(sess'[u], sess'[v])
    BY <1>1, <1>3 DEF KnowledgeInv
  <2> QED
    BY <2>1 DEF Apart
<1> QED
  BY <1>1, <1>2, <1>3 DEF KnowledgeInv

\* A session without an inserted document is apart from every other.
LEMMA NotInserted ==
  ASSUME NEW z, z.id = NoDocument
  PROVE  Claims(z) /\ \A y : Apart(z, y) /\ Apart(y, z)
BY DEF Claims, Apart

LEMMA CloseInv ==
  ASSUME KnowledgeInv, NEW t \in Threads, Continue(t, Closed)
  PROVE  KnowledgeInv'
BY ClosedTyped, NotInserted, ContinueInv

-----------------------------------------------------------------------------
(* The steps.                                                              *)

LEMMA IngestInv ==
  ASSUME KnowledgeInv, NEW t \in Threads, NEW content \in Contents,
         Ingest(t, content)
  PROVE  KnowledgeInv'
<1>1. PICK z : z = [Closed EXCEPT !.pc = "chunking", !.content = content]
  OBVIOUS
<1>2. /\ z \in Session /\ z.pc = "chunking" /\ z.content = content
      /\ z.pieces = <<>> /\ z.start = 0 /\ z.id = NoDocument
  <2>1. <<>> \in Seq(Chunk)
    OBVIOUS
  <2> QED
    BY <1>1, <2>1 DEF Closed, Session
<1>3. Underway(<<>>, 0, Length[content]) /\ Placed(<<>>)
  BY CutNothing
<1>4. Shape(z)
  BY <1>2, <1>3 DEF Shape, Ingest
<1>5. Continue(t, z)
  BY <1>1 DEF Ingest
<1> QED
  BY <1>2, <1>4, <1>5, NotInserted, ContinueInv

LEMMA CutInv ==
  ASSUME KnowledgeInv, NEW t \in Threads, CutChunk(t)
  PROVE  KnowledgeInv'
<1>1. PICK s \in Session : s = sess[t] /\ Shape(s)
  BY DEF KnowledgeInv, TypeOK
<1>2. PICK length \in Nat : /\ length = Length[s.content] /\ s.content \in Contents
                           /\ length <= MaxChars /\ Placed(s.pieces)
  BY <1>1 DEF CutChunk, Shape
<1>3. PICK pieces \in Seq(Chunk), start \in Nat :
         pieces = s.pieces /\ start = s.start
  BY DEF Session
<1>4. PICK end : end = ChunkEnd(s)
  OBVIOUS
<1>5. end = IF start + ChunkSize < length THEN start + ChunkSize ELSE length
  BY <1>2, <1>3, <1>4 DEF ChunkEnd
<1>6. /\ s.pc = "chunking" /\ s.id = NoDocument
      /\ Underway(pieces, start, length) /\ Len(pieces) < MaxChunks
  BY <1>1, <1>2, <1>3 DEF CutChunk, Shape, Full
<1>7. PICK more : more = Append(pieces, [from |-> start, to |-> end])
  OBVIOUS
<1>8. /\ more \in Seq(Chunk) /\ Placed(more)
      /\ end = length => Cover(more, length)
      /\ end # length => end - Overlap \in Nat /\ Underway(more, end - Overlap, length)
  <2>1. Placed(pieces)
    BY <1>2, <1>3
  <2> QED
    BY ONLY <1>5, <1>6, <1>7, <2>1, CutOne, pieces \in Seq(Chunk), start \in Nat,
            length \in Nat, ZenonT(40)
<1>9. PICK z : /\ Continue(t, z)
               /\ z = [s EXCEPT !.pieces = more,
                         !.pc = IF end = length THEN "inserting" ELSE @,
                         !.start = IF end = length THEN @ ELSE end - Overlap]
  BY <1>1, <1>2, <1>3, <1>4, <1>7 DEF CutChunk, NextStart
<1>10. /\ z \in Session /\ z.content = s.content /\ z.id = NoDocument
       /\ z.pieces = more
       /\ end = length => z.pc = "inserting"
       /\ end # length => z.pc = "chunking" /\ z.start = end - Overlap
  BY <1>6, <1>8, <1>9 DEF Session
<1>11. Shape(z)
  BY <1>2, <1>8, <1>10 DEF Shape
<1> QED
  BY <1>9, <1>10, <1>11, NotInserted, ContinueInv

LEMMA InsertInv ==
  ASSUME KnowledgeInv, NEW t \in Threads, NEW d \in Documents,
         InsertDocument(t, d)
  PROVE  KnowledgeInv'
<1>1. PICK s \in Session : s = sess[t] /\ Shape(s) /\ s.pc = "inserting"
  BY DEF KnowledgeInv, TypeOK, InsertDocument
<1>2. PICK z : Continue(t, z) /\ z = [s EXCEPT !.pc = "filling", !.id = d]
  BY <1>1 DEF InsertDocument
<1>3. /\ z \in Session /\ z.pc = "filling" /\ z.id = d /\ d # NoDocument
      /\ z.content = s.content /\ z.pieces = s.pieces
  BY <1>2 DEF Session
<1>4. Shape(z)
  BY <1>1, <1>3 DEF Shape
<1>5. Claims(z)
  BY <1>1, <1>3 DEF InsertDocument, Unused, Claims
<1>6. \A u \in Threads \ {t} : Apart(z, sess[u]) /\ Apart(sess[u], z)
  BY <1>1, <1>3 DEF InsertDocument, Unused, Pending, Apart
<1> QED
  BY <1>2, <1>3, <1>4, <1>5, <1>6, ContinueInv

LEMMA FillInv ==
  ASSUME KnowledgeInv, NEW t \in Threads, InsertChunks(t)
  PROVE  KnowledgeInv'
<1>1. PICK s \in Session : /\ s = sess[t] /\ s.pc = "filling"
                           /\ Shape(s) /\ Claims(s)
  BY DEF KnowledgeInv, TypeOK, InsertChunks
<1>2. PICK z : Continue(t, z) /\ z = [s EXCEPT !.pc = "committing"]
  BY <1>1 DEF InsertChunks
<1>3. /\ z \in Session /\ z.pc = "committing" /\ z.id = s.id
      /\ z.content = s.content /\ z.pieces = s.pieces
  BY <1>2 DEF Session
<1>4. Shape(z) /\ Claims(z)
  BY <1>1, <1>3 DEF Shape, Claims
<1>5. \A u \in Threads \ {t} : Apart(s, sess[u]) /\ Apart(sess[u], s)
  BY <1>1 DEF KnowledgeInv
<1>6. \A u \in Threads \ {t} : Apart(z, sess[u]) /\ Apart(sess[u], z)
  BY <1>3, <1>5 DEF Apart
<1> QED
  BY <1>2, <1>3, <1>4, <1>6, ContinueInv

LEMMA CommitInv ==
  ASSUME KnowledgeInv, NEW t \in Threads, Commit(t)
  PROVE  KnowledgeInv'
<1>1. PICK s \in Session : /\ s = sess[t] /\ s.pc = "committing"
                           /\ Shape(s) /\ Claims(s)
  BY DEF KnowledgeInv, TypeOK, Commit
<1>2. PICK d \in Documents, content \in Contents, pieces \in Seq(Chunk) :
         /\ d = s.id /\ content = s.content /\ pieces = s.pieces
         /\ Cover(pieces, Length[content])
         /\ documents[d] = NoContent /\ ~Stored(content)
  BY <1>1 DEF Session, Shape, Claims
<1>3. /\ TypeOK /\ DocumentsAreWhole /\ StoredOnce
      /\ \A u \in Threads : Shape(sess[u]) /\ Claims(sess[u])
      /\ \A u, v \in Threads : u # v => Apart(sess[u], sess[v])
  BY DEF KnowledgeInv
<1>4. /\ \A e \in Documents : documents'[e] = IF e = d THEN content ELSE documents[e]
      /\ \A e \in Documents : chunks'[e] = IF e = d THEN pieces ELSE chunks[e]
      /\ \A u \in Threads : sess'[u] = IF u = t THEN Closed ELSE sess[u]
  BY <1>1, <1>2, <1>3 DEF Commit, TypeOK
<1>5. TypeOK'
  BY <1>1, <1>2, <1>3, ClosedTyped DEF Commit, TypeOK
<1>6. content # NoContent
  BY <1>2
<1>7. DocumentsAreWhole'
  <2>1. ASSUME NEW e \in Documents
        PROVE  IF documents'[e] = NoContent THEN chunks'[e] = <<>>
               ELSE Cover(chunks'[e], Length[documents'[e]])
    <3>1. CASE e = d
      BY <1>2, <1>4, <1>6, <3>1
    <3>2. CASE e # d
      BY <1>3, <1>4, <3>2 DEF DocumentsAreWhole
    <3> QED
      BY <3>1, <3>2
  <2> QED
    BY <2>1 DEF DocumentsAreWhole, Cover
<1>8. StoredOnce'
  BY <1>2, <1>3, <1>4 DEF StoredOnce, Stored
<1>9. ASSUME NEW u \in Threads PROVE Shape(sess[u])' /\ Claims(sess[u])'
  <2>1. CASE u = t
    <3>1. sess'[u].id = NoDocument /\ Shape(sess'[u])
      BY <1>4, <2>1, ClosedTyped
    <3> QED
      BY <3>1 DEF Shape, Claims, Underway, Cover, Placed
  <2>2. CASE u # t
    <3>1. PICK y \in Session : y = sess[u] /\ y = sess'[u]
      <4>1. sess[u] \in Session
        <5>1. sess \in [Threads -> Session]
          BY <1>3 DEF TypeOK
        <5> QED
          BY <5>1
      <4> QED
        BY <1>4, <2>2, <4>1
    <3>2. Shape(y) /\ Claims(y) /\ Apart(s, y)
      BY <1>1, <1>3, <2>2, <3>1
    <3>3. Shape(y)'
      BY <3>2 DEF Shape, Underway, Cover, Placed
    <3>4. y.id # NoDocument => y.id # d /\ y.content # content
      BY <1>2, <3>2 DEF Apart
    <3>5. y.id # NoDocument => y.id \in Documents
      BY DEF Session
    <3>6. y.id # NoDocument => documents'[y.id] = NoContent
      BY <1>4, <3>2, <3>4, <3>5 DEF Claims
    <3>7. y.id # NoDocument => \A e \in Documents : documents'[e] # y.content
      BY <1>4, <3>2, <3>4 DEF Claims, Stored
    <3>8. Claims(y)'
      BY <3>1, <3>6, <3>7 DEF Claims, Stored
    <3> QED
      BY <3>1, <3>3, <3>8 DEF Shape, Claims, Stored, Underway, Cover, Placed
  <2> QED
    BY <2>1, <2>2
<1>10. ASSUME NEW u \in Threads, NEW v \in Threads, u # v
       PROVE  Apart(sess[u], sess[v])'
  <2>1. Apart(sess'[u], sess'[v])
    <3>1. CASE u = t \/ v = t
      BY <1>4, <3>1, ClosedTyped, NotInserted
    <3>2. CASE u # t /\ v # t
      BY <1>3, <1>4, <1>10, <3>2
    <3> QED
      BY <3>1, <3>2
  <2> QED
    BY <2>1 DEF Apart
<1> QED
  BY <1>5, <1>7, <1>8, <1>9, <1>10 DEF KnowledgeInv

LEMMA InitInv == Init => KnowledgeInv
<1> SUFFICES ASSUME Init PROVE KnowledgeInv
  OBVIOUS
<1>1. /\ documents = [d \in Documents |-> NoContent]
      /\ chunks = [d \in Documents |-> <<>>] /\ sess = [t \in Threads |-> Closed]
  BY DEF Init
<1>2. <<>> \in Seq(Chunk)
  OBVIOUS
<1>3. TypeOK
  BY <1>1, <1>2, ClosedTyped DEF TypeOK
<1>4. DocumentsAreWhole /\ StoredOnce
  BY <1>1 DEF DocumentsAreWhole, StoredOnce
<1>5. \A t \in Threads : Shape(sess[t]) /\ Claims(sess[t])
  BY <1>1, ClosedTyped
<1>6. \A t, u \in Threads : Apart(sess[t], sess[u])
  BY <1>1, ClosedTyped, NotInserted
<1> QED
  BY <1>3, <1>4, <1>5, <1>6 DEF KnowledgeInv

LEMMA StutterInv == KnowledgeInv /\ UNCHANGED vars => KnowledgeInv'
<1> SUFFICES ASSUME KnowledgeInv, UNCHANGED vars PROVE KnowledgeInv'
  OBVIOUS
<1>1. documents' = documents /\ chunks' = chunks /\ sess' = sess
  BY DEF vars
<1>2. ASSUME NEW t \in Threads PROVE Shape(sess[t])' /\ Claims(sess[t])'
  <2>1. PICK y : y = sess[t] /\ y = sess'[t] /\ Shape(y) /\ Claims(y)
    BY <1>1 DEF KnowledgeInv
  <2> QED
    BY <1>1, <2>1 DEF Shape, Claims, Stored, Underway, Cover, Placed
<1>3. ASSUME NEW t \in Threads, NEW u \in Threads, t # u
      PROVE  Apart(sess[t], sess[u])'
  BY <1>1, <1>3 DEF KnowledgeInv, Apart
<1>4. TypeOK' /\ DocumentsAreWhole' /\ StoredOnce'
  BY <1>1 DEF KnowledgeInv, TypeOK, DocumentsAreWhole, StoredOnce
<1> QED
  BY <1>2, <1>3, <1>4 DEF KnowledgeInv

LEMMA NextInv == KnowledgeInv /\ [Next]_vars => KnowledgeInv'
<1> SUFFICES ASSUME KnowledgeInv, [Next]_vars PROVE KnowledgeInv'
  OBVIOUS
<1>1. ASSUME NEW t \in Threads, NEW content \in Contents, Ingest(t, content)
      PROVE  KnowledgeInv'
  BY <1>1, IngestInv
<1>2. ASSUME NEW t \in Threads, Advance(t) PROVE KnowledgeInv'
  <2>1. CASE CutChunk(t)
    BY <2>1, CutInv
  <2>2. CASE RefuseChunks(t) \/ InsertFails(t)
    BY <2>2, CloseInv DEF RefuseChunks, InsertFails
  <2>3. ASSUME NEW d \in Documents, InsertDocument(t, d) PROVE KnowledgeInv'
    BY <2>3, InsertInv
  <2>4. CASE InsertChunks(t)
    BY <2>4, FillInv
  <2>5. CASE Commit(t)
    BY <2>5, CommitInv
  <2> QED
    BY <1>2, <2>1, <2>2, <2>3, <2>4, <2>5 DEF Advance
<1>3. ASSUME NEW t \in Threads, Abort(t) PROVE KnowledgeInv'
  BY <1>3, CloseInv DEF Abort
<1>4. CASE UNCHANGED vars
  BY <1>4, StutterInv
<1> QED
  BY <1>1, <1>2, <1>3, <1>4 DEF Next

THEOREM Inductive == Spec => []KnowledgeInv
BY InitInv, NextInv, PTL DEF Spec

-----------------------------------------------------------------------------
(* The theorems.                                                           *)

\* Documents, chunks and sessions keep their types.
THEOREM TypeCorrect == Spec => []TypeOK
<1>1. KnowledgeInv => TypeOK
  BY DEF KnowledgeInv
<1> QED
  BY <1>1, Inductive, PTL

\* A committed document has exactly the chunks that cover it, for every chunk
\* size and overlap (services/knowledge.py:33, 172).
THEOREM Whole == Spec => []DocumentsAreWhole
<1>1. KnowledgeInv => DocumentsAreWhole
  BY DEF KnowledgeInv
<1> QED
  BY <1>1, Inductive, PTL

\* No content is stored twice, however many sessions ingest it
\* (services/knowledge.py:141).
THEOREM Once == Spec => []StoredOnce
<1>1. KnowledgeInv => StoredOnce
  BY DEF KnowledgeInv
<1> QED
  BY <1>1, Inductive, PTL

\* The limit on chunks refuses only documents that the allowed chunks cannot
\* hold (services/knowledge.py:40).
THEOREM RefusalJust == Spec => []RefusedOnlyWhenTooLong
<1>1. ASSUME KnowledgeInv PROVE RefusedOnlyWhenTooLong
  <2>1. SUFFICES ASSUME NEW t \in Threads, Full(sess[t])
                 PROVE  Length[sess[t].content] >
                           MaxChunks * (ChunkSize - Overlap) + Overlap
    BY DEF RefusedOnlyWhenTooLong
  <2>2. PICK s \in Session : s = sess[t] /\ Shape(s) /\ Full(s)
    BY <1>1, <2>1 DEF KnowledgeInv, TypeOK
  <2>3. PICK pieces \in Seq(Chunk), length \in Nat :
           /\ pieces = s.pieces /\ length = Length[s.content]
           /\ Underway(pieces, s.start, length) /\ Len(pieces) >= MaxChunks
    BY <2>2 DEF Session, Shape, Full
  <2>4. PICK n \in Nat \ {0} : n = Len(pieces) /\ n = MaxChunks
    <3>1. Len(pieces) \in Nat /\ Len(pieces) <= MaxChunks
      BY <2>3 DEF Underway
    <3> QED
      BY <2>3, <3>1, ChunkAssumption
  <2>5. n \in 1..Len(pieces) /\ pieces # <<>>
    <3>1. n \in 1..n
      BY <2>4
    <3>2. n \in 1..Len(pieces)
      BY ONLY <2>4, <3>1, Zenon
    <3>3. Len(pieces) # 0
      BY <2>4
    <3>4. pieces # <<>>
      BY <3>3
    <3> QED
      BY <3>2, <3>4
  <2>6. /\ pieces[n].to < length /\ s.start = pieces[n].to - Overlap
        /\ s.start = n * Stride
    BY <2>3, <2>4, <2>5 DEF Underway
  <2>7. PICK end \in Nat : end = pieces[n].to
    <3>1. pieces[n] \in Chunk
      BY <2>5
    <3> QED
      BY <3>1 DEF Chunk
  <2>8. PICK strides \in Int : strides = n * Stride
    BY <2>4, StrideTyped
  <2>9. end < length /\ strides = end - Overlap
    BY <2>6, <2>7, <2>8
  <2>10. strides + Overlap < length
    BY ONLY <2>3, <2>7, <2>8, <2>9, ChunkAssumption
  <2>11. strides = MaxChunks * (ChunkSize - Overlap)
    BY <2>4, <2>8 DEF Stride, Contract!Stride
  <2>12. Length[sess[t].content] > strides + Overlap
    <3>1. strides + Overlap \in Int
      BY ONLY <2>8, ChunkAssumption
    <3> QED
      BY <2>2, <2>3, <2>10, <3>1
  <2> QED
    BY <2>11, <2>12
<1> QED
  BY <1>1, Inductive, PTL

-----------------------------------------------------------------------------
(* The contract.                                                           *)

\* Chunks that cover a content and are where the formula puts them are the
\* formula's, and as few as can be.
LEMMA CoverIsCut ==
  ASSUME NEW pieces \in Seq(Chunk), NEW length \in Nat,
         Cover(pieces, length), Placed(pieces)
  PROVE  \E n \in 1..MaxChunks :
            /\ Contract!Reach(n, length)
            /\ \A fewer \in 1..(n - 1) : ~Contract!Reach(fewer, length)
            /\ pieces = Contract!Cut(n, length)
<1>1. PICK n \in Nat : n = Len(pieces)
  OBVIOUS
<1>2. PICK k \in Nat : k = Contract!Stride /\ k = Stride /\ k + Overlap = ChunkSize
  BY StrideTyped DEF Stride
<1>3. pieces # <<>> /\ n <= MaxChunks /\ pieces[n].to = length
  BY <1>1 DEF Cover
<1>4. n # 0
  BY <1>1, <1>3
<1>5. n \in 1..MaxChunks /\ n \in 1..n
  BY <1>3, <1>4
<1>6. \A i \in 1..n : /\ pieces[i].from = (i - 1) * k
                      /\ pieces[i].to <= pieces[i].from + ChunkSize
  BY <1>1, <1>2 DEF Placed
<1>7. \A i \in 1..(n - 1) : /\ i \in 1..n
                            /\ pieces[i].to = pieces[i].from + ChunkSize
                            /\ pieces[i].to < length
  <2>1. \A i \in 1..(n - 1) : i \in 1..n
    BY ONLY n \in Nat
  <2> QED
    BY <1>1, <2>1 DEF Cover
<1>8. \A i \in Int : (i - 1) * k + ChunkSize = i * k + Overlap
  <2>1. \A i \in Int : i * k \in Int /\ (i - 1) * k = i * k - k
    BY ONLY k \in Nat
  <2> QED
    BY <1>2, <2>1
<1>9. Contract!Reach(n, length)
  <2>1. length <= (n - 1) * k + ChunkSize
    BY <1>3, <1>5, <1>6
  <2>2. length <= n * k + Overlap
    BY <1>8, <2>1
  <2> QED
    BY <1>2, <2>2 DEF Contract!Reach
<1>10. ASSUME NEW fewer \in 1..(n - 1) PROVE ~Contract!Reach(fewer, length)
  <2>1. pieces[fewer].to = (fewer - 1) * k + ChunkSize /\ pieces[fewer].to < length
    BY <1>6, <1>7
  <2>2. (fewer - 1) * k + ChunkSize = fewer * k + Overlap
    BY <1>8
  <2>3. fewer * k \in Int
    BY <1>2
  <2>4. ~(length <= fewer * k + Overlap)
    BY ONLY <2>1, <2>2, <2>3, length \in Nat, ChunkAssumption
  <2> QED
    BY <1>2, <2>4 DEF Contract!Reach
<1>11. pieces = Contract!Cut(n, length)
  <2>1. pieces = [i \in 1..n |-> pieces[i]]
    BY <1>1
  <2>2. ASSUME NEW i \in 1..n
        PROVE  pieces[i] = [from |-> (i - 1) * k,
                            to |-> IF i = n THEN length ELSE (i - 1) * k + ChunkSize]
    <3>1. pieces[i] \in [from : Nat, to : Nat]
      <4>1. \A j \in 1..Len(pieces) : pieces[j] \in Chunk
        OBVIOUS
      <4> QED
        BY ONLY <1>1, <4>1 DEF Chunk
    <3>2. pieces[i].from = (i - 1) * k
      BY <1>6
    <3>3. pieces[i].to = IF i = n THEN length ELSE (i - 1) * k + ChunkSize
      <4>1. CASE i = n
        BY <1>3, <4>1
      <4>2. CASE i # n
        <5>1. i \in 1..(n - 1)
          BY <4>2
        <5> QED
          BY <1>7, <3>2, <4>2, <5>1
      <4> QED
        BY <4>1, <4>2
    <3> QED
      <4>1. \A p \in [from : Nat, to : Nat] : p = [from |-> p.from, to |-> p.to]
        OBVIOUS
      <4>2. pieces[i] = [from |-> pieces[i].from, to |-> pieces[i].to]
        BY ONLY <3>1, <4>1
      <4> QED
        BY ONLY <3>2, <3>3, <4>2, Zenon
  <2> QED
    BY <1>2, <2>1, <2>2 DEF Contract!Cut
<1> QED
  BY <1>5, <1>9, <1>10, <1>11

LEMMA ContractInit == Init => Contract!Init
BY DEF Init, Contract!Init, Contract!Absent

\* A commit adds one document to the library.
LEMMA CommitAdds ==
  ASSUME KnowledgeInv, NEW t \in Threads, Commit(t)
  PROVE  Contract!Next
<1>1. PICK s \in Session : /\ s = sess[t] /\ s.pc = "committing"
                           /\ Shape(s) /\ Claims(s)
  BY DEF KnowledgeInv, TypeOK, Commit
<1>2. PICK d \in Documents, content \in Contents, pieces \in Seq(Chunk), length \in Nat :
         /\ d = s.id /\ content = s.content /\ pieces = s.pieces
         /\ length = Length[content] /\ length <= MaxChars
         /\ Cover(pieces, length) /\ Placed(pieces)
         /\ documents[d] = NoContent /\ ~Stored(content)
  BY <1>1 DEF Session, Shape, Claims
<1>3. PICK n \in 1..MaxChunks :
         /\ Contract!Reach(n, length)
         /\ \A fewer \in 1..(n - 1) : ~Contract!Reach(fewer, length)
         /\ pieces = Contract!Cut(n, length)
  <2>1. Cover(pieces, length) /\ Placed(pieces)
    BY <1>2
  <2> QED
    BY <2>1, CoverIsCut
<1>4. /\ documents' = [documents EXCEPT ![d] = content]
      /\ chunks' = [chunks EXCEPT ![d] = pieces]
  BY <1>1, <1>2 DEF Commit
<1>5. /\ documents \in [Documents -> Contents \cup {NoContent}]
      /\ chunks \in [Documents -> Seq(Chunk)] /\ chunks[d] = <<>>
  BY <1>2 DEF KnowledgeInv, TypeOK, DocumentsAreWhole
<1>6. PICK library : library = [e \in Documents |->
                                  [content |-> documents[e], chunks |-> chunks[e]]]
  OBVIOUS
<1>7. [e \in Documents |-> [content |-> documents'[e], chunks |-> chunks'[e]]] =
      [library EXCEPT ![d] = [content |-> content, chunks |-> pieces]]
  <2>1. \A e \in Documents : /\ documents'[e] = IF e = d THEN content ELSE documents[e]
                             /\ chunks'[e] = IF e = d THEN pieces ELSE chunks[e]
    BY <1>4, <1>5
  <2> QED
    BY <1>6, <2>1
<1>8. library[d] = Contract!Absent
  BY <1>2, <1>5, <1>6 DEF Contract!Absent
<1>9. \A e \in Documents : library[e].content # content
  BY <1>2, <1>6 DEF Stored
<1>10. Contract!Add(d, content)
  BY <1>2, <1>3, <1>6, <1>7, <1>8, <1>9 DEF Contract!Add
<1> QED
  BY <1>10 DEF Contract!Next

\* Every other step leaves the library alone.
LEMMA OnlyCommitWrites ==
  ASSUME NEW t \in Threads, Advance(t) \/ Abort(t), ~Commit(t)
  PROVE  UNCHANGED <<documents, chunks>>
BY DEF Advance, Abort, CutChunk, RefuseChunks, InsertDocument, InsertFails,
       InsertChunks, Continue

\* The loop, the two flushes, the rollbacks and every interleaving of sessions
\* implement the contract: a document appears whole, in one step, unchanged
\* ever after, and in as few chunks as reach its end, each at its fixed place
\* (services/knowledge.py:20, 141).
THEOREM KnowledgeImplementsContract == Spec => ContractHolds
<1> DEFINE library == [d \in Documents |-> [content |-> documents[d], chunks |-> chunks[d]]]
<1>1. Init => Contract!Init
  BY ContractInit
<1>2. KnowledgeInv /\ [Next]_vars => [Contract!Next]_library
  <2> SUFFICES ASSUME KnowledgeInv, [Next]_vars PROVE [Contract!Next]_library
    OBVIOUS
  <2>1. UNCHANGED <<documents, chunks>> => UNCHANGED library
    OBVIOUS
  <2>2. CASE UNCHANGED vars
    BY <2>1, <2>2 DEF vars
  <2>3. ASSUME NEW t \in Threads, NEW content \in Contents, Ingest(t, content)
        PROVE  UNCHANGED <<documents, chunks>>
    BY <2>3 DEF Ingest, Continue
  <2>4. ASSUME NEW t \in Threads, Advance(t) \/ Abort(t) PROVE [Contract!Next]_library
    <3>1. CASE Commit(t)
      BY <3>1, CommitAdds
    <3>2. CASE ~Commit(t)
      BY <2>1, <2>4, <3>2, OnlyCommitWrites
    <3> QED
      BY <3>1, <3>2
  <2> QED
    BY <2>1, <2>2, <2>3, <2>4 DEF Next
<1> QED
  BY <1>1, <1>2, Inductive, PTL DEF Spec, ContractHolds, Contract!Spec

-----------------------------------------------------------------------------
(* What an ingest waits for, and its progress.                             *)

\* The INSERT of a document waits only for a session that has both flushes to
\* go through and no lock to wait for: no circle of sessions can form
\* (services/knowledge.py:75).
THEOREM NoCircle ==
  Spec => []\A t \in Threads :
              sess[t].pc = "inserting" /\ Pending(t) =>
                 \E u \in Threads \ {t} : sess[u].pc \in {"filling", "committing"}
<1>1. KnowledgeInv => \A t \in Threads :
         sess[t].pc = "inserting" /\ Pending(t) =>
            \E u \in Threads \ {t} : sess[u].pc \in {"filling", "committing"}
  BY DEF KnowledgeInv, Pending, Shape
<1> QED
  BY <1>1, Inductive, PTL

\* Every turn of the chunker's loop either ends it or leaves fewer characters to
\* cut: an overlap smaller than the chunk is enough for any content to end
\* (services/knowledge.py:33).
THEOREM TurnsEnd ==
  Spec => [][\A t \in Threads :
               CutChunk(t) => \/ sess'[t].pc = "inserting"
                              \/ /\ sess'[t].pc = "chunking"
                                 /\ sess'[t].content = sess[t].content
                                 /\ sess'[t].start > sess[t].start
                                 /\ sess'[t].start < Length[sess[t].content]]_vars
<1> DEFINE Turn(t) == \/ sess'[t].pc = "inserting"
                      \/ /\ sess'[t].pc = "chunking"
                         /\ sess'[t].content = sess[t].content
                         /\ sess'[t].start > sess[t].start
                         /\ sess'[t].start < Length[sess[t].content]
<1>1. ASSUME KnowledgeInv, NEW t \in Threads, CutChunk(t) PROVE Turn(t)
  <2>1. PICK s \in Session : s = sess[t] /\ Shape(s) /\ s.pc = "chunking"
    BY <1>1 DEF KnowledgeInv, TypeOK, CutChunk
  <2>2. PICK start, length, end :
           /\ start \in Nat /\ length \in Nat
           /\ start = s.start /\ length = Length[s.content] /\ end = ChunkEnd(s)
           /\ start < length
    BY <2>1 DEF Session, Shape, Underway
  <2>3. PICK z : /\ sess'[t] = z
                 /\ z = [s EXCEPT
                       !.pieces = Append(@, [from |-> s.start, to |-> end]),
                       !.pc = IF end = length THEN "inserting" ELSE @,
                       !.start = IF end = length THEN @ ELSE end - Overlap]
    BY <1>1, <2>1, <2>2 DEF KnowledgeInv, TypeOK, CutChunk, Continue, NextStart
  <2>4. /\ z.content = s.content
        /\ end = length => z.pc = "inserting"
        /\ end # length => z.pc = "chunking" /\ z.start = end - Overlap
    BY <2>1, <2>3 DEF Session
  <2>5. end # length => end = start + ChunkSize /\ end < length
    BY <2>2 DEF ChunkEnd
  <2>6. end # length => end - Overlap > start /\ end - Overlap < length
    BY ONLY <2>2, <2>5, ChunkAssumption
  <2> QED
    BY <2>1, <2>2, <2>3, <2>4, <2>6
<1>2. KnowledgeInv => \A t \in Threads : CutChunk(t) => Turn(t)
  BY <1>1
<1> QED
  BY <1>2, Inductive, PTL
=============================================================================
