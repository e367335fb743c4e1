------------------------- MODULE KnowledgeContract --------------------------
(***************************************************************************)
(* What the knowledge base promises: a document appears in one step with   *)
(* all of its chunks, is never changed, and no content is there twice.     *)
(* Its chunks depend on nothing but the length of the content: they are as *)
(* few as reach its end, each a fixed stride after the one before.         *)
(* Nothing is said of the loop that cuts them, of sessions or of crashes.  *)
(***************************************************************************)
EXTENDS Integers, Sequences

CONSTANTS Documents, Contents, Length, NoContent,
          MaxChars, ChunkSize, Overlap, MaxChunks
VARIABLE library   \* the content and the chunks of each document

Absent == [content |-> NoContent, chunks |-> <<>>]

\* How far one chunk is from the next.
Stride == ChunkSize - Overlap

\* n chunks reach the end of a content.
Reach(n, length) == length <= n * Stride + Overlap

\* The n chunks of a content.
Cut(n, length) ==
    [i \in 1..n |-> [from |-> (i - 1) * Stride,
                     to |-> IF i = n THEN length ELSE (i - 1) * Stride + ChunkSize]]

Init == library = [d \in Documents |-> Absent]

Add(d, content) ==
    /\ library[d] = Absent
    /\ \A e \in Documents : library[e].content # content
    /\ Length[content] <= MaxChars
    /\ \E n \in 1..MaxChunks :
          /\ Reach(n, Length[content])
          /\ \A fewer \in 1..(n - 1) : ~Reach(fewer, Length[content])
          /\ library' = [library EXCEPT ![d] =
                [content |-> content, chunks |-> Cut(n, Length[content])]]

Next == \E d \in Documents, content \in Contents : Add(d, content)

Spec == Init /\ [][Next]_library
=============================================================================
