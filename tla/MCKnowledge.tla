----------------------------- MODULE MCKnowledge ----------------------------
(* Instances of Knowledge small enough for TLC. *)
EXTENDS Knowledge

\* Contents known by their length, with chunks of 3 that overlap by 1 and at
\* most 3 of them: one full chunk, one character more, the longest that fits, one
\* character more, and one that is refused outright.
Lengths == {3, 4, 7, 8, 9}

SameLength == [content \in Contents |-> content]

\* As many keys as there are documents that fit: uuid4 does not run out.
ThreeDocuments == {101, 102, 103}
=============================================================================
