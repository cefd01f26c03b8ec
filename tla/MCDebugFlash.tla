---------------------------- MODULE MCDebugFlash ----------------------------
(* DebugFlash with pages of 16 bytes and two units of 8 each, three pages,  *)
(* chunks of 12 bytes (the code: 2048, 1024, 16 and 1200).                  *)
EXTENDS DebugFlash

Data(p, s, b) == [page |-> p, start |-> s, bytes |-> b, good |-> TRUE]

\* Bytes: all ones, one, the other, zeros.
A == {1}
B == {2}
Z == {}

\* The shipped images: a record crosses a page and another one follows.
Shipped == <<Data(0, 13, <<A, Z, B, A, Z>>), Data(1, 2, <<B, B>>)>>
\* A unit left out between two records, a page left out before a third.
Gaps == <<Data(0, 14, <<A>>), Data(2, 3, <<B, Z>>), Data(2, 9, <<A, Z>>)>>
\* A whole page in two chunks, a byte of it given twice.
Twice == <<Data(1, 0, [i \in 1..16 |-> IF i % 2 = 0 THEN A ELSE Z]), Data(1, 5, <<B>>)>>
Boot == <<Data(0, 0, <<A, B>>), Data(0, 6, <<Z, A>>)>>
\* Both areas; the other area only, one page further.
Both == <<Data(0, 6, <<A, A, B>>)>>
Mixed == <<Data(0, 1, <<A>>), Data(1, 2, <<B>>)>>
Broken == <<Data(0, 9, <<A>>), [Data(0, 2, <<B>>) EXCEPT !.good = FALSE]>>
MCFiles == {Shipped, Gaps, Twice, Boot, Both, Mixed, Broken, <<>>}

\* The last record crosses: nothing later speaks of the page it ends in.
CrossingFiles == {<<Data(0, 10, <<A, B, A, B, A, B, A, A, A, A, A, A>>)>>}

MCContents == {[p \in Page |-> [o \in Offset |-> b]] : b \in {A, Blank}}
=============================================================================
