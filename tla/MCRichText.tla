------------------------------ MODULE MCRichText ------------------------------
(* The fields of the page, and the texts, are alike; and small texts pasted *)
(* from Word.                                                               *)
EXTENDS RichText, TLC

CONSTANTS f1, f2, a, b

TwoFields == {f1, f2}
TwoTexts == {a, b}
Alike == Permutations(TwoFields) \cup Permutations(TwoTexts)

Plain == [list |-> None, depth |-> 0, ordered |-> FALSE]
SmallParagraphs(lists, depths) == {Plain} \cup [list : lists, depth : depths, ordered : BOOLEAN]
SmallPastes ==
    UNION {[1..n -> SmallParagraphs({1, 2}, 1..2)] : n \in 1..4}
    \cup [1..5 -> SmallParagraphs({1}, 1..3)]
=============================================================================
