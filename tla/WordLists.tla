------------------------------ MODULE WordLists ------------------------------
(***************************************************************************)
(* Text pasted from Word: its lists come as paragraphs with a typed bullet *)
(* or number and a level, and become lists in one another                  *)
(* (resources/js/rich-text-field.js, wordLists).                           *)
(*                                                                         *)
(* A paragraph is [list, depth, ordered]: Word's list it belongs to, or    *)
(* None, its level in it, and whether a number is typed before it.         *)
(***************************************************************************)
EXTENDS Nothing, Integers, SequencesExt

CONSTANTS
    Lists,  \* Word's lists
    Pastes  \* the texts that may be pasted

Paragraphs == [list : Lists \cup {None}, depth : Nat, ordered : BOOLEAN]

ASSUME PastesAssumption == Pastes \subseteq Seq(Paragraphs)

(* The lists a paragraph is put in, outermost first: each made for one of   *)
(* its items, [ordered, items so far]. An outer list without an item gets   *)
(* an empty one, to put the next list in.                                   *)
Deepened(stack, p) ==
    [k \in 1..p.depth |->
        LET made == IF k <= Len(stack) THEN stack[k] ELSE [ordered |-> p.ordered, items |-> 0]
        IN  IF k < p.depth /\ made.items > 0 THEN made ELSE [made EXCEPT !.items = @ + 1]]

(* Mutant: another of Word's lists goes on with the list before it. *)
StayIn(done, p) ==
    IF p.depth = 0 THEN <<>> ELSE SubSeq(done.stack, 1, Min({Len(done.stack), p.depth}))

(* The lists still open at a paragraph: those of its level and above, of    *)
(* the same of Word's lists.                                                *)
OpenAt(done, p) ==
    IF p.depth = 0 \/ p.list # done.current THEN <<>>
    ELSE SubSeq(done.stack, 1, Min({Len(done.stack), p.depth}))

(* One paragraph more; `top` is the one its outermost list was put before.  *)
WithParagraph(done, p) ==
    LET open  == OpenAt(done, p)
        stack == Deepened(open, p)
        top   == IF open = <<>> THEN Len(done.placed) + 1 ELSE done.top
    IN  [stack |-> stack, current |-> p.list, top |-> top,
         placed |-> Append(done.placed, [top |-> top, in |-> stack])]

(* Where each paragraph of a pasted text ends up.                           *)
Placed(text) ==
    LET done[n \in 0..Len(text)] ==
            IF n = 0 THEN [stack |-> <<>>, current |-> None, top |-> 0, placed |-> <<>>]
            ELSE WithParagraph(done[n - 1], text[n])
    IN  done[Len(text)].placed
-----------------------------------------------------------------------------
(* Paragraphs with nothing between them but others of the same list.        *)
Together(text, i, j) == \A k \in i..j : text[k].depth > 0 /\ text[k].list = text[i].list

(* One paragraph's item comes before another's, or holds it.                *)
Before(a, b) ==
    \/ a.top < b.top
    \/ \E k \in 1..Min({Len(a.in), Len(b.in)}) :
           /\ \A m \in 1..(k - 1) : a.in[m].items = b.in[m].items
           /\ a.in[k].items < b.in[k].items
    \/ /\ Len(a.in) < Len(b.in)
       /\ \A m \in DOMAIN a.in : a.in[m].items = b.in[m].items

(* Word's lists become real lists: every paragraph is as deep as it was, in *)
(* the order it was in, in one list with those it stood together with and   *)
(* with no other, inside the last one less deep, and its list is numbered   *)
(* if the first paragraph so deep had a number.                             *)
ListsKept(text) ==
    LET placed == Placed(text)
        items(i, d) == [k \in 1..d |-> placed[i].in[k].items]
    IN  \A j \in DOMAIN text : text[j].depth > 0 =>
            /\ Len(placed[j].in) = text[j].depth
            /\ \A i \in 1..(j - 1) : text[i].depth > 0 =>
                   /\ Before(placed[i], placed[j])
                   /\ (placed[i].top = placed[j].top) <=> Together(text, i, j)
            /\ \A i \in 1..(j - 1) :
                   /\ Together(text, i, j) /\ text[i].depth < text[j].depth
                   /\ \A k \in (i + 1)..(j - 1) : text[k].depth > text[i].depth
                   => items(j, text[i].depth) = items(i, text[i].depth)
            /\ (\A i \in 1..(j - 1) : Together(text, i, j) => text[i].depth < text[j].depth)
                   => placed[j].in[text[j].depth].ordered = text[j].ordered
=============================================================================
