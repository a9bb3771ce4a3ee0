-------------------------------- MODULE Signer --------------------------------
(***************************************************************************)
(* The Sign PDF page: signatures, stamps and text put on the pages of a    *)
(* PDF, moved, turned, undone; lines of the PDF's own text changed; and    *)
(* the PDF written with them.                                              *)
(*                                                                         *)
(*   resources/js/pdf-signer.js               the page                     *)
(*   views/.../sign-pdf.blade.php             what can be clicked when     *)
(*                                                                         *)
(* An item is [id, page, line, found]: where it is, and the line of the    *)
(* PDF's text it stands for (one line a page; else None) and the PDF that  *)
(* was found in. How it looks, and whether leaving the page is asked about,*)
(* are left out.                                                           *)
(***************************************************************************)
EXTENDS Nothing, Integers, SequencesExt

CONSTANTS
    PagesOf,     \* the PDFs there are, and how many pages each has
    MaxHistory,  \* changes that can be undone (100)
    MaxItems,    \* bound: items ever placed
    MaxOpens,    \* bound: PDFs opened at the same time
    MaxEdits     \* bound: lines clicked and being drawn, and readings, at the same time

ASSUME SignerAssumption ==
    /\ PagesOf \in Seq(Nat) /\ None \notin Nat
    /\ MaxHistory \in Nat /\ MaxItems \in Nat /\ MaxOpens \in Nat /\ MaxEdits \in Nat

Pdfs == DOMAIN PagesOf
MorePages == 1..(CHOOSE n \in {PagesOf[d] : d \in Pdfs} : \A d \in Pdfs : PagesOf[d] <= n)

VARIABLES
    loads,    \* PDFs being opened, in the order asked
    pdf,      \* the PDF as pdf.js has it, or None
    original, \* the bytes written into
    shown,    \* the PDF whose pages are laid out, or None
    items,    \* what is placed
    lastId,   \* the last id given
    history,  \* the items as they were before each change
    selected, \* the id selected, or None
    armed,    \* the next click on a page places something
    editing,  \* lines of text can be clicked
    texts,    \* whose lines are offered on each page, none (0), or None
    reads,    \* readings of the lines under way: [of, page, into]
    edits,    \* lines clicked whose page is being drawn: [of, page]
    gesture,  \* an item held by the pointer, or None
    signing,  \* the PDF is being written
    crossed   \* a PDF was opened while another's lines were read or drawn

loadVars == <<loads, pdf, original, shown>>
itemVars == <<items, lastId, history, selected>>
textVars == <<editing, texts, reads, edits, crossed>>
vars == <<loadVars, itemVars, textVars, armed, gesture, signing>>

Init ==
    /\ loads = <<>> /\ pdf = None /\ original = None /\ shown = None
    /\ items = {} /\ lastId = 0 /\ history = <<>> /\ selected = None
    /\ editing = FALSE /\ texts = [p \in MorePages |-> None] /\ reads = {} /\ edits = <<>>
    /\ crossed = FALSE
    /\ armed = FALSE /\ gesture = None /\ signing = FALSE

Free == gesture = None  \* one pointer: it holds nothing and can click
Reachable == Free /\ shown # None  \* what covers the pages meanwhile can be scrolled past
PagesShown == 1..PagesOf[shown]
At(id) == CHOOSE item \in items : item.id = id
Has(id) == \E item \in items : item.id = id
-----------------------------------------------------------------------------
(* Opening: the PDF before is closed at once, its pages and items stay. *)
Open(d) ==
    /\ Len(loads) < MaxOpens
    /\ loads' = Append(loads, d)
    /\ pdf' = None
    /\ UNCHANGED <<original, shown, itemVars, textVars, armed, gesture, signing>>

(* Mutant: the ids start again with each PDF. *)
OpenedAfresh ==
    \E i \in 1..Len(loads) :
        /\ pdf' = loads[i] /\ original' = loads[i] /\ shown' = loads[i]
        /\ loads' = RemoveAt(loads, i)
        /\ items' = {} /\ history' = <<>> /\ selected' = None
        /\ editing' = FALSE /\ texts' = [p \in MorePages |-> None]
        /\ crossed' = (reads # {} \/ edits # <<>>)
        /\ lastId' = 0
        /\ reads' = {[r EXCEPT !.into = FALSE] : r \in reads}
        /\ UNCHANGED <<edits, armed, gesture, signing>>

(* Mutant: the lines found in the PDF before are still offered. *)
OpenedWithLines ==
    \E i \in 1..Len(loads) :
        /\ pdf' = loads[i] /\ original' = loads[i] /\ shown' = loads[i]
        /\ loads' = RemoveAt(loads, i)
        /\ items' = {} /\ history' = <<>> /\ selected' = None
        /\ crossed' = (reads # {} \/ edits # <<>>)
        /\ UNCHANGED <<lastId, editing, texts, reads, edits, armed, gesture, signing>>

(* Opened; of two, whichever is ready last is shown.                        *)
Opened ==
    \E i \in 1..Len(loads) :
        /\ pdf' = loads[i] /\ original' = loads[i] /\ shown' = loads[i]
        /\ loads' = RemoveAt(loads, i)
        /\ items' = {} /\ history' = <<>> /\ selected' = None
        /\ editing' = FALSE /\ texts' = [p \in MorePages |-> None]
        /\ crossed' = (reads # {} \/ edits # <<>>)
        /\ reads' = {[r EXCEPT !.into = FALSE] : r \in reads}
        /\ UNCHANGED <<lastId, edits, armed, gesture, signing>>

NotOpened ==
    \E i \in 1..Len(loads) :
        /\ loads' = RemoveAt(loads, i)
        /\ shown' = None
        /\ UNCHANGED <<pdf, original, itemVars, textVars, armed, gesture, signing>>
-----------------------------------------------------------------------------
(* Before a change: the items as they are, or were. *)
Remember(snapshot) ==
    history' = LET grown == Append(history, snapshot) IN
               IF Len(grown) > MaxHistory THEN Tail(grown) ELSE grown

Arm ==
    /\ Free /\ shown # None
    /\ armed' = TRUE /\ selected' = None
    /\ UNCHANGED <<loadVars, items, lastId, history, textVars, gesture, signing>>

Put(new) ==
    /\ lastId < MaxItems
    /\ Remember(items)
    /\ lastId' = lastId + 1
    /\ items' = items \cup {new}
    /\ selected' = lastId'

Place ==
    /\ armed /\ Reachable
    /\ \E p \in PagesShown :
           Put([id |-> lastId + 1, page |-> p, line |-> None, found |-> None])
    /\ armed' = FALSE
    /\ UNCHANGED <<loadVars, textVars, gesture, signing>>

(* Turned a quarter; or its text box entered, to be typed in.              *)
Change ==
    /\ Free /\ selected # None /\ Has(selected)
    /\ Remember(items)
    /\ UNCHANGED <<loadVars, items, lastId, selected, textVars, armed, gesture, signing>>

(* On every other page too; not a line, which belongs to its own page.      *)
EveryPage ==
    /\ Free /\ selected # None /\ Has(selected) /\ shown # None
    /\ LET item == At(selected)
           others == PagesShown \ {item.page}
           nth(p) == Cardinality({q \in others : q <= p})
       IN  /\ item.line = None /\ others # {} /\ lastId + Cardinality(others) <= MaxItems
           /\ Remember(items)
           /\ lastId' = lastId + Cardinality(others)
           /\ items' = items \cup {[item EXCEPT !.id = lastId + nth(p), !.page = p] : p \in others}
    /\ UNCHANGED <<loadVars, selected, textVars, armed, gesture, signing>>

(* Another place clicked, or Escape.                                        *)
Deselect ==
    /\ armed \/ selected # None
    /\ armed' = FALSE /\ selected' = None
    /\ UNCHANGED <<loadVars, items, lastId, history, textVars, gesture, signing>>

Delete(id) ==
    /\ Has(id) /\ (id = selected \/ Reachable)
    /\ Remember(items)
    /\ items' = items \ {At(id)}
    /\ selected' = None
    /\ UNCHANGED <<loadVars, lastId, textVars, armed, gesture, signing>>

Undo ==
    /\ history # <<>>
    /\ items' = Last(history)
    /\ history' = Front(history)
    /\ selected' = IF \E item \in items' : item.id = selected THEN selected ELSE None
    /\ UNCHANGED <<loadVars, lastId, textVars, armed, gesture, signing>>
-----------------------------------------------------------------------------
(* An item pressed: as things were then is remembered once it moves.        *)
Press(id) ==
    /\ Reachable /\ Has(id)
    /\ gesture' = [id |-> id, before |-> items, changed |-> FALSE]
    /\ selected' = id /\ armed' = FALSE
    /\ UNCHANGED <<loadVars, items, lastId, history, textVars, signing>>

Move ==
    /\ gesture # None /\ Has(gesture.id) /\ ~gesture.changed
    /\ Remember(gesture.before)
    /\ gesture' = [gesture EXCEPT !.changed = TRUE]
    /\ UNCHANGED <<loadVars, items, lastId, selected, textVars, armed, signing>>

(* Let go, over its page or another, or over none.                          *)
Drop ==
    /\ gesture # None
    /\ \/ UNCHANGED items
       \/ /\ gesture.changed /\ Has(gesture.id) /\ shown # None
          /\ \E p \in PagesShown :
                 items' = (items \ {At(gesture.id)}) \cup {[At(gesture.id) EXCEPT !.page = p]}
    /\ gesture' = None
    /\ UNCHANGED <<loadVars, lastId, history, selected, textVars, armed, signing>>
-----------------------------------------------------------------------------
(* The next page whose lines are not known, to be read into what is known.  *)
ReadOn(of, from, known) ==
    LET unread == {p \in from..PagesOf[of] : known[p] = None}
    IN  IF pdf = None \/ unread = {} THEN {}
        ELSE {[of |-> of, page |-> CHOOSE p \in unread : \A q \in unread : p <= q, into |-> TRUE]}

(* Editing the text: the pages' lines are read, one page after another.     *)
ToggleEdit ==
    /\ Free /\ shown # None
    /\ editing \/ Cardinality(reads) < MaxEdits
    /\ editing' = ~editing
    /\ armed' = FALSE
    /\ reads' = IF editing' /\ pdf # None THEN reads \cup ReadOn(pdf, 1, texts) ELSE reads
    /\ UNCHANGED <<loadVars, itemVars, texts, edits, crossed, gesture, signing>>

(* A page's lines read, none of a PDF closed meanwhile: not into the lines  *)
(* of a PDF opened since; but its later pages are.                          *)
ReadLines ==
    \E r \in reads :
        /\ texts' = IF ~r.into THEN texts
                    ELSE [texts EXCEPT ![r.page] = IF pdf = r.of THEN r.of ELSE 0]
        /\ reads' = (reads \ {r}) \cup ReadOn(r.of, r.page + 1, texts')
        /\ UNCHANGED <<loadVars, itemVars, editing, edits, crossed, armed, gesture, signing>>

(* A line clicked: its item selected, or its page drawn for its colours;    *)
(* not of a PDF closed meanwhile.                                           *)
ClickLine ==
    /\ editing /\ Reachable
    /\ \E p \in PagesShown :
           /\ texts[p] \in Pdfs
           /\ IF \E item \in items : item.line = p
              THEN selected' = (CHOOSE item \in items : item.line = p).id /\ UNCHANGED edits
              ELSE /\ pdf # None /\ Len(edits) < MaxEdits
                   /\ edits' = Append(edits, [of |-> texts[p], page |-> p])
                   /\ UNCHANGED selected
    /\ UNCHANGED <<loadVars, items, lastId, history, editing, texts, reads, crossed, armed,
                   gesture, signing>>

(* Drawn: an item over the line. Without that page now, an error.           *)
Sampled ==
    \E i \in 1..Len(edits) :
        /\ edits' = RemoveAt(edits, i)
        /\ IF pdf # None /\ shown # None /\ edits[i].page <= PagesOf[pdf]
           THEN Put([id |-> lastId + 1, page |-> edits[i].page, line |-> edits[i].page,
                     found |-> edits[i].of])
           ELSE UNCHANGED itemVars
        /\ UNCHANGED <<loadVars, editing, texts, reads, crossed, armed, gesture, signing>>
-----------------------------------------------------------------------------
(* Downloaded or saved.                                                     *)
Sign ==
    /\ Free /\ items # {} /\ shown # None /\ ~signing
    /\ signing' = TRUE
    /\ UNCHANGED <<loadVars, itemVars, textVars, armed, gesture>>

(* Written, or not: the places are looked up in the PDF there is by then.   *)
SignEnds ==
    /\ signing
    /\ signing' = FALSE
    /\ UNCHANGED <<loadVars, itemVars, textVars, armed, gesture>>

Next ==
    \/ \E d \in Pdfs : Open(d)
    \/ Opened \/ NotOpened
    \/ Arm \/ Place \/ Change \/ EveryPage \/ Deselect \/ Undo
    \/ \E item \in items : Delete(item.id) \/ Press(item.id)
    \/ Move \/ Drop
    \/ ToggleEdit \/ ReadLines \/ ClickLine \/ Sampled
    \/ Sign \/ SignEnds

Spec == Init /\ [][Next]_vars
-----------------------------------------------------------------------------
(* What is placed, now and after any number of undos, can be written: every *)
(* item is on a page the PDF has that it is written into, each with an id   *)
(* of its own; and of what is selected there is an item.                    *)
EverythingCanBeWritten ==
    /\ \A placed \in {items} \cup ToSet(history) :
           /\ \A item \in placed : item.page \in 1..PagesOf[original]
           /\ Cardinality({item.id : item \in placed}) = Cardinality(placed)
    /\ selected # None => Has(selected)

(* The lines offered, and those changed, are of the PDF they are written    *)
(* in; but when it was opened while another's were looked at.               *)
LinesAreOfPdf ==
    ~crossed /\ pdf # None =>
        /\ \A p \in MorePages : texts[p] \in {None, pdf}
        /\ \A item \in items : item.line # None => item.found = pdf

(* A changed line's place is covered ("The old line is covered and the new  *)
(* one is written on top", "A changed line of the PDF belongs to its own    *)
(* page"): the cover is drawn on the page its item is on.                   *)
LineStaysCovered == \A item \in items : item.line # None => item.page = item.line
=============================================================================
