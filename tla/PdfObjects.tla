------------------------------ MODULE PdfObjects ------------------------------
(***************************************************************************)
(* The objects of a PDF while it is compressed, or got ready to be split.  *)
(*                                                                         *)
(*   pdf-compressor/compress.js  compressPdf, keepOnce, repoint,           *)
(*                               collectGarbage, shrink                    *)
(*   pdf-splitter/split.js       analyse, reach                            *)
(*                                                                         *)
(* An object is numbered and refers to others by its keys; the dictionaries*)
(* and arrays written inside it are part of it. Of its contents only       *)
(* whether they are alike is told apart, and whether they were redrawn.    *)
(* Object 1 is the catalog; what the trailer has as information on the     *)
(* document is of the kind info.                                            *)
(***************************************************************************)
EXTENDS Integers, Sequences, FiniteSets, FiniteSetsExt

CONSTANTS
    ToCompress,  \* documents the compressor is given
    ToSplit      \* documents the splitter is given: with `pages`, the leaves

(* An object as it comes: its keys lead to objects, some perhaps missing.   *)
IsObject(o) ==
    /\ o = [kind |-> o.kind, data |-> o.data, redrawn |-> FALSE, refs |-> o.refs]
    /\ o.refs = [k \in DOMAIN o.refs |-> o.refs[k]]

(* What garbage collection starts from: the catalog and the information.    *)
RootsIn(g) == {r \in DOMAIN g : r = 1 \/ g[r].kind = "info"}

IsPdf(g) ==
    /\ g = [r \in DOMAIN g |-> g[r]] /\ \A r \in DOMAIN g : IsObject(g[r])
    /\ IsFiniteSet(DOMAIN g) /\ DOMAIN g \subseteq Nat
    /\ 1 \in DOMAIN g /\ g[1].kind \notin {"picture", "stream"}

(* The page tree: its nodes, of any depth, and the pages in it.              *)
TreeIn(g) == {r \in DOMAIN g : g[r].kind \in {"page", "node"}}

(* What pages inherit is none of the tree, and a page refers to the tree    *)
(* itself by its parent only. The links written in it, or in what it holds, *)
(* are objects of their own here.                                           *)
IsLeaf(p, g) ==
    /\ p \in TreeIn(g)
    /\ \A k \in DOMAIN g[p].refs \ {"Parent"} : g[p].refs[k] \notin TreeIn(g)
    /\ \A r \in TreeIn(g) : "Resources" \in DOMAIN g[r].refs => g[r].refs["Resources"] \notin TreeIn(g)

ASSUME PdfAssumption ==
    /\ \A g \in ToCompress : IsPdf(g)
    /\ \A d \in ToSplit :
           IsPdf(d.objects) /\ d.pages \in Seq(DOMAIN d.objects) /\ \A i \in DOMAIN d.pages : IsLeaf(d.pages[i], d.objects)

VARIABLES
    before,  \* the objects as they came
    objects, \* the objects now
    leaves,  \* the pages, in order (only the splitter asks)
    stage,   \* where the work is
    needs    \* the splitter's: what each page analysed so far needs

vars == <<before, objects, leaves, stage, needs>>

Init ==
    /\ \/ before \in ToCompress /\ leaves = <<>> /\ stage = "strip"
       \/ \E d \in ToSplit : before = d.objects /\ leaves = d.pages /\ stage = "analyse"
    /\ objects = before
    /\ needs = <<>>

Refs(o) == {o.refs[k] : k \in DOMAIN o.refs}

(* The objects X with those they lead to.                                   *)
Further(g, X) == X \cup ((UNION {Refs(g[r]) : r \in X}) \cap DOMAIN g)

(* What is reached from roots through the objects of g.                     *)
Reached(g, roots) ==
    LET within[n \in Nat] ==
            IF n = 0 THEN roots \cap DOMAIN g
            ELSE Further(g, within[n - 1])
    IN  within[Cardinality(DOMAIN g)]

Without(o, keys) == [o EXCEPT !.refs = [k \in DOMAIN o.refs \ keys |-> o.refs[k]]]
-----------------------------------------------------------------------------
(* Thumbnails and applications' private data go, of the catalog and the pages. *)
Strip ==
    /\ stage = "strip"
    /\ objects' = [r \in DOMAIN objects |->
                     IF objects[r].kind = "page" THEN Without(objects[r], {"PieceInfo", "Thumb"}) ELSE objects[r]]
    /\ stage' = "once"
    /\ UNCHANGED <<before, leaves, needs>>

(* Mutant: streams are alike whatever they refer to. *)
AlikeInBytes(r, s) == objects[r].kind \in {"picture", "stream"} /\ objects[r].data = objects[s].data

(* Streams alike in every byte and in their dictionaries.                   *)
Alike(r, s) == objects[r].kind \in {"picture", "stream"} /\ objects[r] = objects[s]

(* The one kept of those like r: the first.                                 *)
KeptFor(r) == Min({s \in DOMAIN objects : s = r \/ Alike(s, r)})

(* Mutant: one round only. *)
KeepOnceOnce ==
    /\ stage \in {"once", "twice"}
    /\ objects' = [r \in DOMAIN objects |->
                     [objects[r] EXCEPT !.refs =
                         [k \in DOMAIN @ |-> IF @[k] \in DOMAIN objects THEN KeptFor(@[k]) ELSE @[k]]]]
    /\ stage' = "sweep"
    /\ UNCHANGED <<before, leaves, needs>>

(* One round: every reference to a stream like an earlier one is pointed at *)
(* the earlier one. A second round, if the first found any.                 *)
KeepOnce ==
    /\ stage \in {"once", "twice"}
    /\ objects' = [r \in DOMAIN objects |->
                     [objects[r] EXCEPT !.refs =
                         [k \in DOMAIN @ |-> IF @[k] \in DOMAIN objects THEN KeptFor(@[k]) ELSE @[k]]]]
    /\ stage' = IF stage = "once" /\ \E r \in DOMAIN objects : KeptFor(r) # r THEN "twice" ELSE "sweep"
    /\ UNCHANGED <<before, leaves, needs>>

Swept == LET kept == Reached(objects, RootsIn(objects)) IN [r \in kept |-> objects[r]]

(* The masks, which stay as they are: soft ones and others.                 *)
Masks ==
    UNION {{objects[p].refs[k] : k \in DOMAIN objects[p].refs \cap {"SMask", "Mask"}} :
              p \in {q \in DOMAIN objects : objects[q].kind = "picture"}}

CollectGarbage ==
    /\ stage = "sweep"
    /\ objects' = Swept
    /\ stage' = "redraw"
    /\ UNCHANGED <<before, leaves, needs>>

(* A picture drawn again: its soft mask stays with it, its colour space is  *)
(* the browser's.                                                           *)
Smaller(o) == [Without(o, DOMAIN o.refs \ {"SMask"}) EXCEPT !.redrawn = TRUE]

(* Any of the pictures that are no masks; the others were small, black and  *)
(* white, unreadable or gained nothing.                                     *)
Redraw ==
    /\ stage = "redraw"
    /\ \E some \in SUBSET ({r \in DOMAIN objects : objects[r].kind = "picture"} \ Masks) :
           objects' = [r \in DOMAIN objects |-> IF r \in some THEN Smaller(objects[r]) ELSE objects[r]]
    /\ stage' = "again"
    /\ UNCHANGED <<before, leaves, needs>>

(* Mutant: what the redrawn pictures no longer use stays. *)
KeepRest ==
    /\ stage = "again"
    /\ stage' = "saved"
    /\ UNCHANGED <<before, objects, leaves, needs>>

(* What the pictures redrawn no longer use goes too. *)
CollectAgain ==
    /\ stage = "again"
    /\ objects' = Swept
    /\ stage' = "saved"
    /\ UNCHANGED <<before, leaves, needs>>
-----------------------------------------------------------------------------
Tree == TreeIn(objects)

(* t is the page tree. The nodes above p in it ...                          *)
Above(t, p) ==
    Reached([r \in DOMAIN t |-> Without(t[r], DOMAIN t[r].refs \ {"Parent"})],
            {t[p].refs[k] : k \in DOMAIN t[p].refs \cap {"Parent"}})

(* ... and what p inherits: the nearest one's.                              *)
Inherited(t, p) ==
    LET holders == {a \in Above(t, p) : "Resources" \in DOMAIN t[a].refs}
    IN  {t[a].refs["Resources"] : a \in {h \in holders : holders \subseteq {h} \cup Above(t, h)}}

(* What page p's copy starts from: what it refers to, without its parent,   *)
(* and what it inherits.                                                    *)
Starts(p) ==
    LET own == objects[p].refs
    IN  {own[k] : k \in DOMAIN own \ {"Parent"}}
        \cup IF "Resources" \in DOMAIN own THEN {} ELSE Inherited([r \in Tree |-> objects[r]], p)

(* Mutant: links to what all pages share are cut as well. *)
NoShared(o) == Without(o, {k \in DOMAIN o.refs : o.refs[k] \in Tree \cup UNION {Refs(objects[t]) : t \in Tree}})

NoLinks(o) == Without(o, {k \in DOMAIN o.refs : o.refs[k] \in Tree})

(* Mutant: links are cut of what the page itself refers to, no further.     *)
AnalysePageNear ==
    /\ stage = "analyse" /\ Len(needs) < Len(leaves)
    /\ LET p == leaves[Len(needs) + 1]
           uncut == [r \in DOMAIN objects |-> IF r \in Starts(p) THEN NoLinks(objects[r]) ELSE objects[r]]
           found == Reached([r \in DOMAIN objects |-> NoLinks(objects[r])], Starts(p))
       IN  objects' = uncut /\ needs' = Append(needs, found)
    /\ UNCHANGED <<before, leaves, stage>>

(* The next page: what it needs is found, and links to pages and to the     *)
(* page tree are cut of every object on the way.                            *)
AnalysePage ==
    /\ stage = "analyse" /\ Len(needs) < Len(leaves)
    /\ LET found == Reached([r \in DOMAIN objects |-> NoLinks(objects[r])], Starts(leaves[Len(needs) + 1]))
       IN  /\ objects' = [r \in DOMAIN objects |-> IF r \in found THEN NoLinks(objects[r]) ELSE objects[r]]
           /\ needs' = Append(needs, found)
    /\ UNCHANGED <<before, leaves, stage>>

(* Cancelled between two pages: what was found is forgotten, what was cut   *)
(* stays cut, and the next split begins anew.                               *)
AnalyseAgain ==
    /\ stage = "analyse" /\ Len(needs) < Len(leaves)
    /\ needs' = <<>>
    /\ UNCHANGED <<before, objects, leaves, stage>>

Next == Strip \/ KeepOnce \/ CollectGarbage \/ Redraw \/ CollectAgain \/ AnalysePage \/ AnalyseAgain

Spec == Init /\ [][Next]_vars
-----------------------------------------------------------------------------
(* Pairs of an object as it came and one now, with those they lead to by    *)
(* the same keys.                                                           *)
SameKeys(b, a) ==
    {<<before[b].refs[k], objects[a].refs[k]>> : k \in DOMAIN before[b].refs \cap DOMAIN objects[a].refs}

Along(pairs) ==
    pairs \cup ((UNION {SameKeys(p[1], p[2]) : p \in pairs}) \cap ((DOMAIN before) \X (DOMAIN objects)))

(* An object as it came and the one now found the same way from the catalog *)
(* or the information.                                                      *)
Same ==
    LET within[n \in Nat] == IF n = 0 THEN {<<r, r>> : r \in RootsIn(before)} ELSE Along(within[n - 1])
    IN  within[Cardinality(DOMAIN before)]

(* What goes on purpose: with a picture redrawn, its colour space and what  *)
(* is not shown of it; not what it is seen through, nor when it is shown.   *)
Goes(b, a) ==
    CASE before[b].kind = "page" -> {"PieceInfo", "Thumb"}
      [] objects[a].redrawn -> DOMAIN before[b].refs \ {"SMask", "Mask", "OC"}
      [] OTHER -> {}

(* A picture redrawn that came with a mask of its own that is no soft mask, *)
(* or belonged to a layer: neither is kept (see MaskIsKept).                *)
LostMask(b, a) == objects[a].redrawn /\ DOMAIN before[b].refs \cap {"Mask", "OC"} # {}

(* "A PDF made smaller": whatever was kept once, redrawn or deleted, the    *)
(* catalog and the information lead by the same keys to the same contents   *)
(* as before, save for what is to go (and for the keys of a redrawn picture *)
(* that had a mask or a layer); a mask is never redrawn.                    *)
ShowsTheSame ==
    stage = "saved" =>
        /\ \A m \in Masks \cap DOMAIN objects : ~objects[m].redrawn
        /\ \A pair \in Same :
            LET b == pair[1]
                a == pair[2]
            IN  /\ before[b].kind = objects[a].kind /\ before[b].data = objects[a].data
                /\ DOMAIN objects[a].refs \subseteq DOMAIN before[b].refs
                /\ LostMask(b, a) \/ DOMAIN before[b].refs \ DOMAIN objects[a].refs \subseteq Goes(b, a)
                /\ \A k \in DOMAIN objects[a].refs :
                       before[b].refs[k] \in DOMAIN before => objects[a].refs[k] \in DOMAIN objects

(* "What is in the file but never shown goes": nothing is saved that        *)
(* neither the catalog nor the information reaches.                         *)
NothingUnused == stage = "saved" => DOMAIN objects = Reached(objects, RootsIn(objects))

(* "What is in it twice is kept once", pictures and the profiles they use:  *)
(* no two streams saved are alike, when what they refer to refers to        *)
(* nothing itself.                                                          *)
KeptOnce ==
    stage = "redraw" =>
        \A r, s \in DOMAIN objects :
            Alike(r, s) /\ (\A t \in Refs(objects[r]) : Refs(before[t]) = {}) => r = s

Analysed == stage = "analyse" /\ leaves # <<>> /\ Len(needs) = Len(leaves)

(* A page copied into a part brings what was found for it, and no other     *)
(* page: also when its objects were cut for another page, or in an          *)
(* analysis cancelled half-way.                                             *)
PagesKeepApart ==
    Analysed =>
        \A i \in 1..Len(leaves) :
            /\ Reached(objects, Starts(leaves[i])) = needs[i]
            /\ needs[i] \cap Tree = {}

(* Only links into the page tree are cut. *)
OnlyLinksCut ==
    stage = "analyse" =>
        \A r \in DOMAIN before : \A k \in DOMAIN before[r].refs :
            before[r].refs[k] \notin Tree => k \in DOMAIN objects[r].refs /\ objects[r].refs[k] = before[r].refs[k]

(* "drawn opaque, its mask kept by the caller" (draw-image.js): a picture   *)
(* redrawn keeps the mask it came with.                                     *)
MaskIsKept ==
    stage = "saved" =>
        \A pair \in Same : "Mask" \in DOMAIN before[pair[1]].refs => "Mask" \in DOMAIN objects[pair[2]].refs
=============================================================================
