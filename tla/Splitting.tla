------------------------------ MODULE Splitting ------------------------------
(***************************************************************************)
(* A PDF split in the browser into parts under a size, or of so many       *)
(* pages each.                                                             *)
(*                                                                         *)
(*   resources/js/pdf-splitter/split.js   the parts                        *)
(*   resources/js/pdf-splitter/zip.js     the zip of them                  *)
(*   resources/js/pdf-splitter.js         split(): the parts shown         *)
(*                                                                         *)
(* What a page costs is estimated from the objects it draws on; what a     *)
(* part really comes to is known only once it is saved (any of FileSizes). *)
(* Sizes are whole numbers; a factor is a pair <<numerator, denominator>>. *)
(* A part's pages are consecutive, so `indexes` is first..last, and what   *)
(* each of them added (`added`) is Cost(first)[page].                      *)
(***************************************************************************)
EXTENDS Integers, Sequences, FiniteSets, Functions

CONSTANTS
    Objects,       \* fonts, pictures, contents: what pages draw on
    ObjectSize,    \* the size of each, as counted
    Documents,     \* documents: each page's own size and the objects it needs
    Asks,          \* what may be asked: parts under a size, or of so many pages
    FileSizes,     \* what a saved part may come to
    PartOverhead   \* a part's own objects

ASSUME SplittingAssumption ==
    /\ IsFiniteSet(Objects) /\ ObjectSize \in [Objects -> Nat]
    /\ \A d \in Documents :
           /\ d.own \in Seq(Nat) /\ Len(d.own) > 0
           /\ d.needs \in [1..Len(d.own) -> SUBSET Objects]
    /\ Asks \subseteq [by : {"size", "pages"}, n : Nat \ {0}]
    /\ FileSizes \subseteq Nat \ {0}
    /\ PartOverhead \in Nat \ {0}

VARIABLES
    doc,        \* the document
    analysed,   \* what its pages need is known
    ask,        \* what was asked
    stage,      \* where the split is, or "idle"
    first,      \* the part being made: its first page,
    last,       \* its last page,
    estimate,   \* what it is estimated at,
    bytes,      \* and what its file came to
    repack,     \* the very first part may still be packed once more
    made,       \* the parts finished
    saved,      \* their files' sizes together
    estimated,  \* their estimates together
    cancelled,  \* Cancel was clicked
    shown,      \* the parts the page shows
    zip         \* the parts in the zip to download

partVars == <<first, last, estimate, bytes, repack>>
sums == <<saved, estimated>>
vars == <<doc, analysed, ask, stage, partVars, made, sums, cancelled, shown, zip>>

Pages == Len(doc.own)

Part == [from : Nat, to : Nat, size : FileSizes, over : BOOLEAN]

(* The objects that pages s..e need.                                        *)
Needed(s, e) == UNION {doc.needs[p] : p \in s..e}

(* What each page adds to a part that starts at page s: itself, and the     *)
(* objects no page of the part before it needed.                            *)
Cost(s) ==
    [p \in s..Pages |-> doc.own[p] + SumFunctionOnSet(ObjectSize, doc.needs[p] \ Needed(s, p - 1))]

Packed(s, e) == PartOverhead + SumFunctionOnSet(Cost(s), s..e)

(* How far the estimates are to be trusted: n bytes saved of d estimated.   *)
Clamp(n, d) == IF 20 * n < d THEN <<1, 20>> ELSE IF n > 4 * d THEN <<4, 1>> ELSE <<n, d>>

(* Part s..e with its estimate scaled by f stays under 97% of the limit.    *)
Fits(s, e, f) == 100 * Packed(s, e) * f[1] <= 97 * ask.n * f[2]

(* The page at which packing from s stops: the first page always goes in.   *)
PackedTo(s, e, f) ==
    /\ e \in s..Pages
    /\ \A q \in (s + 1)..e : Fits(s, q, f)
    /\ e < Pages => ~Fits(s, e + 1, f)

Init ==
    /\ doc \in Documents /\ analysed = FALSE /\ ask \in Asks
    /\ stage = "idle"
    /\ first = 1 /\ last = 0 /\ estimate = 0 /\ bytes = 0 /\ repack = TRUE
    /\ made = <<>> /\ saved = 0 /\ estimated = 0
    /\ cancelled = FALSE /\ shown = <<>> /\ zip = <<>>

(* Split is clicked: what the last one left is forgotten. What its pages    *)
(* need is worked out once a document.                                      *)
Split ==
    /\ stage = "idle"
    /\ ask' \in Asks
    /\ stage' = IF analysed THEN "pack" ELSE "analyse"
    /\ first' = 1 /\ last' = 0 /\ estimate' = 0 /\ bytes' = 0 /\ repack' = TRUE
    /\ made' = <<>> /\ saved' = 0 /\ estimated' = 0
    /\ cancelled' = FALSE /\ shown' = <<>> /\ zip' = <<>>
    /\ UNCHANGED <<doc, analysed>>

Analyse ==
    /\ stage = "analyse" /\ ~cancelled
    /\ analysed' = TRUE
    /\ stage' = "pack"
    /\ UNCHANGED <<doc, ask, partVars, made, sums, cancelled, shown, zip>>

(* The next part: as many pages as fit by the estimates, corrected by what  *)
(* the parts so far came to.                                                *)
Pack ==
    /\ stage = "pack" /\ first <= Pages /\ ask.by = "size"
    /\ \E e \in first..Pages :
           /\ PackedTo(first, e, IF estimated = 0 THEN <<1, 1>> ELSE Clamp(saved, estimated))
           /\ last' = e /\ estimate' = Packed(first, e)
    /\ stage' = "copy"
    /\ repack' = (estimated = 0)
    /\ UNCHANGED <<doc, analysed, ask, first, bytes, made, sums, cancelled, shown, zip>>

(* The next part: so many pages.                                            *)
Count ==
    /\ stage = "pack" /\ first <= Pages /\ ask.by = "pages"
    /\ last' = IF first + ask.n - 1 <= Pages THEN first + ask.n - 1 ELSE Pages
    /\ stage' = "copy"
    /\ UNCHANGED <<doc, analysed, ask, first, estimate, bytes, repack, made, sums, cancelled, shown, zip>>

(* The pages copied, with a moment for the browser after each.              *)
Copy ==
    /\ stage = "copy" /\ ~cancelled
    /\ stage' = "write"
    /\ UNCHANGED <<doc, analysed, ask, partVars, made, sums, cancelled, shown, zip>>

(* The part saved for real.                                                 *)
Write ==
    /\ stage = "write"
    /\ bytes' \in FileSizes
    /\ stage' = "weigh"
    /\ UNCHANGED <<doc, analysed, ask, first, last, estimate, repack, made, sums, cancelled, shown, zip>>

(* The first part came out well under the limit: packed once more, by what  *)
(* its own file showed, when that takes more pages.                         *)
Fuller(e) ==
    /\ ask.by = "size" /\ repack /\ 100 * bytes < 85 * ask.n /\ last < Pages
    /\ PackedTo(first, e, Clamp(bytes, estimate))
    /\ e > last

(* Mutant: a first part packed once more may be packed once more again.     *)
RepackAgain ==
    /\ stage = "weigh"
    /\ \E e \in first..Pages :
           /\ ask.by = "size" /\ repack /\ 100 * bytes < 85 * ask.n /\ last <= Pages
           /\ PackedTo(first, e, Clamp(bytes, estimate))
           /\ last' = e /\ estimate' = Packed(first, e)
    /\ stage' = "copy"
    /\ UNCHANGED <<doc, analysed, ask, first, bytes, repack, made, sums, cancelled, shown, zip>>

Repack ==
    /\ stage = "weigh"
    /\ \E e \in first..Pages : Fuller(e) /\ last' = e /\ estimate' = Packed(first, e)
    /\ repack' = FALSE
    /\ stage' = "copy"
    /\ UNCHANGED <<doc, analysed, ask, first, bytes, made, sums, cancelled, shown, zip>>

(* Mutant: a part of two pages is not taken apart. *)
TooBigButTwo == ask.by = "size" /\ bytes > ask.n /\ last > first + 1

TooBig == ask.by = "size" /\ bytes > ask.n /\ last > first

(* Pages e+1..last are worth the excess, by their estimates scaled to what  *)
(* the part came to.                                                        *)
Sheds(e) ==
    100 * bytes * SumFunctionOnSet(Cost(first), (e + 1)..last)
        >= (100 * bytes - 97 * ask.n) * estimate

(* Mutant: pages taken off a part take with them all they need, also what   *)
(* the pages kept need.                                                     *)
TrimAll ==
    /\ stage = "weigh" /\ TooBig
    /\ \E e \in first..(last - 1) :
           /\ e = first \/ Sheds(e)
           /\ \A q \in (e + 1)..(last - 1) : ~Sheds(q)
           /\ last' = e
           /\ estimate' = estimate - SumFunctionOnSet([p \in (e + 1)..last |-> Cost(p)[p]], (e + 1)..last)
    /\ repack' = FALSE
    /\ stage' = "copy"
    /\ UNCHANGED <<doc, analysed, ask, first, bytes, made, sums, cancelled, shown, zip>>

(* Over after all: the last pages move on, one at least, until the excess   *)
(* is worth no more or one page is left.                                    *)
Trim ==
    /\ stage = "weigh" /\ TooBig
    /\ \E e \in first..(last - 1) :
           /\ e = first \/ Sheds(e)
           /\ \A q \in (e + 1)..(last - 1) : ~Sheds(q)
           /\ last' = e
           /\ estimate' = estimate - SumFunctionOnSet(Cost(first), (e + 1)..last)
    /\ repack' = FALSE
    /\ stage' = "copy"
    /\ UNCHANGED <<doc, analysed, ask, first, bytes, made, sums, cancelled, shown, zip>>

(* Mutant: the next part starts with the last page of this one. *)
FinishAtLast ==
    /\ stage = "weigh" /\ ~TooBig /\ \A e \in first..Pages : ~Fuller(e)
    /\ made' = Append(made, [from |-> first, to |-> last, size |-> bytes,
                             over |-> ask.by = "size" /\ bytes > ask.n])
    /\ saved' = saved + bytes
    /\ estimated' = estimated + estimate
    /\ first' = last
    /\ stage' = "pack"
    /\ UNCHANGED <<doc, analysed, ask, last, estimate, bytes, repack, cancelled, shown, zip>>

(* The part kept; on to the page after it.                                  *)
Finish ==
    /\ stage = "weigh" /\ ~TooBig /\ \A e \in first..Pages : ~Fuller(e)
    /\ made' = Append(made, [from |-> first, to |-> last, size |-> bytes,
                             over |-> ask.by = "size" /\ bytes > ask.n])
    /\ saved' = saved + bytes
    /\ estimated' = estimated + estimate
    /\ first' = last + 1
    /\ stage' = "pack"
    /\ UNCHANGED <<doc, analysed, ask, last, estimate, bytes, repack, cancelled, shown, zip>>

(* All parts made: listed on the page, then zipped.                         *)
List ==
    /\ stage = "pack" /\ first > Pages
    /\ shown' = made
    /\ stage' = "zip"
    /\ UNCHANGED <<doc, analysed, ask, partVars, made, sums, cancelled, zip>>

(* Mutant: the zip does not look at Cancel. *)
ZipAnyway ==
    /\ stage = "zip"
    /\ zip' = shown
    /\ stage' = "idle"
    /\ UNCHANGED <<doc, analysed, ask, partVars, made, sums, cancelled, shown>>

Zip ==
    /\ stage = "zip" /\ ~cancelled
    /\ zip' = shown
    /\ stage' = "idle"
    /\ UNCHANGED <<doc, analysed, ask, partVars, made, sums, cancelled, shown>>

Busy == stage # "idle"

Cancel ==
    /\ Busy
    /\ cancelled' = TRUE
    /\ UNCHANGED <<doc, analysed, ask, stage, partVars, made, sums, shown, zip>>

(* Thrown away with what is shown: Cancel noticed at a pause, or a step     *)
(* failed.                                                                  *)
Throw ==
    /\ stage \in {"analyse", "copy", "write", "zip"}
    /\ stage' = "idle"
    /\ shown' = <<>> /\ made' = <<>>
    /\ UNCHANGED <<doc, analysed, ask, partVars, sums, cancelled, zip>>

Step == Analyse \/ Pack \/ Count \/ Copy \/ Write \/ Repack \/ Trim \/ Finish \/ List \/ Zip \/ Throw

Next == Split \/ Step \/ Cancel

Spec == Init /\ [][Next]_vars

(* JavaScript goes on by itself; nobody has to click anything.              *)
FairSpec == Spec /\ WF_vars(Step)
-----------------------------------------------------------------------------
TypeOK ==
    /\ doc \in Documents /\ ask \in Asks
    /\ stage \in {"idle", "analyse", "pack", "copy", "write", "weigh", "zip"}
    /\ first \in 1..(Pages + 1) /\ last \in 0..Pages
    /\ bytes \in FileSizes \cup {0}
    /\ made \in Seq(Part) /\ shown \in Seq(Part) /\ zip \in Seq(Part)
    /\ analysed \in BOOLEAN /\ repack \in BOOLEAN /\ cancelled \in BOOLEAN

(* The parts follow each other from page 1 with no page twice, missing or   *)
(* out of order (split.js: pages moved on from one part are the next        *)
(* part's).                                                                 *)
InOrder(parts) ==
    \A i \in 1..Len(parts) :
        /\ parts[i].from = IF i = 1 THEN 1 ELSE parts[i - 1].to + 1
        /\ parts[i].from <= parts[i].to

(* ... and end with the document's last page wherever they are shown or     *)
(* downloaded: no zip is left of parts the page does not show, and a split   *)
(* cancelled or failed leaves neither.                                      *)
NoPageLost ==
    /\ InOrder(made)
    /\ shown # <<>> => shown = made /\ made[Len(made)].to = Pages
    /\ zip # <<>> => zip = shown
    /\ stage = "idle" => shown = zip

(* "over the limit - only ever a single page, too big on its own" (finished *)
(* in split.js); every other part is under the limit.                       *)
OverOnlyAlone ==
    \A i \in 1..Len(made) :
        ask.by = "size" => IF made[i].size > ask.n THEN made[i].over /\ made[i].from = made[i].to
                                                   ELSE ~made[i].over

(* However pages were added to a part and taken off it again, its estimate  *)
(* is its pages' own sizes and each object they need, counted once.         *)
EachObjectOnce ==
    (stage \in {"copy", "write", "weigh"} /\ ask.by = "size") =>
        estimate = PartOverhead
                   + SumFunctionOnSet(doc.own, first..last)
                   + SumFunctionOnSet(ObjectSize, Needed(first, last))

(* Once Cancel was clicked the split never gives a zip, however far it was.  *)
CancelIsHeeded == [][cancelled /\ zip' # zip => zip' = <<>>]_vars

(* Every split ends, whatever its parts come to.                            *)
SplitEnds == Busy ~> ~Busy
=============================================================================
