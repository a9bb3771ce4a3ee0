------------------------------- MODULE PdfTools -------------------------------
(***************************************************************************)
(* A browser tab that goes from one PDF tool to the next, with the PDF it  *)
(* made: merged, then compressed, then split (resources/js/pdf/handoff.js);*)
(* and another tab of the same browser with the same tools, which shares   *)
(* the place where the PDF is kept meanwhile.                              *)
(***************************************************************************)
EXTENDS MergePage, ToolPage

VARIABLES
    sent,   \* what this tab handed on to the page it opened, or None
    other   \* the other tab was there since

vars == <<mergeVars, toolVars, sent, other>>

Init ==
    /\ tool \in {"merge", "compress", "split"}
    /\ MergeInit /\ ToolInit
    /\ store = None /\ sent = None /\ other = FALSE

Kept(pdf) == [pdf |-> pdf, stale |-> FALSE]

(* A page opened with a handed PDF to ask for, nothing else on it.          *)
NewPage ==
    /\ taking' = "get" /\ held' = None
    /\ opens' = <<>> /\ fetching' = FALSE /\ source' = None /\ named' = None /\ busy' = FALSE
    /\ works' = {} /\ analysis' = None /\ result' = None /\ runs' = 0 /\ late' = FALSE
    /\ previews' = {} /\ preview' = None

(* Kept, and the next tool's page opened.                                   *)
HandOn(pdf, next) ==
    /\ store' = Kept(pdf) /\ sent' = pdf /\ other' = FALSE
    /\ tool' = next
    /\ NewPage

HandOnMerged ==
    /\ tool = "merge" /\ ~Merging /\ ~picker /\ merged # None
    /\ \E next \in {"compress", "split"} : HandOn("merged", next)
    /\ files' = <<>> /\ lastId' = 0
    /\ trail' = Top /\ search' = None /\ due' = FALSE
    /\ asked' = <<>> /\ items' = None /\ picker' = FALSE /\ loading' = FALSE
    /\ job' = None /\ cancelled' = FALSE /\ merged' = None /\ dropped' = FALSE

HandOnCompressed ==
    /\ tool = "compress" /\ ~busy /\ result # None /\ result.name # None
    /\ HandOn("compressed", "split")
    /\ UNCHANGED mergeVars

(* Loaded again, with the same address: what was handed on was used once.   *)
Reload ==
    /\ sent # None
    /\ NewPage
    /\ UNCHANGED <<mergeVars, tool, store, sent, other>>

(* The other tab keeps a PDF of its own, or takes out what is there.        *)
OtherTab ==
    /\ taking # "no"
    /\ store' \in {Kept("other"), None}
    /\ other' = TRUE
    /\ UNCHANGED <<mergeVars, tool, taking, held, openVars, busy, workVars, previewVars, sent>>

(* An hour passes: what is kept is not taken up any more.                   *)
HourPasses ==
    /\ taking = "get" /\ store # None
    /\ store' = [store EXCEPT !.stale = TRUE]
    /\ UNCHANGED <<mergeVars, tool, taking, held, openVars, busy, workVars, previewVars, sent, other>>

Next ==
    \/ tool = "merge" /\ MergeNext /\ UNCHANGED <<toolVars, sent, other>>
    \/ ToolNext /\ UNCHANGED <<mergeVars, sent, other>>
    \/ HandOnMerged \/ HandOnCompressed \/ Reload \/ OtherTab \/ HourPasses

Spec == Init /\ [][Next]_vars

(* The pages' own steps go on; nobody has to click.                         *)
FairSpec ==
    /\ Spec
    /\ WF_vars(MergeStep /\ UNCHANGED <<toolVars, sent, other>>)
    /\ WF_vars(ToolStep /\ UNCHANGED <<mergeVars, sent, other>>)
-----------------------------------------------------------------------------
(* However late an answer comes - OneDrive's, pdf.js's, the work's - what a *)
(* page shows belongs to what is open on it by then: the PDFs listed to the *)
(* folder or the words searched, result, preview and parts to the PDF -     *)
(* unless that PDF was itself opened or discarded while another was worked  *)
(* on or opened.                                                            *)
NothingStaleShown ==
    ListsWhatIsOpen /\ ResultIsOfFile /\ AnalysisIsOfDocument /\ PreviewIsOfResult

(* What a tool opens as handed on is what the tool before it made, as long  *)
(* as no other tab used the same place; and what is taken is taken out, so  *)
(* that it is used once.                                                    *)
HandedIsWhatWasSent ==
    ~other /\ held # None => held.pdf = sent /\ (taking = "no" => store = None)

(* A merge under way, and whatever else keeps a page busy, ends.            *)
PagesGetFree == (Merging ~> ~Merging) /\ (busy ~> ~busy)
=============================================================================
