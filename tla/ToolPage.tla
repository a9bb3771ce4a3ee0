------------------------------- MODULE ToolPage -------------------------------
(***************************************************************************)
(* The Compress PDF and Split PDF pages, each of which works on one PDF:   *)
(* opened from the computer, from OneDrive, or as handed on by the tool    *)
(* before, worked on, and for Compress shown before and after.             *)
(*                                                                         *)
(*   resources/js/pdf-compressor.js           init, open, compress, preview*)
(*   resources/js/pdf-splitter.js             init, open, split            *)
(*   resources/js/pdf/handoff.js              takeHandoff                  *)
(*                                                                         *)
(* What the work makes of a PDF (Compressor, Splitting) is one step here.  *)
(* `busy` is what the page's controls look at; it is one flag, whatever is *)
(* under way.                                                              *)
(***************************************************************************)
EXTENDS Nothing, Integers, SequencesExt

CONSTANTS
    Uploads,  \* PDFs on the computer and on OneDrive
    MaxRuns   \* bound: how often the work is begun

ASSUME ToolAssumption == MaxRuns \in Nat

VARIABLES
    tool,      \* which tool's page is open: "merge", "compress" or "split"
    store,     \* the PDF kept in the browser for the next tool, or None
    taking,    \* a handed PDF is asked for: "get", "delete" or "no"
    held,      \* what was there
    opens,     \* PDFs being opened
    fetching,  \* one is fetched from OneDrive
    source,    \* the PDF to work on, or None
    named,     \* the file shown, or None
    busy,      \* the page says so
    works,     \* the work under way: [run, of, stage]
    analysis,  \* the split's: the PDF whose pages were analysed, or None
    result,    \* what the work made, or None
    runs,      \* how often it was begun
    previews,  \* previews on their way, and the two PDFs each opens
    preview,   \* the two PDFs shown, before and after, or None
    late       \* a PDF was opened or discarded during the work or another's opening

takeVars == <<tool, store, taking, held>>
openVars == <<opens, fetching, source, named>>
workVars == <<works, analysis, result, runs, late>>
previewVars == <<previews, preview>>
toolVars == <<takeVars, openVars, busy, workVars, previewVars>>

ToolInit ==
    /\ taking = "no" /\ held = None
    /\ opens = <<>> /\ fetching = FALSE /\ source = None /\ named = None /\ busy = FALSE
    /\ works = {} /\ analysis = None /\ result = None /\ runs = 0 /\ late = FALSE
    /\ previews = {} /\ preview = None

OnTool == tool \in {"compress", "split"}

(* Mutant: the last PDF's result is kept. *)
ResetButResult ==
    /\ source' = None /\ named' = None /\ analysis' = None
    /\ preview' = None /\ UNCHANGED result
    /\ late' = (works # {})

(* Everything about the last PDF forgotten. *)
Reset ==
    /\ source' = None /\ named' = None /\ analysis' = None
    /\ preview' = None /\ result' = None
    /\ late' = (works # {})

(* A PDF begins to be opened; only the Split page says it is busy with it.  *)
BeginOpen(pdf) ==
    /\ Reset
    /\ opens' = Append(opens, pdf)
    /\ busy' = (tool = "split")
-----------------------------------------------------------------------------
(* The page was opened by the tool before: what it kept is read ...         *)
TakeGet ==
    /\ taking = "get"
    /\ held' = store
    /\ taking' = "delete"
    /\ UNCHANGED <<tool, store, openVars, busy, workVars, previewVars>>

(* Opened, whatever the user has begun meanwhile, unless it was there too   *)
(* long or is larger than the tool takes.                                   *)
OpenHeld ==
    \/ UNCHANGED <<opens, source, named, busy, analysis, result, late, preview>>
    \/ /\ held # None /\ ~held.stale
       /\ Reset
       /\ opens' = Append(opens, held.pdf)
       /\ busy' = (busy \/ tool = "split")

(* Mutant: it is left where it was. *)
TakeLeave ==
    /\ taking = "delete"
    /\ taking' = "no"
    /\ OpenHeld
    /\ UNCHANGED <<tool, store, held, fetching, works, runs, previews>>

(* ... taken out, and opened.                                               *)
TakeDelete ==
    /\ taking = "delete"
    /\ store' = None
    /\ taking' = "no"
    /\ OpenHeld
    /\ UNCHANGED <<tool, held, fetching, works, runs, previews>>

(* The browser's storage fails at either: nothing was handed on, and what   *)
(* is kept stays.                                                           *)
TakeFails ==
    /\ taking # "no"
    /\ taking' = "no" /\ held' = None
    /\ UNCHANGED <<tool, store, openVars, busy, workVars, previewVars>>

(* One of a kind at a time is a bound; the page allows a second PDF to be   *)
(* chosen while the first is looked at.                                     *)
Pick ==
    /\ OnTool /\ ~busy /\ Len(opens) < 2
    /\ \E pdf \in Uploads : BeginOpen(pdf)
    /\ UNCHANGED <<takeVars, fetching, works, runs, previews>>

PickOneDrive ==
    /\ OnTool /\ ~busy /\ Len(opens) < 2 /\ ~fetching
    /\ Reset
    /\ busy' = TRUE /\ fetching' = TRUE
    /\ UNCHANGED <<takeVars, opens, works, runs, previews>>

(* It came and is opened, or it did not.                                    *)
Fetched ==
    /\ fetching
    /\ fetching' = FALSE
    /\ \/ \E pdf \in Uploads : BeginOpen(pdf)
       \/ busy' = FALSE /\ UNCHANGED <<opens, source, named, analysis, result, preview, late>>
    /\ UNCHANGED <<takeVars, works, runs, previews>>

(* The Split page's `finally`: free again, whatever else is under way.      *)
OpenEnds ==
    /\ busy' = IF tool = "split" THEN FALSE ELSE busy
    /\ late' = (late \/ works # {} \/ source # None)
    /\ UNCHANGED <<takeVars, fetching, works, analysis, result, runs, previewVars>>

(* One of the PDFs being opened turns out well. *)
Opened ==
    /\ \E i \in 1..Len(opens) :
           source' = opens[i] /\ named' = opens[i] /\ opens' = RemoveAt(opens, i)
    /\ OpenEnds

(* Mutant: a file that is no PDF leaves the page busy. *)
NotOpenedBusy ==
    /\ \E i \in 1..Len(opens) : opens' = RemoveAt(opens, i)
    /\ late' = (late \/ works # {} \/ source # None)
    /\ UNCHANGED <<takeVars, fetching, source, named, busy, works, analysis, result, runs, previewVars>>

(* It is no PDF; or, on the Split page, cannot be loaded, which leaves no   *)
(* document whatever file is shown.                                         *)
NotOpened ==
    /\ \E i \in 1..Len(opens) : opens' = RemoveAt(opens, i)
    /\ \/ UNCHANGED source
       \/ tool = "split" /\ source' = None
    /\ UNCHANGED named
    /\ OpenEnds

Discard ==
    /\ OnTool /\ ~busy /\ named # None
    /\ Reset
    /\ UNCHANGED <<takeVars, opens, fetching, busy, works, runs, previews>>
-----------------------------------------------------------------------------
(* Compress, or Split, is clicked. *)
Begin ==
    /\ OnTool /\ ~busy /\ named # None /\ source # None /\ runs < MaxRuns
    /\ runs' = runs + 1
    /\ works' = works \cup {[run |-> runs', of |-> source,
                             stage |-> IF tool = "split" /\ analysis = None THEN "analysing" ELSE "working"]}
    /\ busy' = TRUE /\ preview' = None /\ result' = None
    /\ UNCHANGED <<takeVars, openVars, analysis, late, previews>>

(* The pages are analysed, and kept as analysed; the document split is the  *)
(* one there is by now.                                                     *)
Analysed ==
    /\ \E w \in works :
           /\ w.stage = "analysing"
           /\ analysis' = w.of
           /\ works' = (works \ {w}) \cup {[w EXCEPT !.of = source, !.stage = "working"]}
    /\ UNCHANGED <<takeVars, openVars, busy, result, runs, late, previewVars>>

(* Done: named after the file shown now; compressed smaller, the two PDFs   *)
(* are opened to be shown.                                                  *)
Done ==
    /\ named # None
    /\ \E w \in works :
           /\ w.stage = "working" /\ w.of # None
           /\ result' = [of |-> w.of, name |-> named, run |-> w.run]
           /\ works' = works \ {w}
           /\ \/ UNCHANGED previews
              \/ tool = "compress" /\ previews' = previews \cup {[run |-> w.run, importing |-> TRUE, before |-> None, after |-> None]}
    /\ busy' = FALSE
    /\ UNCHANGED <<takeVars, openVars, analysis, runs, late, preview>>

(* Cancelled or failed; as it does when no file is shown any more, after    *)
(* the result was kept.                                                     *)
Failed ==
    /\ \E w \in works :
           /\ works' = works \ {w}
           /\ \/ UNCHANGED result
              \/ /\ w.stage = "working" /\ named = None
                 /\ result' = [of |-> w.of, name |-> None, run |-> w.run]
    /\ busy' = FALSE
    /\ UNCHANGED <<takeVars, openVars, analysis, runs, late, previewVars>>
-----------------------------------------------------------------------------
(* pdf.js is loaded: the PDF and the result as they are now are opened.     *)
ImportPreview ==
    /\ \E p \in previews :
           /\ p.importing
           /\ previews' = (previews \ {p}) \cup {[p EXCEPT !.importing = FALSE, !.before = source, !.after = result]}
    /\ UNCHANGED <<takeVars, openVars, busy, workVars, preview>>

(* Both opened: shown, unless they are no longer wanted.                    *)
ShowPreview ==
    /\ \E p \in previews :
           /\ ~p.importing /\ None \notin {p.before, p.after}
           /\ previews' = previews \ {p}
           /\ preview' = IF result # p.after \/ busy THEN preview ELSE [before |-> p.before, after |-> p.after]
    /\ UNCHANGED <<takeVars, openVars, busy, workVars>>

(* One could not be opened: whatever preview there is is closed.            *)
NoPreview ==
    /\ \E p \in previews :
           /\ ~p.importing
           /\ previews' = previews \ {p}
           /\ preview' = None
    /\ UNCHANGED <<takeVars, openVars, busy, workVars>>

ToolStep == TakeGet \/ TakeDelete \/ TakeFails \/ Fetched \/ Opened \/ NotOpened \/ Analysed \/ Done \/ Failed

ToolNext ==
    \/ ToolStep \/ Pick \/ PickOneDrive \/ Discard \/ Begin
    \/ ImportPreview \/ ShowPreview \/ NoPreview
-----------------------------------------------------------------------------
(* What is there to be downloaded or handed on is made of the PDF shown and *)
(* named after it. But when it was opened during the work, or while another *)
(* was opened: a handed PDF is, whatever goes on, and frees a busy page.    *)
ResultIsOfFile == result # None /\ ~late => result.of = source /\ result.name = named

(* The pages are split by what they themselves were analysed to need.       *)
AnalysisIsOfDocument ==
    tool = "split" /\ ~late => \A w \in works : w.stage = "working" => w.of = analysis

(* The preview shows the PDF there is and what it became, however many      *)
(* previews were on their way and whatever was discarded meanwhile.         *)
PreviewIsOfResult ==
    preview # None /\ ~busy /\ ~late => preview = [before |-> source, after |-> result]
=============================================================================
