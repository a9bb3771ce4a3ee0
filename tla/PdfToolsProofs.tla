---------------------------- MODULE PdfToolsProofs ----------------------------
(***************************************************************************)
(* What a page of the PDF tools offers belongs to what is open on it, what *)
(* one tool hands on is what the next one opens, and a merged PDF is of    *)
(* the files listed: for all PDFs, folders and bounds.                     *)
(***************************************************************************)
EXTENDS PdfTools, SequenceTheorems, FiniteSetTheorems, WellFoundedInduction, TLAPS

Documents == Uploads \cup {"merged", "compressed", "other"}
Perhaps(S) == S \cup {None}

KeptPdfs == [pdf : Documents, stale : BOOLEAN]
Results == [of : Perhaps(Documents), name : Perhaps(Documents), run : Nat]
Works == [run : Nat, of : Perhaps(Documents), stage : {"analysing", "working"}]
Previews == [run : Nat, importing : BOOLEAN, before : Perhaps(Documents), after : Perhaps(Results)]

(* What the variables of the pages that work on one PDF hold.               *)
ToolTypeOK ==
    /\ tool \in {"merge", "compress", "split"}
    /\ store \in Perhaps(KeptPdfs) /\ held \in Perhaps(KeptPdfs)
    /\ taking \in {"get", "delete", "no"}
    /\ opens \in Seq(Documents)
    /\ fetching \in BOOLEAN /\ busy \in BOOLEAN /\ late \in BOOLEAN
    /\ source \in Perhaps(Documents) /\ named \in Perhaps(Documents)
    /\ analysis \in Perhaps(Documents)
    /\ works \in SUBSET Works /\ runs \in Nat
    /\ result \in Perhaps(Results)
    /\ previews \in SUBSET Previews
    /\ sent \in Perhaps(Documents) /\ other \in BOOLEAN
-----------------------------------------------------------------------------
(* What is kept is what this tab sent, as long as no other tab was there.   *)
Handing ==
    ~other => /\ store # None => store.pdf = sent
              /\ held # None => held.pdf = sent
              /\ taking = "no" /\ held # None => store = None

(* What the picker is to list.                                              *)
Wanted == IF search = None THEN trail ELSE search

(* The server answers in order: what was asked for last is what is wanted,  *)
(* unless that is still to be asked for.                                    *)
Browsing ==
    /\ trail \in DOMAIN InFolder /\ search \in Words \cup {None}
    /\ asked \in Seq(DOMAIN InFolder) /\ items \in DOMAIN InFolder \cup {None, "error"}
    /\ ~due /\ asked # <<>> => asked[Len(asked)] = Wanted
    /\ ~due /\ asked = <<>> /\ Lists(items) => items = Wanted

(* Unless a PDF was opened meanwhile, all work is on the PDF there is, and  *)
(* so are the analysis and the result.                                      *)
Working ==
    ~late => /\ \A w \in works : w.of = source /\ source # None /\ named # None
             /\ analysis # None => analysis = source
             /\ result # None => result.of = source /\ result.name = named /\ source # None

(* Every time the work is begun is another: no two results are the same.    *)
RunsApart ==
    /\ \A w \in works : w.run <= runs
    /\ \A v, w \in works : v.run = w.run => v = w
    /\ result # None => /\ result.run <= runs
                        /\ \A w \in works : w.run # result.run
    /\ \A p \in previews : p.after # None => /\ p.after.run <= runs
                                             /\ \A w \in works : w.run # p.after.run

(* The Compress page is busy with one thing at a time, and shows no preview *)
(* meanwhile; no other page has any.                                        *)
OneThing ==
    /\ tool = "compress" =>
           /\ fetching \/ works # {} => busy
           /\ ~(fetching /\ works # {})
           /\ \A v, w \in works : v = w
           /\ busy => preview = None
    /\ tool # "compress" => previews = {} /\ preview = None

(* A preview of the result there is opened the PDF there is with it.        *)
Previewing ==
    ~late => /\ \A p \in previews :
                    ~p.importing /\ p.after # None /\ p.after = result => p.before = source
             /\ preview # None => /\ preview = [before |-> source, after |-> result]
                                  /\ source # None /\ result # None

ToolInv == ToolTypeOK /\ Working /\ AnalysisIsOfDocument /\ RunsApart /\ OneThing /\ Previewing
-----------------------------------------------------------------------------
(* A sequence without one of its elements is one of the same things.        *)
LEMMA SeqWithout ==
    ASSUME NEW S, NEW s \in Seq(S), NEW i \in 1..Len(s)
    PROVE  RemoveAt(s, i) \in Seq(S)
BY DEF RemoveAt

(* A page with nothing on it yet holds what pages hold.                     *)
LEMMA NewPageTypes ==
    ASSUME ToolTypeOK, NewPage, tool' \in {"merge", "compress", "split"},
           store' \in Perhaps(KeptPdfs), sent' \in Perhaps(Documents), other' \in BOOLEAN
    PROVE  ToolTypeOK'
<1>1. opens' \in Seq(Documents)
    BY DEF NewPage
<1>4. fetching' \in BOOLEAN /\ busy' \in BOOLEAN /\ late' \in BOOLEAN
    BY Zenon DEF NewPage
<1>2. /\ source' \in Perhaps(Documents) /\ named' \in Perhaps(Documents)
      /\ analysis' \in Perhaps(Documents)
      /\ held' \in Perhaps(KeptPdfs) /\ result' \in Perhaps(Results)
    BY DEF NewPage, Perhaps
<1>3. /\ works' \in SUBSET Works /\ previews' \in SUBSET Previews
      /\ runs' \in Nat /\ taking' \in {"get", "delete", "no"}
    BY DEF NewPage
<1> QED
    BY <1>1, <1>2, <1>3, <1>4 DEF ToolTypeOK

LEMMA HandOnTypes ==
    ASSUME ToolTypeOK, NEW pdf \in Documents, NEW next \in {"compress", "split"}, HandOn(pdf, next)
    PROVE  ToolTypeOK'
<1>1. store' \in Perhaps(KeptPdfs) /\ sent' \in Perhaps(Documents)
    BY DEF HandOn, Kept, Perhaps, KeptPdfs
<1> QED
    BY <1>1, NewPageTypes DEF HandOn

(* Taking up what was handed on, opening, and discarding.                   *)
LEMMA OpenTypes ==
    ASSUME ToolTypeOK, UNCHANGED <<sent, other>>,
           TakeGet \/ TakeDelete \/ TakeFails \/ Pick \/ PickOneDrive \/ Fetched \/ Opened \/ NotOpened \/ Discard
    PROVE  ToolTypeOK'
<1>1. CASE TakeGet
    BY <1>1 DEF TakeGet, ToolTypeOK, openVars, workVars, previewVars, Perhaps
<1>2. CASE TakeDelete \/ TakeFails
    <2>1. held # None => held.pdf \in Documents
        BY DEF ToolTypeOK, Perhaps, KeptPdfs
    <2>2. opens' \in Seq(Documents)
        BY <1>2, <2>1 DEF TakeDelete, TakeFails, OpenHeld, openVars, ToolTypeOK
    <2>4. busy' \in BOOLEAN /\ late' \in BOOLEAN
        BY <1>2, Zenon DEF TakeDelete, TakeFails, OpenHeld, Reset, openVars, workVars, ToolTypeOK
    <2>3. /\ source' \in Perhaps(Documents) /\ named' \in Perhaps(Documents)
          /\ analysis' \in Perhaps(Documents) /\ result' \in Perhaps(Results)
          /\ store' \in Perhaps(KeptPdfs) /\ held' \in Perhaps(KeptPdfs)
        BY <1>2 DEF TakeDelete, TakeFails, OpenHeld, Reset, openVars, workVars, ToolTypeOK, Perhaps
    <2> QED
        BY <1>2, <2>2, <2>3, <2>4 DEF TakeDelete, TakeFails, openVars, workVars, previewVars, ToolTypeOK
<1>3. ASSUME NEW pdf \in Documents, BeginOpen(pdf)
      PROVE  /\ opens' \in Seq(Documents)
             /\ busy' \in BOOLEAN /\ late' \in BOOLEAN
             /\ source' = None /\ named' = None /\ analysis' = None /\ result' = None
    BY <1>3 DEF BeginOpen, Reset, ToolTypeOK
<1>4. Uploads \subseteq Documents
    BY DEF Documents
<1>5. CASE Pick
    BY <1>3, <1>4, <1>5 DEF Pick, takeVars, ToolTypeOK, Perhaps
<1>6. CASE PickOneDrive
    BY <1>6 DEF PickOneDrive, Reset, takeVars, ToolTypeOK, Perhaps
<1>7. CASE Fetched
    <2>1. PICK pdf \in Uploads \cup {None} :
              \/ pdf \in Uploads /\ BeginOpen(pdf)
              \/ busy' = FALSE /\ UNCHANGED <<opens, source, named, analysis, result, preview, late>>
        BY <1>7 DEF Fetched
    <2>2. /\ fetching' = FALSE
          /\ UNCHANGED <<tool, store, taking, held, works, runs, previews>>
        BY <1>7 DEF Fetched, takeVars
    <2> QED
        BY <1>3, <1>4, <2>1, <2>2 DEF ToolTypeOK, Perhaps
<1>8. CASE Opened
    <2>1. PICK i \in 1..Len(opens) : source' = opens[i] /\ named' = opens[i] /\ opens' = RemoveAt(opens, i)
        BY <1>8 DEF Opened
    <2>2. opens[i] \in Documents /\ opens' \in Seq(Documents)
        BY <2>1, SeqWithout DEF ToolTypeOK
    <2> QED
        BY <1>8, <2>1, <2>2 DEF Opened, OpenEnds, takeVars, previewVars, ToolTypeOK, Perhaps
<1>9. CASE NotOpened
    <2>1. PICK i \in 1..Len(opens) : opens' = RemoveAt(opens, i)
        BY <1>9 DEF NotOpened
    <2>2. opens' \in Seq(Documents)
        BY <2>1, SeqWithout DEF ToolTypeOK
    <2>3. source' \in Perhaps(Documents) /\ named' = named
        BY <1>9 DEF NotOpened, ToolTypeOK, Perhaps
    <2>4. busy' \in BOOLEAN /\ late' \in BOOLEAN
        BY <1>9, Zenon DEF NotOpened, OpenEnds, ToolTypeOK
    <2>5. UNCHANGED <<takeVars, fetching, works, analysis, result, runs, previewVars>>
        BY <1>9 DEF NotOpened, OpenEnds
    <2> QED
        BY <2>2, <2>3, <2>4, <2>5 DEF takeVars, previewVars, ToolTypeOK
<1>10. CASE Discard
    BY <1>10 DEF Discard, Reset, takeVars, ToolTypeOK, Perhaps
<1> QED
    BY <1>1, <1>2, <1>5, <1>6, <1>7, <1>8, <1>9, <1>10

(* The work and its previews.                                               *)
LEMMA WorkTypes ==
    ASSUME ToolTypeOK, UNCHANGED <<sent, other>>,
           Begin \/ Analysed \/ Done \/ Failed \/ ImportPreview \/ ShowPreview \/ NoPreview
    PROVE  ToolTypeOK'
<1>1. CASE Begin
    <2>1. [run |-> runs', of |-> source,
           stage |-> IF tool = "split" /\ analysis = None THEN "analysing" ELSE "working"] \in Works
        BY <1>1 DEF Begin, ToolTypeOK, Works
    <2> QED
        BY <1>1, <2>1 DEF Begin, takeVars, openVars, ToolTypeOK, Perhaps
<1>2. CASE Analysed
    <2>1. PICK w \in works :
              /\ analysis' = w.of
              /\ works' = (works \ {w}) \cup {[w EXCEPT !.of = source, !.stage = "working"]}
        BY <1>2 DEF Analysed
    <2>2. w.of \in Perhaps(Documents) /\ [w EXCEPT !.of = source, !.stage = "working"] \in Works
        BY DEF ToolTypeOK, Works
    <2> QED
        BY <1>2, <2>1, <2>2 DEF Analysed, takeVars, openVars, previewVars, ToolTypeOK
<1>3. CASE Done
    <2>1. PICK w \in works :
              /\ result' = [of |-> w.of, name |-> named, run |-> w.run]
              /\ works' = works \ {w}
              /\ \/ UNCHANGED previews
                 \/ previews' = previews \cup {[run |-> w.run, importing |-> TRUE, before |-> None, after |-> None]}
        BY <1>3 DEF Done
    <2>2. result' \in Results
        BY <2>1 DEF ToolTypeOK, Works, Results
    <2>3. [run |-> w.run, importing |-> TRUE, before |-> None, after |-> None] \in Previews
        BY DEF ToolTypeOK, Works, Previews, Perhaps
    <2> QED
        BY <1>3, <2>1, <2>2, <2>3 DEF Done, takeVars, openVars, ToolTypeOK, Perhaps
<1>4. CASE Failed
    <2>1. PICK w \in works :
              /\ works' = works \ {w}
              /\ \/ UNCHANGED result
                 \/ result' = [of |-> w.of, name |-> None, run |-> w.run]
        BY <1>4 DEF Failed
    <2>2. result' \in Perhaps(Results)
        BY <2>1 DEF ToolTypeOK, Works, Results, Perhaps
    <2> QED
        BY <1>4, <2>1, <2>2 DEF Failed, takeVars, openVars, previewVars, ToolTypeOK
<1>5. CASE ImportPreview
    <2>1. PICK p \in previews :
              previews' = (previews \ {p}) \cup {[p EXCEPT !.importing = FALSE, !.before = source, !.after = result]}
        BY <1>5 DEF ImportPreview
    <2>2. [p EXCEPT !.importing = FALSE, !.before = source, !.after = result] \in Previews
        BY DEF ToolTypeOK, Previews
    <2> QED
        BY <1>5, <2>1, <2>2 DEF ImportPreview, takeVars, openVars, workVars, ToolTypeOK
<1>6. CASE ShowPreview
    BY <1>6 DEF ShowPreview, takeVars, openVars, workVars, ToolTypeOK
<1>7. CASE NoPreview
    BY <1>7 DEF NoPreview, takeVars, openVars, workVars, ToolTypeOK
<1> QED
    BY <1>1, <1>2, <1>3, <1>4, <1>5, <1>6, <1>7

LEMMA StepTypes ==
    ASSUME ToolTypeOK, [Next]_vars
    PROVE  ToolTypeOK'
<1>1. CASE UNCHANGED vars \/ (MergeNext /\ UNCHANGED <<toolVars, sent, other>>)
    BY <1>1 DEF vars, toolVars, takeVars, openVars, workVars, previewVars, ToolTypeOK
<1>2. CASE ToolNext /\ UNCHANGED <<mergeVars, sent, other>>
    BY <1>2, OpenTypes, WorkTypes DEF ToolNext, ToolStep
<1>3. CASE HandOnMerged \/ HandOnCompressed
    BY <1>3, HandOnTypes DEF HandOnMerged, HandOnCompressed, Documents
<1>4. CASE Reload
    BY <1>4, NewPageTypes DEF Reload, ToolTypeOK
<1>5. CASE OtherTab
    <2>1. Kept("other") \in KeptPdfs
        BY DEF Kept, KeptPdfs, Documents
    <2>2. store' \in Perhaps(KeptPdfs)
        BY <1>5, <2>1 DEF OtherTab, Perhaps
    <2> QED
        BY <1>5, <2>2 DEF OtherTab, openVars, workVars, previewVars, ToolTypeOK
<1>6. CASE HourPasses
    <2>1. store' \in Perhaps(KeptPdfs)
        BY <1>6 DEF HourPasses, ToolTypeOK, KeptPdfs, Perhaps
    <2> QED
        BY <1>6, <2>1 DEF HourPasses, openVars, workVars, previewVars, ToolTypeOK
<1> QED
    BY <1>1, <1>2, <1>3, <1>4, <1>5, <1>6 DEF Next

(* The variables of the Compress and Split pages, and what is kept between  *)
(* the pages, hold what they are to hold.                                   *)
THEOREM ToolTypes == Spec => []ToolTypeOK
<1>1. Init => ToolTypeOK
    <2> SUFFICES ASSUME Init PROVE ToolTypeOK
        OBVIOUS
    <2>1. opens \in Seq(Documents)
        BY DEF Init, ToolInit
    <2>4. fetching \in BOOLEAN /\ busy \in BOOLEAN /\ late \in BOOLEAN /\ other \in BOOLEAN
        BY Zenon DEF Init, ToolInit
    <2>2. /\ source \in Perhaps(Documents) /\ named \in Perhaps(Documents)
          /\ analysis \in Perhaps(Documents) /\ sent \in Perhaps(Documents)
          /\ store \in Perhaps(KeptPdfs) /\ held \in Perhaps(KeptPdfs) /\ result \in Perhaps(Results)
        BY DEF Init, ToolInit, Perhaps
    <2>3. /\ works \in SUBSET Works /\ previews \in SUBSET Previews
          /\ runs \in Nat /\ taking \in {"get", "delete", "no"}
        BY DEF Init, ToolInit
    <2> QED
        BY <2>1, <2>2, <2>3, <2>4 DEF Init, ToolTypeOK
<1> QED
    BY <1>1, StepTypes, PTL DEF Spec
-----------------------------------------------------------------------------
LEMMA StepHanding ==
    ASSUME ToolTypeOK, Handing, [Next]_vars
    PROVE  Handing'
<1>1. CASE UNCHANGED <<store, held, taking, sent, other>>
    BY <1>1 DEF Handing
<1>2. CASE TakeGet /\ UNCHANGED <<sent, other>>
    BY <1>2 DEF TakeGet, Handing
<1>3. CASE (TakeDelete \/ TakeFails) /\ UNCHANGED <<sent, other>>
    BY <1>3 DEF TakeDelete, TakeFails, Handing
<1>4. CASE HandOnMerged \/ HandOnCompressed
    <2>1. PICK pdf, next : HandOn(pdf, next)
        BY <1>4 DEF HandOnMerged, HandOnCompressed
    <2> QED
        BY <2>1 DEF HandOn, NewPage, Kept, Handing
<1>5. CASE Reload
    BY <1>5 DEF Reload, NewPage, Handing
<1>6. CASE OtherTab
    BY <1>6 DEF OtherTab, Handing
<1>7. CASE HourPasses
    <2>1. store'.pdf = store.pdf /\ store # None
        BY <1>7 DEF HourPasses, ToolTypeOK, KeptPdfs, Perhaps
    <2> QED
        BY <1>7, <2>1 DEF HourPasses, Handing
<1>8. CASE ToolNext /\ UNCHANGED <<sent, other>>
    <2>1. TakeGet \/ TakeDelete \/ TakeFails \/ UNCHANGED <<store, held, taking>>
        BY <1>8 DEF ToolNext, ToolStep, takeVars, Fetched, Opened, NotOpened, OpenEnds, Analysed,
              Done, Failed, Pick, PickOneDrive, Discard, Begin, ImportPreview, ShowPreview, NoPreview
    <2> QED
        BY <2>1, <1>1, <1>2, <1>3, <1>8
<1> QED
    BY <1>1, <1>4, <1>5, <1>6, <1>7, <1>8 DEF Next, vars, toolVars, takeVars

(* A PDF handed on from tool to tool is the one made, as long as no other   *)
(* tab of the browser used the same place; and it is taken out of it.       *)
THEOREM HandedOn == Spec => []HandedIsWhatWasSent
<1>1. Init => Handing
    BY DEF Init, ToolInit, Handing
<1>2. Handing => HandedIsWhatWasSent
    BY DEF Handing, HandedIsWhatWasSent
<1> QED
    BY <1>1, <1>2, ToolTypes, StepHanding, PTL DEF Spec
-----------------------------------------------------------------------------
LEMMA AskedWanted ==
    ASSUME Browsing, NEW list \in DOMAIN InFolder, Ask(list),
           trail' \in DOMAIN InFolder, search' \in Words \cup {None}, ~due' => list = Wanted'
    PROVE  Browsing'
<1>1. asked' = Append(asked, list) /\ items' \in {items, None}
    BY DEF Ask
<1>2. /\ asked' \in Seq(DOMAIN InFolder)
      /\ Len(asked') = Len(asked) + 1 /\ asked'[Len(asked')] = list
    BY <1>1 DEF Browsing
<1>3. asked' # <<>>
    BY <1>1 DEF Browsing
<1> QED
    BY <1>1, <1>2, <1>3 DEF Browsing

LEMMA StepBrowsing ==
    ASSUME Browsing, [Next]_vars
    PROVE  Browsing'
<1>1. CASE UNCHANGED <<asked, items, trail, search, due>>
    BY <1>1 DEF Browsing, Wanted, Lists
<1>2. ASSUME NEW folder \in DOMAIN InFolder, GoTo(folder)
      PROVE  Browsing'
    <2>1. Ask(folder) /\ trail' = folder /\ search' = None
        BY <1>2 DEF GoTo
    <2> QED
        BY <2>1, AskedWanted DEF Wanted
<1>3. CASE Listed
    <2>1. asked # <<>> /\ items' \in {Head(asked), "error"} /\ asked' = Tail(asked) /\ UNCHANGED <<trail, search, due>>
        BY <1>3 DEF Listed
    <2>2. /\ asked' \in Seq(DOMAIN InFolder) /\ Len(asked') = Len(asked) - 1
          /\ Head(asked) \in DOMAIN InFolder /\ Head(asked) = asked[1]
        BY <2>1 DEF Browsing
    <2>3. CASE asked' = <<>>
        <3> Len(asked') = 0
            BY <2>3
        <3>1. Len(asked) = 1
            BY <2>2 DEF Browsing
        <3>2. ~due => Head(asked) = Wanted
            BY <2>1, <2>2, <3>1 DEF Browsing
        <3> QED
            BY <2>1, <2>2, <2>3, <3>2 DEF Browsing, Wanted, Lists
    <2>4. CASE asked' # <<>>
        <3>1. asked'[Len(asked')] = asked[Len(asked)]
            BY <2>1, <2>2, <2>4 DEF Browsing
        <3> QED
            BY <2>1, <2>2, <2>4, <3>1 DEF Browsing, Wanted
    <2> QED
        BY <2>3, <2>4
<1>4. CASE Type
    BY <1>4 DEF Type, Browsing
<1>5. CASE Find
    <2>1. PICK list : list = Wanted
        OBVIOUS
    <2>2. Ask(list) /\ UNCHANGED <<trail, search>>
        BY <1>5, <2>1 DEF Find, Wanted
    <2>3. trail \in DOMAIN InFolder /\ search \in Words \cup {None} /\ list \in DOMAIN InFolder
        BY <2>1, MergeAssumption DEF Browsing, Wanted
    <2>4. Wanted' = Wanted
        BY <2>2 DEF Wanted
    <2> QED
        BY <2>1, <2>2, <2>3, <2>4, AskedWanted
<1>6. CASE MergeNext
    <2>1. \/ UNCHANGED <<asked, items, trail, search, due>>
          \/ \E folder \in DOMAIN InFolder : GoTo(folder)
          \/ Type \/ Find \/ Listed
        BY <1>6, MergeAssumption
           DEF MergeNext, MergeStep, pickerVars, PickFile, TakeOut, Reorder, Clear, OpenPicker, Browse,
               PickListed, ClosePicker, Merge, Fetch, AddPages, SaveMerged, StopMerge, CancelMerge
    <2> QED
        BY <2>1, <1>1, <1>2, <1>3, <1>4, <1>5
<1>7. CASE HandOnMerged
    BY <1>7, MergeAssumption DEF HandOnMerged, Browsing, Lists
<1> QED
    BY <1>1, <1>6, <1>7 DEF Next, vars, mergeVars, pickerVars, HandOnCompressed, Reload, OtherTab, HourPasses

LEMMA AlwaysBrowsing == Spec => []Browsing
<1>1. Init => Browsing
    BY MergeAssumption DEF Init, MergeInit, Browsing, Lists
<1> QED
    BY <1>1, StepBrowsing, PTL DEF Spec

(* onedrive-picker.js: however many folders were gone to and words searched *)
(* before the first was answered, and whatever was typed between, the PDFs  *)
(* listed in the end, once the box's last change is asked for, are of the   *)
(* folder shown as open or the words in the box.                            *)
THEOREM FolderShown == Spec => []ListsWhatIsOpen
<1>1. Browsing => ListsWhatIsOpen
    BY DEF Browsing, Wanted, ListsWhatIsOpen
<1> QED
    BY <1>1, AlwaysBrowsing, PTL
-----------------------------------------------------------------------------
LEMMA NewPageInv ==
    ASSUME NewPage
    PROVE  Working' /\ AnalysisIsOfDocument' /\ RunsApart' /\ OneThing' /\ Previewing'
BY DEF NewPage, Working, AnalysisIsOfDocument, RunsApart, OneThing, Previewing

(* Everything about the last PDF forgotten, and no work under way: nothing  *)
(* there is to go wrong.                                                    *)
LEMMA ResetInv ==
    ASSUME ToolInv, Reset, UNCHANGED <<tool, works, runs, previews>>
    PROVE  /\ Working' /\ AnalysisIsOfDocument' /\ RunsApart' /\ Previewing'
           /\ tool # "compress" => previews' = {} /\ preview' = None
<1>1. Working'
    BY DEF Reset, Working
<1>2. AnalysisIsOfDocument'
    BY DEF Reset, AnalysisIsOfDocument
<1>3. RunsApart'
    BY DEF ToolInv, Reset, RunsApart
<1>4. Previewing'
    BY DEF Reset, Previewing
<1> QED
    BY <1>1, <1>2, <1>3, <1>4 DEF ToolInv, OneThing, Reset

(* Opened, or not: what is there then is as before, unless a PDF, or work,  *)
(* was there, which makes it late.                                          *)
LEMMA OpenedInv ==
    ASSUME ToolInv, Opened \/ NotOpened
    PROVE  Working' /\ AnalysisIsOfDocument' /\ RunsApart' /\ OneThing' /\ Previewing'
<1>1. /\ busy' = IF tool = "split" THEN FALSE ELSE busy
      /\ late' = (late \/ works # {} \/ source # None)
      /\ UNCHANGED <<tool, fetching, works, analysis, result, runs, previews, preview>>
    BY DEF Opened, NotOpened, OpenEnds, takeVars, previewVars
<1>2. ~late' => ~late /\ works = {} /\ source = None
    BY <1>1
<1>3. Working'
    BY <1>1, <1>2 DEF ToolInv, Working
<1>4. AnalysisIsOfDocument'
    BY <1>1, <1>2 DEF AnalysisIsOfDocument
<1>5. RunsApart'
    BY <1>1 DEF ToolInv, RunsApart
<1>6. OneThing'
    BY <1>1 DEF ToolInv, OneThing
<1>7. Previewing'
    BY <1>1, <1>2 DEF ToolInv, Working, Previewing
<1> QED
    BY <1>3, <1>4, <1>5, <1>6, <1>7

LEMMA PagesInv ==
    ASSUME ToolInv,
           TakeGet \/ TakeDelete \/ TakeFails \/ Pick \/ PickOneDrive \/ Fetched \/ Discard
    PROVE  Working' /\ AnalysisIsOfDocument' /\ RunsApart' /\ OneThing' /\ Previewing'
<1>1. ASSUME UNCHANGED <<tool, fetching, source, named, busy, works, analysis, result, runs, late,
                         previews, preview>>
      PROVE  Working' /\ AnalysisIsOfDocument' /\ RunsApart' /\ OneThing' /\ Previewing'
    BY <1>1 DEF ToolInv, Working, AnalysisIsOfDocument, RunsApart, OneThing, Previewing
<1>2. CASE TakeGet \/ TakeFails
    BY <1>1, <1>2 DEF TakeGet, TakeFails, openVars, workVars, previewVars
<1>3. CASE TakeDelete
    <2>1. \/ UNCHANGED <<source, named, busy, analysis, result, late, preview>>
          \/ Reset /\ busy' = (busy \/ tool = "split")
        BY <1>3 DEF TakeDelete, OpenHeld
    <2>2. UNCHANGED <<tool, fetching, works, runs, previews>>
        BY <1>3 DEF TakeDelete
    <2>3. CASE UNCHANGED <<source, named, busy, analysis, result, late, preview>>
        BY <1>1, <2>2, <2>3
    <2>4. CASE Reset /\ busy' = (busy \/ tool = "split")
        <3>1. OneThing'
            BY <2>2, <2>4 DEF ToolInv, OneThing, Reset
        <3> QED
            BY <2>2, <2>4, <3>1, ResetInv
    <2> QED
        BY <2>1, <2>3, <2>4
<1>4. CASE Pick
    <2>1. Reset /\ busy' = (tool = "split") /\ ~busy /\ UNCHANGED <<tool, fetching, works, runs, previews>>
        BY <1>4 DEF Pick, BeginOpen, takeVars
    <2>2. OneThing'
        BY <2>1 DEF ToolInv, OneThing, Reset
    <2> QED
        BY <2>1, <2>2, ResetInv
<1>5. CASE PickOneDrive
    <2>1. Reset /\ ~busy /\ UNCHANGED <<tool, works, runs, previews>>
        BY <1>5 DEF PickOneDrive, takeVars
    <2>2. OneThing'
        BY <1>5, <2>1 DEF PickOneDrive, ToolInv, OneThing, Reset
    <2> QED
        BY <2>1, <2>2, ResetInv
<1>6. CASE Fetched
    <2>1. /\ fetching /\ fetching' = FALSE
          /\ UNCHANGED <<tool, works, runs, previews>>
        BY <1>6 DEF Fetched, takeVars
    <2>2. \/ Reset /\ busy' = (tool = "split")
          \/ busy' = FALSE /\ UNCHANGED <<source, named, analysis, result, preview, late>>
        BY <1>6 DEF Fetched, BeginOpen
    <2>3. OneThing'
        BY <2>1, <2>2 DEF ToolInv, OneThing, Reset
    <2>4. CASE Reset /\ busy' = (tool = "split")
        BY <2>1, <2>3, <2>4, ResetInv
    <2>5. CASE busy' = FALSE /\ UNCHANGED <<source, named, analysis, result, preview, late>>
        BY <2>1, <2>3, <2>5 DEF ToolInv, Working, AnalysisIsOfDocument, RunsApart, Previewing
    <2> QED
        BY <2>2, <2>4, <2>5
<1>7. CASE Discard
    <2>1. Reset /\ UNCHANGED <<tool, fetching, busy, works, runs, previews>>
        BY <1>7 DEF Discard, takeVars
    <2>2. OneThing'
        BY <2>1 DEF ToolInv, OneThing, Reset
    <2> QED
        BY <2>1, <2>2, ResetInv
<1> QED
    BY <1>2, <1>3, <1>4, <1>5, <1>6, <1>7

(* Begun on the PDF there is, with a number of its own.                     *)
LEMMA BegunInv ==
    ASSUME ToolInv, Begin
    PROVE  Working' /\ AnalysisIsOfDocument' /\ RunsApart' /\ OneThing' /\ Previewing'
<1>1. PICK stage \in {"analysing", "working"} :
          /\ works' = works \cup {[run |-> runs', of |-> source, stage |-> stage]}
          /\ tool = "split" /\ stage = "working" => analysis # None
    BY DEF Begin
<1>2. /\ ~busy /\ busy' = TRUE /\ named # None /\ source # None /\ runs' = runs + 1
      /\ preview' = None /\ result' = None
      /\ UNCHANGED <<tool, fetching, source, named, analysis, late, previews>>
    BY DEF Begin, takeVars, openVars
<1>3. Working'
    BY <1>1, <1>2 DEF ToolInv, Working
<1>4. AnalysisIsOfDocument'
    BY <1>1, <1>2 DEF ToolInv, Working, AnalysisIsOfDocument
<1>5. RunsApart'
    <2>1. runs \in Nat /\ \A w \in works : w.run \in Nat /\ w.run <= runs
        BY DEF ToolInv, ToolTypeOK, Works, RunsApart
    <2>2. \A p \in previews : p.after # None => p.after.run \in Nat /\ p.after.run <= runs
        BY DEF ToolInv, ToolTypeOK, Previews, Results, Perhaps, RunsApart
    <2>3. \A w \in works' : w \in works \/ w.run = runs'
        BY <1>1
    <2>4. \A w \in works' : w.run <= runs'
        BY <1>2, <2>1, <2>3
    <2>5. \A v, w \in works' : v.run = w.run => v = w
        <3> SUFFICES ASSUME NEW v \in works', NEW w \in works', v.run = w.run PROVE v = w
            OBVIOUS
        <3>1. CASE v \in works /\ w \in works
            BY <3>1 DEF ToolInv, RunsApart
        <3>2. CASE v \notin works \/ w \notin works
            <4>1. v \notin works /\ w \notin works
                BY <1>2, <2>1, <2>3, <3>2
            <4> QED
                BY <1>1, <4>1
        <3> QED
            BY <3>1, <3>2
    <2>6. \A p \in previews' : p.after # None =>
              p.after.run <= runs' /\ \A w \in works' : w.run # p.after.run
        <3> SUFFICES ASSUME NEW p \in previews, p.after # None
                     PROVE  p.after.run <= runs' /\ \A w \in works' : w.run # p.after.run
            BY <1>2
        <3>1. p.after.run \in Nat /\ p.after.run <= runs /\ \A w \in works : w.run # p.after.run
            BY <2>2 DEF ToolInv, RunsApart
        <3> QED
            BY <1>2, <2>1, <2>3, <3>1
    <2> QED
        BY <1>2, <2>4, <2>5, <2>6 DEF RunsApart
<1>6. OneThing'
    <2>1. tool = "compress" => works = {} /\ ~fetching
        BY <1>2 DEF ToolInv, OneThing
    <2> QED
        BY <1>1, <1>2, <2>1 DEF ToolInv, OneThing
<1>7. Previewing'
    BY <1>2 DEF ToolInv, Previewing
<1> QED
    BY <1>3, <1>4, <1>5, <1>6, <1>7

LEMMA AnalysedInv ==
    ASSUME ToolInv, Analysed
    PROVE  Working' /\ AnalysisIsOfDocument' /\ RunsApart' /\ OneThing' /\ Previewing'
<1>1. PICK w \in works :
          /\ analysis' = w.of
          /\ works' = (works \ {w}) \cup {[w EXCEPT !.of = source, !.stage = "working"]}
    BY DEF Analysed
<1>2. PICK v : v = [w EXCEPT !.of = source, !.stage = "working"]
    OBVIOUS
<1>3. v.of = source /\ v.run = w.run /\ works' = (works \ {w}) \cup {v}
    BY <1>1, <1>2 DEF ToolInv, ToolTypeOK, Works
<1>4. UNCHANGED <<tool, fetching, source, named, busy, result, runs, late, previews, preview>>
    BY DEF Analysed, takeVars, openVars, previewVars
<1>5. Working'
    BY <1>1, <1>3, <1>4 DEF ToolInv, Working
<1>6. AnalysisIsOfDocument'
    BY <1>1, <1>3, <1>4 DEF ToolInv, Working, AnalysisIsOfDocument
<1>7. RunsApart'
    BY <1>3, <1>4 DEF ToolInv, RunsApart
<1>8. OneThing'
    BY <1>3, <1>4 DEF ToolInv, OneThing
<1>9. Previewing'
    BY <1>4 DEF ToolInv, Previewing
<1> QED
    BY <1>5, <1>6, <1>7, <1>8, <1>9

(* Done, or failed with something made: a result no preview has seen.       *)
LEMMA EndedInv ==
    ASSUME ToolInv, Done \/ Failed
    PROVE  Working' /\ AnalysisIsOfDocument' /\ RunsApart' /\ OneThing' /\ Previewing'
<1>1. PICK w \in works :
          /\ works' = works \ {w}
          /\ \/ UNCHANGED result
             \/ /\ result' = [of |-> w.of, name |-> named, run |-> w.run]
                /\ w.of # None \/ named = None
          /\ \/ UNCHANGED previews
             \/ /\ tool = "compress"
                /\ previews' = previews \cup {[run |-> w.run, importing |-> TRUE, before |-> None, after |-> None]}
    BY DEF Done, Failed, previewVars
<1>2. busy' = FALSE /\ UNCHANGED <<tool, fetching, source, named, analysis, runs, late, preview>>
    BY DEF Done, Failed, takeVars, openVars, previewVars
<1>3. \A p \in previews' : p \in previews \/ (p.importing /\ p.after = None)
    BY <1>1
<1>4. result' # result => result'.of = w.of /\ result'.name = named /\ result'.run = w.run
    BY <1>1
<1>5. Working'
    BY <1>1, <1>2, <1>4 DEF ToolInv, Working
<1>6. AnalysisIsOfDocument'
    BY <1>1, <1>2 DEF ToolInv, AnalysisIsOfDocument
<1>7. RunsApart'
    BY <1>1, <1>2, <1>3, <1>4 DEF ToolInv, RunsApart
<1>8. OneThing'
    BY <1>1, <1>2 DEF ToolInv, OneThing
<1>9. Previewing'
    <2>1. \A p \in previews' : ~late' /\ ~p.importing /\ p.after # None /\ p.after = result' => p.before = source'
        <3> SUFFICES ASSUME NEW p \in previews', ~late', ~p.importing, p.after # None, p.after = result'
                     PROVE  p.before = source'
            OBVIOUS
        <3>1. p \in previews
            BY <1>3
        <3>2. p.after.run # w.run
            BY <3>1 DEF ToolInv, RunsApart
        <3>3. result' = result
            BY <1>4, <3>2
        <3> QED
            BY <1>2, <3>1, <3>3 DEF ToolInv, Previewing
    <2>2. ~late => preview' = None \/ result' = result
        BY <1>2, <1>1 DEF ToolInv, OneThing
    <2> QED
        BY <1>2, <2>1, <2>2 DEF ToolInv, Previewing
<1> QED
    BY <1>5, <1>6, <1>7, <1>8, <1>9

LEMMA PreviewInv ==
    ASSUME ToolInv, ImportPreview \/ ShowPreview \/ NoPreview
    PROVE  Working' /\ AnalysisIsOfDocument' /\ RunsApart' /\ OneThing' /\ Previewing'
<1>1. UNCHANGED <<tool, fetching, source, named, busy, works, analysis, result, runs, late>>
    BY DEF ImportPreview, ShowPreview, NoPreview, takeVars, openVars, workVars
<1>2. Working' /\ AnalysisIsOfDocument'
    BY <1>1 DEF ToolInv, Working, AnalysisIsOfDocument
<1>3. CASE ImportPreview
    <2>1. PICK p \in previews :
              previews' = (previews \ {p}) \cup {[p EXCEPT !.importing = FALSE, !.before = source, !.after = result]}
        BY <1>3 DEF ImportPreview
    <2>2. PICK q : q = [p EXCEPT !.importing = FALSE, !.before = source, !.after = result]
        OBVIOUS
    <2>3. q.before = source /\ q.after = result /\ previews' = (previews \ {p}) \cup {q}
        BY <2>1, <2>2 DEF ToolInv, ToolTypeOK, Previews
    <2>4. preview' = preview
        BY <1>3 DEF ImportPreview
    <2>5. RunsApart'
        BY <1>1, <2>3 DEF ToolInv, RunsApart
    <2>6. OneThing'
        BY <1>1, <2>3, <2>4 DEF ToolInv, OneThing
    <2>7. Previewing'
        BY <1>1, <2>3, <2>4 DEF ToolInv, Previewing
    <2> QED
        BY <1>2, <2>5, <2>6, <2>7
<1>4. CASE ShowPreview \/ NoPreview
    <2>1. PICK p \in previews :
              /\ previews' = previews \ {p}
              /\ \/ preview' = preview
                 \/ preview' = None
                 \/ /\ preview' = [before |-> p.before, after |-> p.after]
                    /\ ~busy /\ ~p.importing /\ p.before # None /\ p.after # None /\ p.after = result
        BY <1>4 DEF ShowPreview, NoPreview
    <2>2. RunsApart'
        BY <1>1, <2>1 DEF ToolInv, RunsApart
    <2>3. OneThing'
        BY <1>1, <2>1 DEF ToolInv, OneThing
    <2>4. Previewing'
        BY <1>1, <2>1 DEF ToolInv, Previewing
    <2> QED
        BY <1>2, <2>2, <2>3, <2>4
<1> QED
    BY <1>3, <1>4

LEMMA StepTool ==
    ASSUME ToolInv, [Next]_vars
    PROVE  ToolInv'
<1>1. ToolTypeOK'
    BY StepTypes DEF ToolInv
<1>2. CASE UNCHANGED vars \/ (MergeNext /\ UNCHANGED <<toolVars, sent, other>>) \/ OtherTab \/ HourPasses
    <2>1. UNCHANGED <<tool, fetching, source, named, busy, works, analysis, result, runs, late, previews, preview>>
        BY <1>2 DEF vars, toolVars, takeVars, openVars, workVars, previewVars, OtherTab, HourPasses
    <2>2. Working' /\ RunsApart' /\ OneThing' /\ Previewing'
        BY <2>1 DEF ToolInv, Working, RunsApart, OneThing, Previewing
    <2>3. AnalysisIsOfDocument'
        BY <2>1 DEF ToolInv, AnalysisIsOfDocument
    <2> QED
        BY <1>1, <2>2, <2>3 DEF ToolInv
<1>3. CASE ToolNext
    BY <1>1, <1>3, OpenedInv, PagesInv, BegunInv, AnalysedInv, EndedInv, PreviewInv DEF ToolNext, ToolStep, ToolInv
<1>4. CASE HandOnMerged \/ HandOnCompressed \/ Reload
    BY <1>1, <1>4, NewPageInv DEF HandOnMerged, HandOnCompressed, HandOn, Reload, ToolInv
<1> QED
    BY <1>2, <1>3, <1>4 DEF Next

(* What a page offers belongs to what is open on it, in whatever order the  *)
(* answers of OneDrive, of pdf.js and of the work come: the PDFs listed to  *)
(* the folder, the result, what is split and the preview to the PDF.        *)
THEOREM NothingStale == Spec => []NothingStaleShown
<1>1. Init => Working /\ AnalysisIsOfDocument /\ RunsApart /\ OneThing /\ Previewing
    BY DEF Init, ToolInit, Working, AnalysisIsOfDocument, RunsApart, OneThing, Previewing
<1>2. Init /\ ToolTypeOK => ToolInv
    BY <1>1 DEF ToolInv
<1>3. ToolInv /\ ListsWhatIsOpen => NothingStaleShown
    BY DEF ToolInv, Working, AnalysisIsOfDocument, Previewing, NothingStaleShown, ResultIsOfFile, PreviewIsOfResult
<1>4. Spec => []ToolInv
    BY <1>2, StepTool, ToolTypes, PTL DEF Spec
<1> QED
    BY <1>3, <1>4, FolderShown, PTL
-----------------------------------------------------------------------------
(* A set of naturals has a least element.                                   *)
LEMMA LeastNatural ==
    ASSUME NEW T \in SUBSET Nat, T # {}
    PROVE  \E n \in T : \A m \in T : n <= m
<1> DEFINE S == {0 .. n : n \in T}
<1>1. S \subseteq FiniteSubsetsOf(Nat) /\ S # {}
    <2>1. \A n \in T : 0 .. n \in SUBSET Nat /\ IsFiniteSet(0 .. n)
        BY FS_Interval
    <2> QED
        BY <2>1 DEF FiniteSubsetsOf
<1>2. PICK s \in S : \A t \in S : ~(<<t, s>> \in StrictSubsetOrdering(Nat))
    BY <1>1, FS_StrictSubsetOrderingWellFounded, WFMin
<1>3. PICK n \in T : s = 0 .. n
    BY <1>2
<1> SUFFICES ASSUME NEW m \in T, m < n PROVE FALSE
    BY <1>3
<1>4. 0 .. m \in S /\ 0 .. m \subseteq s /\ 0 .. m # s
    BY <1>3
<1>5. <<0 .. m, s>> \in StrictSubsetOrdering(Nat)
    BY <1>3, <1>4 DEF StrictSubsetOrdering
<1> QED
    BY <1>2, <1>4, <1>5

(* Induction over the naturals, as what belongs to a set.                   *)
LEMMA UpFromZero ==
    ASSUME NEW S, 0 \in S, \A n \in Nat : n \in S => n + 1 \in S
    PROVE  Nat \subseteq S
<1> SUFFICES ASSUME Nat \ S # {} PROVE FALSE
    OBVIOUS
<1>1. PICK n \in Nat \ S : \A m \in Nat \ S : n <= m
    BY LeastNatural
<1>2. n # 0 /\ n - 1 \in Nat /\ n - 1 \in S
    BY <1>1
<1> QED
    BY <1>1, <1>2
-----------------------------------------------------------------------------
(* Values made one after the other, each of its number and the one before.  *)
StepsFrom(a, F, w) == w[0] = a /\ \A n \in Nat : w[n + 1] = F[n + 1][w[n]]

LEMMA StepByStep ==
    ASSUME NEW S, NEW a \in S, NEW F \in [Nat -> [S -> S]]
    PROVE  \E w \in [Nat -> S] : StepsFrom(a, F, w)
<1> DEFINE Upto(n) == {v \in [Nat -> S] : v[0] = a /\ \A i \in 1..n : v[i] = F[i][v[i - 1]]}
           Some == {n \in Nat : Upto(n) # {}}
           Alone == {n \in Nat : \A u, v \in Upto(n) : u[n] = v[n]}
<1>1. 0 \in Some
    <2>1. [i \in Nat |-> a] \in Upto(0)
        OBVIOUS
    <2> QED
        BY <2>1
<1>2. ASSUME NEW n \in Nat, n \in Some PROVE n + 1 \in Some
    <2>1. PICK v \in Upto(n) : TRUE
        BY <1>2
    <2>2. PICK u : u = [i \in Nat |-> IF i = n + 1 THEN F[n + 1][v[n]] ELSE v[i]]
        OBVIOUS
    <2>3. u \in [Nat -> S] /\ u[0] = a
        BY <2>1, <2>2
    <2>4. \A i \in 1..(n + 1) : u[i] = F[i][u[i - 1]]
        BY <2>1, <2>2
    <2> QED
        BY <2>3, <2>4
<1>3. Nat \subseteq Some
    <2> HIDE DEF Some
    <2> QED
        BY <1>1, <1>2, UpFromZero
<1>4. \A n \in Nat : Upto(n + 1) \subseteq Upto(n)
    OBVIOUS
<1>5. 0 \in Alone
    OBVIOUS
<1>6. ASSUME NEW n \in Nat, n \in Alone PROVE n + 1 \in Alone
    <2> SUFFICES ASSUME NEW u \in Upto(n + 1), NEW v \in Upto(n + 1)
                 PROVE  u[n + 1] = v[n + 1]
        OBVIOUS
    <2>1. u[n] = v[n]
        BY <1>4, <1>6
    <2>2. u[n + 1] = F[n + 1][u[n]] /\ v[n + 1] = F[n + 1][v[n]]
        OBVIOUS
    <2> QED
        BY <2>1, <2>2
<1>7. Nat \subseteq Alone
    <2> HIDE DEF Alone
    <2> QED
        BY <1>5, <1>6, UpFromZero
<1>8. PICK c : c = [n \in Nat |-> CHOOSE v : v \in Upto(n)]
    OBVIOUS
<1>9. \A n \in Nat : c[n] \in Upto(n)
    BY <1>3, <1>8
<1>10. PICK w : w = [n \in Nat |-> c[n][n]]
    OBVIOUS
<1>11. w \in [Nat -> S] /\ w[0] = a
    BY <1>9, <1>10
<1>12. ASSUME NEW n \in Nat PROVE w[n + 1] = F[n + 1][w[n]]
    <2>1. c[n + 1] \in Upto(n)
        BY <1>4, <1>9
    <2>2. c[n + 1][n] = c[n][n]
        BY <1>7, <1>9, <2>1
    <2>3. c[n + 1][n + 1] = F[n + 1][c[n + 1][n]]
        BY <1>9
    <2> QED
        BY <1>10, <2>2, <2>3
<1> QED
    BY <1>11, <1>12 DEF StepsFrom

(* What FlattenSeq makes of the first of some sequences, one after the other. *)
Flattens(s, N, w) ==
    /\ Len(w[0]) = 0 /\ \A n \in 0..(N - 1) : w[n + 1] = w[n] \o s[n + 1]
    /\ \A n \in 0..N : \A t : t = [i \in 1..n |-> s[i]] => FlattenSeq(t) = w[n]

LEMMA Flattened ==
    ASSUME NEW S, NEW N \in Nat, NEW s, \A i \in 1..N : s[i] \in Seq(S)
    PROVE  \E w \in [Nat -> Seq(S)] : Flattens(s, N, w)
<1>9. PICK Q : Q = Seq(S)
    OBVIOUS
<1>10. PICK none : none = <<>>
    OBVIOUS
<1>0. /\ \A x \in Q, y \in Q : x \o y \in Q
      /\ \A y \in Q : none \o y = y
      /\ \A i \in 1..N : s[i] \in Q
      /\ none \in Q
    BY <1>9, <1>10
<1>1. PICK F : F = [n \in Nat |-> [x \in Q |-> IF n \in 1..N THEN x \o s[n] ELSE x]]
    OBVIOUS
<1>2. \A n \in Nat, x \in Q : F[n][x] = IF n \in 1..N THEN x \o s[n] ELSE x
    BY <1>1
<1>3. ASSUME NEW n \in Nat, NEW x \in Q PROVE F[n][x] \in Q
    <2>1. F[n][x] = IF n \in 1..N THEN x \o s[n] ELSE x
        BY <1>2
    <2>2. n \in 1..N => s[n] \in Q /\ x \o s[n] \in Q
        BY <1>0
    <2> QED
        BY <2>1, <2>2
<1>11. F \in [Nat -> [Q -> Q]]
    BY <1>1, <1>2, <1>3
<1>12. PICK w \in [Nat -> Q] : StepsFrom(none, F, w)
    BY <1>0, <1>11, StepByStep
<1>4. w[0] = none /\ \A n \in Nat : w[n + 1] = F[n + 1][w[n]]
    BY <1>12 DEF StepsFrom
<1>5. ASSUME NEW n \in 0..(N - 1) PROVE w[n + 1] = w[n] \o s[n + 1]
    <2>1. n \in Nat /\ n + 1 \in Nat /\ n + 1 \in 1..N /\ w[n] \in Q
        OBVIOUS
    <2>2. w[n + 1] = F[n + 1][w[n]]
        BY <1>4, <2>1
    <2> QED
        BY <1>2, <2>1, <2>2
<1>6. ASSUME NEW n \in 0..N, NEW t, t = [i \in 1..n |-> s[i]]
      PROVE  FlattenSeq(t) = w[n]
    <2>1. t \in Seq(Seq(S)) /\ Len(t) = n
        <3>1. \A i \in 1..n : s[i] \in Seq(S)
            OBVIOUS
        <3> QED
            BY <1>6, <3>1
    <2>2. CASE n = 0
        BY <1>4, <1>10, <2>1, <2>2 DEF FlattenSeq
    <2>3. CASE n # 0
        <3> DEFINE Whole(f) == f = [i \in 1..n |-> IF i = 1 THEN t[i] ELSE f[i - 1] \o t[i]]
        <3>1. FlattenSeq(t) = (CHOOSE f : Whole(f))[n]
            BY <2>1, <2>3 DEF FlattenSeq
        <3>2. PICK f : f = CHOOSE x : Whole(x)
            OBVIOUS
        <3>3. \A i \in 1..n : w[i] = IF i = 1 THEN t[i] ELSE w[i - 1] \o t[i]
            <4> SUFFICES ASSUME NEW i \in 1..n PROVE w[i] = IF i = 1 THEN t[i] ELSE w[i - 1] \o t[i]
                OBVIOUS
            <4>1. i \in 1..N /\ t[i] = s[i] /\ s[i] \in Q
                BY <1>0, <1>6
            <4>2. PICK m \in 0..(N - 1) : m = i - 1 /\ m + 1 = i
                OBVIOUS
            <4>3. w[m + 1] = w[m] \o s[m + 1]
                BY <1>5
            <4>4. w[i] = w[i - 1] \o t[i]
                BY <4>1, <4>2, <4>3
            <4>5. i = 1 => w[i] = t[i]
                <5>1. none \o s[i] = s[i]
                    BY <1>0, <4>1
                <5> QED
                    <6>1. i = 1 => w[i - 1] = none
                        BY <1>4
                    <6> QED
                        BY <4>1, <4>4, <5>1, <6>1
            <4> QED
                BY <4>4, <4>5
        <3>4. Whole([i \in 1..n |-> w[i]])
            <4>1. PICK g : g = [i \in 1..n |-> w[i]]
                OBVIOUS
            <4>2. \A i \in 1..n : g[i] = w[i] /\ (i # 1 => g[i - 1] = w[i - 1])
                BY <4>1
            <4>3. g = [i \in 1..n |-> IF i = 1 THEN t[i] ELSE g[i - 1] \o t[i]]
                BY <3>3, <4>1, <4>2
            <4> QED
                BY <4>1, <4>3
        <3>5. Whole(f)
            BY <3>2, <3>4
        <3>6. \A i \in 1..n : f[i] = IF i = 1 THEN t[i] ELSE f[i - 1] \o t[i]
            BY <3>5
        <3> DEFINE Same == {i \in Nat : i \in 1..n => f[i] = w[i]}
        <3>7. 0 \in Same
            OBVIOUS
        <3>8. ASSUME NEW i \in Nat, i \in Same PROVE i + 1 \in Same
            <4> SUFFICES ASSUME i + 1 \in 1..n PROVE f[i + 1] = w[i + 1]
                OBVIOUS
            <4>1. PICK m \in 1..n : m = i + 1 /\ m - 1 = i
                OBVIOUS
            <4>2. f[m] = IF m = 1 THEN t[m] ELSE f[m - 1] \o t[m]
                BY <3>6
            <4>3. w[m] = IF m = 1 THEN t[m] ELSE w[m - 1] \o t[m]
                BY <3>3
            <4>4. m # 1 => f[m - 1] = w[m - 1]
                BY <3>8, <4>1
            <4> QED
                BY <4>1, <4>2, <4>3, <4>4
        <3>9. Nat \subseteq Same
            <4> HIDE DEF Same, Whole
            <4> QED
                BY <3>7, <3>8, UpFromZero
        <3>10. f[n] = w[n]
            BY <2>3, <3>9
        <3> QED
            BY <3>1, <3>2, <3>10
    <2> QED
        BY <2>2, <2>3
<1> QED
    <2>1. w \in [Nat -> Seq(S)] /\ Len(w[0]) = 0
        BY <1>4, <1>9, <1>10
    <2> QED
        BY <1>5, <1>6, <2>1 DEF Flattens
-----------------------------------------------------------------------------
Files == [id : Nat, pdf : DOMAIN PagesIn, fetched : BOOLEAN]

(* Files, each with an id of its own.                                       *)
Apart(fs) == fs \in Seq(Files) /\ \A i, j \in 1..Len(fs) : fs[i].id = fs[j].id => i = j

(* What the pages of the first n files, and their bookmarks, are.           *)
PagesOf(f) == [k \in 1..PagesIn[f.pdf] |-> f.id]
Pages(fs, n) == FlattenSeq([i \in 1..n |-> PagesOf(fs[i])])
Filled(fs, n) == {i \in 1..n : PagesIn[fs[i].pdf] > 0}
Marked(fs, n, marks) ==
    /\ marks \in Seq([file : Nat, page : Nat]) /\ Len(marks) = Cardinality(Filled(fs, n))
    /\ \A i \in Filled(fs, n) :
           LET k == Cardinality(Filled(fs, i))
           IN  k \in 1..Len(marks) /\ marks[k] = [file |-> fs[i].id, page |-> Len(Pages(fs, i - 1)) + 1]

LEMMA PagesFacts ==
    ASSUME NEW fs \in Seq(Files)
    PROVE  /\ \A f \in Files : PagesIn[f.pdf] \in Nat /\ PagesOf(f) \in Seq(Nat) /\ Len(PagesOf(f)) = PagesIn[f.pdf]
           /\ Pages(fs, 0) = <<>>
           /\ \A n \in 0..Len(fs) : Pages(fs, n) \in Seq(Nat)
           /\ \A n \in 0..(Len(fs) - 1) : Pages(fs, n + 1) = Pages(fs, n) \o PagesOf(fs[n + 1])
<1>1. ASSUME NEW f \in Files
      PROVE  PagesIn[f.pdf] \in Nat /\ PagesOf(f) \in Seq(Nat) /\ Len(PagesOf(f)) = PagesIn[f.pdf]
    <2>1. f.id \in Nat /\ PagesIn[f.pdf] \in Nat
        BY MergeAssumption DEF Files
    <2> QED
        BY <2>1 DEF PagesOf
<1>2. PICK N \in Nat : N = Len(fs)
    OBVIOUS
<1>3. PICK s : s = [i \in 1..N |-> PagesOf(fs[i])]
    OBVIOUS
<1>4. \A i \in 1..N : fs[i] \in Files /\ s[i] = PagesOf(fs[i]) /\ s[i] \in Seq(Nat)
    BY <1>1, <1>2, <1>3
<1> HIDE DEF PagesOf
<1>11. PICK w \in [Nat -> Seq(Nat)] : Flattens(s, N, w)
    BY <1>4, Flattened
<1>5. /\ Len(w[0]) = 0 /\ \A n \in 0..(N - 1) : w[n + 1] = w[n] \o s[n + 1]
      /\ \A n \in 0..N : \A t : t = [i \in 1..n |-> s[i]] => FlattenSeq(t) = w[n]
    BY <1>11 DEF Flattens
<1>6. ASSUME NEW n \in 0..N PROVE Pages(fs, n) = w[n]
    <2>1. PICK t : t = [i \in 1..n |-> PagesOf(fs[i])]
        OBVIOUS
    <2>2. t = [i \in 1..n |-> s[i]]
        BY <1>4, <2>1
    <2> QED
        BY <1>5, <2>1, <2>2 DEF Pages
<1>7. \A n \in 0..N : w[n] \in Seq(Nat)
    OBVIOUS
<1>8. \A n \in 0..(N - 1) : Pages(fs, n + 1) = Pages(fs, n) \o PagesOf(fs[n + 1])
    <2> SUFFICES ASSUME NEW n \in 0..(N - 1) PROVE Pages(fs, n + 1) = Pages(fs, n) \o PagesOf(fs[n + 1])
        OBVIOUS
    <2>1. n \in 0..N /\ n + 1 \in 0..N /\ n + 1 \in 1..N
        OBVIOUS
    <2>2. w[n + 1] = w[n] \o s[n + 1] /\ s[n + 1] = PagesOf(fs[n + 1])
        BY <1>4, <1>5, <2>1
    <2> QED
        BY <1>6, <2>1, <2>2
<1>9. Pages(fs, 0) = <<>>
    BY <1>5, <1>6
<1>10. \A n \in 0..N : Pages(fs, n) \in Seq(Nat)
    BY <1>6, <1>7
<1> QED
    BY <1>1, <1>2, <1>8, <1>9, <1>10
(* The pages of the first files stay the first, and each is of one of them. *)
LEMMA PagesGrow ==
    ASSUME NEW fs \in Seq(Files), NEW n \in 0..Len(fs)
    PROVE  /\ \A i \in 0..n :
                  /\ Len(Pages(fs, i)) <= Len(Pages(fs, n))
                  /\ \A q \in 1..Len(Pages(fs, i)) : Pages(fs, n)[q] = Pages(fs, i)[q]
           /\ \A q \in 1..Len(Pages(fs, n)) : \E j \in 1..n : Pages(fs, n)[q] = fs[j].id
<1> DEFINE Grows(m) ==
               /\ \A i \in 0..m :
                      /\ Len(Pages(fs, i)) <= Len(Pages(fs, m))
                      /\ \A q \in 1..Len(Pages(fs, i)) : Pages(fs, m)[q] = Pages(fs, i)[q]
               /\ \A q \in 1..Len(Pages(fs, m)) : \E j \in 1..m : Pages(fs, m)[q] = fs[j].id
           P == {m \in Nat : m <= Len(fs) => Grows(m)}
<1>1. 0 \in P
    <2>1. Len(Pages(fs, 0)) = 0
        BY PagesFacts
    <2> QED
        BY <2>1
<1>2. ASSUME NEW m \in Nat, m \in P PROVE m + 1 \in P
    <2> SUFFICES ASSUME m + 1 <= Len(fs) PROVE Grows(m + 1)
        OBVIOUS
    <2>1. m \in 0..Len(fs) /\ m + 1 \in 0..Len(fs) /\ m \in 0..(Len(fs) - 1) /\ m + 1 \in 1..Len(fs) /\ Grows(m)
        BY <1>2
    <2>2. PICK old, new, f, piece :
              old = Pages(fs, m) /\ new = Pages(fs, m + 1) /\ f = fs[m + 1] /\ piece = PagesOf(f)
        OBVIOUS
    <2>3. f \in Files
        BY <2>1, <2>2
    <2>4. /\ old \in Seq(Nat) /\ new \in Seq(Nat) /\ new = old \o piece
          /\ piece \in Seq(Nat) /\ Len(piece) = PagesIn[f.pdf] /\ PagesIn[f.pdf] \in Nat
        BY <2>1, <2>2, <2>3, PagesFacts
    <2>5. \A k \in 1..Len(piece) : piece[k] = f.id
        BY <2>2, <2>4 DEF PagesOf
    <2>6. /\ Len(new) = Len(old) + Len(piece) /\ Len(old) \in Nat /\ Len(piece) \in Nat
          /\ \A q \in 1..Len(old) : new[q] = old[q]
          /\ \A q \in (Len(old) + 1)..Len(new) : new[q] = piece[q - Len(old)]
        <3>1. old \in Seq(Nat) /\ piece \in Seq(Nat) /\ new = old \o piece
            BY <2>4
        <3>2. Len(new) = Len(old) + Len(piece) /\ Len(old) \in Nat /\ Len(piece) \in Nat
            BY <3>1
        <3>3. \A q \in 1..(Len(old) + Len(piece)) : new[q] = IF q <= Len(old) THEN old[q] ELSE piece[q - Len(old)]
            BY <3>1
        <3> QED
            BY <3>2, <3>3
    <2>7. ASSUME NEW i \in 0..(m + 1)
          PROVE  Len(Pages(fs, i)) <= Len(new) /\ \A q \in 1..Len(Pages(fs, i)) : new[q] = Pages(fs, i)[q]
        <3>1. CASE i = m + 1
            BY <2>2, <2>6, <3>1
        <3>2. CASE i # m + 1
            <4>1. i \in 0..m /\ i \in 0..Len(fs)
                BY <2>1, <3>2
            <4>2. Len(Pages(fs, i)) \in Nat
                BY <4>1, PagesFacts
            <4>3. Len(Pages(fs, i)) <= Len(old) /\ \A q \in 1..Len(Pages(fs, i)) : old[q] = Pages(fs, i)[q]
                BY <2>1, <2>2, <4>1
            <4> QED
                BY <2>6, <4>2, <4>3
        <3> QED
            BY <3>1, <3>2
    <2>8. ASSUME NEW q \in 1..Len(new) PROVE \E j \in 1..(m + 1) : new[q] = fs[j].id
        <3>1. CASE q <= Len(old)
            <4>1. q \in 1..Len(old) /\ new[q] = old[q]
                BY <2>6, <3>1
            <4>2. PICK j \in 1..m : old[q] = fs[j].id
                BY <2>1, <2>2, <4>1
            <4> QED
                BY <4>1, <4>2
        <3>2. CASE q > Len(old)
            <4>1. q - Len(old) \in 1..Len(piece) /\ new[q] = piece[q - Len(old)]
                BY <2>6, <3>2
            <4>2. new[q] = fs[m + 1].id
                BY <2>2, <2>5, <4>1
            <4> QED
                BY <4>2
        <3> QED
            BY <2>6, <3>1, <3>2
    <2> QED
        BY <2>2, <2>7, <2>8
<1>3. Nat \subseteq P
    <2> HIDE DEF P
    <2> QED
        BY <1>1, <1>2, UpFromZero
<1>4. Grows(n)
    BY <1>3
<1> QED
    BY <1>4

(* A bookmark's page is the first of its file.                              *)
LEMMA FirstPage ==
    ASSUME NEW fs, Apart(fs), NEW i \in Filled(fs, Len(fs)), NEW p, p = Len(Pages(fs, i - 1)) + 1
    PROVE  /\ Pages(fs, Len(fs))[p] = fs[i].id /\ Pages(fs, Len(fs)) # <<>>
           /\ \A q \in 1..(p - 1) : Pages(fs, Len(fs))[q] # fs[i].id
<1>1. /\ fs \in Seq(Files) /\ Len(fs) \in Nat /\ i \in 1..Len(fs) /\ PagesIn[fs[i].pdf] > 0
      /\ \A j \in 1..Len(fs) : fs[j].id = fs[i].id => j = i
    BY DEF Apart, Filled
<1>2. PICK m \in 0..(Len(fs) - 1) : m = i - 1 /\ i = m + 1 /\ m \in 0..Len(fs) /\ i \in 0..Len(fs)
    BY <1>1
<1>3. PICK old, new, all, f, piece :
          /\ old = Pages(fs, m) /\ new = Pages(fs, i) /\ all = Pages(fs, Len(fs))
          /\ f = fs[i] /\ piece = PagesOf(f)
    OBVIOUS
<1>4. f \in Files
    BY <1>1, <1>3
<1>5. /\ old \in Seq(Nat) /\ new = old \o piece /\ piece \in Seq(Nat)
      /\ Len(piece) = PagesIn[f.pdf] /\ PagesIn[f.pdf] \in Nat
    BY <1>1, <1>2, <1>3, <1>4, PagesFacts
<1>6. piece[1] = f.id /\ 1 \in 1..Len(piece)
    BY <1>1, <1>3, <1>5 DEF PagesOf
<1>7. Len(old) \in Nat /\ p = Len(old) + 1 /\ p \in 1..Len(new) /\ new[p] = f.id
    BY <1>2, <1>3, <1>5, <1>6
<1>8. Len(fs) \in 0..Len(fs)
    BY <1>1
<1>9. all[p] = f.id
    <2>1. \A q \in 1..Len(new) : all[q] = new[q]
        BY <1>1, <1>2, <1>3, <1>8, PagesGrow
    <2> QED
        BY <1>7, <2>1
<1>10. ASSUME NEW q \in 1..(p - 1) PROVE all[q] # f.id
    <2>1. q \in 1..Len(old)
        BY <1>7
    <2>2. all[q] = old[q]
        BY <1>1, <1>2, <1>3, <1>8, <2>1, PagesGrow
    <2>3. PICK j \in 1..m : old[q] = fs[j].id
        BY <1>1, <1>2, <1>3, <2>1, PagesGrow
    <2>4. j \in 1..Len(fs) /\ j # i
        BY <1>1, <1>2
    <2> QED
        BY <1>1, <1>3, <2>2, <2>3, <2>4
<1>11. Len(all) # 0
    <2>1. all \in Seq(Nat) /\ new \in Seq(Nat)
        BY <1>1, <1>2, <1>3, <1>8, PagesFacts
    <2>2. Len(new) <= Len(all)
        BY <1>1, <1>2, <1>3, <1>8, PagesGrow
    <2> QED
        BY <1>7, <2>1, <2>2
<1>12. all # <<>>
    BY <1>11
<1> QED
    BY <1>3, <1>9, <1>10, <1>12

LEMMA FilledFacts ==
    ASSUME NEW fs \in Seq(Files)
    PROVE  /\ Filled(fs, 0) = {}
           /\ \A n \in 0..Len(fs) : IsFiniteSet(Filled(fs, n)) /\ Cardinality(Filled(fs, n)) \in Nat
           /\ \A n \in 0..(Len(fs) - 1) :
                  IF PagesIn[fs[n + 1].pdf] > 0
                  THEN /\ Filled(fs, n + 1) = Filled(fs, n) \cup {n + 1}
                       /\ Cardinality(Filled(fs, n + 1)) = Cardinality(Filled(fs, n)) + 1
                  ELSE Filled(fs, n + 1) = Filled(fs, n)
<1>1. Len(fs) \in Nat
    OBVIOUS
<1>2. Filled(fs, 0) = {}
    BY DEF Filled
<1>3. ASSUME NEW n \in 0..Len(fs)
      PROVE  IsFiniteSet(Filled(fs, n)) /\ Cardinality(Filled(fs, n)) \in Nat
    <2>1. IsFiniteSet(1..n)
        BY <1>1, FS_Interval
    <2>2. Filled(fs, n) \subseteq 1..n
        BY DEF Filled
    <2> QED
        BY <2>1, <2>2, FS_Subset, FS_CardinalityType
<1>4. ASSUME NEW n \in 0..(Len(fs) - 1)
      PROVE  IF PagesIn[fs[n + 1].pdf] > 0
             THEN /\ Filled(fs, n + 1) = Filled(fs, n) \cup {n + 1}
                  /\ Cardinality(Filled(fs, n + 1)) = Cardinality(Filled(fs, n)) + 1
             ELSE Filled(fs, n + 1) = Filled(fs, n)
    <2>1. n \in 0..Len(fs) /\ n \in Nat
        BY <1>1
    <2>2. n + 1 \notin Filled(fs, n) /\ IsFiniteSet(Filled(fs, n))
        BY <1>3, <2>1 DEF Filled
    <2>3. \A i : i \in 1..(n + 1) <=> i \in 1..n \/ i = n + 1
        BY <2>1
    <2>4. CASE PagesIn[fs[n + 1].pdf] > 0
        <3>1. Filled(fs, n + 1) = Filled(fs, n) \cup {n + 1}
            BY <2>3, <2>4 DEF Filled
        <3> QED
            BY <2>2, <2>4, <3>1, FS_AddElement
    <2>5. CASE ~(PagesIn[fs[n + 1].pdf] > 0)
        BY <2>3, <2>5 DEF Filled
    <2> QED
        BY <2>4, <2>5
<1> QED
    BY <1>2, <1>3, <1>4

(* A file's pages added, and its bookmark, if it has any pages.             *)
LEMMA MarkedNext ==
    ASSUME NEW fs \in Seq(Files), NEW n \in 0..(Len(fs) - 1), NEW marks, Marked(fs, n, marks), NEW more,
           more = IF PagesIn[fs[n + 1].pdf] = 0 THEN marks
                  ELSE Append(marks, [file |-> fs[n + 1].id, page |-> Len(Pages(fs, n)) + 1])
    PROVE  Marked(fs, n + 1, more)
<1>1. n \in 0..Len(fs) /\ n \in Nat /\ n + 1 \in 1..Len(fs) /\ n + 1 \in 0..Len(fs) /\ (n + 1) - 1 = n
    OBVIOUS
<1>2. fs[n + 1].id \in Nat /\ PagesIn[fs[n + 1].pdf] \in Nat
    <2>1. fs[n + 1] \in Files
        BY <1>1
    <2>2. PagesIn[fs[n + 1].pdf] \in Nat
        BY <2>1, PagesFacts
    <2> QED
        BY <2>1, <2>2 DEF Files
<1>3. CASE PagesIn[fs[n + 1].pdf] = 0
    <2>1. Filled(fs, n + 1) = Filled(fs, n)
        BY <1>3, FilledFacts
    <2> QED
        BY <1>3, <2>1 DEF Marked
<1>4. CASE PagesIn[fs[n + 1].pdf] # 0
    <2>1. PICK mark : mark = [file |-> fs[n + 1].id, page |-> Len(Pages(fs, n)) + 1]
        OBVIOUS
    <2>2. Len(Pages(fs, n)) \in Nat
        BY <1>1, PagesFacts
    <2>3. mark \in [file : Nat, page : Nat] /\ more = Append(marks, mark)
        BY <1>2, <1>4, <2>1, <2>2
    <2>4. /\ Filled(fs, n + 1) = Filled(fs, n) \cup {n + 1}
          /\ Cardinality(Filled(fs, n + 1)) = Cardinality(Filled(fs, n)) + 1
          /\ Cardinality(Filled(fs, n)) \in Nat
        <3>1. PagesIn[fs[n + 1].pdf] > 0
            BY <1>2, <1>4
        <3>2. Cardinality(Filled(fs, n)) \in Nat
            BY <1>1, FilledFacts
        <3> QED
            BY <3>1, <3>2, FilledFacts
    <2>5. marks \in Seq([file : Nat, page : Nat]) /\ Len(marks) = Cardinality(Filled(fs, n))
        BY DEF Marked
    <2>6. /\ more \in Seq([file : Nat, page : Nat]) /\ Len(more) = Len(marks) + 1 /\ Len(marks) \in Nat
          /\ more[Len(marks) + 1] = mark /\ \A k \in 1..Len(marks) : more[k] = marks[k]
        <3>1. PICK T : T = [file : Nat, page : Nat]
            OBVIOUS
        <3>2. marks \in Seq(T) /\ mark \in T /\ more = Append(marks, mark)
            BY <2>3, <2>5, <3>1
        <3>3. /\ more \in Seq(T) /\ Len(more) = Len(marks) + 1 /\ Len(marks) \in Nat
              /\ more[Len(marks) + 1] = mark /\ \A k \in 1..Len(marks) : more[k] = marks[k]
            BY <3>2
        <3> QED
            BY <3>1, <3>3
    <2>7. ASSUME NEW i \in Filled(fs, n + 1)
          PROVE  /\ Cardinality(Filled(fs, i)) \in 1..Len(more)
                 /\ more[Cardinality(Filled(fs, i))] = [file |-> fs[i].id, page |-> Len(Pages(fs, i - 1)) + 1]
        <3>1. CASE i \in Filled(fs, n)
            <4>1. PICK k : k = Cardinality(Filled(fs, i))
                OBVIOUS
            <4>2. k \in 1..Len(marks) /\ marks[k] = [file |-> fs[i].id, page |-> Len(Pages(fs, i - 1)) + 1]
                BY <3>1, <4>1 DEF Marked
            <4>3. k \in 1..Len(more) /\ more[k] = marks[k]
                BY <2>6, <4>2
            <4> QED
                BY <4>1, <4>2, <4>3
        <3>2. CASE i = n + 1
            BY <1>1, <2>1, <2>4, <2>5, <2>6, <3>2
        <3> QED
            BY <2>4, <3>1, <3>2
    <2> QED
        BY <2>4, <2>5, <2>6, <2>7 DEF Marked
<1> QED
    BY <1>3, <1>4

(* Files that are the same PDFs, fetched or not.                            *)
SameFiles(a, b) == Len(a) = Len(b) /\ \A i \in 1..Len(a) : a[i].id = b[i].id /\ a[i].pdf = b[i].pdf

LEMMA SameFacts ==
    ASSUME NEW a \in Seq(Files), NEW b \in Seq(Files), SameFiles(a, b), NEW n \in 0..Len(a)
    PROVE  Pages(b, n) = Pages(a, n) /\ Filled(b, n) = Filled(a, n)
<1>1. \A i \in 1..n : a[i].id = b[i].id /\ a[i].pdf = b[i].pdf
    BY DEF SameFiles
<1>2. \A i \in 1..n : PagesOf(a[i]) = PagesOf(b[i])
    BY <1>1 DEF PagesOf
<1>3. [i \in 1..n |-> PagesOf(a[i])] = [i \in 1..n |-> PagesOf(b[i])]
    BY <1>2
<1> QED
    BY <1>1, <1>3 DEF Pages, Filled

LEMMA MarkedSame ==
    ASSUME NEW a \in Seq(Files), NEW b \in Seq(Files), SameFiles(a, b), NEW n \in 0..Len(a),
           NEW marks, Marked(a, n, marks)
    PROVE  Marked(b, n, marks)
<1>1. Filled(b, n) = Filled(a, n)
    BY SameFacts
<1>2. ASSUME NEW i \in Filled(b, n)
      PROVE  /\ Filled(b, i) = Filled(a, i) /\ Pages(b, i - 1) = Pages(a, i - 1) /\ b[i].id = a[i].id
             /\ i \in Filled(a, n)
    <2>1. i \in 1..n /\ i \in 0..Len(a) /\ i - 1 \in 0..Len(a) /\ i \in 1..Len(a)
        BY DEF Filled
    <2> QED
        BY <1>1, <2>1, SameFacts DEF SameFiles
<1> QED
    BY <1>1, <1>2 DEF Marked

(* The outline, walked through, has an entry for every file with pages.     *)
LEMMA OutlineIs ==
    ASSUME NEW fs, Apart(fs), NEW marks, Marked(fs, Len(fs), marks),
           NEW outline, outline = Bookmarks(marks), outline # <<>>
    PROVE  /\ Len(outline) = Cardinality(Filled(fs, Len(fs)))
           /\ \A i \in Filled(fs, Len(fs)) :
                  LET k == Cardinality(Filled(fs, i))
                  IN  /\ outline[k].file = fs[i].id /\ outline[k].page = Len(Pages(fs, i - 1)) + 1
                      /\ IF outline[k].next = None THEN k = Len(outline) ELSE outline[outline[k].next].prev = k
<1>1. marks \in Seq([file : Nat, page : Nat]) /\ Len(marks) \in Nat /\ Len(marks) = Cardinality(Filled(fs, Len(fs)))
    BY DEF Marked
<1>2. outline = [k \in 1..Len(marks) |->
                    [file |-> marks[k].file, page |-> marks[k].page,
                     prev |-> IF k > 1 THEN k - 1 ELSE None,
                     next |-> IF k < Len(marks) THEN k + 1 ELSE None]]
    BY DEF Bookmarks
<1>3. Len(outline) = Len(marks)
    BY <1>1, <1>2
<1>4. ASSUME NEW k \in 1..Len(marks)
      PROVE  /\ outline[k].file = marks[k].file /\ outline[k].page = marks[k].page
             /\ outline[k].prev = IF k > 1 THEN k - 1 ELSE None
             /\ outline[k].next = IF k < Len(marks) THEN k + 1 ELSE None
    BY <1>2
<1>5. ASSUME NEW k \in 1..Len(marks)
      PROVE  IF outline[k].next = None THEN k = Len(outline) ELSE outline[outline[k].next].prev = k
    <2>1. CASE k < Len(marks)
        <3>1. k + 1 \in 1..Len(marks) /\ outline[k].next = k + 1 /\ k + 1 \in Nat
            BY <1>1, <1>4, <2>1
        <3>2. outline[k + 1].prev = k
            <4>1. PICK m \in 1..Len(marks) : m = k + 1 /\ m > 1 /\ m - 1 = k
                BY <3>1
            <4> QED
                BY <1>4, <4>1
        <3>3. k + 1 # None
            BY <3>1, MergeAssumption
        <3> QED
            BY <3>1, <3>2, <3>3
    <2>2. CASE ~(k < Len(marks))
        <3>1. k = Len(marks) /\ outline[k].next = None
            BY <1>1, <1>4, <2>2
        <3> QED
            BY <1>3, <3>1
    <2> QED
        BY <2>1, <2>2
<1>6. ASSUME NEW i \in Filled(fs, Len(fs)), NEW k, k = Cardinality(Filled(fs, i))
      PROVE  k \in 1..Len(marks) /\ marks[k].file = fs[i].id /\ marks[k].page = Len(Pages(fs, i - 1)) + 1
    <2>1. k \in 1..Len(marks) /\ marks[k] = [file |-> fs[i].id, page |-> Len(Pages(fs, i - 1)) + 1]
        BY <1>6 DEF Marked
    <2>2. PICK page : page = Len(Pages(fs, i - 1)) + 1
        OBVIOUS
    <2> QED
        BY <2>1, <2>2
<1>7. ASSUME NEW i \in Filled(fs, Len(fs)), NEW k, k = Cardinality(Filled(fs, i))
      PROVE  /\ outline[k].file = fs[i].id /\ outline[k].page = Len(Pages(fs, i - 1)) + 1
             /\ IF outline[k].next = None THEN k = Len(outline) ELSE outline[outline[k].next].prev = k
    <2>1. k \in 1..Len(marks) /\ marks[k].file = fs[i].id /\ marks[k].page = Len(Pages(fs, i - 1)) + 1
        BY <1>6, <1>7
    <2>2. outline[k].file = marks[k].file /\ outline[k].page = marks[k].page
        BY <1>4, <2>1
    <2>3. IF outline[k].next = None THEN k = Len(outline) ELSE outline[outline[k].next].prev = k
        BY <1>5, <2>1
    <2> QED
        BY <2>1, <2>2, <2>3
<1> QED
    BY <1>1, <1>3, <1>7

(* What MergedIsListed asks of the merged PDF, for the files listed.        *)
IsOf(doc, fs) ==
    LET pagesOf(f) == [i \in 1..PagesIn[f.pdf] |-> f.id]
        filled == {i \in 1..Len(fs) : PagesIn[fs[i].pdf] > 0}
        nth(i) == Cardinality({j \in filled : j <= i})
        outline == doc.outline
    IN  /\ doc.pages = WithAPage(FlattenSeq([i \in 1..Len(fs) |-> pagesOf(fs[i])]))
        /\ doc.count = Len(fs)
        /\ outline # <<>> =>
               /\ Len(outline) = Cardinality(filled)
               /\ \A i \in filled :
                      LET entry == outline[nth(i)]
                      IN  /\ entry.file = fs[i].id
                          /\ doc.pages[entry.page] = fs[i].id
                          /\ \A q \in 1..(entry.page - 1) : doc.pages[q] # fs[i].id
                          /\ IF entry.next = None THEN nth(i) = Len(outline)
                             ELSE outline[entry.next].prev = nth(i)

LEMMA SavedIsListed ==
    ASSUME NEW fs, Apart(fs), NEW marks, Marked(fs, Len(fs), marks), NEW doc,
           doc.pages = WithAPage(Pages(fs, Len(fs))), doc.count = Len(fs), doc.outline \in {<<>>, Bookmarks(marks)}
    PROVE  IsOf(doc, fs)
<1>1. PICK outline, pages : outline = doc.outline /\ pages = Pages(fs, Len(fs)) /\ doc.pages = WithAPage(pages)
    OBVIOUS
<1>2. Filled(fs, Len(fs)) = {i \in 1..Len(fs) : PagesIn[fs[i].pdf] > 0}
    BY DEF Filled
<1>3. \A i \in 1..Len(fs) :
          Filled(fs, i) = {j \in {k \in 1..Len(fs) : PagesIn[fs[k].pdf] > 0} : j <= i}
    <2>1. Len(fs) \in Nat
        BY DEF Apart
    <2> QED
        BY <2>1 DEF Filled
<1>4. pages = FlattenSeq([i \in 1..Len(fs) |-> [k \in 1..PagesIn[fs[i].pdf] |-> fs[i].id]])
    BY <1>1 DEF Pages, PagesOf
<1>5. CASE outline = <<>>
    BY <1>1, <1>4, <1>5 DEF IsOf
<1>6. CASE outline # <<>>
    <2>1. /\ Len(outline) = Cardinality(Filled(fs, Len(fs)))
          /\ \A i \in Filled(fs, Len(fs)) :
                 LET k == Cardinality(Filled(fs, i))
                 IN  /\ outline[k].file = fs[i].id /\ outline[k].page = Len(Pages(fs, i - 1)) + 1
                     /\ IF outline[k].next = None THEN k = Len(outline) ELSE outline[outline[k].next].prev = k
        <3>1. outline = Bookmarks(marks)
            BY <1>1, <1>6
        <3> QED
            BY <1>6, <3>1, OutlineIs
    <2>2. ASSUME NEW i \in {k \in 1..Len(fs) : PagesIn[fs[k].pdf] > 0}, NEW entry,
                 entry = outline[Cardinality({j \in {k \in 1..Len(fs) : PagesIn[fs[k].pdf] > 0} : j <= i})]
          PROVE  /\ entry.file = fs[i].id /\ doc.pages[entry.page] = fs[i].id
                 /\ \A q \in 1..(entry.page - 1) : doc.pages[q] # fs[i].id
                 /\ IF entry.next = None
                    THEN Cardinality({j \in {k \in 1..Len(fs) : PagesIn[fs[k].pdf] > 0} : j <= i}) = Len(outline)
                    ELSE outline[entry.next].prev
                             = Cardinality({j \in {k \in 1..Len(fs) : PagesIn[fs[k].pdf] > 0} : j <= i})
        <3>1. i \in Filled(fs, Len(fs)) /\ i \in 1..Len(fs)
            BY <1>2
        <3>2. PICK nth : nth = Cardinality(Filled(fs, i))
                         /\ nth = Cardinality({j \in {k \in 1..Len(fs) : PagesIn[fs[k].pdf] > 0} : j <= i})
            BY <1>3, <3>1
        <3>3. /\ entry.file = fs[i].id /\ entry.page = Len(Pages(fs, i - 1)) + 1
              /\ IF entry.next = None THEN nth = Len(outline) ELSE outline[entry.next].prev = nth
            BY <2>1, <2>2, <3>1, <3>2
        <3>4. /\ pages[entry.page] = fs[i].id
              /\ \A q \in 1..(entry.page - 1) : pages[q] # fs[i].id
              /\ pages # <<>>
            BY <1>1, <3>1, <3>3, FirstPage
        <3>5. doc.pages = pages
            BY <1>1, <3>4 DEF WithAPage
        <3> QED
            BY <3>2, <3>3, <3>4, <3>5
    <2> DEFINE filled == {k \in 1..Len(fs) : PagesIn[fs[k].pdf] > 0}
               nth(i) == Cardinality({j \in filled : j <= i})
    <2>3. \A i \in filled :
              LET entry == doc.outline[nth(i)]
              IN  /\ entry.file = fs[i].id /\ doc.pages[entry.page] = fs[i].id
                  /\ \A q \in 1..(entry.page - 1) : doc.pages[q] # fs[i].id
                  /\ IF entry.next = None THEN nth(i) = Len(doc.outline) ELSE doc.outline[entry.next].prev = nth(i)
        BY <1>1, <2>2
    <2>4. Len(doc.outline) = Cardinality(filled)
        BY <1>1, <1>2, <2>1
    <2>5. doc.pages = WithAPage(FlattenSeq([i \in 1..Len(fs) |-> [k \in 1..PagesIn[fs[i].pdf] |-> fs[i].id]]))
        BY <1>1, <1>4
    <2> QED
        BY <2>3, <2>4, <2>5, Zenon DEF IsOf
<1> QED
    BY <1>5, <1>6
-----------------------------------------------------------------------------
(* The files listed have ids of their own, up to the last.                  *)
Listing(fs, last) == Apart(fs) /\ \A i \in 1..Len(fs) : fs[i].id <= last

(* The merge under way has the pages and bookmarks of the files so far.     *)
UnderWay(doing) ==
    /\ doing = [sources |-> doing.sources, at |-> doing.at, pages |-> doing.pages, marks |-> doing.marks]
    /\ Apart(doing.sources) /\ doing.at \in 1..(Len(doing.sources) + 1)
    /\ doing.pages = Pages(doing.sources, doing.at - 1)
    /\ Marked(doing.sources, doing.at - 1, doing.marks)

MergeInv ==
    /\ lastId \in Nat /\ Listing(files, lastId)
    /\ asked \in Seq(DOMAIN InFolder) /\ items \in DOMAIN InFolder \cup {None, "error"}
    /\ Merging => UnderWay(job) /\ merged = None /\ (~dropped => SameFiles(job.sources, files))
    /\ MergedIsListed

(* Files put in another order, or some of them left out.                    *)
SomeOf(fs, g) ==
    \E n \in Nat : \E p \in [1..n -> 1..Len(fs)] :
        (\A i, j \in 1..n : p[i] = p[j] => i = j) /\ g = [i \in 1..n |-> fs[p[i]]]

LEMMA ListingOfSome ==
    ASSUME NEW fs, NEW last, Listing(fs, last), NEW g, SomeOf(fs, g)
    PROVE  Listing(g, last)
<1>01. PICK n \in Nat : \E p \in [1..n -> 1..Len(fs)] :
          (\A i, j \in 1..n : p[i] = p[j] => i = j) /\ g = [i \in 1..n |-> fs[p[i]]]
    BY DEF SomeOf
<1>0. PICK p \in [1..n -> 1..Len(fs)] :
          (\A i, j \in 1..n : p[i] = p[j] => i = j) /\ g = [i \in 1..n |-> fs[p[i]]]
    BY <1>01
<1>1. fs \in Seq(Files) /\ Len(fs) \in Nat
    BY DEF Listing, Apart
<1>2. \A i \in 1..n : p[i] \in 1..Len(fs) /\ g[i] = fs[p[i]] /\ fs[p[i]] \in Files
    BY <1>0, <1>1
<1>3. g \in Seq(Files) /\ Len(g) = n
    BY <1>0, <1>2
<1>4. /\ \A i, j \in 1..Len(fs) : fs[i].id = fs[j].id => i = j
      /\ \A i \in 1..Len(fs) : fs[i].id <= last
    BY DEF Listing, Apart
<1>5. \A i, j \in 1..n : g[i].id = g[j].id => i = j
    BY <1>0, <1>2, <1>4
<1>6. \A i \in 1..n : g[i].id <= last
    BY <1>2, <1>4
<1> QED
    BY <1>3, <1>5, <1>6 DEF Listing, Apart

LEMMA ListingAdded ==
    ASSUME NEW fs, NEW last \in Nat, Listing(fs, last), NEW pdfs \in Seq(DOMAIN PagesIn), NEW fetched \in BOOLEAN,
           NEW g, g = fs \o [i \in 1..Len(pdfs) |-> [id |-> last + i, pdf |-> pdfs[i], fetched |-> fetched]]
    PROVE  Listing(g, last + Len(pdfs))
<1>1. PICK more : more = [i \in 1..Len(pdfs) |-> [id |-> last + i, pdf |-> pdfs[i], fetched |-> fetched]]
    OBVIOUS
<1>2. PICK n \in Nat, m \in Nat : n = Len(fs) /\ m = Len(pdfs)
    BY DEF Listing, Apart
<1>3. \A i \in 1..m : more[i] \in Files /\ more[i].id = last + i
    <2> SUFFICES ASSUME NEW i \in 1..m PROVE more[i] \in Files /\ more[i].id = last + i
        OBVIOUS
    <2>1. pdfs[i] \in DOMAIN PagesIn /\ last + i \in Nat
        BY <1>2
    <2> QED
        BY <1>1, <1>2, <2>1 DEF Files
<1>4. fs \in Seq(Files) /\ \A i \in 1..n : fs[i].id \in Nat /\ fs[i].id <= last
    <2>1. fs \in Seq(Files) /\ \A i \in 1..n : fs[i].id <= last
        BY <1>2 DEF Listing, Apart
    <2>2. \A i \in 1..n : fs[i] \in Files
        BY <1>2, <2>1
    <2>3. \A f \in Files : f.id \in Nat
        BY DEF Files
    <2> QED
        BY <2>1, <2>2, <2>3
<1>5. more \in Seq(Files) /\ Len(more) = m
    BY <1>1, <1>2, <1>3
<1>6. /\ g \in Seq(Files) /\ Len(g) = n + m
      /\ \A i \in 1..n : g[i] = fs[i]
      /\ \A i \in (n + 1)..(n + m) : g[i] = more[i - n] /\ i - n \in 1..m
    BY <1>1, <1>2, <1>4, <1>5
<1>7. \A i \in 1..Len(g) : IF i <= n THEN i \in 1..n /\ g[i].id = fs[i].id ELSE g[i].id = last + (i - n) /\ i - n \in 1..m
    <2> SUFFICES ASSUME NEW i \in 1..(n + m)
                 PROVE  IF i <= n THEN i \in 1..n /\ g[i].id = fs[i].id ELSE g[i].id = last + (i - n) /\ i - n \in 1..m
        BY <1>6
    <2>1. CASE i <= n
        <3>1. i \in 1..n
            BY <2>1
        <3>2. g[i] = fs[i]
            BY <1>6, <3>1
        <3> QED
            BY <2>1, <3>1, <3>2
    <2>2. CASE ~(i <= n)
        <3>1. i \in (n + 1)..(n + m)
            BY <2>2
        <3>2. PICK k \in 1..m : k = i - n /\ g[i] = more[k]
            BY <1>6, <3>1
        <3>3. g[i].id = last + k
            BY <1>3, <3>2
        <3> QED
            BY <2>2, <3>2, <3>3
    <2> QED
        BY <2>1, <2>2
<1>8. \A i, j \in 1..Len(g) : g[i].id = g[j].id => i = j
    <2>1. \A i, j \in 1..n : fs[i].id = fs[j].id => i = j
        BY <1>2 DEF Listing, Apart
    <2> SUFFICES ASSUME NEW i \in 1..Len(g), NEW j \in 1..Len(g), g[i].id = g[j].id PROVE i = j
        OBVIOUS
    <2>2. CASE i <= n /\ j <= n
        BY <1>7, <2>1, <2>2
    <2>6. \A k \in 1..Len(g) : IF k <= n THEN g[k].id \in Nat /\ g[k].id <= last ELSE g[k].id > last
        <3> SUFFICES ASSUME NEW k \in 1..Len(g)
                     PROVE  IF k <= n THEN g[k].id \in Nat /\ g[k].id <= last ELSE g[k].id > last
            OBVIOUS
        <3>1. CASE k <= n
            <4>1. k \in 1..n /\ g[k].id = fs[k].id
                BY <1>7, <3>1
            <4>2. fs[k].id \in Nat /\ fs[k].id <= last
                BY <1>4, <4>1
            <4> QED
                BY <3>1, <4>1, <4>2
        <3>2. CASE ~(k <= n)
            <4>1. PICK d \in 1..m : d = k - n /\ g[k].id = last + d
                BY <1>7, <3>2
            <4> QED
                BY <3>2, <4>1
        <3> QED
            BY <3>1, <3>2
    <2>3. CASE i <= n /\ ~(j <= n)
        <3>1. g[i].id \in Nat /\ g[i].id <= last /\ g[j].id > last
            BY <2>3, <2>6
        <3>2. g[j].id = g[i].id
            OBVIOUS
        <3>3. PICK a \in Nat : a = g[i].id
            BY <3>1
        <3> QED
            BY <3>1, <3>2, <3>3
    <2>4. CASE ~(i <= n) /\ j <= n
        <3>1. g[j].id \in Nat /\ g[j].id <= last /\ g[i].id > last
            BY <2>4, <2>6
        <3>2. PICK a \in Nat : a = g[j].id
            BY <3>1
        <3> QED
            BY <3>1, <3>2
    <2>5. CASE ~(i <= n) /\ ~(j <= n)
        <3>1. PICK d \in 1..m : d = i - n /\ g[i].id = last + d
            BY <1>7, <2>5
        <3>2. PICK e \in 1..m : e = j - n /\ g[j].id = last + e
            BY <1>7, <2>5
        <3>5. last + d = last + e
            BY <3>1, <3>2
        <3>3. d = e
            BY <3>5
        <3>4. i \in Nat /\ j \in Nat
            BY <1>6
        <3> QED
            BY <3>1, <3>2, <3>3, <3>4
    <2> QED
        BY <2>2, <2>3, <2>4, <2>5
<1>9. \A i \in 1..Len(g) : g[i].id <= last + m
    BY <1>4, <1>7
<1> QED
    BY <1>2, <1>6, <1>8, <1>9 DEF Listing, Apart

(* A file fetched is the same file.                                         *)
LEMMA ListingFetched ==
    ASSUME NEW fs, Apart(fs), NEW g, DOMAIN g = 1..Len(fs), g = [i \in DOMAIN g |-> g[i]],
           \A i \in 1..Len(fs) : g[i] \in {fs[i], [fs[i] EXCEPT !.fetched = TRUE]}
    PROVE  Apart(g) /\ SameFiles(fs, g) /\ Len(g) = Len(fs)
<1>1. fs \in Seq(Files) /\ Len(fs) \in Nat
    BY DEF Apart
<1>2. \A f \in Files : /\ [f EXCEPT !.fetched = TRUE] \in Files /\ [f EXCEPT !.fetched = TRUE].id = f.id
                       /\ [f EXCEPT !.fetched = TRUE].pdf = f.pdf
    BY DEF Files
<1>3. \A i \in 1..Len(fs) : fs[i] \in Files
    BY <1>1
<1>4. \A i \in 1..Len(fs) : g[i] \in Files /\ g[i].id = fs[i].id /\ g[i].pdf = fs[i].pdf
    BY <1>2, <1>3
<1>5. g \in Seq(Files) /\ Len(g) = Len(fs)
    BY <1>1, <1>4
<1> QED
    BY <1>4, <1>5 DEF Apart, SameFiles
-----------------------------------------------------------------------------
LEMMA ListChanged ==
    ASSUME MergeInv, lastId' \in Nat, Listing(files', lastId'), merged' = None, job' = job,
           ~Merging \/ dropped', asked' \in Seq(DOMAIN InFolder), items' \in DOMAIN InFolder \cup {None, "error"}
    PROVE  MergeInv'
<1>1. MergedIsListed'
    BY DEF MergedIsListed
<1>2. Merging' => UnderWay(job') /\ merged' = None /\ (~dropped' => SameFiles(job'.sources, files'))
    BY DEF MergeInv, Merging
<1> QED
    BY <1>1, <1>2 DEF MergeInv

LEMMA AddListed ==
    ASSUME MergeInv, NEW pdfs \in Seq(DOMAIN PagesIn), NEW fetched \in BOOLEAN, Add(pdfs, fetched),
           UNCHANGED <<job, asked, items>>
    PROVE  MergeInv'
<1>1. /\ files' = files \o [i \in 1..Len(pdfs) |-> [id |-> lastId + i, pdf |-> pdfs[i], fetched |-> fetched]]
      /\ lastId' = lastId + Len(pdfs) /\ merged' = None /\ dropped' = (dropped \/ Merging)
    BY DEF Add
<1>2. lastId \in Nat /\ Listing(files, lastId)
    BY DEF MergeInv
<1>3. lastId' \in Nat /\ Listing(files', lastId')
    <2>1. PICK g : g = files'
        OBVIOUS
    <2>2. Listing(g, lastId + Len(pdfs))
        BY <1>1, <1>2, <2>1, ListingAdded
    <2>3. Len(pdfs) \in Nat
        OBVIOUS
    <2> QED
        BY <1>1, <1>2, <2>1, <2>2, <2>3
<1>4. ~Merging \/ dropped'
    BY <1>1
<1>5. asked' \in Seq(DOMAIN InFolder) /\ items' \in DOMAIN InFolder \cup {None, "error"}
    BY DEF MergeInv
<1> QED
    BY <1>1, <1>3, <1>4, <1>5, ListChanged

LEMMA ListSteps ==
    ASSUME MergeInv, PickFile \/ TakeOut \/ Reorder \/ Clear \/ PickListed
    PROVE  MergeInv'
<1>0. /\ lastId \in Nat /\ Listing(files, lastId) /\ files \in Seq(Files) /\ Len(files) \in Nat
      /\ asked \in Seq(DOMAIN InFolder) /\ items \in DOMAIN InFolder \cup {None, "error"}
    BY DEF MergeInv, Listing, Apart
<1>1. CASE PickFile
    <2>1. PICK p \in DOMAIN PagesIn : Add(<<p>>, TRUE)
        BY <1>1 DEF PickFile
    <2>2. <<p>> \in Seq(DOMAIN PagesIn) /\ UNCHANGED <<job, asked, items>>
        BY <1>1 DEF PickFile, pickerVars
    <2> QED
        BY <2>1, <2>2, AddListed
<1>2. CASE PickListed
    <2>1. Lists(items) /\ UNCHANGED <<job, asked, items>>
        BY <1>2 DEF PickListed
    <2>2. items \in DOMAIN InFolder
        BY <1>0, <2>1 DEF Lists
    <2>3. PICK listed : listed = InFolder[items] /\ listed \in Seq(DOMAIN PagesIn)
        BY <2>2, MergeAssumption
    <2>4. \/ \E i \in 1..Len(listed) : Add(<<listed[i]>>, FALSE)
          \/ Add(listed, FALSE)
        BY <1>2, <2>3 DEF PickListed
    <2>5. \A i \in 1..Len(listed) : <<listed[i]>> \in Seq(DOMAIN PagesIn)
        BY <2>3
    <2> QED
        BY <2>1, <2>3, <2>4, <2>5, AddListed
<1>3. CASE TakeOut
    <2>1. PICK i \in 1..Len(files) : files' = RemoveAt(files, i)
        BY <1>3 DEF TakeOut
    <2>2. /\ merged' = None /\ ~Merging /\ UNCHANGED <<lastId, job, asked, items>>
        BY <1>3 DEF TakeOut, pickerVars
    <2>3. PICK n \in Nat : n = Len(files) - 1
        BY <1>0
    <2>4. PICK p : p = [k \in 1..n |-> IF k < i THEN k ELSE k + 1]
        OBVIOUS
    <2>5. p \in [1..n -> 1..Len(files)] /\ \A k, m \in 1..n : p[k] = p[m] => k = m
        BY <1>0, <2>3, <2>4
    <2>6. files' = [k \in 1..n |-> files[p[k]]]
        <3>1. PICK m \in Nat : m = Len(files) /\ m = n + 1
            BY <1>0, <2>3
        <3>8. \A k \in 1..Len(files) : files[k] \in Files
            <4>1. files \in Seq(Files)
                BY <1>0
            <4> QED
                BY <4>1
        <3>2. PICK left, right : left = SubSeq(files, 1, i - 1) /\ right = SubSeq(files, i + 1, m)
            OBVIOUS
        <3>3. /\ left \in Seq(Files) /\ Len(left) = i - 1 /\ \A k \in 1..(i - 1) : left[k] = files[k]
              /\ right \in Seq(Files) /\ Len(right) = m - i /\ \A k \in 1..(m - i) : right[k] = files[i + k]
            <4>1. left \in Seq(Files) /\ Len(left) = i - 1 /\ \A k \in 1..(i - 1) : left[k] = files[k]
                <5>1. i - 1 \in 0..m /\ \A k \in 1..(i - 1) : (1 + k) - 1 = k
                    BY <3>1
                <5>2. \A k \in 1..(i - 1) : files[k] \in Files
                    <6>1. \A k \in 1..m : files[k] \in Files
                        BY <3>1, <3>8
                    <6>2. \A k \in 1..(i - 1) : k \in 1..m
                        BY <3>1
                    <6> QED
                        BY <6>1, <6>2
                <5>3. left = [k \in 1..(i - 1) |-> files[k]]
                    BY <3>1, <3>2, <5>1
                <5> QED
                    BY <5>1, <5>2, <5>3
            <4>2. right \in Seq(Files) /\ Len(right) = m - i /\ \A k \in 1..(m - i) : right[k] = files[i + k]
                <5>1. m - i \in Nat /\ m - (i + 1) + 1 = m - i /\ i + 1 \in 1..(m + 1)
                    BY <3>1
                <5>2. \A k \in 1..(m - i) : files[i + k] \in Files
                    <6>1. \A k \in 1..m : files[k] \in Files
                        BY <3>1, <3>8
                    <6>2. \A k \in 1..(m - i) : i + k \in 1..m
                        BY <3>1
                    <6> QED
                        BY <6>1, <6>2
                <5>3. right = [k \in 1..(m - i) |-> files[i + k]]
                    BY <1>0, <3>1, <3>2, <5>1
                <5> QED
                    BY <5>1, <5>2, <5>3
            <4> QED
                BY <4>1, <4>2
        <3>4. PICK g : g = left \o right
            OBVIOUS
        <3>5. /\ g \in Seq(Files) /\ Len(g) = n
              /\ \A k \in 1..n : g[k] = IF k <= i - 1 THEN left[k] ELSE right[k - (i - 1)]
            BY <3>1, <3>3, <3>4
        <3>6. ASSUME NEW k \in 1..n PROVE g[k] = files[p[k]]
            <4>1. CASE k < i
                <5>1. k \in 1..(i - 1) /\ k <= i - 1
                    BY <4>1
                <5>2. g[k] = left[k] /\ left[k] = files[k]
                    BY <3>3, <3>5, <5>1
                <5>3. p[k] = k
                    BY <2>4, <4>1
                <5> QED
                    BY <5>2, <5>3
            <4>2. CASE ~(k < i)
                <5>1. PICK d \in 1..(m - i) : d = k - (i - 1) /\ i + d = k + 1
                    BY <3>1, <4>2
                <5>2. g[k] = right[d] /\ right[d] = files[i + d]
                    BY <3>3, <3>5, <4>2, <5>1
                <5> QED
                    BY <2>4, <4>2, <5>1, <5>2
            <4> QED
                BY <4>1, <4>2
        <3>7. g = [k \in 1..n |-> files[p[k]]]
            BY <3>5, <3>6
        <3> QED
            BY <2>1, <3>1, <3>2, <3>4, <3>7 DEF RemoveAt
    <2>7. Listing(files', lastId')
        <3>1. SomeOf(files, files')
            BY <2>5, <2>6 DEF SomeOf
        <3> QED
            BY <1>0, <2>2, <3>1, ListingOfSome
    <2> QED
        BY <1>0, <2>2, <2>7, ListChanged
<1>4. CASE Reorder
    <2>1. /\ merged' = None /\ ~Merging /\ UNCHANGED <<lastId, job, asked, items>>
        BY <1>4 DEF Reorder, pickerVars
    <2>2. PICK n \in Nat : n = Len(files)
        BY <1>0
    <2>3. \E p \in [1..n -> 1..Len(files)] :
              (\A i, j \in 1..n : p[i] = p[j] => i = j) /\ files' = [i \in 1..n |-> files[p[i]]]
        <3>1. CASE \E i \in 1..(Len(files) - 1) :
                       files' = [files EXCEPT ![i] = files[i + 1], ![i + 1] = files[i]]
            <4>1. PICK i \in 1..(n - 1) : files' = [files EXCEPT ![i] = files[i + 1], ![i + 1] = files[i]]
                BY <2>2, <3>1
            <4>2. PICK p : p = [k \in 1..n |-> IF k = i THEN i + 1 ELSE IF k = i + 1 THEN i ELSE k]
                OBVIOUS
            <4>3. p \in [1..n -> 1..Len(files)] /\ \A k, m \in 1..n : p[k] = p[m] => k = m
                BY <2>2, <4>2
            <4>4. files' = [k \in 1..n |-> files[p[k]]]
                <5>1. PICK g : g = files'
                    OBVIOUS
                <5>2. DOMAIN files = 1..n /\ i \in 1..n /\ i + 1 \in 1..n /\ i # i + 1
                    BY <1>0, <2>2
                <5>3. DOMAIN g = 1..n /\ g = [k \in 1..n |-> g[k]]
                    BY <4>1, <5>1, <5>2
                <5>4. \A k \in 1..n : g[k] = IF k = i + 1 THEN files[i] ELSE IF k = i THEN files[i + 1] ELSE files[k]
                    BY <4>1, <5>1, <5>2
                <5>5. \A k \in 1..n : g[k] = files[p[k]]
                    BY <4>2, <5>2, <5>4
                <5> QED
                    BY <5>1, <5>3, <5>5
            <4> QED
                BY <4>3, <4>4
        <3>2. CASE files' \in ByName
            <4>1. PICK q \in [1..n -> 1..n] :
                      /\ files' = [i \in 1..n |-> files[q[i]]]
                      /\ \A i, j \in 1..n : i < j => \/ files[q[i]].pdf < files[q[j]].pdf
                                                     \/ files[q[i]].pdf = files[q[j]].pdf /\ q[i] < q[j]
                BY <2>2, <3>2 DEF ByName
            <4>2. \A i \in 1..n : q[i] \in 1..n /\ files[q[i]] \in Files /\ files[q[i]].pdf \in Nat
                <5>1. \A f \in Files : f.pdf \in Nat
                    BY MergeAssumption DEF Files
                <5>2. \A i \in 1..n : q[i] \in 1..n
                    OBVIOUS
                <5>3. \A k \in 1..n : files[k] \in Files
                    BY <1>0, <2>2
                <5> QED
                    BY <5>1, <5>2, <5>3
            <4>3. \A i, j \in 1..n : i < j => q[i] # q[j]
                BY <4>1, <4>2
            <4>4. \A i, j \in 1..n : q[i] = q[j] => i = j
                BY <4>3
            <4> QED
                BY <2>2, <4>1, <4>4
        <3> QED
            BY <1>4, <3>1, <3>2 DEF Reorder
    <2>4. Listing(files', lastId')
        <3>1. SomeOf(files, files')
            BY <2>3 DEF SomeOf
        <3> QED
            BY <1>0, <2>1, <3>1, ListingOfSome
    <2> QED
        BY <1>0, <2>1, <2>4, ListChanged
<1>5. CASE Clear
    <2>1. /\ files' = <<>> /\ merged' = None /\ ~Merging /\ UNCHANGED <<lastId, job, asked, items>>
        BY <1>5 DEF Clear, pickerVars
    <2>2. Listing(files', lastId')
        BY <2>1 DEF Listing, Apart
    <2> QED
        BY <1>0, <2>1, <2>2, ListChanged
<1> QED
    BY <1>1, <1>2, <1>3, <1>4, <1>5
-----------------------------------------------------------------------------
(* Steps of the merge under way.                                            *)
LEMMA MergeStarts ==
    ASSUME MergeInv, Merge
    PROVE  MergeInv'
<1>1. /\ lastId \in Nat /\ Listing(files, lastId) /\ Apart(files) /\ files \in Seq(Files) /\ Len(files) \in Nat
      /\ asked \in Seq(DOMAIN InFolder) /\ items \in DOMAIN InFolder \cup {None, "error"}
    BY DEF MergeInv, Listing, Apart
<1>2. /\ job' = [sources |-> files, at |-> 1, pages |-> <<>>, marks |-> <<>>]
      /\ merged' = None /\ UNCHANGED <<files, lastId, asked, items>>
    BY DEF Merge, pickerVars
<1>3. PICK doing, none : doing = job' /\ none = <<>>
    OBVIOUS
<1>4. doing = [sources |-> files, at |-> 1, pages |-> none, marks |-> none]
    BY <1>2, <1>3
<1>5. /\ doing.sources = files /\ doing.at = 1 /\ doing.pages = none /\ doing.marks = none
      /\ doing = [sources |-> doing.sources, at |-> doing.at, pages |-> doing.pages, marks |-> doing.marks]
    BY <1>4
<1>6. Marked(files, 0, none)
    <2>1. Filled(files, 0) = {} /\ Cardinality(Filled(files, 0)) = 0
        BY <1>1, FilledFacts, FS_EmptySet
    <2>2. none \in Seq([file : Nat, page : Nat]) /\ Len(none) = 0
        BY <1>3
    <2> QED
        BY <2>1, <2>2 DEF Marked
<1>7. Pages(files, 0) = none
    BY <1>1, <1>3, PagesFacts
<1>8. UnderWay(doing)
    BY <1>1, <1>5, <1>6, <1>7 DEF UnderWay
<1>9. SameFiles(doing.sources, files')
    BY <1>2, <1>5 DEF SameFiles
<1>10. MergedIsListed'
    BY <1>2 DEF MergedIsListed
<1> QED
    BY <1>1, <1>2, <1>3, <1>8, <1>9, <1>10 DEF MergeInv

LEMMA MergeGoesOn ==
    ASSUME MergeInv, Fetch \/ AddPages
    PROVE  MergeInv'
<1>1. /\ lastId \in Nat /\ Listing(files, lastId) /\ Apart(files) /\ files \in Seq(Files) /\ Len(files) \in Nat
      /\ \A i \in 1..Len(files) : files[i].id <= lastId
      /\ asked \in Seq(DOMAIN InFolder) /\ items \in DOMAIN InFolder \cup {None, "error"}
    BY DEF MergeInv, Listing, Apart
<1>2. Merging /\ UnderWay(job) /\ merged = None /\ (~dropped => SameFiles(job.sources, files))
    BY DEF MergeInv, Fetch, AddPages
<1>3. PICK sources, at, pages, marks : job = [sources |-> sources, at |-> at, pages |-> pages, marks |-> marks]
    BY <1>2 DEF UnderWay
<1>4. job.sources = sources /\ job.at = at /\ job.pages = pages /\ job.marks = marks
    BY <1>3
<1>5. /\ Apart(sources) /\ sources \in Seq(Files) /\ Len(sources) \in Nat /\ at \in 1..(Len(sources) + 1)
      /\ pages = Pages(sources, at - 1) /\ Marked(sources, at - 1, marks)
    BY <1>2, <1>4 DEF UnderWay, Apart
<1>6. /\ UNCHANGED <<lastId, asked, items, merged, dropped>>
      /\ at <= Len(sources)
    BY <1>4 DEF Fetch, AddPages, pickerVars
<1>7. at \in 1..Len(sources) /\ at - 1 \in 0..Len(sources) /\ at - 1 \in 0..(Len(sources) - 1) /\ (at - 1) + 1 = at
    BY <1>5, <1>6
<1>8. PICK turn : turn = sources[at] /\ turn = Source
    BY <1>4 DEF Source
<1>9. MergedIsListed'
    BY <1>2, <1>6 DEF MergedIsListed
<1>10. CASE Fetch
    <2>1. /\ job' = [job EXCEPT !.sources[job.at].fetched = TRUE]
          /\ files' = [i \in DOMAIN files |-> IF files[i].id = turn.id THEN [files[i] EXCEPT !.fetched = TRUE] ELSE files[i]]
        BY <1>8, <1>10 DEF Fetch
    <2>2. PICK ss : ss = [sources EXCEPT ![at] = [turn EXCEPT !.fetched = TRUE]]
        OBVIOUS
    <2>9. Len(sources) \in Nat /\ DOMAIN sources = 1..Len(sources) /\ at \in 1..Len(sources)
        BY <1>5, <1>7
    <2>3. job' = [sources |-> ss, at |-> at, pages |-> pages, marks |-> marks]
        BY <1>3, <1>4, <1>8, <2>1, <2>2
    <2>4. Apart(ss) /\ SameFiles(sources, ss) /\ Len(ss) = Len(sources)
        <3>1. DOMAIN ss = 1..Len(sources) /\ ss = [i \in DOMAIN ss |-> ss[i]]
            BY <2>2, <2>9
        <3>2. \A i \in 1..Len(sources) : ss[i] \in {sources[i], [sources[i] EXCEPT !.fetched = TRUE]}
            BY <1>8, <2>2, <2>9
        <3> QED
            BY <1>5, <3>1, <3>2, ListingFetched
    <2>5. Apart(files') /\ SameFiles(files, files') /\ Len(files') = Len(files)
        <3>1. PICK g : g = files'
            OBVIOUS
        <3>2. DOMAIN g = 1..Len(files) /\ g = [i \in DOMAIN g |-> g[i]]
            BY <1>1, <2>1, <3>1
        <3>3. \A i \in 1..Len(files) : g[i] \in {files[i], [files[i] EXCEPT !.fetched = TRUE]}
            BY <1>1, <2>1, <3>1
        <3> QED
            BY <1>1, <3>1, <3>2, <3>3, ListingFetched
    <2>6. Listing(files', lastId')
        <3>1. \A i \in 1..Len(files) : files'[i].id = files[i].id
            BY <2>5 DEF SameFiles
        <3> QED
            BY <1>1, <1>6, <2>5, <3>1 DEF Listing
    <2>7. UnderWay(job')
        <3>1. ss \in Seq(Files)
            BY <2>4 DEF Apart
        <3>2. Pages(ss, at - 1) = Pages(sources, at - 1) /\ Marked(ss, at - 1, marks)
            BY <1>5, <1>7, <2>4, <3>1, SameFacts, MarkedSame
        <3>3. PICK doing : doing = job'
            OBVIOUS
        <3>4. /\ doing.sources = ss /\ doing.at = at /\ doing.pages = pages /\ doing.marks = marks
              /\ doing = [sources |-> doing.sources, at |-> doing.at, pages |-> doing.pages, marks |-> doing.marks]
            BY <2>3, <3>3
        <3>5. UnderWay(doing)
            BY <1>5, <2>4, <3>2, <3>4 DEF UnderWay
        <3> QED
            BY <3>3, <3>5
    <2>8. ~dropped' => SameFiles(job'.sources, files')
        <3>1. ~dropped => SameFiles(sources, files)
            BY <1>2, <1>4
        <3>2. job'.sources = ss
            BY <2>3
        <3> QED
            BY <1>6, <2>4, <2>5, <3>1, <3>2 DEF SameFiles
    <2> QED
        BY <1>1, <1>2, <1>6, <1>9, <2>6, <2>7, <2>8 DEF MergeInv
<1>11. CASE AddPages
    <2>1. /\ UNCHANGED files
          /\ job' = [job EXCEPT
                        !.at = @ + 1,
                        !.pages = @ \o [i \in 1..PagesIn[turn.pdf] |-> turn.id],
                        !.marks = IF PagesIn[turn.pdf] = 0 THEN @
                                  ELSE Append(@, [file |-> turn.id, page |-> Len(job.pages) + 1])]
        BY <1>8, <1>11 DEF AddPages
    <2>2. PICK ps, ms : /\ ps = pages \o [i \in 1..PagesIn[turn.pdf] |-> turn.id]
                        /\ ms = IF PagesIn[turn.pdf] = 0 THEN marks
                                ELSE Append(marks, [file |-> turn.id, page |-> Len(pages) + 1])
        OBVIOUS
    <2>3. job' = [sources |-> sources, at |-> at + 1, pages |-> ps, marks |-> ms]
        BY <1>3, <1>4, <2>1, <2>2
    <2>4. ps = Pages(sources, at)
        <3>1. Pages(sources, at) = Pages(sources, at - 1) \o PagesOf(sources[at])
            BY <1>5, <1>7, PagesFacts
        <3> QED
            BY <1>5, <1>8, <2>2, <3>1 DEF PagesOf
    <2>5. Marked(sources, at, ms)
        <3>1. PICK n \in 0..(Len(sources) - 1) : n = at - 1 /\ n + 1 = at
            BY <1>7
        <3>2. Marked(sources, n, marks)
            BY <1>5, <3>1
        <3>3. ms = IF PagesIn[sources[n + 1].pdf] = 0 THEN marks
                   ELSE Append(marks, [file |-> sources[n + 1].id, page |-> Len(Pages(sources, n)) + 1])
            BY <1>5, <1>8, <2>2, <3>1
        <3>4. Marked(sources, n + 1, ms)
            BY <1>5, <3>2, <3>3, MarkedNext
        <3> QED
            BY <3>1, <3>4
    <2>6. UnderWay(job')
        <3>1. PICK doing, next : doing = job' /\ next = at + 1 /\ next \in 1..(Len(sources) + 1) /\ next - 1 = at
            BY <1>7
        <3>2. /\ doing.sources = sources /\ doing.at = next /\ doing.pages = ps /\ doing.marks = ms
              /\ doing = [sources |-> doing.sources, at |-> doing.at, pages |-> doing.pages, marks |-> doing.marks]
            BY <2>3, <3>1
        <3>3. UnderWay(doing)
            BY <1>5, <2>4, <2>5, <3>1, <3>2 DEF UnderWay
        <3> QED
            BY <3>1, <3>3
    <2>7. ~dropped' => SameFiles(job'.sources, files')
        BY <1>2, <1>4, <1>6, <2>1, <2>3
    <2> QED
        BY <1>1, <1>2, <1>6, <1>9, <2>1, <2>6, <2>7 DEF MergeInv
<1> QED
    BY <1>10, <1>11

LEMMA MergeEnds ==
    ASSUME MergeInv, SaveMerged \/ StopMerge \/ CancelMerge
    PROVE  MergeInv'
<1>1. /\ lastId \in Nat /\ Listing(files, lastId) /\ Apart(files) /\ files \in Seq(Files) /\ Len(files) \in Nat
      /\ asked \in Seq(DOMAIN InFolder) /\ items \in DOMAIN InFolder \cup {None, "error"}
    BY DEF MergeInv, Listing, Apart
<1>2. Merging /\ UnderWay(job) /\ merged = None /\ (~dropped => SameFiles(job.sources, files))
    BY DEF MergeInv, SaveMerged, StopMerge, CancelMerge
<1>3. UNCHANGED <<files, lastId, asked, items, dropped>>
    BY DEF SaveMerged, StopMerge, CancelMerge, pickerVars
<1>4. CASE SaveMerged
    <2>1. ~Merging'
        BY <1>4 DEF SaveMerged, Merging
    <2>2. MergedIsListed'
        <3>1. CASE dropped
            BY <1>3, <3>1 DEF MergedIsListed
        <3>2. CASE ~dropped
            <4>1. PICK sources, marks, pages, at :
                      sources = job.sources /\ marks = job.marks /\ pages = job.pages /\ at = job.at
                OBVIOUS
            <4>2. /\ Apart(sources) /\ sources \in Seq(Files) /\ Len(sources) \in Nat /\ at \in 1..(Len(sources) + 1)
                  /\ pages = Pages(sources, at - 1) /\ Marked(sources, at - 1, marks) /\ SameFiles(sources, files)
                BY <1>2, <3>2, <4>1 DEF UnderWay, Apart
            <4>3. at > Len(sources)
                BY <1>4, <4>1 DEF SaveMerged
            <4>4. at - 1 = Len(sources) /\ Len(sources) \in 0..Len(sources) /\ Len(files) = Len(sources)
                BY <4>2, <4>3 DEF SameFiles
            <4>5. pages = Pages(files, Len(files)) /\ Marked(files, Len(files), marks)
                <5>1. pages = Pages(sources, Len(sources)) /\ Marked(sources, Len(sources), marks)
                    BY <4>2, <4>4
                <5>2. Pages(files, Len(sources)) = Pages(sources, Len(sources)) /\ Marked(files, Len(sources), marks)
                    BY <1>1, <4>2, <4>4, <5>1, SameFacts, MarkedSame
                <5> QED
                    BY <4>4, <5>1, <5>2
            <4>6. PICK bookmarks \in BOOLEAN :
                      merged' = [pages |-> WithAPage(pages), count |-> Len(files),
                                 outline |-> IF bookmarks THEN Bookmarks(marks) ELSE <<>>]
                BY <1>4, <4>1 DEF SaveMerged
            <4>7. /\ merged'.pages = WithAPage(Pages(files, Len(files))) /\ merged'.count = Len(files)
                  /\ merged'.outline \in {<<>>, Bookmarks(marks)}
                BY <4>5, <4>6
            <4>8. /\ Apart(files') /\ Marked(files', Len(files'), marks)
                  /\ merged'.pages = WithAPage(Pages(files', Len(files'))) /\ merged'.count = Len(files')
                BY <1>1, <1>3, <4>5, <4>7
            <4>9. IsOf(merged', files')
                <5>1. PICK doc, list : doc = merged' /\ list = files'
                    OBVIOUS
                <5>2. IsOf(doc, list)
                    BY <4>7, <4>8, <5>1, SavedIsListed
                <5> QED
                    BY <5>1, <5>2
            <4> QED
                BY <4>9 DEF IsOf, MergedIsListed
        <3> QED
            BY <3>1, <3>2
    <2> QED
        BY <1>1, <1>3, <2>1, <2>2 DEF MergeInv
<1>5. CASE StopMerge
    <2>1. ~Merging' /\ merged' = None
        BY <1>2, <1>5 DEF StopMerge, Merging
    <2>2. MergedIsListed'
        BY <2>1 DEF MergedIsListed
    <2> QED
        BY <1>1, <1>3, <2>1, <2>2 DEF MergeInv
<1>6. CASE CancelMerge
    <2>1. UNCHANGED <<job, merged>>
        BY <1>6 DEF CancelMerge
    <2>2. MergedIsListed'
        BY <1>2, <2>1 DEF MergedIsListed
    <2> QED
        BY <1>1, <1>2, <1>3, <2>1, <2>2 DEF MergeInv, Merging
<1> QED
    BY <1>4, <1>5, <1>6

(* The picker, a page left for the next, and what other pages do.           *)
LEMMA RestOfMerge ==
    ASSUME MergeInv, Browsing',
           \/ OpenPicker \/ Browse \/ Type \/ Find \/ Listed \/ ClosePicker
           \/ HandOnMerged \/ UNCHANGED mergeVars
    PROVE  MergeInv'
<1>1. /\ lastId \in Nat /\ Listing(files, lastId)
      /\ asked \in Seq(DOMAIN InFolder) /\ items \in DOMAIN InFolder \cup {None, "error"}
      /\ Merging => UnderWay(job) /\ merged = None /\ (~dropped => SameFiles(job.sources, files))
      /\ MergedIsListed
    BY DEF MergeInv
<1>2. CASE HandOnMerged
    <2>1. files' = <<>> /\ lastId' = 0 /\ asked' = <<>> /\ items' = None /\ job' = None /\ merged' = None
        BY <1>2 DEF HandOnMerged
    <2>2. Listing(files', lastId')
        BY <2>1 DEF Listing, Apart
    <2>3. MergedIsListed' /\ ~Merging' /\ asked' \in Seq(DOMAIN InFolder)
        BY <2>1 DEF MergedIsListed, Merging
    <2> QED
        BY <2>1, <2>2, <2>3 DEF MergeInv
<1>3. CASE ~HandOnMerged
    <2>1. UNCHANGED <<files, lastId, job, merged, dropped>>
        BY <1>3 DEF OpenPicker, Browse, Type, Find, Listed, ClosePicker, mergeVars
    <2>2. asked' \in Seq(DOMAIN InFolder) /\ items' \in DOMAIN InFolder \cup {None, "error"}
        BY DEF Browsing
    <2>3. MergedIsListed
        BY DEF MergeInv
    <2>4. files' = files /\ merged' = merged /\ dropped' = dropped
        BY <2>1
    <2>5. MergedIsListed'
        BY <2>3, <2>4, Zenon DEF MergedIsListed
    <2> QED
        BY <1>1, <2>1, <2>2, <2>5 DEF MergeInv, Merging
<1> QED
    BY <1>2, <1>3

(* pdf-merger.js: the merged PDF on offer has the pages of the files listed,*)
(* in their order, and bookmarks to the first page of each that has any:    *)
(* whatever is added, taken out or moved, and whenever.                     *)
THEOREM MergedListed == Spec => []MergedIsListed
<1>1. Init => MergeInv
    <2> SUFFICES ASSUME Init PROVE MergeInv
        OBVIOUS
    <2>1. files = <<>> /\ lastId = 0 /\ asked = <<>> /\ items = None /\ job = None /\ merged = None
        BY DEF Init, MergeInit
    <2>2. Listing(files, lastId)
        BY <2>1 DEF Listing, Apart
    <2>3. MergedIsListed /\ ~Merging /\ asked \in Seq(DOMAIN InFolder)
        BY <2>1 DEF MergedIsListed, Merging
    <2> QED
        BY <2>1, <2>2, <2>3 DEF MergeInv
<1>2. MergeInv /\ Browsing' /\ [Next]_vars => MergeInv'
    <2> SUFFICES ASSUME MergeInv, Browsing', [Next]_vars PROVE MergeInv'
        OBVIOUS
    <2>1. CASE UNCHANGED mergeVars
        BY <2>1, RestOfMerge
    <2>2. CASE HandOnMerged
        BY <2>2, RestOfMerge
    <2>3. CASE MergeNext
        BY <2>3, ListSteps, MergeStarts, MergeGoesOn, MergeEnds, RestOfMerge DEF MergeNext, MergeStep
    <2> QED
        BY <2>1, <2>2, <2>3 DEF Next, vars, HandOnCompressed, Reload, OtherTab, HourPasses
<1>3. MergeInv => MergedIsListed
    BY DEF MergeInv
<1> QED
    BY <1>1, <1>2, <1>3, AlwaysBrowsing, PTL DEF Spec
=============================================================================
