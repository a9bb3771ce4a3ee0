------------------------------- MODULE MergePage -------------------------------
(***************************************************************************)
(* The Merge PDF page: PDFs from the computer and from OneDrive put in     *)
(* order and merged.                                                       *)
(*                                                                         *)
(*   resources/js/pdf-merger.js              the list and the merge        *)
(*   resources/js/pdf-merger/merge.js        mergePdfs                     *)
(*   resources/js/pdf/onedrive-picker.js     folders browsed and searched  *)
(*                                                                         *)
(* A listed file is [id, pdf, fetched]; the merged PDF is the id of the    *)
(* file each of its pages came from, and its bookmarks. What the server    *)
(* answers it answers in order: Livewire asks one thing at a time.         *)
(***************************************************************************)
EXTENDS Nothing, Integers, SequencesExt

CONSTANTS
    PagesIn,   \* the PDFs there are, by their names' order, and how many pages each has
    InFolder,  \* OneDrive's folders, and the PDFs in each by their names;
               \* and likewise the words searched, and the PDFs found
    Words,     \* those words
    Top,       \* the top folder
    MaxFiles,  \* bound: files ever listed, and with them requests not answered
    MaxAsked   \* bound: requests not answered

ASSUME MergeAssumption ==
    /\ PagesIn \in [DOMAIN PagesIn -> Nat] /\ DOMAIN PagesIn \subseteq Nat
    /\ \A f \in DOMAIN InFolder : InFolder[f] \in Seq(DOMAIN PagesIn)
    /\ Words \subseteq DOMAIN InFolder /\ Top \in DOMAIN InFolder \ Words
    /\ DOMAIN InFolder \cap {None, "error"} = {}
    /\ MaxFiles \in Nat /\ MaxAsked \in Nat /\ None \notin Nat

VARIABLES
    files,     \* the files listed, in order
    lastId,    \* the last id given
    trail,     \* the folder open in the picker
    search,    \* the words in its search box, or None
    due,       \* the box was changed, and what it asks for is not asked yet
    asked,     \* folders and words asked for and not answered
    items,     \* the folder or words whose PDFs are listed, None, or "error"
    picker,    \* the picker is open
    loading,   \* it shows that it loads
    job,       \* the merge under way, or None
    cancelled, \* Cancel was clicked
    merged,    \* the merged PDF, or None
    dropped    \* a file was dropped on the page during the last merge

pickerVars == <<trail, search, due, asked, items, picker, loading>>
mergeVars == <<files, lastId, pickerVars, job, cancelled, merged, dropped>>

MergeInit ==
    /\ files = <<>> /\ lastId = 0
    /\ trail = Top /\ search = None /\ due = FALSE
    /\ asked = <<>> /\ items = None /\ picker = FALSE /\ loading = FALSE
    /\ job = None /\ cancelled = FALSE /\ merged = None /\ dropped = FALSE

Merging == job # None
-----------------------------------------------------------------------------
(* PDFs added at the end of the list; what was merged is forgotten.         *)
Add(pdfs, fetched) ==
    /\ lastId + Len(pdfs) + Len(asked) <= MaxFiles
    /\ files' = files \o [i \in 1..Len(pdfs) |-> [id |-> lastId + i, pdf |-> pdfs[i], fetched |-> fetched]]
    /\ lastId' = lastId + Len(pdfs)
    /\ merged' = None
    /\ dropped' = (dropped \/ Merging)

(* Chosen, or dropped: dropping is not stopped while files are merged.      *)
PickFile ==
    /\ ~picker
    /\ \E p \in DOMAIN PagesIn : Add(<<p>>, TRUE)
    /\ UNCHANGED <<pickerVars, job, cancelled>>

(* Mutant: the merged PDF stays when a file is taken out. *)
TakeOutOnly ==
    /\ ~Merging /\ ~picker
    /\ \E i \in 1..Len(files) : files' = RemoveAt(files, i)
    /\ UNCHANGED <<lastId, pickerVars, job, cancelled, merged, dropped>>

TakeOut ==
    /\ ~Merging /\ ~picker
    /\ \E i \in 1..Len(files) : files' = RemoveAt(files, i)
    /\ merged' = None
    /\ UNCHANGED <<lastId, pickerVars, job, cancelled, dropped>>

(* The files by their names, those of one name as they were.                *)
ByName ==
    {[i \in 1..Len(files) |-> files[p[i]]] :
        p \in {q \in [1..Len(files) -> 1..Len(files)] :
                  \A i, j \in 1..Len(files) :
                      i < j => \/ files[q[i]].pdf < files[q[j]].pdf
                               \/ files[q[i]].pdf = files[q[j]].pdf /\ q[i] < q[j]}}

(* Moved a place up or down, or all sorted by name.                         *)
Reorder ==
    /\ ~Merging /\ ~picker
    /\ \/ \E i \in 1..(Len(files) - 1) :
              files' = [files EXCEPT ![i] = files[i + 1], ![i + 1] = files[i]]
       \/ files' \in ByName
    /\ merged' = None
    /\ UNCHANGED <<lastId, pickerVars, job, cancelled, dropped>>

Clear ==
    /\ ~Merging /\ ~picker
    /\ files' = <<>>
    /\ merged' = None
    /\ UNCHANGED <<lastId, pickerVars, job, cancelled, dropped>>
-----------------------------------------------------------------------------
Lists(folder) == folder \notin {None, "error"}

(* Its PDFs are asked for. *)
Ask(list) ==
    /\ Len(asked) < MaxAsked /\ lastId + Len(asked) < MaxFiles
    /\ asked' = Append(asked, list)
    /\ items' = IF items = "error" THEN None ELSE items
    /\ loading' = TRUE

(* A folder gone to: its path shown at once, nothing searched any more.     *)
GoTo(folder) ==
    /\ trail' = folder /\ search' = None
    /\ Ask(folder)

(* Opened with nothing listed, and no error shown: the top folder.          *)
OpenPicker ==
    /\ ~Merging /\ ~picker
    /\ picker' = TRUE
    /\ IF items = None \/ (Lists(items) /\ InFolder[items] = <<>>)
       THEN GoTo(Top) ELSE UNCHANGED <<trail, search, asked, items, loading>>
    /\ UNCHANGED <<files, lastId, due, job, cancelled, merged, dropped>>

Browse ==
    /\ picker
    /\ \E f \in DOMAIN InFolder \ Words : GoTo(f)
    /\ UNCHANGED <<files, lastId, due, picker, job, cancelled, merged, dropped>>

(* The box changed, or cleared. *)
Type ==
    /\ picker
    /\ search' \in Words \cup {None}
    /\ due' = TRUE
    /\ UNCHANGED <<files, lastId, trail, asked, items, picker, loading, job, cancelled, merged, dropped>>

(* Half a second later, what the box says is asked for: the folder open,    *)
(* when it is empty. The path stays.                                        *)
Find ==
    /\ due
    /\ due' = FALSE
    /\ Ask(IF search = None THEN trail ELSE search)
    /\ UNCHANGED <<files, lastId, trail, search, picker, job, cancelled, merged, dropped>>

(* The server's answer, or its failure: shown, whatever was asked since.    *)
Listed ==
    /\ asked # <<>>
    /\ items' \in {Head(asked), "error"}
    /\ asked' = Tail(asked)
    /\ loading' = FALSE
    /\ UNCHANGED <<files, lastId, trail, search, due, picker, job, cancelled, merged, dropped>>

(* One PDF of those listed; or, with nothing in the search box, all of them. *)
PickListed ==
    /\ picker /\ ~loading /\ Lists(items)
    /\ \/ \E i \in 1..Len(InFolder[items]) : Add(<<InFolder[items][i]>>, FALSE) /\ UNCHANGED picker
       \/ search = None /\ InFolder[items] # <<>> /\ Add(InFolder[items], FALSE) /\ picker' = FALSE
    /\ UNCHANGED <<trail, search, due, asked, items, loading, job, cancelled>>

ClosePicker ==
    /\ picker
    /\ picker' = FALSE
    /\ UNCHANGED <<files, lastId, trail, search, due, asked, items, loading, job, cancelled, merged, dropped>>
-----------------------------------------------------------------------------
Merge ==
    /\ ~Merging /\ ~picker /\ Len(files) >= 2
    /\ job' = [sources |-> files, at |-> 1, pages |-> <<>>, marks |-> <<>>]
    /\ cancelled' = FALSE /\ merged' = None /\ dropped' = FALSE
    /\ UNCHANGED <<files, lastId, pickerVars>>

Source == job.sources[job.at]

(* A file from OneDrive is fetched when its turn comes, and kept.           *)
Fetch ==
    /\ Merging /\ job.at <= Len(job.sources) /\ ~Source.fetched
    /\ job' = [job EXCEPT !.sources[job.at].fetched = TRUE]
    /\ files' = [i \in DOMAIN files |-> IF files[i].id = Source.id THEN [files[i] EXCEPT !.fetched = TRUE] ELSE files[i]]
    /\ UNCHANGED <<lastId, pickerVars, cancelled, merged, dropped>>

(* Its pages are added, with a moment for the browser after each; a bookmark*)
(* leads to its first.                                                      *)
AddPages ==
    /\ Merging /\ job.at <= Len(job.sources) /\ Source.fetched
    /\ cancelled => PagesIn[Source.pdf] = 0
    /\ job' = [job EXCEPT
                  !.at = @ + 1,
                  !.pages = @ \o [i \in 1..PagesIn[Source.pdf] |-> Source.id],
                  !.marks = IF PagesIn[Source.pdf] = 0 THEN @
                            ELSE Append(@, [file |-> Source.id, page |-> Len(job.pages) + 1])]
    /\ UNCHANGED <<files, lastId, pickerVars, cancelled, merged, dropped>>

(* The outline as written: each entry with the one before and after it.     *)
Bookmarks(marks) ==
    IF Len(marks) < 2 THEN <<>>
    ELSE [i \in 1..Len(marks) |->
             [file |-> marks[i].file, page |-> marks[i].page,
              prev |-> IF i > 1 THEN i - 1 ELSE None,
              next |-> IF i < Len(marks) THEN i + 1 ELSE None]]

(* A PDF without pages is saved with an empty one, which came from no file. *)
WithAPage(pages) == IF pages = <<>> THEN <<None>> ELSE pages

SaveMerged ==
    /\ Merging /\ job.at > Len(job.sources)
    /\ \E bookmarks \in BOOLEAN :
           merged' = [pages |-> WithAPage(job.pages), count |-> Len(files),
                      outline |-> IF bookmarks THEN Bookmarks(job.marks) ELSE <<>>]
    /\ job' = None
    /\ UNCHANGED <<files, lastId, pickerVars, cancelled, dropped>>

(* Cancel noticed after a page, or a file that cannot be fetched or read.   *)
StopMerge ==
    /\ Merging
    /\ job' = None
    /\ UNCHANGED <<files, lastId, pickerVars, cancelled, merged, dropped>>

CancelMerge ==
    /\ Merging
    /\ cancelled' = TRUE
    /\ UNCHANGED <<files, lastId, pickerVars, job, merged, dropped>>

MergeStep == Fetch \/ AddPages \/ SaveMerged \/ StopMerge

MergeNext ==
    \/ PickFile \/ TakeOut \/ Reorder \/ Clear
    \/ OpenPicker \/ Browse \/ Type \/ Find \/ Listed \/ PickListed \/ ClosePicker
    \/ Merge \/ MergeStep \/ CancelMerge
-----------------------------------------------------------------------------
(* The merged PDF on offer is of the files listed, in the order listed,     *)
(* each page once, and walking through its bookmarks leads to the first     *)
(* page of every file that has any. But for files dropped on the page while *)
(* it was merged, which are listed and are not in it.                       *)
MergedIsListed ==
    merged # None /\ ~dropped =>
        LET pagesOf(f) == [i \in 1..PagesIn[f.pdf] |-> f.id]
            filled == {i \in 1..Len(files) : PagesIn[files[i].pdf] > 0}
            nth(i) == Cardinality({j \in filled : j <= i})
            outline == merged.outline
        IN  /\ merged.pages = WithAPage(FlattenSeq([i \in 1..Len(files) |-> pagesOf(files[i])]))
            /\ merged.count = Len(files)
            /\ outline # <<>> =>
                   /\ Len(outline) = Cardinality(filled)
                   /\ \A i \in filled :
                          LET entry == outline[nth(i)]
                          IN  /\ entry.file = files[i].id
                              /\ merged.pages[entry.page] = files[i].id
                              /\ \A q \in 1..(entry.page - 1) : merged.pages[q] # files[i].id
                              /\ IF entry.next = None THEN nth(i) = Len(outline)
                                 ELSE outline[entry.next].prev = nth(i)

(* With nothing asked, unanswered or due to be asked, the PDFs listed are   *)
(* those found for the words in the search box, and with none there those   *)
(* of the folder open in the picker. While the box's change is not asked    *)
(* for they are the last ones', whatever the picker offers to add.          *)
ListsWhatIsOpen ==
    asked = <<>> /\ ~due /\ Lists(items) => items = IF search = None THEN trail ELSE search
=============================================================================
