------------------------------- MODULE RichText -------------------------------
(***************************************************************************)
(* The rich text fields of a page: TinyMCE drawn over a field whose value  *)
(* the form keeps, and which the server may set while it is open.          *)
(*                                                                         *)
(*   resources/js/rich-text-field.js                                       *)
(*                                                                         *)
(* TinyMCE writes HTML its own way: a text the server set is "stored", the *)
(* same text read back from the editor is "editor", another string. What   *)
(* the editor holds is always the latter, so its text alone is kept.       *)
(* External: TinyMCE, and Livewire's entangled state.                      *)
(***************************************************************************)
EXTENDS WordLists

CONSTANTS
    Fields,  \* the rich text fields of the page
    Texts,   \* what can be written
    MaxOld   \* how many editors of fields removed may be starting, a bound

ASSUME RichTextAssumption == MaxOld \in Nat

VARIABLES
    script,    \* TinyMCE's script: "none", "coming" or "here"
    phase,     \* of each field: "gone", "waiting" for the script, "failed", "starting" or
               \* "ready"
    old,       \* editors still starting for the field as it was drawn before
    state,     \* the form's value
    sent,      \* the value last sent or received
    shown,     \* the editor's text for it
    content,   \* the editor's text
    focused,   \* the cursor is in the editor
    timer,     \* a change is to be sent soon
    uploading, \* the text with the picture being uploaded, or None
    editors,   \* how many editors TinyMCE holds for the field
    typed,     \* changed by the user since the server last set the value
    missed     \* the server set the value while the editor had the cursor

startVars == <<phase, old, editors>>
editorVars == <<sent, shown, content, focused, timer, uploading>>
vars == <<script, startVars, state, editorVars, typed, missed>>

Stored(t) == [text |-> t, form |-> "stored"]
Html(t) == [text |-> t, form |-> "editor"]

Init ==
    \E t \in Texts :
        /\ script = "none"
        /\ phase = [f \in Fields |-> "gone"]
        /\ state = [f \in Fields |-> Stored(t)]
        /\ sent = [f \in Fields |-> Stored(t)]
        /\ shown = [f \in Fields |-> t] /\ content = [f \in Fields |-> t]
        /\ focused = [f \in Fields |-> FALSE] /\ timer = [f \in Fields |-> FALSE]
        /\ uploading = [f \in Fields |-> None]
        /\ old = [f \in Fields |-> 0] /\ editors = [f \in Fields |-> 0]
        /\ typed = [f \in Fields |-> FALSE] /\ missed = [f \in Fields |-> FALSE]
-----------------------------------------------------------------------------
(* A field drawn: one script for all of them, asked for by the first.       *)
Draw(f) ==
    /\ phase[f] = "gone"
    /\ phase' = [phase EXCEPT ![f] = IF script = "here" THEN "starting" ELSE "waiting"]
    /\ script' = IF script = "none" THEN "coming" ELSE script
    /\ UNCHANGED <<old, editors, state, editorVars, typed, missed>>

(* Not loaded: the next field drawn asks again; those waiting have failed.  *)
ScriptEnds ==
    /\ script = "coming"
    /\ \E end \in {"here", "none"} :
           /\ script' = end
           /\ phase' = [f \in Fields |-> IF phase[f] # "waiting" THEN phase[f]
                                         ELSE IF end = "here" THEN "starting" ELSE "failed"]
    /\ UNCHANGED <<old, editors, state, editorVars, typed, missed>>

(* The value of now put in, not of when the field was drawn.                *)
PutIn(f) ==
    /\ sent' = [sent EXCEPT ![f] = state[f]]
    /\ shown' = [shown EXCEPT ![f] = state[f].text]
    /\ content' = [content EXCEPT ![f] = state[f].text]

Started(f) ==
    /\ phase[f] = "starting"
    /\ PutIn(f)
    /\ phase' = [phase EXCEPT ![f] = "ready"]
    /\ editors' = [editors EXCEPT ![f] = @ + 1]
    /\ missed' = [missed EXCEPT ![f] = FALSE]
    /\ UNCHANGED <<script, old, state, focused, timer, uploading, typed>>

(* TinyMCE cannot start an editor: the field goes without.                  *)
NotStarted(f) ==
    /\ phase[f] = "starting"
    /\ phase' = [phase EXCEPT ![f] = "failed"]
    /\ UNCHANGED <<script, old, editors, state, editorVars, typed, missed>>

(* Mutant: a field removed while its editor started is not asked about.     *)
OldStays(f) ==
    /\ old[f] > 0
    /\ old' = [old EXCEPT ![f] = @ - 1]
    /\ editors' = [editors EXCEPT ![f] = @ + 1]
    /\ UNCHANGED <<script, phase, state, editorVars, typed, missed>>

(* Started, or not, for a field removed meanwhile and perhaps drawn again:  *)
(* what has started is removed at once.                                     *)
OldEnds(f) ==
    /\ old[f] > 0
    /\ old' = [old EXCEPT ![f] = @ - 1]
    /\ UNCHANGED <<script, phase, editors, state, editorVars, typed, missed>>

(* The field removed from the page, what is not sent yet with it.           *)
Destroy(f) ==
    /\ phase[f] \in {"waiting", "failed", "starting", "ready"}
    /\ phase[f] = "starting" => old[f] < MaxOld
    /\ phase' = [phase EXCEPT ![f] = "gone"]
    /\ old' = [old EXCEPT ![f] = IF phase[f] = "starting" THEN @ + 1 ELSE @]
    /\ editors' = [editors EXCEPT ![f] = IF phase[f] = "ready" THEN @ - 1 ELSE @]
    /\ timer' = [timer EXCEPT ![f] = FALSE]
    /\ focused' = [focused EXCEPT ![f] = FALSE]
    /\ uploading' = [uploading EXCEPT ![f] = None]
    /\ UNCHANGED <<script, state, sent, shown, content, typed, missed>>
-----------------------------------------------------------------------------
(* Mutant: what the editor holds is compared with the value, not with what  *)
(* it held for it.                                                          *)
PushUnlikeSent(f) ==
    /\ timer' = [timer EXCEPT ![f] = FALSE]
    /\ IF Html(content[f]) = sent[f]
       THEN UNCHANGED <<state, sent, shown, missed>>
       ELSE /\ shown' = [shown EXCEPT ![f] = content[f]]
            /\ sent' = [sent EXCEPT ![f] = Html(content[f])]
            /\ state' = [state EXCEPT ![f] = Html(content[f])]
            /\ missed' = [missed EXCEPT ![f] = FALSE]

(* Sent, if it is not what the editor showed for the value it has.          *)
Push(f) ==
    /\ timer' = [timer EXCEPT ![f] = FALSE]
    /\ IF content[f] = shown[f]
       THEN UNCHANGED <<state, sent, shown, missed>>
       ELSE /\ shown' = [shown EXCEPT ![f] = content[f]]
            /\ sent' = [sent EXCEPT ![f] = Html(content[f])]
            /\ state' = [state EXCEPT ![f] = Html(content[f])]
            /\ missed' = [missed EXCEPT ![f] = FALSE]

Focus(f) ==
    /\ phase[f] = "ready" /\ ~focused[f]
    /\ focused' = [focused EXCEPT ![f] = TRUE]
    /\ UNCHANGED <<script, startVars, state, sent, shown, content, timer, uploading,
                   typed, missed>>

Blur(f) ==
    /\ phase[f] = "ready" /\ focused[f]
    /\ focused' = [focused EXCEPT ![f] = FALSE]
    /\ Push(f)
    /\ UNCHANGED <<script, startVars, content, uploading, typed>>

SentSoon(f) ==
    /\ phase[f] = "ready" /\ timer[f]
    /\ Push(f)
    /\ UNCHANGED <<script, startVars, content, focused, uploading, typed>>

(* Typed, undone or redone; or a picture put in, and its upload begun.      *)
Type(f) ==
    /\ phase[f] = "ready" /\ focused[f]
    /\ \E t \in Texts \ {content[f]} :
           /\ content' = [content EXCEPT ![f] = t]
           /\ \/ UNCHANGED uploading
              \/ uploading' = [uploading EXCEPT ![f] = t]
    /\ timer' = [timer EXCEPT ![f] = TRUE]
    /\ typed' = [typed EXCEPT ![f] = TRUE]
    /\ UNCHANGED <<script, startVars, state, sent, shown, focused, missed>>

(* The picture is uploaded, the cursor perhaps elsewhere by now: its        *)
(* address put in, or the picture taken out, unless it is no longer there.  *)
Uploaded(f) ==
    /\ phase[f] = "ready" /\ uploading[f] # None
    /\ uploading' = [uploading EXCEPT ![f] = None]
    /\ IF content[f] = uploading[f]
       THEN /\ \E t \in Texts \ {content[f]} : content' = [content EXCEPT ![f] = t]
            /\ timer' = [timer EXCEPT ![f] = TRUE]
            /\ typed' = [typed EXCEPT ![f] = TRUE]
       ELSE UNCHANGED <<content, timer, typed>>
    /\ UNCHANGED <<script, startVars, state, sent, shown, focused, missed>>
-----------------------------------------------------------------------------
(* Mutant: what is received is not remembered as what was last received.    *)
WatchUnsent(f, value) ==
    IF phase[f] # "ready" \/ value = sent[f] \/ focused[f]
    THEN /\ missed' = [missed EXCEPT ![f] = phase[f] = "ready" /\ value # sent[f]]
         /\ typed' = [typed EXCEPT ![f] = phase[f] = "ready" /\ content[f] # shown[f]]
         /\ UNCHANGED <<sent, shown, content>>
    ELSE /\ shown' = [shown EXCEPT ![f] = value.text]
         /\ content' = [content EXCEPT ![f] = value.text]
         /\ missed' = [missed EXCEPT ![f] = FALSE]
         /\ typed' = [typed EXCEPT ![f] = FALSE]
         /\ UNCHANGED sent

(* Set by the server: shown, unless it is what was sent or the cursor is in *)
(* the text. (missed and typed only record what happened.)                  *)
Watch(f, value) ==
    IF phase[f] # "ready" \/ value = sent[f] \/ focused[f]
    THEN /\ missed' = [missed EXCEPT ![f] = phase[f] = "ready" /\ value # sent[f]]
         /\ typed' = [typed EXCEPT ![f] = phase[f] = "ready" /\ content[f] # shown[f]]
         /\ UNCHANGED <<sent, shown, content>>
    ELSE /\ sent' = [sent EXCEPT ![f] = value]
         /\ shown' = [shown EXCEPT ![f] = value.text]
         /\ content' = [content EXCEPT ![f] = value.text]
         /\ missed' = [missed EXCEPT ![f] = FALSE]
         /\ typed' = [typed EXCEPT ![f] = FALSE]

(* Another field of the form fills this one in.                             *)
ServerSets(f) ==
    /\ \E t \in Texts :
           /\ Stored(t) # state[f]
           /\ state' = [state EXCEPT ![f] = Stored(t)]
           /\ Watch(f, Stored(t))
    /\ UNCHANGED <<script, startVars, focused, timer, uploading>>

Next ==
    \/ ScriptEnds
    \/ \E f \in Fields :
           \/ Draw(f) \/ Started(f) \/ NotStarted(f) \/ OldEnds(f) \/ Destroy(f)
           \/ Focus(f) \/ Blur(f) \/ SentSoon(f) \/ Type(f) \/ Uploaded(f)
           \/ ServerSets(f)

Spec == Init /\ [][Next]_vars
-----------------------------------------------------------------------------
(* "Only a real change is sent — opening and leaving the editor is not      *)
(* one": the form's value is the editor's HTML only if the user changed     *)
(* something since the server last set it, or had a change not sent then.   *)
OnlyTypedIsSent == \A f \in Fields : state[f].form = "editor" => typed[f]

(* With nothing left to send, the editor shows the form's value, whoever    *)
(* set it last; but one set while the cursor was in the text.               *)
ShowsWhatIsStored ==
    \A f \in Fields :
        phase[f] = "ready" /\ ~timer[f] /\ ~missed[f] => content[f] = state[f].text

(* A field removed while its script is fetched or its editor starts leaves  *)
(* no editor behind, however soon it is drawn again: one that is ready has  *)
(* one editor, its own, any other none.                                     *)
EditorGoesWithField == \A f \in Fields : editors[f] = IF phase[f] = "ready" THEN 1 ELSE 0

(* Whatever lists are pasted from Word, they are kept: asked before the     *)
(* first field is drawn (wordLists).                                        *)
PastedListsKept ==
    script = "none" /\ (\A f \in Fields : phase[f] = "gone") =>
        \A text \in Pastes : ListsKept(text)
=============================================================================
