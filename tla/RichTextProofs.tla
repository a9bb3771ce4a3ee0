---------------------------- MODULE RichTextProofs ----------------------------
(***************************************************************************)
(* What RichText promises, for any number of fields and texts, and what    *)
(* WordLists does, whatever is pasted.                                     *)
(***************************************************************************)
EXTENDS RichText, FiniteSetTheorems, WellFoundedInduction, TLAPS

Phases == {"gone", "waiting", "failed", "starting", "ready"}

(* Each field keeps its kind of values. *)
Typed ==
    /\ phase \in [Fields -> Phases]
    /\ state \in [Fields -> [text : Texts, form : {"stored", "editor"}]]
    /\ sent \in [Fields -> [text : Texts, form : {"stored", "editor"}]]
    /\ shown \in [Fields -> Texts] /\ content \in [Fields -> Texts]
    /\ focused \in [Fields -> BOOLEAN] /\ timer \in [Fields -> BOOLEAN]
    /\ uploading \in [Fields -> Texts \cup {None}]
    /\ old \in [Fields -> Nat] /\ editors \in [Fields -> Nat]
    /\ typed \in [Fields -> BOOLEAN] /\ missed \in [Fields -> BOOLEAN]

(* What the editor is compared with is what it showed for the value last    *)
(* sent or received, which is the form's value but for one missed ...       *)
Remembered ==
    \A f \in Fields : phase[f] = "ready" =>
        /\ shown[f] = sent[f].text
        /\ ~missed[f] => shown[f] = state[f].text

(* ... and it holds anything else only if the user changed it, and then a   *)
(* push is on its way.                                                      *)
ChangesArePending ==
    \A f \in Fields :
        phase[f] = "ready" /\ content[f] # shown[f] => typed[f] /\ timer[f]

IInv == Typed /\ Remembered /\ ChangesArePending /\ OnlyTypedIsSent /\ EditorGoesWithField

LEMMA InitIInv == Init => IInv
<1> SUFFICES ASSUME Init PROVE IInv
  OBVIOUS
<1>1. PICK t \in Texts :
         /\ phase = [f \in Fields |-> "gone"]
         /\ state = [f \in Fields |-> Stored(t)]
         /\ sent = [f \in Fields |-> Stored(t)]
         /\ shown = [f \in Fields |-> t] /\ content = [f \in Fields |-> t]
         /\ focused = [f \in Fields |-> FALSE] /\ timer = [f \in Fields |-> FALSE]
         /\ uploading = [f \in Fields |-> None]
         /\ old = [f \in Fields |-> 0] /\ editors = [f \in Fields |-> 0]
         /\ typed = [f \in Fields |-> FALSE] /\ missed = [f \in Fields |-> FALSE]
  BY DEF Init
<1>2. Stored(t) \in [text : Texts, form : {"stored", "editor"}] /\ Stored(t).form = "stored"
  BY <1>1 DEF Stored
<1>3. Typed
  BY <1>1, <1>2 DEF Typed, Phases
<1>4. Remembered /\ ChangesArePending
  BY <1>1 DEF Remembered, ChangesArePending
<1>5. OnlyTypedIsSent
  BY <1>1, <1>2 DEF OnlyTypedIsSent
<1>6. EditorGoesWithField
  BY <1>1 DEF EditorGoesWithField
<1> QED
  BY <1>3, <1>4, <1>5, <1>6 DEF IInv

LEMMA StepIInv == IInv /\ [Next]_vars => IInv'
<1> SUFFICES ASSUME IInv, [Next]_vars PROVE IInv'
  OBVIOUS
<1> USE DEF IInv, Typed, Remembered, ChangesArePending, OnlyTypedIsSent, EditorGoesWithField,
            startVars
<1>1. CASE ScriptEnds
  BY <1>1 DEF ScriptEnds, editorVars, Phases
<1>2. ASSUME NEW f \in Fields, Draw(f) PROVE IInv'
  BY <1>2 DEF Draw, editorVars, Phases
<1>3. ASSUME NEW f \in Fields, Started(f) PROVE IInv'
  BY <1>3 DEF Started, PutIn, Phases
<1>13. ASSUME NEW f \in Fields, NotStarted(f) PROVE IInv'
  BY <1>13 DEF NotStarted, editorVars, Phases
<1>14. ASSUME NEW f \in Fields, OldEnds(f) PROVE IInv'
  <2>1. /\ old[f] \in Nat /\ old[f] > 0 /\ old' = [old EXCEPT ![f] = old[f] - 1]
        /\ UNCHANGED <<phase, editors, state, sent, shown, content, focused, timer, uploading,
                        typed, missed>>
    BY <1>14 DEF OldEnds, editorVars
  <2>2. old[f] - 1 \in Nat
    BY <2>1
  <2>3. old' \in [Fields -> Nat]
    BY <2>1, <2>2
  <2> QED
    BY <2>1, <2>3
<1>4. ASSUME NEW f \in Fields, Destroy(f) PROVE IInv'
  BY <1>4 DEF Destroy, Phases
<1>5. ASSUME NEW f \in Fields, Focus(f) PROVE IInv'
  BY <1>5 DEF Focus
<1>6. ASSUME NEW f \in Fields, Push(f),
             phase[f] = "ready",
             UNCHANGED <<startVars, content, uploading, typed>>,
             focused' \in [Fields -> BOOLEAN]
      PROVE IInv'
  <2>1. CASE content[f] = shown[f]
    BY <1>6, <2>1 DEF Push
  <2>2. CASE content[f] # shown[f]
    <3> DEFINE html == Html(content[f])
    <3>1. /\ shown' = [shown EXCEPT ![f] = content[f]]
          /\ sent' = [sent EXCEPT ![f] = html]
          /\ state' = [state EXCEPT ![f] = html]
          /\ missed' = [missed EXCEPT ![f] = FALSE]
          /\ timer' = [timer EXCEPT ![f] = FALSE]
      BY <1>6, <2>2 DEF Push
    <3>2. /\ html \in [text : Texts, form : {"stored", "editor"}]
          /\ html.text = content[f]
      BY DEF Html
    <3>3. typed[f]
      BY <1>6, <2>2
    <3> HIDE DEF html
    <3> QED
      BY <1>6, <3>1, <3>2, <3>3
  <2> QED
    BY <2>1, <2>2
<1>7. ASSUME NEW f \in Fields, Blur(f) PROVE IInv'
  BY <1>6, <1>7 DEF Blur
<1>8. ASSUME NEW f \in Fields, SentSoon(f) PROVE IInv'
  BY <1>6, <1>8 DEF SentSoon
<1>9. ASSUME NEW f \in Fields, Type(f) PROVE IInv'
  BY <1>9 DEF Type
<1>10. ASSUME NEW f \in Fields, Uploaded(f) PROVE IInv'
  <2>1. CASE content[f] = uploading[f]
    <3>1. PICK t \in Texts : content' = [content EXCEPT ![f] = t]
      BY <1>10, <2>1 DEF Uploaded
    <3>2. /\ phase[f] = "ready"
          /\ uploading' = [uploading EXCEPT ![f] = None]
          /\ timer' = [timer EXCEPT ![f] = TRUE]
          /\ typed' = [typed EXCEPT ![f] = TRUE]
          /\ UNCHANGED <<startVars, state, sent, shown, focused, missed>>
      BY <1>10, <2>1 DEF Uploaded
    <3>3. Typed'
      BY <3>1, <3>2
    <3>4. Remembered' /\ EditorGoesWithField'
      BY <3>2
    <3>5. ChangesArePending' /\ OnlyTypedIsSent'
      BY <3>1, <3>2
    <3> QED
      BY <3>3, <3>4, <3>5
  <2>2. CASE content[f] # uploading[f]
    BY <1>10, <2>2 DEF Uploaded
  <2> QED
    BY <2>1, <2>2
<1>11. ASSUME NEW f \in Fields, ServerSets(f) PROVE IInv'
  <2>1. PICK value \in [text : Texts, form : {"stored", "editor"}] :
           /\ value.form = "stored"
           /\ state' = [state EXCEPT ![f] = value]
           /\ Watch(f, value)
    BY <1>11 DEF ServerSets, Stored
  <2>2. UNCHANGED <<startVars, focused, timer, uploading>>
    BY <1>11 DEF ServerSets
  <2>3. CASE phase[f] # "ready" \/ value = sent[f] \/ focused[f]
    <3>1. /\ missed' = [missed EXCEPT ![f] = phase[f] = "ready" /\ value # sent[f]]
          /\ typed' = [typed EXCEPT ![f] = phase[f] = "ready" /\ content[f] # shown[f]]
          /\ UNCHANGED <<sent, shown, content>>
      BY <2>1, <2>3 DEF Watch
    <3>2. /\ missed' \in [Fields -> BOOLEAN] /\ typed' \in [Fields -> BOOLEAN]
          /\ missed'[f] <=> phase[f] = "ready" /\ value # sent[f]
          /\ typed'[f] <=> phase[f] = "ready" /\ content[f] # shown[f]
          /\ \A g \in Fields \ {f} : missed'[g] = missed[g] /\ typed'[g] = typed[g]
      BY <3>1
    <3> QED
      BY <2>1, <2>2, <3>1, <3>2
  <2>4. CASE ~(phase[f] # "ready" \/ value = sent[f] \/ focused[f])
    <3>1. /\ sent' = [sent EXCEPT ![f] = value]
          /\ shown' = [shown EXCEPT ![f] = value.text]
          /\ content' = [content EXCEPT ![f] = value.text]
          /\ missed' = [missed EXCEPT ![f] = FALSE]
          /\ typed' = [typed EXCEPT ![f] = FALSE]
      BY <2>1, <2>4 DEF Watch
    <3>2. value.text \in Texts
      OBVIOUS
    <3>3. Typed'
      BY <2>1, <2>2, <3>1, <3>2
    <3>4. Remembered' /\ ChangesArePending'
      BY <2>1, <2>2, <3>1, <3>2
    <3>5. OnlyTypedIsSent' /\ EditorGoesWithField'
      BY <2>1, <2>2, <3>1
    <3> QED
      BY <3>3, <3>4, <3>5
  <2> QED
    BY <2>3, <2>4
<1>12. CASE UNCHANGED vars
  BY <1>12 DEF vars, editorVars
<1> QED
  BY <1>1, <1>2, <1>3, <1>4, <1>5, <1>7, <1>8, <1>9, <1>10, <1>11, <1>12, <1>13, <1>14 DEF Next

THEOREM Inductive == Spec => []IInv
  BY InitIInv, StepIInv, PTL DEF Spec

(* However servers, users and uploads interleave, only a change the user    *)
(* made is sent: opening and leaving an editor is not one.                  *)
THEOREM OnlyChangesAreSent == Spec => []OnlyTypedIsSent
<1>1. IInv => OnlyTypedIsSent
  BY DEF IInv
<1> QED
  BY Inductive, <1>1, PTL

(* An editor with nothing to send shows the form's value, unless the value  *)
(* was set under the cursor.                                                *)
THEOREM EditorShowsValue == Spec => []ShowsWhatIsStored
<1>1. IInv => ShowsWhatIsStored
  BY DEF IInv, Typed, Remembered, ChangesArePending, ShowsWhatIsStored
<1> QED
  BY Inductive, <1>1, PTL

(* No editor outlives its field, whenever that is removed.                  *)
THEOREM NoEditorIsLeft == Spec => []EditorGoesWithField
<1>1. IInv => EditorGoesWithField
  BY DEF IInv
<1> QED
  BY Inductive, <1>1, PTL
-----------------------------------------------------------------------------
(* A set of naturals has a least element.                                   *)
LEMMA LeastNatural ==
    ASSUME NEW T \in SUBSET Nat, T # {}
    PROVE  \E n \in T : \A m \in T : n <= m
<1> DEFINE S == {0 .. n : n \in T}
<1>1. S \subseteq FiniteSubsetsOf(Nat) /\ S # {}
    <2>1. \A n \in T : 0 .. n \in SUBSET Nat /\ IsFiniteSet(0 .. n)
        BY FS_Interval
    <2> QED
        BY <2>1 DEF FiniteSubsetsOf
<1>2. PICK s \in S : \A t \in S : ~(<<t, s>> \in StrictSubsetOrdering(Nat))
    BY <1>1, FS_StrictSubsetOrderingWellFounded, WFMin
<1>3. PICK n \in T : s = 0 .. n
    BY <1>2
<1> SUFFICES ASSUME NEW m \in T, m < n PROVE FALSE
    BY <1>3
<1>4. 0 .. m \in S /\ 0 .. m \subseteq s /\ 0 .. m # s
    BY <1>3
<1>5. <<0 .. m, s>> \in StrictSubsetOrdering(Nat)
    BY <1>3, <1>4 DEF StrictSubsetOrdering
<1> QED
    BY <1>2, <1>4, <1>5

(* Counting up from 0 reaches every natural.                                *)
LEMMA UpFromZero ==
    ASSUME NEW S, 0 \in S, \A n \in Nat : n \in S => n + 1 \in S
    PROVE  Nat \subseteq S
<1> SUFFICES ASSUME Nat \ S # {} PROVE FALSE
  OBVIOUS
<1>1. PICK n \in Nat \ S : \A m \in Nat \ S : n <= m
  BY LeastNatural
<1>2. n # 0 /\ n - 1 \in Nat /\ n - 1 \in S
  BY <1>1
<1> QED
  BY <1>1, <1>2

(* The lists open at a paragraph, outermost first.                          *)
Open == [ordered : BOOLEAN, items : Nat \ {0}]
Placements == Seq([top : Nat, in : Seq(Open)])
Dones == [stack : Seq(Open), current : Lists \cup {None}, top : Nat, placed : Placements]
Start == [stack |-> <<>>, current |-> None, top |-> 0, placed |-> <<>>]

LEMMA LesserOf ==
    ASSUME NEW x \in Nat, NEW y \in Nat
    PROVE  Min({x, y}) = IF x <= y THEN x ELSE y
  BY DEF Min

(* A paragraph goes on with the lists of the one before it.                 *)
GoesOn(d, p) == p.depth > 0 /\ p.list = d.current /\ Len(d.stack) > 0

Deeper(was, p, new) ==
    \A k \in 1..p.depth :
        /\ k < p.depth /\ k <= Len(was) => new[k] = was[k]
        /\ k = p.depth /\ k <= Len(was) => new[k].items = was[k].items + 1
        /\ k > Len(was) => new[k].ordered = p.ordered

OneMore(d, p, r) ==
    /\ Len(r.stack) = p.depth /\ r.current = p.list
    /\ r.placed = Append(d.placed, [top |-> r.top, in |-> r.stack])
    /\ GoesOn(d, p) => r.top = d.top /\ Deeper(d.stack, p, r.stack)
    /\ ~GoesOn(d, p) => r.top = Len(d.placed) + 1 /\ Deeper(<<>>, p, r.stack)

LEMMA DeepenedBy ==
    ASSUME NEW open \in Seq(Open), NEW p \in Paragraphs, Len(open) <= p.depth
    PROVE  /\ Deepened(open, p) \in Seq(Open) /\ Len(Deepened(open, p)) = p.depth
           /\ Deeper(open, p, Deepened(open, p))
<1>1. PICK new : new = Deepened(open, p)
  OBVIOUS
<1>2. p.depth \in Nat /\ p.ordered \in BOOLEAN /\ Len(open) \in Nat
  BY DEF Paragraphs
<1> DEFINE made(k) == IF k <= Len(open) THEN open[k] ELSE [ordered |-> p.ordered, items |-> 0]
<1>3. new = [k \in 1..p.depth |-> IF k < p.depth /\ made(k).items > 0 THEN made(k)
                                   ELSE [made(k) EXCEPT !.items = @ + 1]]
  BY <1>1 DEF Deepened
<1>4. \A k \in 1..Len(open) : open[k] \in Open
  OBVIOUS
<1>5. ASSUME NEW k \in 1..p.depth
      PROVE  /\ new[k] \in Open
             /\ k < p.depth /\ k <= Len(open) => new[k] = open[k]
             /\ k = p.depth /\ k <= Len(open) => new[k].items = open[k].items + 1
             /\ k > Len(open) => new[k].ordered = p.ordered
  <2>1. CASE k <= Len(open)
    <3>1. open[k] \in Open /\ made(k) = open[k]
      BY <1>2, <1>4, <2>1
    <3>3. new[k] = IF k < p.depth /\ made(k).items > 0 THEN made(k)
                   ELSE [made(k) EXCEPT !.items = @ + 1]
      <4> HIDE DEF made
      <4> QED
        BY <1>3
    <3>2. new[k] = IF k < p.depth /\ open[k].items > 0 THEN open[k] ELSE [open[k] EXCEPT !.items = @ + 1]
      <4> HIDE DEF made
      <4> QED
        BY <3>1, <3>3
    <3> QED
      BY <1>2, <2>1, <3>1, <3>2 DEF Open
  <2>2. CASE k > Len(open)
    <3>1. made(k) = [ordered |-> p.ordered, items |-> 0]
      BY <1>2, <2>2
    <3>2. new[k] = [ordered |-> p.ordered, items |-> 1]
      BY <1>2, <1>3, <3>1
    <3> QED
      BY <1>2, <2>2, <3>2 DEF Open
  <2> QED
    BY <1>2, <2>1, <2>2
<1>6. new \in Seq(Open) /\ Len(new) = p.depth
  <2> HIDE DEF made
  <2>1. new = [k \in 1..p.depth |-> new[k]]
    BY <1>3
  <2>2. \A k \in 1..p.depth : new[k] \in Open
    BY <1>5
  <2>3. PICK n \in Nat : n = p.depth
    BY <1>2
  <2>4. PICK S : S = Open
    OBVIOUS
  <2>5. new \in [1..n -> S]
    BY <2>1, <2>2, <2>3, <2>4
  <2>6. new \in Seq(S) /\ Len(new) = n
    BY <2>5
  <2> QED
    BY <2>3, <2>4, <2>6
<1> QED
  BY <1>1, <1>5, <1>6 DEF Deeper

LEMMA WithOneMore ==
    ASSUME NEW d \in Dones, NEW p \in Paragraphs
    PROVE  WithParagraph(d, p) \in Dones /\ OneMore(d, p, WithParagraph(d, p))
<1>1. PICK open, new, r : open = OpenAt(d, p) /\ new = Deepened(open, p) /\ r = WithParagraph(d, p)
  OBVIOUS
<1>2. /\ p.depth \in Nat /\ p.list \in Lists \cup {None}
      /\ d.stack \in Seq(Open) /\ Len(d.stack) \in Nat /\ d.top \in Nat
      /\ d.placed \in Placements /\ Len(d.placed) \in Nat
  BY DEF Paragraphs, Dones, Placements
<1>3. PICK m \in Nat : m = IF Len(d.stack) <= p.depth THEN Len(d.stack) ELSE p.depth
  BY <1>2
<1>4. /\ m <= Len(d.stack) /\ m <= p.depth
      /\ open = IF p.depth = 0 \/ p.list # d.current THEN <<>> ELSE SubSeq(d.stack, 1, m)
  BY <1>1, <1>2, <1>3, LesserOf DEF OpenAt
<1>5. /\ SubSeq(d.stack, 1, m) \in Seq(Open) /\ Len(SubSeq(d.stack, 1, m)) = m
      /\ \A k \in 1..m : SubSeq(d.stack, 1, m)[k] = d.stack[k]
  BY <1>2, <1>4
<1>6. open \in Seq(Open) /\ Len(open) <= p.depth
  BY <1>2, <1>4, <1>5
<1>7. new \in Seq(Open) /\ Len(new) = p.depth /\ Deeper(open, p, new)
  BY <1>1, <1>6, DeepenedBy
<1>8. GoesOn(d, p) <=> open # <<>>
  <2>1. m > 0 <=> p.depth > 0 /\ Len(d.stack) > 0
    BY <1>2, <1>3
  <2>2. SubSeq(d.stack, 1, m) = <<>> <=> m = 0
    <3>0. PICK S : S = Open
      OBVIOUS
    <3>1. PICK s \in Seq(S) : s = SubSeq(d.stack, 1, m) /\ Len(s) = m
      BY <1>5, <3>0
    <3>2. s = <<>> <=> Len(s) = 0
      OBVIOUS
    <3> QED
      BY <3>1, <3>2
  <2> QED
    BY <1>2, <1>4, <2>1, <2>2 DEF GoesOn
<1>9. PICK top \in Nat : top = IF open = <<>> THEN Len(d.placed) + 1 ELSE d.top
  BY <1>2
<1>10. r = [stack |-> new, current |-> p.list, top |-> top,
            placed |-> Append(d.placed, [top |-> top, in |-> new])]
  BY <1>1, <1>9 DEF WithParagraph
<1>11. r \in Dones
  <2>1. Append(d.placed, [top |-> top, in |-> new]) \in Placements
    BY <1>2, <1>7 DEF Placements
  <2> QED
    BY <1>2, <1>7, <1>10, <2>1 DEF Dones
<1>12. ASSUME GoesOn(d, p) PROVE Deeper(d.stack, p, new)
  <2>1. Len(open) = m /\ \A k \in 1..m : open[k] = d.stack[k]
    BY <1>4, <1>5, <1>12 DEF GoesOn
  <2>2. ASSUME NEW k \in 1..p.depth
        PROVE  /\ k \in Nat /\ k >= 1 /\ k <= p.depth
               /\ k <= Len(d.stack) <=> k <= m
    BY <1>2, <1>3
  <2> QED
    BY <1>7, <2>1, <2>2 DEF Deeper
<1>13. ASSUME ~GoesOn(d, p) PROVE Deeper(<<>>, p, new) /\ open = <<>>
  BY <1>7, <1>8, <1>13
<1> QED
  BY <1>1, <1>7, <1>8, <1>9, <1>10, <1>11, <1>12, <1>13 DEF OneMore
-----------------------------------------------------------------------------
(* Values made one after the other, each of its number and the one before.  *)
StepsFrom(a, F, w) == w[0] = a /\ \A n \in Nat : w[n + 1] = F[n + 1][w[n]]

LEMMA StepByStep ==
    ASSUME NEW S, NEW a \in S, NEW F \in [Nat -> [S -> S]]
    PROVE  \E w \in [Nat -> S] : StepsFrom(a, F, w)
<1> DEFINE Upto(n) == {v \in [Nat -> S] : v[0] = a /\ \A i \in 1..n : v[i] = F[i][v[i - 1]]}
           Some == {n \in Nat : Upto(n) # {}}
           Alone == {n \in Nat : \A u, v \in Upto(n) : u[n] = v[n]}
<1>1. 0 \in Some
    <2>1. [i \in Nat |-> a] \in Upto(0)
        OBVIOUS
    <2> QED
        BY <2>1
<1>2. ASSUME NEW n \in Nat, n \in Some PROVE n + 1 \in Some
    <2>1. PICK v \in Upto(n) : TRUE
        BY <1>2
    <2>2. PICK u : u = [i \in Nat |-> IF i = n + 1 THEN F[n + 1][v[n]] ELSE v[i]]
        OBVIOUS
    <2>3. u \in [Nat -> S] /\ u[0] = a
        BY <2>1, <2>2
    <2>4. \A i \in 1..(n + 1) : u[i] = F[i][u[i - 1]]
        BY <2>1, <2>2
    <2> QED
        BY <2>3, <2>4
<1>3. Nat \subseteq Some
    <2> HIDE DEF Some
    <2> QED
        BY <1>1, <1>2, UpFromZero
<1>4. \A n \in Nat : Upto(n + 1) \subseteq Upto(n)
    OBVIOUS
<1>5. 0 \in Alone
    OBVIOUS
<1>6. ASSUME NEW n \in Nat, n \in Alone PROVE n + 1 \in Alone
    <2> SUFFICES ASSUME NEW u \in Upto(n + 1), NEW v \in Upto(n + 1)
                 PROVE  u[n + 1] = v[n + 1]
        OBVIOUS
    <2>1. u[n] = v[n]
        BY <1>4, <1>6
    <2>2. u[n + 1] = F[n + 1][u[n]] /\ v[n + 1] = F[n + 1][v[n]]
        OBVIOUS
    <2> QED
        BY <2>1, <2>2
<1>7. Nat \subseteq Alone
    <2> HIDE DEF Alone
    <2> QED
        BY <1>5, <1>6, UpFromZero
<1>8. PICK c : c = [n \in Nat |-> CHOOSE v : v \in Upto(n)]
    OBVIOUS
<1>9. \A n \in Nat : c[n] \in Upto(n)
    BY <1>3, <1>8
<1>10. PICK w : w = [n \in Nat |-> c[n][n]]
    OBVIOUS
<1>11. w \in [Nat -> S] /\ w[0] = a
    BY <1>9, <1>10
<1>12. ASSUME NEW n \in Nat PROVE w[n + 1] = F[n + 1][w[n]]
    <2>1. c[n + 1] \in Upto(n)
        BY <1>4, <1>9
    <2>2. c[n + 1][n] = c[n][n]
        BY <1>7, <1>9, <2>1
    <2>3. c[n + 1][n + 1] = F[n + 1][c[n + 1][n]]
        BY <1>9
    <2> QED
        BY <1>10, <2>2, <2>3
<1> QED
    BY <1>11, <1>12 DEF StepsFrom

(* The states the paragraphs of a text are put through.                     *)
Places(text, w) ==
    /\ w[0] = Start
    /\ \A n \in 1..Len(text) : text[n] \in Paragraphs /\ OneMore(w[n - 1], text[n], w[n])
    /\ Placed(text) = w[Len(text)].placed

LEMMA PlacedBySteps ==
    ASSUME NEW text, text \in Seq(Paragraphs)
    PROVE  \E w \in [Nat -> Dones] : Places(text, w)
<1>1. PICK D, P : D = Dones /\ P = Paragraphs
  OBVIOUS
<1>2. PICK N \in Nat : N = Len(text)
  OBVIOUS
<1>3. \A n \in 1..N : text[n] \in P
  <2>1. text \in Seq(P)
    BY <1>1
  <2> QED
    BY <1>2, <2>1
<1>4. \A d \in D, p \in P : WithParagraph(d, p) \in D /\ OneMore(d, p, WithParagraph(d, p))
  BY <1>1, WithOneMore
<1>5. PICK start : start = Start
  OBVIOUS
<1>6. start \in D
  <2>1. PICK none : none = <<>>
    OBVIOUS
  <2>2. none \in Seq(Open) /\ none \in Placements
    BY <2>1 DEF Placements
  <2> QED
    BY <1>1, <1>5, <2>1, <2>2 DEF Dones, Start
<1>7. PICK F : F = [n \in Nat |-> [d \in D |-> IF n \in 1..N THEN WithParagraph(d, text[n]) ELSE d]]
  OBVIOUS
<1>8. \A n \in Nat, d \in D : F[n][d] = IF n \in 1..N THEN WithParagraph(d, text[n]) ELSE d
  BY <1>7
<1>9. F \in [Nat -> [D -> D]]
  <2>1. ASSUME NEW n \in Nat, NEW d \in D PROVE F[n][d] \in D
    BY <1>3, <1>4, <1>8
  <2> QED
    BY <1>7, <2>1
<1>10. PICK w \in [Nat -> D] : StepsFrom(start, F, w)
  BY <1>6, <1>9, StepByStep
<1>11. w[0] = start /\ \A n \in Nat : w[n + 1] = F[n + 1][w[n]]
  BY <1>10 DEF StepsFrom
<1>12. ASSUME NEW n \in 1..N
       PROVE  w[n] = WithParagraph(w[n - 1], text[n]) /\ OneMore(w[n - 1], text[n], w[n])
  <2>1. PICK m \in Nat : m = n - 1 /\ m + 1 = n
    OBVIOUS
  <2>2. w[n] = F[n][w[m]] /\ w[m] \in D
    BY <1>11, <2>1
  <2>3. w[n] = WithParagraph(w[m], text[n])
    BY <1>8, <2>2
  <2> QED
    BY <1>3, <1>4, <2>1, <2>2, <2>3
<1> DEFINE After(n, f) == IF n = 0 THEN start ELSE WithParagraph(f[n - 1], text[n])
           Makes(f) == f = [n \in 0..Len(text) |-> After(n, f)]
           upto == [n \in 0..N |-> w[n]]
<1>13. \A n \in 0..N : upto[n] = w[n]
  OBVIOUS
<1>14. \A n \in 0..N : After(n, upto) = w[n]
  <2>1. ASSUME NEW n \in 1..N PROVE upto[n - 1] = w[n - 1]
    <3>1. n - 1 \in 0..N
      OBVIOUS
    <3> QED
      BY <3>1
  <2> HIDE DEF upto
  <2>2. After(0, upto) = w[0]
    BY <1>11
  <2>3. ASSUME NEW n \in 1..N PROVE After(n, upto) = w[n]
    <3>1. After(n, upto) = WithParagraph(upto[n - 1], text[n])
      OBVIOUS
    <3> QED
      BY <1>12, <2>1, <3>1
  <2>4. \A n \in 0..N : n = 0 \/ n \in 1..N
    OBVIOUS
  <2> HIDE DEF After
  <2> QED
    BY <2>2, <2>3, <2>4
<1>15. Makes(upto)
  <2> HIDE DEF After
  <2> QED
    BY <1>2, <1>14
<1>16. PICK f : f = CHOOSE g : Makes(g)
  OBVIOUS
<1>17. Placed(text) = f[Len(text)].placed
  BY <1>5, <1>16 DEF Placed, Start
<1>18. \A n \in 0..N : f[n] = After(n, f)
  <2>1. Makes(f)
    BY <1>15, <1>16
  <2> HIDE DEF After
  <2> QED
    BY <1>2, <2>1
<1>19. Nat \subseteq {n \in Nat : n \in 0..N => f[n] = w[n]}
  <2> DEFINE Same == {n \in Nat : n \in 0..N => f[n] = w[n]}
  <2>1. 0 \in Same
    BY <1>11, <1>18
  <2>2. ASSUME NEW n \in Nat, n \in Same PROVE n + 1 \in Same
    <3>1. CASE n + 1 \in 0..N
      <4>1. f[n] = w[n] /\ n + 1 \in 1..N
        BY <2>2, <3>1
      <4>2. w[n + 1] = WithParagraph(w[n + 1 - 1], text[n + 1]) /\ n + 1 - 1 = n
        BY <1>12, <4>1
      <4>3. f[n + 1] = WithParagraph(f[n + 1 - 1], text[n + 1])
        BY <1>18, <4>1
      <4> QED
        BY <4>1, <4>2, <4>3
    <3> QED
      BY <3>1
  <2> HIDE DEF Same
  <2>3. Nat \subseteq Same
    BY <2>1, <2>2, UpFromZero
  <2> QED
    BY <2>3 DEF Same
<1>20. f[N] = w[N]
  BY <1>19
<1>21. Places(text, w)
  BY <1>1, <1>2, <1>3, <1>5, <1>11, <1>12, <1>17, <1>20 DEF Places
<1> QED
  BY <1>1, <1>21
(* A paragraph of the same list right before it.                            *)
Linked(text, j) ==
    j > 1 /\ text[j].depth > 0 /\ text[j - 1].depth > 0 /\ text[j].list = text[j - 1].list

(* The lists s[j] each paragraph is put in, and the paragraph t[j] the      *)
(* outermost was put before, each from the paragraph before it.             *)
Chain(text, s, t) ==
    \A j \in 1..Len(text) :
        /\ text[j].depth \in Nat /\ Len(s[j]) = text[j].depth /\ DOMAIN s[j] = 1..text[j].depth
        /\ \A k \in 1..text[j].depth : s[j][k].items \in Nat
        /\ Linked(text, j) => t[j] = t[j - 1] /\ Deeper(s[j - 1], text[j], s[j])
        /\ ~Linked(text, j) => t[j] = j
        /\ ~Linked(text, j) /\ text[j].depth > 0 =>
               s[j][text[j].depth].ordered = text[j].ordered

PlacedAs(text, s, t) ==
    /\ Chain(text, s, t)
    /\ \A j \in 1..Len(text) : Placed(text)[j].top = t[j] /\ Placed(text)[j].in = s[j]

LEMMA PlacedInChain ==
    ASSUME NEW text, text \in Seq(Paragraphs)
    PROVE  \E s, t : PlacedAs(text, s, t)
<1>1. PICK w \in [Nat -> Dones] : Places(text, w)
  BY PlacedBySteps
<1>2. PICK N \in Nat : N = Len(text)
  OBVIOUS
<1>3. /\ w[0] = Start /\ Placed(text) = w[N].placed
      /\ \A n \in 1..N : text[n] \in Paragraphs /\ OneMore(w[n - 1], text[n], w[n])
  BY <1>1, <1>2 DEF Places
<1>4. \A n \in Nat : w[n].placed \in Placements /\ w[n].stack \in Seq(Open)
  BY DEF Dones
<1>5. ASSUME NEW n \in Nat, n + 1 \in 1..N
      PROVE  OneMore(w[n], text[n + 1], w[n + 1])
  <2>1. n + 1 - 1 = n
    OBVIOUS
  <2> QED
    BY <1>3, <1>5, <2>1
<1> DEFINE Put(j) == [top |-> w[j].top, in |-> w[j].stack]
           Good == {n \in Nat : n \in 0..N =>
                       Len(w[n].placed) = n /\ \A j \in 1..n : w[n].placed[j] = Put(j)}
<1>6. Nat \subseteq Good
  <2>1. 0 \in Good
    BY <1>3 DEF Start
  <2>2. ASSUME NEW n \in Nat, n \in Good PROVE n + 1 \in Good
    <3> SUFFICES ASSUME n + 1 \in 0..N
                 PROVE  /\ Len(w[n + 1].placed) = n + 1
                        /\ \A j \in 1..(n + 1) : w[n + 1].placed[j] = Put(j)
      OBVIOUS
    <3> HIDE DEF Put
    <3>1. Len(w[n].placed) = n /\ \A j \in 1..n : w[n].placed[j] = Put(j)
      BY <2>2
    <3>2. w[n + 1].placed = Append(w[n].placed, Put(n + 1))
      <4>1. n + 1 \in 1..N
        OBVIOUS
      <4>2. OneMore(w[n], text[n + 1], w[n + 1])
        BY <1>5, <4>1
      <4> QED
        BY <4>2 DEF OneMore, Put
    <3>3. PICK was, E : was = w[n].placed /\ E = [top : Nat, in : Seq(Open)]
      OBVIOUS
    <3>4. was \in Seq(E)
      BY <1>4, <3>3 DEF Placements
    <3>5. /\ Len(Append(was, Put(n + 1))) = n + 1
          /\ Append(was, Put(n + 1))[n + 1] = Put(n + 1)
          /\ \A j \in 1..n : Append(was, Put(n + 1))[j] = was[j]
      BY <3>1, <3>3, <3>4
    <3>6. \A j \in 1..(n + 1) : j \in 1..n \/ j = n + 1
      OBVIOUS
    <3> QED
      BY <3>1, <3>2, <3>3, <3>5, <3>6
  <2> HIDE DEF Good
  <2> QED
    BY <2>1, <2>2, UpFromZero
<1>7. \A j \in 1..N : Placed(text)[j] = Put(j)
  <2> HIDE DEF Put
  <2> QED
    BY <1>3, <1>6
<1>8. PICK s : s = [j \in Nat |-> w[j].stack]
  OBVIOUS
<1>9. PICK t : t = [j \in Nat |-> w[j].top]
  OBVIOUS
<1>10. ASSUME NEW j \in 1..N
       PROVE  /\ text[j].depth \in Nat /\ Len(s[j]) = text[j].depth /\ DOMAIN s[j] = 1..text[j].depth
              /\ \A k \in 1..text[j].depth : s[j][k].items \in Nat
              /\ Linked(text, j) => t[j] = t[j - 1] /\ Deeper(s[j - 1], text[j], s[j])
              /\ ~Linked(text, j) => t[j] = j
              /\ ~Linked(text, j) /\ text[j].depth > 0 =>
                     s[j][text[j].depth].ordered = text[j].ordered
  <2>1. PICK i \in Nat : i = j - 1
    OBVIOUS
  <2>2. /\ s[j] = w[j].stack /\ s[i] = w[i].stack /\ t[j] = w[j].top /\ t[i] = w[i].top
        /\ s[j] \in Seq(Open)
    BY <1>4, <1>8, <1>9
  <2>3. OneMore(w[i], text[j], w[j]) /\ text[j].depth \in Nat
    BY <1>3, <2>1 DEF Paragraphs
  <2>4. Len(s[j]) = text[j].depth /\ DOMAIN s[j] = 1..text[j].depth
    <3>1. DOMAIN s[j] = 1..Len(s[j])
      BY <2>2
    <3> QED
      BY <2>2, <2>3, <3>1 DEF OneMore
  <2>5. \A k \in 1..text[j].depth : s[j][k].items \in Nat
    <3>1. \A k \in 1..Len(s[j]) : s[j][k] \in Open
      BY <2>2
    <3>2. \A o \in Open : o.items \in Nat
      BY DEF Open
    <3> QED
      BY <2>4, <3>1, <3>2
  <2>6. Len(w[i].placed) = i
    BY <1>6, <2>1
  <2>7. GoesOn(w[i], text[j]) <=> Linked(text, j)
    <3>1. CASE i = 0
      <4>1. Len(w[i].stack) = 0
        BY <1>3, <3>1 DEF Start
      <4> QED
        BY <2>1, <3>1, <4>1 DEF GoesOn, Linked
    <3>2. CASE i # 0
      <4>1. i \in 1..N
        BY <1>2, <2>1, <3>2
      <4>2. Len(w[i].stack) = text[i].depth /\ w[i].current = text[i].list
        BY <1>3, <4>1 DEF OneMore
      <4> QED
        BY <2>1, <3>2, <4>2 DEF GoesOn, Linked
    <3> QED
      BY <3>1, <3>2
  <2>8. CASE Linked(text, j)
    BY <2>1, <2>2, <2>3, <2>4, <2>5, <2>7, <2>8 DEF OneMore
  <2>9. CASE ~Linked(text, j)
    <3>1. t[j] = j /\ Deeper(<<>>, text[j], s[j])
      BY <2>1, <2>2, <2>3, <2>6, <2>7, <2>9 DEF OneMore
    <3>2. ASSUME text[j].depth > 0 PROVE s[j][text[j].depth].ordered = text[j].ordered
      <4>1. text[j].depth \in 1..text[j].depth /\ text[j].depth > Len(<<>>)
        BY <2>3, <3>2
      <4> QED
        BY <3>1, <4>1 DEF Deeper
    <3> QED
      BY <2>3, <2>4, <2>5, <2>9, <3>1, <3>2
  <2> QED
    BY <2>8, <2>9
<1>11. Chain(text, s, t)
  BY <1>2, <1>10 DEF Chain
<1>12. \A j \in 1..N : Placed(text)[j].top = t[j] /\ Placed(text)[j].in = s[j]
  <2> SUFFICES ASSUME NEW j \in 1..N
               PROVE  Placed(text)[j].top = t[j] /\ Placed(text)[j].in = s[j]
    OBVIOUS
  <2>1. Placed(text)[j] = Put(j) /\ Put(j).top = w[j].top /\ Put(j).in = w[j].stack
    BY <1>7
  <2>2. s[j] = w[j].stack /\ t[j] = w[j].top
    BY <1>8, <1>9
  <2> HIDE DEF Put
  <2> QED
    BY <2>1, <2>2
<1> QED
  BY <1>2, <1>11, <1>12 DEF PlacedAs
-----------------------------------------------------------------------------
(* Paragraphs stand together from one to the next.                          *)
LEMMA TogetherGrows ==
    ASSUME NEW text, NEW i \in Nat, NEW j \in Nat, 1 <= i, i < j
    PROVE  Together(text, i, j) <=> Together(text, i, j - 1) /\ Linked(text, j)
<1>1. PICK m \in Nat : m = j - 1 /\ i \in i..m /\ m \in i..m
  OBVIOUS
<1>2. \A k \in i..j : k \in i..m \/ k = j
  BY <1>1
<1>3. \A k \in i..m : k \in i..j
  BY <1>1
<1>4. j \in i..j /\ j > 1
  OBVIOUS
<1> QED
  BY <1>1, <1>2, <1>3, <1>4 DEF Together, Linked

(* A property of i that goes on from each paragraph to the next holds of    *)
(* all that come after.                                                     *)
LEMMA GoesUp ==
    ASSUME NEW i \in Nat, NEW G, i \in G, \A j \in Nat : j > i /\ j - 1 \in G => j \in G
    PROVE  \A j \in Nat : j >= i => j \in G
<1> DEFINE S == {n \in Nat : n + i \in G}
<1>1. 0 \in S
  OBVIOUS
<1>2. ASSUME NEW n \in Nat, n \in S PROVE n + 1 \in S
  <2>1. n + 1 + i - 1 = n + i /\ n + 1 + i > i /\ n + 1 + i \in Nat
    OBVIOUS
  <2>2. n + 1 + i \in G
    BY <1>2, <2>1
  <2> QED
    BY <2>2
<1> HIDE DEF S
<1>3. Nat \subseteq S
  BY <1>1, <1>2, UpFromZero
<1> SUFFICES ASSUME NEW j \in Nat, j >= i PROVE j \in G
  OBVIOUS
<1>4. j - i \in Nat /\ (j - i) + i = j
  OBVIOUS
<1>5. j - i \in S
  BY <1>3, <1>4
<1> QED
  BY <1>4, <1>5 DEF S

(* The outermost lists: put before the first of those that stand together.  *)
LEMMA Tops ==
    ASSUME NEW text, Len(text) \in Nat, NEW s, NEW t, Chain(text, s, t),
           NEW i \in 1..Len(text), text[i].depth > 0
    PROVE  \A j \in 1..Len(text) : j >= i =>
               t[i] <= t[j] /\ t[j] \in 1..j /\ (t[i] = t[j] <=> Together(text, i, j))
<1>1. PICK N \in Nat : N = Len(text)
  OBVIOUS
<1>2. \A j \in 1..N : /\ Linked(text, j) => t[j] = t[j - 1]
                      /\ ~Linked(text, j) => t[j] = j
  BY <1>1 DEF Chain
<1>3. \A j \in Nat : j >= 1 => j \in {k \in Nat : k \in 1..N => t[k] \in 1..k}
  <2> DEFINE G == {k \in Nat : k \in 1..N => t[k] \in 1..k}
  <2>1. 1 \in G
    BY <1>2 DEF Linked
  <2>2. ASSUME NEW j \in Nat, j > 1, j - 1 \in G PROVE j \in G
    BY <1>2, <2>2
  <2> HIDE DEF G
  <2>3. 1 \in Nat
    OBVIOUS
  <2>4. \A j \in Nat : j >= 1 => j \in G
    BY <2>1, <2>2, <2>3, GoesUp
  <2> QED
    BY <2>4 DEF G
<1>4. \A j \in 1..N : t[j] \in 1..j
  BY <1>3
<1> DEFINE Good(j) == t[i] <= t[j] /\ (t[i] = t[j] <=> Together(text, i, j))
           H == {j \in Nat : j \in 1..N => Good(j)}
<1>5. i \in H
  <2>1. \A k \in i..i : k = i
    BY <1>1
  <2>2. Together(text, i, i)
    BY <2>1 DEF Together
  <2> QED
    BY <1>1, <1>4, <2>2
<1>6. ASSUME NEW j \in Nat, j > i, j - 1 \in H PROVE j \in H
  <2> SUFFICES ASSUME j \in 1..N PROVE Good(j)
    OBVIOUS
  <2>1. PICK m \in 1..N : m = j - 1 /\ m >= i
    BY <1>1, <1>6
  <2>2. Good(m)
    BY <1>6, <2>1
  <2>3. Together(text, i, j) <=> Together(text, i, m) /\ Linked(text, j)
    BY <1>1, <1>6, <2>1, TogetherGrows
  <2>4. t[i] \in 1..i /\ t[m] \in 1..m /\ t[j] \in 1..j
    BY <1>1, <1>4, <2>1
  <2>5. CASE Linked(text, j)
    <3>1. t[j] = t[m]
      BY <1>2, <2>1, <2>5
    <3> QED
      BY <2>2, <2>3, <2>5, <3>1
  <2>6. CASE ~Linked(text, j)
    <3>1. t[j] = j
      BY <1>2, <2>6
    <3>2. t[i] < t[j] /\ t[i] # t[j]
      BY <1>1, <1>6, <2>4, <3>1
    <3>3. t[i] <= t[j]
      BY <2>4, <3>2
    <3> QED
      BY <2>3, <2>6, <3>2, <3>3
  <2> QED
    BY <2>5, <2>6
<1> HIDE DEF H
<1>7. i \in Nat
  BY <1>1
<1>8. \A j \in Nat : j >= i => j \in H
  BY <1>5, <1>6, <1>7, GoesUp
<1> QED
  BY <1>1, <1>4, <1>8 DEF H
-----------------------------------------------------------------------------
(* Before, of paragraphs whose outermost list is the same.                  *)
Further(a, b, k) ==
    /\ 1 <= k /\ k <= Len(a) /\ k <= Len(b) /\ a[k].items < b[k].items
    /\ \A m \in 1..(k - 1) : a[m].items = b[m].items
Holds(a, b) == Len(a) < Len(b) /\ \A m \in 1..Len(a) : a[m].items = b[m].items
Earlier(a, b) == (\E k \in Nat : Further(a, b, k)) \/ Holds(a, b)

Counted(a) == Len(a) \in Nat /\ \A k \in 1..Len(a) : a[k].items \in Nat

LEMMA EarlierGoesOn ==
    ASSUME NEW a, NEW b, NEW c, Counted(a), Counted(b), Counted(c), Earlier(a, b), Earlier(b, c)
    PROVE  Earlier(a, c)
<1>1. /\ Len(a) \in Nat /\ Len(b) \in Nat /\ Len(c) \in Nat
      /\ \A k \in 1..Len(a) : a[k].items \in Nat
      /\ \A k \in 1..Len(b) : b[k].items \in Nat
      /\ \A k \in 1..Len(c) : c[k].items \in Nat
  BY DEF Counted
<1>2. ASSUME NEW k \in Nat, Further(a, b, k), NEW n \in Nat, Further(b, c, n) PROVE Earlier(a, c)
  <2>1. /\ 1 <= k /\ k <= Len(a) /\ k <= Len(b) /\ a[k].items < b[k].items
        /\ \A m \in 1..(k - 1) : a[m].items = b[m].items
    BY <1>2 DEF Further
  <2>2. /\ 1 <= n /\ n <= Len(b) /\ n <= Len(c) /\ b[n].items < c[n].items
        /\ \A m \in 1..(n - 1) : b[m].items = c[m].items
    BY <1>2 DEF Further
  <2>3. CASE k < n
    <3>1. k \in 1..(n - 1) /\ k <= Len(c) /\ \A m \in 1..(k - 1) : m \in 1..(n - 1)
      BY <1>1, <2>1, <2>2, <2>3
    <3>2. Further(a, c, k)
      BY <2>1, <2>2, <3>1 DEF Further
    <3> QED
      BY <3>2 DEF Earlier
  <2>4. CASE k = n
    <3>1. a[k].items \in Nat /\ b[k].items \in Nat /\ c[k].items \in Nat
      BY <1>1, <2>1, <2>2, <2>4
    <3>2. a[k].items < c[k].items
      BY <2>1, <2>2, <2>4, <3>1
    <3>3. Further(a, c, k)
      BY <2>1, <2>2, <2>4, <3>2 DEF Further
    <3> QED
      BY <3>3 DEF Earlier
  <2>5. CASE k > n
    <3>1. n \in 1..(k - 1) /\ n <= Len(a) /\ \A m \in 1..(n - 1) : m \in 1..(k - 1)
      BY <1>1, <2>1, <2>2, <2>5
    <3>2. Further(a, c, n)
      BY <2>1, <2>2, <3>1 DEF Further
    <3> QED
      BY <3>2 DEF Earlier
  <2> QED
    BY <2>3, <2>4, <2>5
<1>3. ASSUME NEW k \in Nat, Further(a, b, k), Holds(b, c) PROVE Earlier(a, c)
  <2>1. Further(a, c, k)
    <3>1. /\ 1 <= k /\ k <= Len(a) /\ k <= Len(b) /\ a[k].items < b[k].items
          /\ \A m \in 1..(k - 1) : a[m].items = b[m].items
      BY <1>3 DEF Further
    <3>2. Len(b) < Len(c) /\ \A m \in 1..Len(b) : b[m].items = c[m].items
      BY <1>3 DEF Holds
    <3>3. k \in 1..Len(b) /\ k <= Len(c) /\ \A m \in 1..(k - 1) : m \in 1..Len(b)
      BY <1>1, <3>1, <3>2
    <3> QED
      BY <3>1, <3>2, <3>3 DEF Further
  <2> QED
    BY <2>1 DEF Earlier
<1>4. ASSUME Holds(a, b), NEW n \in Nat, Further(b, c, n) PROVE Earlier(a, c)
  <2>1. Len(a) < Len(b) /\ \A m \in 1..Len(a) : a[m].items = b[m].items
    BY <1>4 DEF Holds
  <2>2. /\ 1 <= n /\ n <= Len(b) /\ n <= Len(c) /\ b[n].items < c[n].items
        /\ \A m \in 1..(n - 1) : b[m].items = c[m].items
    BY <1>4 DEF Further
  <2>3. CASE n <= Len(a)
    <3>1. n \in 1..Len(a) /\ \A m \in 1..(n - 1) : m \in 1..Len(a)
      BY <1>1, <2>2, <2>3
    <3>2. Further(a, c, n)
      BY <2>1, <2>2, <2>3, <3>1 DEF Further
    <3> QED
      BY <3>2 DEF Earlier
  <2>4. CASE n > Len(a)
    <3>1. Len(a) < Len(c) /\ \A m \in 1..Len(a) : m \in 1..(n - 1)
      BY <1>1, <2>2, <2>4
    <3>2. Holds(a, c)
      BY <2>1, <2>2, <3>1 DEF Holds
    <3> QED
      BY <3>2 DEF Earlier
  <2> QED
    BY <1>1, <2>3, <2>4
<1>5. ASSUME Holds(a, b), Holds(b, c) PROVE Earlier(a, c)
  <2>1. Len(a) < Len(b) /\ \A m \in 1..Len(a) : a[m].items = b[m].items
    BY <1>5 DEF Holds
  <2>2. Len(b) < Len(c) /\ \A m \in 1..Len(b) : b[m].items = c[m].items
    BY <1>5 DEF Holds
  <2>3. Len(a) < Len(c) /\ \A m \in 1..Len(a) : m \in 1..Len(b)
    BY <1>1, <2>1, <2>2
  <2>4. Holds(a, c)
    BY <2>1, <2>2, <2>3 DEF Holds
  <2> QED
    BY <2>4 DEF Earlier
<1> QED
  BY <1>2, <1>3, <1>4, <1>5 DEF Earlier

(* A paragraph comes before the next of the same list.                      *)
LEMMA EarlierThanNext ==
    ASSUME NEW a, NEW p, NEW b, Counted(a), Counted(b), p.depth \in Nat \ {0}, Len(b) = p.depth,
           Deeper(a, p, b)
    PROVE  Earlier(a, b)
<1>1. CASE p.depth <= Len(a)
  <2>1. Further(a, b, p.depth)
    <3>1. b[p.depth].items = a[p.depth].items + 1 /\ a[p.depth].items \in Nat
      BY <1>1 DEF Deeper, Counted
    <3>2. \A m \in 1..(p.depth - 1) : b[m] = a[m]
      BY <1>1 DEF Deeper, Counted
    <3> QED
      BY <1>1, <3>1, <3>2 DEF Further
  <2> QED
    BY <2>1 DEF Earlier
<1>2. CASE p.depth > Len(a)
  <2>1. Holds(a, b)
    BY <1>2 DEF Deeper, Counted, Holds
  <2> QED
    BY <2>1 DEF Earlier
<1> QED
  BY <1>1, <1>2 DEF Counted

(* Within a list, every paragraph comes before those after it.              *)
LEMMA InOrder ==
    ASSUME NEW text, Len(text) \in Nat, NEW s, NEW t, Chain(text, s, t), NEW i \in 1..Len(text)
    PROVE  \A j \in 1..Len(text) : j > i /\ Together(text, i, j) => Earlier(s[i], s[j])
<1>1. PICK N \in Nat : N = Len(text)
  OBVIOUS
<1>2. \A j \in 1..N : /\ text[j].depth \in Nat /\ Len(s[j]) = text[j].depth /\ Counted(s[j])
                      /\ Linked(text, j) => Deeper(s[j - 1], text[j], s[j])
  BY <1>1 DEF Chain, Counted
<1> DEFINE Good(j) == j > i /\ Together(text, i, j) => Earlier(s[i], s[j])
           G == {j \in Nat : j \in 1..N => Good(j)}
<1>3. i \in Nat /\ i \in G
  BY <1>1
<1>4. ASSUME NEW j \in Nat, j > i, j - 1 \in G PROVE j \in G
  <2> SUFFICES ASSUME j \in 1..N, Together(text, i, j) PROVE Earlier(s[i], s[j])
    OBVIOUS
  <2>1. PICK m \in 1..N : m = j - 1 /\ m >= i
    BY <1>1, <1>4
  <2>2. Together(text, i, m) /\ Linked(text, j)
    BY <1>1, <1>4, <2>1, TogetherGrows
  <2>3. text[j].depth \in Nat \ {0}
    BY <1>2, <2>2 DEF Linked
  <2>4. Earlier(s[m], s[j])
    BY <1>2, <2>1, <2>2, <2>3, EarlierThanNext
  <2>5. m > i => Earlier(s[i], s[m])
    BY <1>4, <2>1, <2>2
  <2>6. m = i \/ m > i
    BY <1>1, <2>1
  <2> QED
    BY <1>1, <1>2, <2>4, <2>5, <2>6, EarlierGoesOn
<1> HIDE DEF G
<1>5. \A j \in Nat : j >= i => j \in G
  BY <1>3, <1>4, GoesUp
<1> SUFFICES ASSUME NEW j \in 1..N, j > i PROVE Together(text, i, j) => Earlier(s[i], s[j])
  BY <1>1
<1>6. j \in G
  BY <1>1, <1>5
<1> QED
  BY <1>6 DEF G

(* Until one as deep as it comes, a paragraph's item stays the last of its  *)
(* list: what is deeper is inside it.                                       *)
LEMMA InsideLast ==
    ASSUME NEW text, Len(text) \in Nat, NEW s, NEW t, Chain(text, s, t), NEW i \in 1..Len(text),
           NEW j \in 1..Len(text), i < j, Together(text, i, j),
           \A k \in (i + 1)..j : text[k].depth > text[i].depth
    PROVE  \A m \in 1..text[i].depth : s[j][m] = s[i][m]
<1>1. PICK N \in Nat : N = Len(text)
  OBVIOUS
<1>2. \A k \in 1..N : /\ text[k].depth \in Nat /\ Len(s[k]) = text[k].depth
                      /\ Linked(text, k) => Deeper(s[k - 1], text[k], s[k])
  BY <1>1 DEF Chain
<1> DEFINE Good(k) == Together(text, i, k) => \A m \in 1..text[i].depth : s[k][m] = s[i][m]
           G == {k \in Nat : k \in 1..j => Good(k)}
<1>3. i \in Nat /\ i \in G
  BY <1>1
<1>4. ASSUME NEW k \in Nat, k > i, k - 1 \in G PROVE k \in G
  <2> SUFFICES ASSUME k \in 1..j, Together(text, i, k), NEW m \in 1..text[i].depth
               PROVE  s[k][m] = s[i][m]
    OBVIOUS
  <2>1. PICK l \in 1..N : l = k - 1 /\ l >= i /\ l \in 1..j /\ k \in 1..N
    BY <1>1, <1>4
  <2>2. Together(text, i, l) /\ Linked(text, k)
    BY <1>1, <1>4, <2>1, TogetherGrows
  <2>3. s[l][m] = s[i][m]
    BY <1>4, <2>1, <2>2
  <2>4. text[k].depth > text[i].depth /\ text[l].depth >= text[i].depth
    <3>1. l = i \/ l \in (i + 1)..j
      BY <1>1, <2>1
    <3>2. k \in (i + 1)..j
      BY <1>1, <1>4
    <3> QED
      BY <1>1, <1>2, <2>1, <3>1, <3>2
  <2>5. m \in 1..text[k].depth /\ m < text[k].depth /\ m <= Len(s[l])
    BY <1>1, <1>2, <2>1, <2>4
  <2>6. Deeper(s[l], text[k], s[k])
    BY <1>2, <2>1, <2>2
  <2> QED
    BY <2>3, <2>5, <2>6 DEF Deeper
<1> HIDE DEF G
<1>5. \A k \in Nat : k >= i => k \in G
  BY <1>3, <1>4, GoesUp
<1>6. j \in G
  BY <1>1, <1>5
<1> QED
  BY <1>6 DEF G

(* Before, of two paragraphs of the same list, in the words of WordLists.   *)
LEMMA EarlierIsBefore ==
    ASSUME NEW a, NEW b, Len(a.in) \in Nat, Len(b.in) \in Nat, DOMAIN a.in = 1..Len(a.in),
           Earlier(a.in, b.in)
    PROVE  Before(a, b)
<1>1. ASSUME NEW k \in Nat, Further(a.in, b.in, k) PROVE Before(a, b)
  <2>1. Min({Len(a.in), Len(b.in)}) = IF Len(a.in) <= Len(b.in) THEN Len(a.in) ELSE Len(b.in)
    BY LesserOf
  <2>2. k \in 1..Min({Len(a.in), Len(b.in)})
    BY <1>1, <2>1 DEF Further
  <2> QED
    BY <1>1, <2>2 DEF Further, Before
<1>2. ASSUME Holds(a.in, b.in) PROVE Before(a, b)
  BY <1>2 DEF Holds, Before
<1> QED
  BY <1>1, <1>2 DEF Earlier

(* Whatever paragraphs are pasted from Word, of any number of lists nested  *)
(* to any depth: each stays as deep as it was, in its place, in one list    *)
(* with those it stood together with and no other, inside the last one less *)
(* deep, in a list numbered as the first so deep was (wordLists).           *)
THEOREM ListsAlwaysKept ==
    ASSUME NEW text \in Pastes
    PROVE  ListsKept(text)
<1>1. text \in Seq(Paragraphs)
  BY PastesAssumption
<1>2. PICK N \in Nat : N = Len(text) /\ DOMAIN text = 1..N
  BY <1>1
<1>3. PICK s, t : PlacedAs(text, s, t)
  BY <1>1, PlacedInChain
<1> DEFINE placed == Placed(text)
           items(i, d) == [k \in 1..d |-> placed[i].in[k].items]
<1>5. Chain(text, s, t) /\ \A j \in 1..N : placed[j].top = t[j] /\ placed[j].in = s[j]
  BY <1>2, <1>3 DEF PlacedAs
<1>6. \A j \in 1..N :
         /\ text[j].depth \in Nat /\ Len(s[j]) = text[j].depth /\ DOMAIN s[j] = 1..text[j].depth
         /\ Linked(text, j) => Deeper(s[j - 1], text[j], s[j])
         /\ ~Linked(text, j) /\ text[j].depth > 0 => s[j][text[j].depth].ordered = text[j].ordered
  BY <1>2, <1>5 DEF Chain
<1>7. ASSUME NEW j \in 1..N, text[j].depth > 0, NEW i \in 1..(j - 1), text[i].depth > 0
      PROVE  /\ Before(placed[i], placed[j])
             /\ (placed[i].top = placed[j].top) <=> Together(text, i, j)
  <2>1. i \in 1..N /\ j > i /\ j >= i /\ i \in Nat /\ j \in Nat
    BY <1>2
  <2>2. t[i] <= t[j] /\ t[i] \in Nat /\ t[j] \in Nat /\ (t[i] = t[j] <=> Together(text, i, j))
    <3>1. \A k \in 1..N : k >= i => t[i] <= t[k] /\ t[k] \in 1..k /\ (t[i] = t[k] <=> Together(text, i, k))
      BY <1>2, <1>5, <1>7, <2>1, Tops
    <3>2. t[i] \in 1..i /\ t[j] \in 1..j
      BY <2>1, <3>1
    <3> QED
      BY <2>1, <3>1, <3>2
  <2>3. (placed[i].top = placed[j].top) <=> Together(text, i, j)
    BY <1>5, <2>1, <2>2
  <2>4. Before(placed[i], placed[j])
    <3>1. CASE Together(text, i, j)
      <4>1. Earlier(s[i], s[j])
        BY <1>2, <1>5, <2>1, <3>1, InOrder
      <4>2. /\ Earlier(placed[i].in, placed[j].in) /\ Len(placed[i].in) \in Nat /\ Len(placed[j].in) \in Nat
            /\ DOMAIN placed[i].in = 1..Len(placed[i].in)
        BY <1>5, <1>6, <2>1, <4>1
      <4> QED
        BY <4>2, EarlierIsBefore
    <3>2. CASE ~Together(text, i, j)
      <4>1. placed[i].top < placed[j].top
        BY <1>5, <2>1, <2>2, <3>2
      <4> QED
        BY <4>1 DEF Before
    <3> QED
      BY <3>1, <3>2
  <2> QED
    BY <2>3, <2>4
<1>8. ASSUME NEW j \in 1..N, NEW i \in 1..(j - 1), Together(text, i, j), text[i].depth < text[j].depth,
             \A k \in (i + 1)..(j - 1) : text[k].depth > text[i].depth
      PROVE  [k \in 1..text[i].depth |-> placed[j].in[k].items] = [k \in 1..text[i].depth |-> placed[i].in[k].items]
  <2>1. i \in 1..N /\ i < j /\ i \in Nat /\ j \in Nat
    BY <1>2
  <2>2. \A k \in (i + 1)..j : text[k].depth > text[i].depth
    <3>1. \A k \in (i + 1)..j : k = j \/ k \in (i + 1)..(j - 1)
      BY <2>1
    <3>2. text[j].depth > text[i].depth
      BY <1>6, <1>8, <2>1
    <3> QED
      BY <1>8, <3>1, <3>2
  <2>3. \A m \in 1..text[i].depth : s[j][m] = s[i][m]
    BY <1>2, <1>5, <1>8, <2>1, <2>2, InsideLast
  <2> QED
    BY <1>5, <2>1, <2>3
<1>9. ASSUME NEW j \in 1..N, text[j].depth > 0,
             \A i \in 1..(j - 1) : Together(text, i, j) => text[i].depth < text[j].depth
      PROVE  placed[j].in[text[j].depth].ordered = text[j].ordered
  <2>1. CASE Linked(text, j)
    <3>1. PICK i \in 1..N : i = j - 1 /\ i \in 1..(j - 1)
      BY <1>2, <2>1 DEF Linked
    <3>2. Together(text, i, j)
      <4>1. \A k \in i..j : k = i \/ k = j
        BY <3>1
      <4> QED
        BY <2>1, <3>1, <4>1 DEF Together, Linked
    <3>3. Len(s[i]) < text[j].depth /\ text[j].depth \in 1..text[j].depth
      BY <1>6, <1>9, <3>1, <3>2
    <3>4. Deeper(s[i], text[j], s[j]) /\ Len(s[i]) \in Nat /\ text[j].depth \in Nat
      BY <1>6, <2>1, <3>1
    <3>5. s[j][text[j].depth].ordered = text[j].ordered
      BY <3>3, <3>4 DEF Deeper
    <3> QED
      BY <1>5, <3>5
  <2>2. CASE ~Linked(text, j)
    BY <1>5, <1>6, <1>9, <2>2
  <2> QED
    BY <2>1, <2>2
<1>10. \A j \in 1..N : Len(placed[j].in) = text[j].depth
  BY <1>5, <1>6
<1> SUFFICES ASSUME NEW j \in DOMAIN text, text[j].depth > 0
             PROVE  /\ Len(placed[j].in) = text[j].depth
                    /\ \A i \in 1..(j - 1) : text[i].depth > 0 =>
                           /\ Before(placed[i], placed[j])
                           /\ (placed[i].top = placed[j].top) <=> Together(text, i, j)
                    /\ \A i \in 1..(j - 1) :
                           /\ Together(text, i, j) /\ text[i].depth < text[j].depth
                           /\ \A k \in (i + 1)..(j - 1) : text[k].depth > text[i].depth
                           => items(j, text[i].depth) = items(i, text[i].depth)
                    /\ (\A i \in 1..(j - 1) : Together(text, i, j) => text[i].depth < text[j].depth)
                           => placed[j].in[text[j].depth].ordered = text[j].ordered
  BY Zenon DEF ListsKept
<1>13. j \in 1..N
  BY <1>2
<1>11. \A i \in 1..(j - 1) : text[i].depth > 0 =>
           /\ Before(placed[i], placed[j])
           /\ (placed[i].top = placed[j].top) <=> Together(text, i, j)
  BY <1>7, <1>13
<1>12. \A i \in 1..(j - 1) :
           /\ Together(text, i, j) /\ text[i].depth < text[j].depth
           /\ \A k \in (i + 1)..(j - 1) : text[k].depth > text[i].depth
           => items(j, text[i].depth) = items(i, text[i].depth)
  BY <1>8, <1>13
<1> QED
  BY <1>9, <1>10, <1>11, <1>12, <1>13

(* On the page, too, whatever is pasted.                                    *)
THEOREM PastedListsAlwaysKept == Spec => []PastedListsKept
<1>1. PastedListsKept
  BY ListsAlwaysKept DEF PastedListsKept
<1> QED
  BY <1>1, PTL
=============================================================================
