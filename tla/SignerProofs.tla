----------------------------- MODULE SignerProofs -----------------------------
(***************************************************************************)
(* What is placed on a PDF can be written into it, and the lines changed   *)
(* are its own: for all PDFs, and any number of items, undos and PDFs      *)
(* opened.                                                                 *)
(***************************************************************************)
EXTENDS Signer, FiniteSetTheorems, WellFoundedInduction, TLAPS

(* A set of naturals has a least element.                                   *)
LEMMA LeastNatural ==
    ASSUME NEW T \in SUBSET Nat, T # {}
    PROVE  \E n \in T : \A m \in T : n <= m
<1> DEFINE S == {0 .. n : n \in T}
<1>1. S \subseteq FiniteSubsetsOf(Nat) /\ S # {}
    <2>1. \A n \in T : 0 .. n \in SUBSET Nat /\ IsFiniteSet(0 .. n)
        BY FS_Interval
    <2> QED
        BY <2>1 DEF FiniteSubsetsOf
<1>2. PICK s \in S : \A t \in S : ~(<<t, s>> \in StrictSubsetOrdering(Nat))
    BY <1>1, FS_StrictSubsetOrderingWellFounded, WFMin
<1>3. PICK n \in T : s = 0 .. n
    BY <1>2
<1> SUFFICES ASSUME NEW m \in T, m < n PROVE FALSE
    BY <1>3
<1>4. 0 .. m \in S /\ 0 .. m \subseteq s /\ 0 .. m # s
    BY <1>3
<1>5. <<0 .. m, s>> \in StrictSubsetOrdering(Nat)
    BY <1>3, <1>4 DEF StrictSubsetOrdering
<1> QED
    BY <1>2, <1>4, <1>5

(* ... and a finite one a greatest.                                         *)
LEMMA GreatestNatural ==
    ASSUME NEW T \in SUBSET Nat, T # {}, IsFiniteSet(T)
    PROVE  \E n \in T : \A m \in T : m <= n
<1> DEFINE Above(n) == {m \in T : m > n}
           Counts == {Cardinality(Above(n)) : n \in T}
<1>1. \A n \in T : IsFiniteSet(Above(n)) /\ Cardinality(Above(n)) \in Nat
    BY FS_Subset, FS_CardinalityType
<1>2. Counts \in SUBSET Nat /\ Counts # {}
    BY <1>1
<1>3. PICK c \in Counts : \A k \in Counts : c <= k
    BY <1>2, LeastNatural
<1>4. PICK n \in T : c = Cardinality(Above(n))
    BY <1>3
<1> SUFFICES ASSUME NEW m \in T, m > n PROVE FALSE
    BY <1>4
<1>5. Above(m) \subseteq Above(n) /\ m \in Above(n) /\ m \notin Above(m)
    <2>1. m \in Nat /\ n \in Nat /\ \A k \in T : k \in Nat /\ (k > m => k > n)
        OBVIOUS
    <2>2. m > n /\ ~(m > m)
        BY <2>1
    <2> QED
        BY <2>1, <2>2
<1>6. Cardinality(Above(m)) < Cardinality(Above(n))
    BY <1>1, <1>5, FS_Subset
<1>7. c <= Cardinality(Above(m))
    BY <1>3
<1> QED
    BY <1>1, <1>4, <1>6, <1>7
-----------------------------------------------------------------------------
Items == [id : Nat, page : Nat, line : Nat \cup {None}, found : Pdfs \cup {None}]

(* The PDF whose lines are looked at, unless crossed.                       *)
LinesOf == IF crossed THEN None ELSE pdf

(* What can be placed on PDF d, with ids up to the last: on pages there are,*)
(* told apart by the ids; and standing for lines of the PDF they are of.    *)
Placings(d, last, of) ==
    {placed \in SUBSET Items :
        /\ IsFiniteSet(placed)
        /\ \A item \in placed : /\ item.page \in 1..PagesOf[d] /\ item.id <= last
                                /\ of # None /\ item.line # None => item.found = of
        /\ \A a, b \in placed : a.id = b.id => a = b}

Placed == Placings(original, lastId, LinesOf)

Without(id) == {placed \in SUBSET Items : \A item \in placed : item.id # id}

(* Lines clicked, and readings, of the PDF they are of.                     *)
Lines(of) == {l \in [of : Pdfs, page : Nat \ {0}] : of # None => l.of = of}
Readings(of) == {r \in [of : Pdfs, page : Nat \ {0}, into : BOOLEAN] : of # None => r.of = of}

(* What the variables hold; one PDF is open, however many are on their way. *)
SignerTypeOK ==
    /\ loads \in Seq(Pdfs)
    /\ pdf \in {None, original} /\ shown \in {None, original}
    /\ original \in Pdfs \cup {None}
    /\ lastId \in Nat
    /\ texts \in [MorePages -> Pdfs \cup {0, None}]
    /\ gesture # None => gesture = [id |-> gesture.id, before |-> gesture.before, changed |-> gesture.changed]

(* Lines read, offered and clicked are the PDF's, unless crossed.           *)
Looked ==
    /\ LinesOf # None => \A p \in MorePages : texts[p] \in {None, LinesOf}
    /\ reads \in SUBSET Readings(LinesOf)
    /\ edits \in Seq(Lines(LinesOf))

Undoable == items \in Placed /\ history \in Seq(Placed)

(* What a gesture began with can be undone to; or its item was of a PDF     *)
(* closed since, and is nowhere any more.                                   *)
Held ==
    gesture # None =>
        /\ gesture.id \in Nat /\ gesture.id <= lastId
        /\ \/ gesture.before \in Placed
           \/ items \in Without(gesture.id) /\ history \in Seq(Without(gesture.id))

SelectedIsThere == selected # None => Has(selected)

SignerInv == SignerTypeOK /\ Looked /\ Undoable /\ Held /\ SelectedIsThere
-----------------------------------------------------------------------------
(* The pages of any PDF there is can have lines.                            *)
LEMMA PagesAmongMore ==
    ASSUME NEW d \in Pdfs
    PROVE  PagesOf[d] \in Nat /\ 1..PagesOf[d] \subseteq MorePages
<1> DEFINE Counts == {PagesOf[e] : e \in Pdfs}
<1>1. Pdfs = 1..Len(PagesOf) /\ Len(PagesOf) \in Nat /\ \A e \in Pdfs : PagesOf[e] \in Nat
    BY SignerAssumption DEF Pdfs
<1>2. IsFiniteSet(Pdfs)
    BY <1>1, FS_Interval
<1>3. IsFiniteSet(Counts)
    <2>1. [e \in Pdfs |-> PagesOf[e]] \in Surjection(Pdfs, Counts)
        BY DEF Surjection
    <2> QED
        BY <1>2, <2>1, FS_Surjection
<1>4. Counts \in SUBSET Nat /\ Counts # {} /\ PagesOf[d] \in Counts
    BY <1>1
<1>5. \E n \in Counts : \A e \in Pdfs : PagesOf[e] <= n
    BY <1>3, <1>4, GreatestNatural
<1>6. PICK n : n = CHOOSE m \in Counts : \A e \in Pdfs : PagesOf[e] <= m
    OBVIOUS
<1>7. n \in Nat /\ PagesOf[d] <= n
    BY <1>4, <1>5, <1>6
<1>8. MorePages = 1..n
    BY <1>6 DEF MorePages
<1> QED
    BY <1>1, <1>7, <1>8
-----------------------------------------------------------------------------
(* What can be placed, with later ids or none of the lines looked at, ...   *)
LEMMA StillPlacings ==
    ASSUME NEW d, NEW m \in Nat, NEW n \in Nat, m <= n, NEW of, NEW of2, of2 \in {of, None}
    PROVE  Placings(d, m, of) \subseteq Placings(d, n, of2)
<1> SUFFICES ASSUME NEW placed \in Placings(d, m, of) PROVE placed \in Placings(d, n, of2)
    OBVIOUS
<1>1. \A item \in placed : item.id \in Nat /\ item.id <= m
    BY DEF Placings, Items
<1>2. \A item \in placed : item.id <= n
    BY <1>1
<1> QED
    BY <1>2 DEF Placings

(* ... with new items, whose ids are later ones, ...                        *)
LEMMA MorePlacings ==
    ASSUME NEW d, NEW m \in Nat, NEW n \in Nat, m <= n, NEW of,
           NEW placed \in Placings(d, m, of), NEW more \in SUBSET Items, IsFiniteSet(more),
           \A item \in more : /\ item.page \in 1..PagesOf[d] /\ m < item.id /\ item.id <= n
                              /\ of # None /\ item.line # None => item.found = of,
           \A a, b \in more : a.id = b.id => a = b
    PROVE  placed \cup more \in Placings(d, n, of)
<1>1. \A item \in placed : item.id \in Nat /\ item.id <= m
    BY DEF Placings, Items
<1>2. \A item \in more : item.id \in Nat /\ m < item.id
    BY DEF Items
<1>3. \A item \in placed \cup more : item.id <= n
    BY <1>1
<1>4. IsFiniteSet(placed \cup more)
    BY FS_Union DEF Placings
<1>5. \A a, b \in placed \cup more : a.id = b.id => a = b
    <2> SUFFICES ASSUME NEW a \in placed \cup more, NEW b \in placed \cup more, a.id = b.id PROVE a = b
        OBVIOUS
    <2>1. a \in placed <=> b \in placed
        BY <1>1, <1>2
    <2> QED
        BY <2>1 DEF Placings
<1> QED
    BY <1>3, <1>4, <1>5 DEF Placings

(* ... with fewer, or with one moved to another page there is.              *)
LEMMA FewerPlacings ==
    ASSUME NEW d, NEW m, NEW of, NEW placed \in Placings(d, m, of), NEW fewer \in SUBSET placed
    PROVE  fewer \in Placings(d, m, of)
<1>1. IsFiniteSet(fewer)
    BY FS_Subset DEF Placings
<1> QED
    BY <1>1 DEF Placings

LEMMA MovedPlacings ==
    ASSUME NEW d, NEW m, NEW of, NEW placed \in Placings(d, m, of),
           NEW item \in placed, NEW p \in 1..PagesOf[d], PagesOf[d] \in Nat
    PROVE  (placed \ {item}) \cup {[item EXCEPT !.page = p]} \in Placings(d, m, of)
<1>1. PICK moved : moved = [item EXCEPT !.page = p]
    OBVIOUS
<1>2. item \in Items /\ p \in Nat
    BY DEF Placings
<1>3. moved \in Items /\ moved.page = p /\ moved.id = item.id /\ moved.line = item.line /\ moved.found = item.found
    BY <1>1, <1>2 DEF Items
<1>4. IsFiniteSet((placed \ {item}) \cup {moved})
    BY FS_Subset, FS_AddElement DEF Placings
<1>5. \A a, b \in (placed \ {item}) \cup {moved} : a.id = b.id => a = b
    BY <1>3 DEF Placings
<1> QED
    BY <1>1, <1>3, <1>4, <1>5 DEF Placings

(* The items of a set kept, with as many pages as there are before, are     *)
(* numbered from 1 to as many as there are.                                 *)
LEMMA Numbered ==
    ASSUME NEW S \in SUBSET Nat, IsFiniteSet(S)
    PROVE  /\ Cardinality(S) \in Nat
           /\ \A p \in S : /\ Cardinality({q \in S : q <= p}) \in Nat \ {0}
                           /\ Cardinality({q \in S : q <= p}) <= Cardinality(S)
           /\ \A p, q \in S : Cardinality({r \in S : r <= p}) = Cardinality({r \in S : r <= q}) => p = q
<1> DEFINE Upto(p) == {r \in S : r <= p}
<1>1. Cardinality(S) \in Nat
    BY FS_CardinalityType
<1>2. \A p \in S : /\ IsFiniteSet(Upto(p)) /\ Cardinality(Upto(p)) \in Nat
                   /\ Cardinality(Upto(p)) <= Cardinality(S)
    BY FS_Subset, FS_CardinalityType
<1>3. \A p \in S : Cardinality(Upto(p)) # 0
    <2> SUFFICES ASSUME NEW p \in S PROVE Cardinality(Upto(p)) # 0
        OBVIOUS
    <2>1. p \in Upto(p)
        OBVIOUS
    <2> QED
        BY <1>2, <2>1, FS_EmptySet
<1>4. \A p, q \in S : p < q => Cardinality(Upto(p)) < Cardinality(Upto(q))
    <2> SUFFICES ASSUME NEW p \in S, NEW q \in S, p < q
                 PROVE  Cardinality(Upto(p)) < Cardinality(Upto(q))
        OBVIOUS
    <2>1. Upto(p) \subseteq Upto(q) /\ q \in Upto(q) /\ q \notin Upto(p)
        <3>1. p \in Nat /\ q \in Nat /\ \A k \in S : k \in Nat /\ (k <= p => k <= q)
            OBVIOUS
        <3>2. q <= q /\ ~(q <= p)
            BY <3>1
        <3> QED
            BY <3>1, <3>2
    <2> QED
        BY <1>2, <2>1, FS_Subset
<1>5. \A p, q \in S : Cardinality(Upto(p)) = Cardinality(Upto(q)) => p = q
    <2>1. \A p, q \in S : p < q \/ q < p \/ p = q
        OBVIOUS
    <2> QED
        BY <1>2, <1>4, <2>1
<1> QED
    BY <1>1, <1>2, <1>3, <1>5
-----------------------------------------------------------------------------
LEMMA SeqWithout ==
    ASSUME NEW S, NEW s \in Seq(S), NEW i \in 1..Len(s)
    PROVE  RemoveAt(s, i) \in Seq(S) /\ s[i] \in S
BY DEF RemoveAt

(* Remembered: one more of the same, or one more and the first forgotten.   *)
LEMMA RememberedSeq ==
    ASSUME NEW S, history \in Seq(S), NEW snapshot \in S, Remember(snapshot)
    PROVE  history' \in Seq(S)
<1>1. Append(history, snapshot) \in Seq(S) /\ Append(history, snapshot) # <<>>
    OBVIOUS
<1>2. Tail(Append(history, snapshot)) \in Seq(S)
    BY <1>1
<1> QED
    BY <1>1, <1>2 DEF Remember

LEMMA BiggerSeq ==
    ASSUME NEW S, NEW T, S \subseteq T, NEW s \in Seq(S)
    PROVE  s \in Seq(T)
OBVIOUS

(* An item there is can be found.                                           *)
LEMMA Found ==
    ASSUME NEW id, Has(id)
    PROVE  At(id) \in items /\ At(id).id = id
BY DEF Has, At

(* The next page read is of the PDF asked for.                              *)
LEMMA ReadOnTypes ==
    ASSUME NEW of \in Pdfs, NEW from \in Nat \ {0}, NEW known
    PROVE  ReadOn(of, from, known) \subseteq [of : {of}, page : Nat \ {0}, into : BOOLEAN]
<1>1. PICK unread : unread = {p \in from..PagesOf[of] : known[p] = None}
    OBVIOUS
<1>2. CASE pdf = None \/ unread = {}
    <2>1. ReadOn(of, from, known) = {}
        BY <1>1, <1>2 DEF ReadOn
    <2> QED
        BY <2>1
<1>3. CASE ~(pdf = None \/ unread = {})
    <2>1. PICK p : p = CHOOSE r \in unread : \A q \in unread : r <= q
        OBVIOUS
    <2>2. unread \in SUBSET (Nat \ {0})
        BY <1>1, PagesAmongMore
    <2>3. \E q \in unread : \A r \in unread : q <= r
        BY <1>3, <2>2, LeastNatural
    <2>4. p \in Nat \ {0}
        BY <2>1, <2>2, <2>3
    <2>5. ReadOn(of, from, known) = {[of |-> of, page |-> p, into |-> TRUE]}
        BY <1>1, <1>3, <2>1 DEF ReadOn
    <2> QED
        BY <2>4, <2>5
<1> QED
    BY <1>2, <1>3

LEMMA PagesShownFinite ==
    ASSUME shown \in Pdfs
    PROVE  /\ PagesOf[shown] \in Nat /\ PagesShown = 1..PagesOf[shown]
           /\ IsFiniteSet(PagesShown) /\ PagesShown \in SUBSET (Nat \ {0}) /\ PagesShown \subseteq MorePages
<1>1. PagesOf[shown] \in Nat /\ 1..PagesOf[shown] \subseteq MorePages
    BY PagesAmongMore
<1>2. IsFiniteSet(1..PagesOf[shown])
    BY <1>1, FS_Interval
<1> QED
    BY <1>1, <1>2 DEF PagesShown

(* Ids only grow.                                                           *)
LEMMA StepLastId ==
    ASSUME SignerInv, [Next]_vars
    PROVE  lastId' \in Nat /\ lastId <= lastId'
<1>1. lastId \in Nat
    BY DEF SignerInv, SignerTypeOK
<1>2. CASE lastId' = lastId
    BY <1>1, <1>2
<1>3. CASE lastId' = lastId + 1
    BY <1>1, <1>3
<1>4. CASE EveryPage
    <2>1. PICK others \in SUBSET PagesShown : lastId' = lastId + Cardinality(others)
        BY <1>4 DEF EveryPage
    <2>2. shown \in Pdfs
        BY <1>4 DEF EveryPage, SignerInv, SignerTypeOK
    <2>3. IsFiniteSet(others) /\ others \in SUBSET Nat
        BY <2>2, PagesShownFinite, FS_Subset
    <2> QED
        BY <1>1, <2>1, <2>3, FS_CardinalityType
<1> QED
    BY <1>2, <1>3, <1>4
       DEF Next, vars, itemVars, Open, Opened, NotOpened, Arm, Place, Put, Change, Deselect, Undo, Delete, Press, Move, Drop,
           ToggleEdit, ReadLines, ClickLine, Sampled, Sign, SignEnds

LEMMA StepTypes ==
    ASSUME SignerInv, [Next]_vars
    PROVE  SignerTypeOK'
<1> USE DEF SignerInv
<1>1. lastId' \in Nat
    BY StepLastId
<1>2. CASE \E d \in Pdfs : Open(d)
    BY <1>1, <1>2 DEF Open, itemVars, textVars, SignerTypeOK
<1>3. CASE Opened
    <2>1. PICK i \in 1..Len(loads) :
              pdf' = loads[i] /\ original' = loads[i] /\ shown' = loads[i] /\ loads' = RemoveAt(loads, i)
        BY <1>3 DEF Opened
    <2>2. loads' \in Seq(Pdfs) /\ original' \in Pdfs /\ pdf' = original' /\ shown' = original'
        BY <2>1, SeqWithout DEF SignerTypeOK
    <2>3. texts' \in [MorePages -> Pdfs \cup {0, None}] /\ gesture' = gesture
        BY <1>3 DEF Opened
    <2> QED
        BY <1>1, <2>2, <2>3 DEF SignerTypeOK
<1>4. CASE NotOpened
    <2>1. PICK i \in 1..Len(loads) : loads' = RemoveAt(loads, i)
        BY <1>4 DEF NotOpened
    <2>2. loads' \in Seq(Pdfs)
        BY <2>1, SeqWithout DEF SignerTypeOK
    <2> QED
        BY <1>1, <1>4, <2>2 DEF NotOpened, textVars, SignerTypeOK
<1>5. CASE UNCHANGED <<loadVars, texts, gesture>>
    BY <1>1, <1>5 DEF loadVars, SignerTypeOK
<1>6. CASE \E item \in items : Press(item.id)
    BY <1>1, <1>6 DEF Press, loadVars, textVars, SignerTypeOK
<1>7. CASE Move
    <2>1. gesture' = [gesture EXCEPT !.changed = TRUE] /\ gesture # None
        BY <1>7 DEF Move
    <2>2. gesture' = [id |-> gesture.id, before |-> gesture.before, changed |-> TRUE]
        BY <2>1 DEF SignerTypeOK
    <2> QED
        BY <1>1, <1>7, <2>2 DEF Move, loadVars, textVars, SignerTypeOK
<1>8. CASE Drop
    BY <1>1, <1>8 DEF Drop, loadVars, textVars, SignerTypeOK
<1>9. CASE ReadLines
    <2>1. PICK r \in reads :
              texts' = IF ~r.into THEN texts ELSE [texts EXCEPT ![r.page] = IF pdf = r.of THEN r.of ELSE 0]
        BY <1>9 DEF ReadLines
    <2>2. r.of \in Pdfs
        BY DEF Looked, Readings
    <2>3. texts' \in [MorePages -> Pdfs \cup {0, None}]
        BY <2>1, <2>2 DEF SignerTypeOK
    <2> QED
        BY <1>1, <1>9, <2>3 DEF ReadLines, loadVars, SignerTypeOK
<1> QED
    BY <1>2, <1>3, <1>4, <1>5, <1>6, <1>7, <1>8, <1>9
       DEF Next, vars, itemVars, textVars, Arm, Place, Put, Change, EveryPage, Deselect, Undo, Delete,
           ToggleEdit, ClickLine, Sampled, Sign, SignEnds

LEMMA StepLooked ==
    ASSUME SignerInv, [Next]_vars
    PROVE  Looked'
<1> USE DEF SignerInv
<1>1. CASE \E d \in Pdfs : Open(d)
    <2>1. LinesOf' = None /\ UNCHANGED <<texts, reads, edits>>
        BY <1>1 DEF Open, textVars, LinesOf
    <2>2. Readings(LinesOf) \subseteq Readings(None) /\ Lines(LinesOf) \subseteq Lines(None)
        BY DEF Readings, Lines
    <2>3. reads' \in SUBSET Readings(None) /\ edits' \in Seq(Lines(None))
        BY <2>1, <2>2, BiggerSeq DEF Looked
    <2> QED
        BY <2>1, <2>3 DEF Looked
<1>2. CASE Opened
    <2>1. /\ texts' = [p \in MorePages |-> None]
          /\ crossed' = (reads # {} \/ edits # <<>>)
          /\ reads' = {[r EXCEPT !.into = FALSE] : r \in reads}
          /\ edits' = edits
        BY <1>2 DEF Opened
    <2>2. \A p \in MorePages : texts'[p] = None
        BY <2>1
    <2>3. CASE reads = {} /\ edits = <<>>
        <3>1. reads' = {} /\ edits' = <<>>
            BY <2>1, <2>3
        <3> QED
            BY <2>2, <3>1 DEF Looked
    <2>4. CASE reads # {} \/ edits # <<>>
        <3>1. LinesOf' = None
            BY <2>1, <2>4 DEF LinesOf
        <3>2. Readings(LinesOf) \subseteq Readings(None) /\ Lines(LinesOf) \subseteq Lines(None)
            BY DEF Readings, Lines
        <3>3. edits' \in Seq(Lines(None))
            BY <2>1, <3>2, BiggerSeq DEF Looked
        <3>4. \A r \in Readings(None) : [r EXCEPT !.into = FALSE] \in Readings(None)
            BY DEF Readings
        <3>5. reads' \in SUBSET Readings(None)
            BY <2>1, <3>2, <3>4 DEF Looked
        <3> QED
            BY <2>2, <3>1, <3>3, <3>5 DEF Looked
    <2> QED
        BY <2>3, <2>4
<1>3. CASE UNCHANGED <<crossed, pdf, texts, reads, edits>>
    BY <1>3 DEF LinesOf, Looked
<1>4. ASSUME pdf # None, pdf \in Pdfs, NEW from \in Nat \ {0}, NEW known
      PROVE  ReadOn(pdf, from, known) \in SUBSET Readings(LinesOf)
    <2>1. [of : {pdf}, page : Nat \ {0}, into : BOOLEAN] \subseteq Readings(LinesOf)
        BY <1>4 DEF Readings, LinesOf
    <2> QED
        BY <1>4, <2>1, ReadOnTypes
<1>5. CASE ToggleEdit
    <2>1. UNCHANGED <<crossed, pdf, texts, edits>>
        BY <1>5 DEF ToggleEdit, loadVars
    <2>2. reads' = reads \/ (pdf # None /\ reads' = reads \cup ReadOn(pdf, 1, texts))
        BY <1>5 DEF ToggleEdit
    <2>3. pdf # None => pdf \in Pdfs
        BY DEF SignerTypeOK
    <2>4. pdf # None => ReadOn(pdf, 1, texts) \in SUBSET Readings(LinesOf)
        BY <1>4, <2>3
    <2>5. reads' \in SUBSET Readings(LinesOf)
        BY <2>2, <2>4 DEF Looked
    <2> QED
        BY <2>1, <2>5 DEF Looked, LinesOf
<1>6. CASE ReadLines
    <2>1. PICK r \in reads :
              /\ texts' = IF ~r.into THEN texts ELSE [texts EXCEPT ![r.page] = IF pdf = r.of THEN r.of ELSE 0]
              /\ reads' = (reads \ {r}) \cup ReadOn(r.of, r.page + 1, texts')
        BY <1>6 DEF ReadLines
    <2>2. UNCHANGED <<crossed, pdf, edits>>
        BY <1>6 DEF ReadLines, loadVars
    <2>3. r.of \in Pdfs /\ r.page + 1 \in Nat \ {0} /\ (LinesOf # None => r.of = LinesOf)
        BY DEF Looked, Readings
    <2>4. LinesOf # None => \A p \in MorePages : texts'[p] \in {None, LinesOf}
        BY <2>1, <2>3 DEF Looked, LinesOf, SignerTypeOK
    <2>5. [of : {r.of}, page : Nat \ {0}, into : BOOLEAN] \subseteq Readings(LinesOf)
        BY <2>3 DEF Readings
    <2>6. ReadOn(r.of, r.page + 1, texts') \subseteq [of : {r.of}, page : Nat \ {0}, into : BOOLEAN]
        BY <2>3, ReadOnTypes
    <2>7. reads' \in SUBSET Readings(LinesOf)
        BY <2>1, <2>5, <2>6 DEF Looked
    <2> QED
        BY <2>2, <2>4, <2>7 DEF Looked, LinesOf
<1>7. CASE ClickLine
    <2>1. /\ UNCHANGED <<crossed, pdf, texts, reads>>
          /\ shown # None
        BY <1>7 DEF ClickLine, loadVars, Reachable
    <2>2. PICK p \in PagesShown :
              /\ texts[p] \in Pdfs
              /\ edits' = edits \/ edits' = Append(edits, [of |-> texts[p], page |-> p])
        BY <1>7 DEF ClickLine
    <2>3. p \in Nat \ {0} /\ p \in MorePages
        BY <2>1, PagesShownFinite DEF SignerTypeOK
    <2>4. [of |-> texts[p], page |-> p] \in Lines(LinesOf)
        <3>1. LinesOf # None => texts[p] \in {None, LinesOf} /\ LinesOf = pdf
            BY <2>3 DEF Looked, LinesOf
        <3>2. texts[p] # None
            BY <2>2, SignerAssumption DEF Pdfs
        <3> QED
            BY <2>2, <2>3, <3>1, <3>2 DEF Lines
    <2>5. edits' \in Seq(Lines(LinesOf))
        BY <2>2, <2>4 DEF Looked
    <2> QED
        BY <2>1, <2>5 DEF Looked, LinesOf
<1>8. CASE Sampled
    <2>1. PICK i \in 1..Len(edits) : edits' = RemoveAt(edits, i)
        BY <1>8 DEF Sampled
    <2>2. edits' \in Seq(Lines(LinesOf))
        BY <2>1, SeqWithout DEF Looked
    <2> QED
        BY <1>8, <2>2 DEF Sampled, loadVars, Looked, LinesOf
<1> QED
    BY <1>1, <1>2, <1>3, <1>5, <1>6, <1>7, <1>8
       DEF Next, vars, loadVars, textVars, NotOpened, Arm, Place, Put, Change, EveryPage, Deselect, Undo, Delete,
           Press, Move, Drop, Sign, SignEnds
-----------------------------------------------------------------------------
(* Nothing added: what was to be undone to still is.                        *)
LEMMA StillPlaced ==
    ASSUME SignerInv, original' = original, lastId' \in Nat, lastId <= lastId', LinesOf' \in {LinesOf, None}
    PROVE  Placed \subseteq Placed'
BY StillPlacings DEF Placed, SignerInv, SignerTypeOK

LEMMA StillUndoable ==
    ASSUME SignerInv, original' = original, lastId' = lastId, LinesOf' \in {LinesOf, None},
           items' = items, history' = history, gesture' = gesture, selected' = selected
    PROVE  Undoable' /\ Held' /\ SelectedIsThere'
<1>1. Placed \subseteq Placed' /\ lastId \in Nat
    BY StillPlaced DEF SignerInv, SignerTypeOK
<1>2. Undoable'
    BY <1>1, BiggerSeq DEF SignerInv, Undoable
<1>3. Held'
    BY <1>1 DEF SignerInv, Held
<1> QED
    BY <1>2, <1>3 DEF SignerInv, SelectedIsThere, Has

(* A change while nothing is held: all of what is placed then, and of what  *)
(* is remembered, can be written.                                           *)
LEMMA ChangedFree ==
    ASSUME SignerInv, original' = original, lastId' \in Nat, lastId <= lastId', LinesOf' = LinesOf,
           Free, gesture' = gesture,
           items' \in Placed', history' = history \/ Remember(items)
    PROVE  Undoable' /\ Held'
<1>1. items \in Placed /\ history \in Seq(Placed) /\ Placed \subseteq Placed'
    BY StillPlaced DEF SignerInv, Undoable
<1>2. history' \in Seq(Placed)
    BY <1>1, RememberedSeq
<1>3. history' \in Seq(Placed')
    BY <1>1, <1>2, BiggerSeq
<1> QED
    BY <1>3 DEF Undoable, Held, Free

(* A change that something held may see: its item, if it is nowhere any     *)
(* more, comes back with none of the items.                                 *)
LEMMA ChangedHeld ==
    ASSUME SignerInv, original' = original, lastId' \in Nat, lastId <= lastId', LinesOf' = LinesOf,
           gesture' = gesture, items' \in Placed',
           \A id \in Nat : id <= lastId /\ items \in Without(id) /\ history \in Seq(Without(id)) => items' \in Without(id),
           history' = history \/ Remember(items) \/ (history # <<>> /\ history' = Front(history))
    PROVE  Undoable' /\ Held'
<1>1. items \in Placed /\ history \in Seq(Placed) /\ Placed \subseteq Placed' /\ lastId \in Nat
    BY StillPlaced DEF SignerInv, Undoable, SignerTypeOK
<1>2. ASSUME NEW S, items \in S, history \in Seq(S)
      PROVE  history' \in Seq(S)
    <2>1. CASE history' = history \/ Remember(items)
        BY <1>2, <2>1, RememberedSeq
    <2>2. CASE history # <<>> /\ history' = Front(history)
        BY <1>2, <2>2 DEF Front
    <2> QED
        BY <2>1, <2>2
<1>3. history' \in Seq(Placed')
    <2>1. history' \in Seq(Placed)
        BY <1>1, <1>2
    <2> QED
        BY <1>1, <2>1, BiggerSeq
<1>4. Undoable'
    BY <1>3 DEF Undoable
<1>5. Held'
    <2> SUFFICES ASSUME gesture # None
                 PROVE  /\ gesture.id \in Nat /\ gesture.id <= lastId'
                        /\ \/ gesture.before \in Placed'
                           \/ items' \in Without(gesture.id) /\ history' \in Seq(Without(gesture.id))
        BY DEF Held
    <2>1. gesture.id \in Nat /\ gesture.id <= lastId
        BY DEF SignerInv, Held
    <2>2. CASE gesture.before \in Placed
        BY <1>1, <2>1, <2>2
    <2>3. CASE items \in Without(gesture.id) /\ history \in Seq(Without(gesture.id))
        <3>1. items' \in Without(gesture.id)
            BY <2>1, <2>3
        <3>2. history' \in Seq(Without(gesture.id))
            BY <1>2, <2>3
        <3> QED
            BY <1>1, <2>1, <3>1, <3>2
    <2> QED
        BY <2>2, <2>3 DEF SignerInv, Held
<1> QED
    BY <1>4, <1>5

(* An item put on a page there is.                                          *)
LEMMA PutItem ==
    ASSUME SignerInv, original' = original, LinesOf' = LinesOf, gesture' = gesture,
           NEW new \in Items, new.id = lastId + 1, new.page \in 1..PagesOf[original],
           LinesOf # None /\ new.line # None => new.found = LinesOf,
           Put(new)
    PROVE  Undoable' /\ Held' /\ SelectedIsThere'
<1>1. lastId \in Nat /\ lastId' = lastId + 1 /\ items' = items \cup {new} /\ selected' = lastId' /\ Remember(items)
    BY DEF Put, SignerInv, SignerTypeOK
<1>2. items' \in Placed'
    <2>1. IsFiniteSet({new}) /\ {new} \in SUBSET Items
        BY FS_Singleton
    <2>3. lastId + 1 \in Nat /\ lastId <= lastId + 1 /\ lastId < new.id /\ new.id <= lastId + 1
        BY <1>1
    <2>4. items \in Placings(original, lastId, LinesOf)
        BY DEF SignerInv, Undoable, Placed
    <2>5. \A item \in {new} :
              /\ item.page \in 1..PagesOf[original] /\ lastId < item.id /\ item.id <= lastId + 1
              /\ LinesOf # None /\ item.line # None => item.found = LinesOf
        BY <2>3
    <2>6. \A a, b \in {new} : a.id = b.id => a = b
        OBVIOUS
    <2>2. items \cup {new} \in Placings(original, lastId + 1, LinesOf)
        BY <1>1, <2>1, <2>3, <2>4, <2>5, <2>6, MorePlacings
    <2> QED
        BY <1>1, <2>2 DEF Placed
<1>3. \A id \in Nat : id <= lastId /\ items \in Without(id) => items' \in Without(id)
    BY <1>1 DEF Without
<1>4. Undoable' /\ Held'
    <2>1. lastId' \in Nat /\ lastId <= lastId'
        BY <1>1
    <2> QED
        BY <1>1, <1>2, <1>3, <2>1, ChangedHeld
<1>5. SelectedIsThere'
    BY <1>1 DEF SelectedIsThere, Has
<1> QED
    BY <1>4, <1>5

LEMMA PlaceItems ==
    ASSUME SignerInv, Place
    PROVE  Undoable' /\ Held' /\ SelectedIsThere'
<1>1. PICK p \in PagesShown : Put([id |-> lastId + 1, page |-> p, line |-> None, found |-> None])
    BY DEF Place
<1>2. shown \in Pdfs /\ shown = original /\ lastId \in Nat
    BY DEF Place, Reachable, SignerInv, SignerTypeOK
<1>3. p \in Nat /\ p \in 1..PagesOf[original]
    BY <1>2, PagesShownFinite
<1>4. UNCHANGED <<original, pdf, crossed, gesture>>
    BY DEF Place, loadVars, textVars
<1>5. PICK new : new = [id |-> lastId + 1, page |-> p, line |-> None, found |-> None]
    OBVIOUS
<1>6. new \in Items /\ new.id = lastId + 1 /\ new.page = p /\ new.line = None /\ Put(new)
    BY <1>1, <1>2, <1>3, <1>5 DEF Items
<1> QED
    BY <1>3, <1>4, <1>6, PutItem DEF LinesOf

LEMMA SampledItems ==
    ASSUME SignerInv, Sampled
    PROVE  Undoable' /\ Held' /\ SelectedIsThere'
<1>1. PICK i \in 1..Len(edits) :
          IF pdf # None /\ shown # None /\ edits[i].page <= PagesOf[pdf]
          THEN Put([id |-> lastId + 1, page |-> edits[i].page, line |-> edits[i].page, found |-> edits[i].of])
          ELSE UNCHANGED itemVars
    BY DEF Sampled
<1>2. UNCHANGED <<original, pdf, crossed, gesture>>
    BY DEF Sampled, loadVars
<1>3. CASE UNCHANGED itemVars
    BY <1>2, <1>3, StillUndoable DEF itemVars, LinesOf, SignerInv, SignerTypeOK
<1>4. CASE /\ pdf # None /\ edits[i].page <= PagesOf[pdf]
           /\ Put([id |-> lastId + 1, page |-> edits[i].page, line |-> edits[i].page, found |-> edits[i].of])
    <2>1. pdf = original /\ original \in Pdfs /\ lastId \in Nat
        BY <1>4 DEF SignerInv, SignerTypeOK
    <2>2. edits[i] \in Lines(LinesOf)
        BY SeqWithout DEF SignerInv, Looked
    <2>3. /\ edits[i].page \in Nat \ {0} /\ edits[i].of \in Pdfs
          /\ LinesOf # None => edits[i].of = LinesOf
        BY <2>2 DEF Lines
    <2>4. edits[i].page \in 1..PagesOf[original]
        BY <1>4, <2>1, <2>3, PagesAmongMore
    <2>5. PICK new : new = [id |-> lastId + 1, page |-> edits[i].page, line |-> edits[i].page, found |-> edits[i].of]
        OBVIOUS
    <2>6. /\ new \in Items /\ new.id = lastId + 1 /\ new.page = edits[i].page /\ new.found = edits[i].of
          /\ Put(new)
        BY <1>4, <2>1, <2>3, <2>5 DEF Items
    <2> QED
        BY <1>2, <2>3, <2>4, <2>6, PutItem DEF LinesOf
<1> QED
    BY <1>1, <1>3, <1>4

LEMMA EveryPageItems ==
    ASSUME SignerInv, EveryPage
    PROVE  Undoable' /\ Held' /\ SelectedIsThere'
<1>1. PICK item : item = At(selected)
    OBVIOUS
<1>2. PICK others : others = PagesShown \ {item.page}
    OBVIOUS
<1> DEFINE Nth(p) == Cardinality({q \in others : q <= p})
           Copy(p) == [item EXCEPT !.id = lastId + Nth(p), !.page = p]
<1>3. /\ item.line = None
      /\ Remember(items) /\ lastId' = lastId + Cardinality(others)
      /\ items' = items \cup {Copy(p) : p \in others}
    BY <1>1, <1>2 DEF EveryPage
<1>4. /\ Free /\ selected # None /\ Has(selected) /\ shown # None
      /\ UNCHANGED <<original, pdf, crossed, gesture, selected>>
    BY DEF EveryPage, loadVars, textVars
<1>5. shown \in Pdfs /\ shown = original /\ lastId \in Nat /\ items \in Placings(original, lastId, LinesOf)
    BY <1>4 DEF SignerInv, SignerTypeOK, Undoable, Placed
<1>6. item \in Items
    BY <1>1, <1>4, <1>5, Found DEF Placings
<1>7. others \in SUBSET Nat /\ IsFiniteSet(others) /\ others \subseteq 1..PagesOf[original]
    BY <1>2, <1>5, PagesShownFinite, FS_Subset
<1>8. /\ Cardinality(others) \in Nat
      /\ \A p \in others : Nth(p) \in Nat \ {0} /\ Nth(p) <= Cardinality(others)
      /\ \A p, q \in others : Nth(p) = Nth(q) => p = q
    BY <1>7, Numbered
<1>9. \A p \in others : /\ Copy(p) \in Items /\ Copy(p).id = lastId + Nth(p) /\ Copy(p).page = p
                         /\ Copy(p).line = None
    <2> SUFFICES ASSUME NEW p \in others
                 PROVE  /\ Copy(p) \in Items /\ Copy(p).id = lastId + Nth(p) /\ Copy(p).page = p
                        /\ Copy(p).line = None
        OBVIOUS
    <2> Nth(p) \in Nat
        BY <1>8
    <2>1. PICK id \in Nat : id = lastId + Nth(p)
        BY <1>5
    <2>2. PICK copy : copy = [item EXCEPT !.id = id, !.page = p]
        OBVIOUS
    <2>3. item.line = None
        BY <1>3
    <2>4. copy \in Items /\ copy.id = id /\ copy.page = p /\ copy.line = None
        BY <1>6, <1>7, <2>2, <2>3 DEF Items
    <2> QED
        BY <2>1, <2>2, <2>4
<1>10. PICK new : new = {Copy(p) : p \in others}
    OBVIOUS
<1>11. new \in SUBSET Items /\ IsFiniteSet(new)
    <2>1. [p \in others |-> Copy(p)] \in Surjection(others, new)
        BY <1>10 DEF Surjection
    <2> QED
        BY <1>7, <1>9, <1>10, <2>1, FS_Surjection
<1>12. PICK last \in Nat : last = lastId + Cardinality(others)
    BY <1>5, <1>8
<1>13. \A copy \in new :
          /\ copy.page \in 1..PagesOf[original] /\ lastId < copy.id /\ copy.id <= last
          /\ LinesOf # None /\ copy.line # None => copy.found = LinesOf
    <2> SUFFICES ASSUME NEW p \in others
                 PROVE  /\ Copy(p).page \in 1..PagesOf[original] /\ lastId < Copy(p).id /\ Copy(p).id <= last
                        /\ LinesOf # None /\ Copy(p).line # None => Copy(p).found = LinesOf
        BY <1>10
    <2>1. lastId < lastId + Nth(p) /\ lastId + Nth(p) <= last
        BY <1>5, <1>8, <1>12
    <2> QED
        BY <1>7, <1>9, <2>1
<1>14. \A a, b \in new : a.id = b.id => a = b
    <2> SUFFICES ASSUME NEW p \in others, NEW q \in others, Copy(p).id = Copy(q).id PROVE Copy(p) = Copy(q)
        BY <1>10
    <2>1. PICK k \in Nat : k = Nth(p)
        BY <1>8
    <2>2. PICK l \in Nat : l = Nth(q)
        BY <1>8
    <2>3. lastId + k = lastId + l
        BY <1>9, <2>1, <2>2
    <2>4. k = l
        BY <1>5, <2>3
    <2> QED
        BY <1>8, <2>1, <2>2, <2>4
<1>15. lastId <= last /\ lastId' = last /\ items' = items \cup new
    <2>1. lastId' = last
        BY <1>3, <1>12
    <2>2. items' = items \cup new
        BY <1>3, <1>10
    <2>3. lastId <= last
        <3>1. PICK n \in Nat : n = Cardinality(others)
            BY <1>8
        <3> QED
            BY <1>5, <1>12, <3>1
    <2> QED
        BY <2>1, <2>2, <2>3
<1>16. items \cup new \in Placings(original, last, LinesOf)
    BY <1>5, <1>11, <1>13, <1>14, <1>15, MorePlacings
<1>17. LinesOf' = LinesOf
    BY <1>4 DEF LinesOf
<1>18. Undoable' /\ Held'
    <2>1. items' \in Placed'
        BY <1>4, <1>15, <1>16, <1>17 DEF Placed
    <2> QED
        BY <1>3, <1>4, <1>15, <1>17, <2>1, ChangedFree
<1>19. SelectedIsThere'
    BY <1>4, <1>15 DEF SelectedIsThere, Has
<1> QED
    BY <1>18, <1>19

LEMMA DeletedItems ==
    ASSUME SignerInv, NEW id, Delete(id)
    PROVE  Undoable' /\ Held' /\ SelectedIsThere'
<1>1. /\ Remember(items) /\ items' \in SUBSET items /\ selected' = None
      /\ UNCHANGED <<original, pdf, crossed, lastId, gesture>>
    BY DEF Delete, loadVars, textVars
<1>2. LinesOf' = LinesOf /\ lastId \in Nat
    BY <1>1 DEF LinesOf, SignerInv, SignerTypeOK
<1>3. items' \in Placed'
    BY <1>1, <1>2, FewerPlacings DEF SignerInv, Undoable, Placed
<1>4. \A other \in Nat : items \in Without(other) => items' \in Without(other)
    BY <1>1 DEF Without
<1>5. Undoable' /\ Held'
    <2>1. lastId' \in Nat /\ lastId <= lastId'
        BY <1>1, <1>2
    <2> QED
        BY <1>1, <1>2, <1>3, <1>4, <2>1, ChangedHeld
<1> QED
    BY <1>1, <1>5 DEF SelectedIsThere

LEMMA UndoneItems ==
    ASSUME SignerInv, Undo
    PROVE  Undoable' /\ Held' /\ SelectedIsThere'
<1>1. /\ history # <<>> /\ items' = history[Len(history)] /\ history' = Front(history)
      /\ selected' = None \/ \E item \in items' : item.id = selected'
      /\ UNCHANGED <<original, pdf, crossed, lastId, gesture>>
    BY DEF Undo, Last, loadVars, textVars
<1>2. LinesOf' = LinesOf /\ lastId \in Nat /\ lastId' \in Nat /\ lastId <= lastId'
    BY <1>1 DEF LinesOf, SignerInv, SignerTypeOK
<1>3. ASSUME NEW S, history \in Seq(S)
      PROVE  items' \in S
    BY <1>1, <1>3
<1>4. items' \in Placed'
    <2>1. items' \in Placed
        BY <1>3 DEF SignerInv, Undoable
    <2> QED
        BY <1>1, <1>2, <2>1 DEF Placed
<1>5. Undoable' /\ Held'
    BY <1>1, <1>2, <1>3, <1>4, ChangedHeld
<1> QED
    BY <1>1, <1>5 DEF SelectedIsThere, Has

(* Pressed: what is placed now is what it began with.                       *)
LEMMA PressedItems ==
    ASSUME SignerInv, NEW item \in items, Press(item.id)
    PROVE  Undoable' /\ Held' /\ SelectedIsThere'
<1>1. /\ gesture' = [id |-> item.id, before |-> items, changed |-> FALSE]
      /\ selected' = item.id
      /\ UNCHANGED <<original, pdf, crossed, items, lastId, history>>
    BY DEF Press, loadVars, textVars
<1>2. Placed' = Placed
    BY <1>1 DEF Placed, LinesOf
<1>3. item.id \in Nat /\ item.id <= lastId
    BY DEF SignerInv, Undoable, Placed, Placings, Items
<1>4. Undoable'
    BY <1>1, <1>2 DEF SignerInv, Undoable
<1>5. Held'
    BY <1>1, <1>2, <1>3 DEF SignerInv, Undoable, Held
<1> QED
    BY <1>1, <1>4, <1>5 DEF SelectedIsThere, Has

(* Moved: its item is there, so what it began with is of the same PDF.      *)
LEMMA MovedItems ==
    ASSUME SignerInv, Move
    PROVE  Undoable' /\ Held' /\ SelectedIsThere'
<1>1. /\ gesture # None /\ Has(gesture.id) /\ Remember(gesture.before)
      /\ gesture' = [gesture EXCEPT !.changed = TRUE]
      /\ UNCHANGED <<original, pdf, crossed, items, lastId, selected>>
    BY DEF Move, loadVars, textVars
<1>2. Placed' = Placed
    BY <1>1 DEF Placed, LinesOf
<1>3. items \notin Without(gesture.id)
    BY <1>1 DEF Has, Without
<1>4. gesture.before \in Placed /\ gesture.id \in Nat /\ gesture.id <= lastId
    BY <1>1, <1>3 DEF SignerInv, Held
<1>5. gesture'.id = gesture.id /\ gesture'.before = gesture.before
    BY <1>1 DEF SignerInv, SignerTypeOK
<1>6. Undoable'
    BY <1>1, <1>2, <1>4, RememberedSeq DEF SignerInv, Undoable
<1>7. Held'
    BY <1>1, <1>2, <1>4, <1>5 DEF Held
<1> QED
    BY <1>1, <1>6, <1>7 DEF SignerInv, SelectedIsThere, Has

LEMMA DroppedItems ==
    ASSUME SignerInv, Drop
    PROVE  Undoable' /\ Held' /\ SelectedIsThere'
<1>1. gesture' = None /\ UNCHANGED <<original, pdf, crossed, lastId, history, selected>>
    BY DEF Drop, loadVars, textVars
<1>2. Placed' = Placed
    BY <1>1 DEF Placed, LinesOf
<1>3. items' \in Placed /\ \A id : Has(id) => \E item \in items' : item.id = id
    <2>1. CASE items' = items
        BY <2>1 DEF SignerInv, Undoable, Has
    <2>2. CASE /\ Has(gesture.id) /\ shown # None
               /\ \E p \in PagesShown :
                      items' = (items \ {At(gesture.id)}) \cup {[At(gesture.id) EXCEPT !.page = p]}
        <3>1. PICK p \in PagesShown :
                  items' = (items \ {At(gesture.id)}) \cup {[At(gesture.id) EXCEPT !.page = p]}
            BY <2>2
        <3>2. PICK item \in items : item = At(gesture.id)
            BY <2>2, Found
        <3>3. shown \in Pdfs /\ shown = original /\ items \in Placings(original, lastId, LinesOf)
            BY <2>2 DEF SignerInv, SignerTypeOK, Undoable, Placed
        <3>4. p \in 1..PagesOf[original] /\ PagesOf[original] \in Nat
            BY <3>3, PagesShownFinite
        <3>5. PICK moved : moved = [item EXCEPT !.page = p]
            OBVIOUS
        <3>6. items' = (items \ {item}) \cup {moved}
            BY <3>1, <3>2, <3>5
        <3>7. items' \in Placings(original, lastId, LinesOf)
            BY <3>3, <3>4, <3>5, <3>6, MovedPlacings
        <3>8. item \in Items
            BY <3>3 DEF Placings
        <3>9. moved.id = item.id
            BY <3>5, <3>8 DEF Items
        <3> QED
            BY <3>6, <3>7, <3>9 DEF Placed, Has
    <2> QED
        BY <2>1, <2>2 DEF Drop
<1>4. Undoable'
    BY <1>1, <1>2, <1>3 DEF SignerInv, Undoable
<1>5. SelectedIsThere'
    BY <1>1, <1>3 DEF SignerInv, SelectedIsThere, Has
<1> QED
    BY <1>1, <1>4, <1>5 DEF Held

(* Another PDF opened: nothing is placed on it, and nothing of the one      *)
(* before can come back.                                                    *)
LEMMA OpenedItems ==
    ASSUME SignerInv, Opened
    PROVE  Undoable' /\ Held' /\ SelectedIsThere'
<1>1. items' = {} /\ history' = <<>> /\ selected' = None /\ UNCHANGED <<lastId, gesture>>
    BY DEF Opened
<1>2. {} \in Placed'
    BY FS_EmptySet DEF Placed, Placings
<1>3. Undoable'
    BY <1>1, <1>2 DEF Undoable
<1>4. \A id : items' \in Without(id) /\ history' \in Seq(Without(id))
    BY <1>1 DEF Without
<1>5. Held'
    BY <1>1, <1>4 DEF SignerInv, Held
<1> QED
    BY <1>1, <1>3, <1>5 DEF SelectedIsThere

LEMMA StepItems ==
    ASSUME SignerInv, [Next]_vars
    PROVE  Undoable' /\ Held' /\ SelectedIsThere'
<1>1. lastId \in Nat
    BY DEF SignerInv, SignerTypeOK
<1>2. CASE /\ UNCHANGED <<original, lastId, items, history, gesture, crossed>>
           /\ pdf' \in {pdf, None}
           /\ selected' = selected \/ selected' = None \/ \E item \in items : selected' = item.id
    <2>1. LinesOf' \in {LinesOf, None}
        BY <1>2 DEF LinesOf
    <2>2. Undoable' /\ Held'
        <3>1. Placed \subseteq Placed'
            BY <1>1, <1>2, <2>1, StillPlaced
        <3>2. Undoable'
            BY <1>2, <3>1, BiggerSeq DEF SignerInv, Undoable
        <3> QED
            BY <1>2, <3>1, <3>2 DEF SignerInv, Held
    <2> QED
        BY <1>2, <2>2 DEF SignerInv, SelectedIsThere, Has
<1>3. CASE ClickLine
    <2>1. PICK p \in PagesShown :
              \/ \E item \in items : item.line = p /\ selected' = (CHOOSE i \in items : i.line = p).id
              \/ selected' = selected
        BY <1>3 DEF ClickLine
    <2>2. selected' = selected \/ \E item \in items : selected' = item.id
        BY <2>1
    <2> QED
        BY <1>2, <1>3, <2>2 DEF ClickLine, loadVars
<1>4. CASE Change
    <2>1. /\ Free /\ Remember(items)
          /\ UNCHANGED <<original, pdf, crossed, items, lastId, selected, gesture>>
        BY <1>4 DEF Change, loadVars, textVars
    <2>2. LinesOf' = LinesOf /\ items' \in Placed'
        BY <2>1 DEF LinesOf, Placed, SignerInv, Undoable
    <2>3. lastId' \in Nat /\ lastId <= lastId'
        BY <1>1, <2>1
    <2>4. Undoable' /\ Held'
        BY <2>1, <2>2, <2>3, ChangedFree
    <2> QED
        BY <2>1, <2>4 DEF SignerInv, SelectedIsThere, Has
<1>5. CASE \E item \in items : Delete(item.id) \/ Press(item.id)
    BY <1>5, DeletedItems, PressedItems
<1> QED
    BY <1>2, <1>3, <1>4, <1>5, PlaceItems, SampledItems, EveryPageItems, UndoneItems, MovedItems, DroppedItems,
       OpenedItems
       DEF Next, vars, loadVars, itemVars, textVars, Open, NotOpened, Arm, Deselect, ToggleEdit, ReadLines, Sign, SignEnds
-----------------------------------------------------------------------------
LEMMA Signing == Spec => []SignerInv
<1>1. Init => SignerInv
    <2> SUFFICES ASSUME Init PROVE SignerInv
        OBVIOUS
    <2>1. {} \in Placed
        BY FS_EmptySet DEF Placed, Placings
    <2>2. Undoable
        BY <2>1 DEF Init, Undoable
    <2>3. SignerTypeOK
        BY DEF Init, SignerTypeOK
    <2>4. Looked
        BY DEF Init, Looked
    <2> QED
        BY <2>2, <2>3, <2>4 DEF Init, SignerInv, Held, SelectedIsThere
<1>2. SignerInv /\ [Next]_vars => SignerInv'
    BY StepTypes, StepLooked, StepItems DEF SignerInv
<1> QED
    BY <1>1, <1>2, PTL DEF Spec

(* What is placed on a PDF, now and after any number of undos, can be       *)
(* written into it, whatever else is opened, read, drawn or held meanwhile. *)
THEOREM PlacedCanBeWritten == Spec => []EverythingCanBeWritten
<1>1. ASSUME NEW placed \in Placed
      PROVE  /\ \A item \in placed : item.page \in 1..PagesOf[original]
             /\ Cardinality({item.id : item \in placed}) = Cardinality(placed)
    <2>1. IsFiniteSet(placed) /\ \A a, b \in placed : a.id = b.id => a = b
        BY DEF Placed, Placings
    <2>2. PICK ids : ids = {item.id : item \in placed}
        OBVIOUS
    <2>3. PICK id : id = [item \in placed |-> item.id]
        OBVIOUS
    <2>4. /\ id \in [placed -> ids]
          /\ \A a, b \in placed : id[a] = id[b] => a = b
          /\ \A i \in ids : \E item \in placed : id[item] = i
        BY <2>1, <2>2, <2>3
    <2>5. id \in Bijection(placed, ids)
        BY <2>4 DEF Bijection, Injection, Surjection, IsInjective
    <2>6. Cardinality({item.id : item \in placed}) = Cardinality(placed)
        BY <2>1, <2>2, <2>5, FS_Bijection DEF ExistsBijection
    <2> QED
        BY <2>6 DEF Placed, Placings
<1>2. SignerInv => \A placed \in {items} \cup ToSet(history) : placed \in Placed
    BY DEF SignerInv, Undoable, ToSet
<1>3. SignerInv => EverythingCanBeWritten
    BY <1>1, <1>2 DEF SignerInv, SelectedIsThere, EverythingCanBeWritten
<1> QED
    BY <1>3, Signing, PTL

(* The lines of text offered, and those changed, are of the PDF written,    *)
(* unless it was opened while another's were read or drawn.                 *)
THEOREM OwnLines == Spec => []LinesAreOfPdf
<1>1. SignerInv => LinesAreOfPdf
    <2> SUFFICES ASSUME SignerInv, ~crossed, pdf # None
                 PROVE  /\ \A p \in MorePages : texts[p] \in {None, pdf}
                        /\ \A item \in items : item.line # None => item.found = pdf
        BY DEF LinesAreOfPdf
    <2>1. LinesOf = pdf
        BY DEF LinesOf
    <2> QED
        BY <2>1 DEF SignerInv, Looked, Undoable, Placed, Placings
<1> QED
    BY <1>1, Signing, PTL
=============================================================================
