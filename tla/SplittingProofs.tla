-------------------------- MODULE SplittingProofs ---------------------------
(***************************************************************************)
(* Splitting, for any document, any limit and whatever sizes the saved     *)
(* parts come to: no page is lost, a part over the limit is a single page, *)
(* and a split once cancelled gives no zip, whatever the estimates are.    *)
(* And the estimates count each object once, whatever packing and taking   *)
(* apart led to a part.                                                    *)
(***************************************************************************)
EXTENDS Splitting, SequenceTheorems, FiniteSetTheorems, WellFoundedInduction, TLAPS

(* A part is being made. *)
InPart == stage \in {"copy", "write", "weigh"}

(* The parts made reach up to the one being made. *)
UpTo(parts, page) == page = IF parts = <<>> THEN 1 ELSE parts[Len(parts)].to + 1

Reached ==
    /\ Busy => UpTo(made, first)
    /\ InPart => first <= last
    /\ stage = "weigh" => bytes \in FileSizes

(* What is shown is all the parts, once they are all made. *)
Shown ==
    /\ (shown # <<>> \/ stage = "zip") =>
           shown = made /\ made # <<>> /\ made[Len(made)].to = Pages
    /\ stage \notin {"zip", "idle"} => shown = <<>>
    /\ Busy => zip = <<>>
    /\ stage = "idle" => zip = shown

(* A part is estimated at what its pages are packed for. *)
AsPacked == InPart /\ ask.by = "size" => estimate = Packed(first, last)

IInv == TypeOK /\ Reached /\ Shown /\ InOrder(made) /\ OverOnlyAlone
-----------------------------------------------------------------------------
LEMMA DocumentFacts ==
    ASSUME doc \in Documents
    PROVE  Pages \in Nat /\ Pages > 0
<1>1. doc.own \in Seq(Nat) /\ Len(doc.own) > 0
  BY SplittingAssumption
<1> QED BY <1>1, LenProperties DEF Pages

(* A part appended where the others end keeps them in order. *)
LEMMA AppendInOrder ==
    ASSUME NEW parts \in Seq(Part), NEW part \in Part,
           InOrder(parts), UpTo(parts, part.from), part.from <= part.to
    PROVE  /\ Append(parts, part) \in Seq(Part)
           /\ InOrder(Append(parts, part))
           /\ UpTo(Append(parts, part), part.to + 1)
           /\ Append(parts, part) # <<>>
<1> DEFINE longer == Append(parts, part)
<1>1. /\ longer \in Seq(Part) /\ Len(longer) = Len(parts) + 1
      /\ longer[Len(longer)] = part
      /\ \A i \in 1..Len(parts) : longer[i] = parts[i]
  BY AppendProperties
<1>2. Len(parts) \in Nat /\ (parts = <<>> <=> Len(parts) = 0)
  BY EmptySeq
<1>3. InOrder(longer)
  <2> SUFFICES ASSUME NEW i \in 1..Len(longer)
               PROVE  /\ longer[i].from = IF i = 1 THEN 1 ELSE longer[i - 1].to + 1
                      /\ longer[i].from <= longer[i].to
    BY DEF InOrder
  <2>1. CASE i <= Len(parts)
    BY <2>1, <1>1, <1>2 DEF InOrder
  <2>2. CASE i = Len(parts) + 1
    BY <2>2, <1>1, <1>2 DEF UpTo
  <2> QED BY <2>1, <2>2, <1>1, <1>2
<1> QED BY <1>1, <1>2, <1>3 DEF UpTo

LEMMA InitIInv == Init => IInv
<1> SUFFICES ASSUME Init PROVE IInv OBVIOUS
<1>1. <<>> \in Seq(Part) /\ Len(<<>>) = 0
  OBVIOUS
<1>2. Pages \in Nat /\ Pages > 0
  BY DocumentFacts DEF Init
<1>3. /\ first \in 1..(Pages + 1) /\ last \in 0..Pages /\ bytes \in FileSizes \cup {0}
      /\ made \in Seq(Part) /\ shown \in Seq(Part) /\ zip \in Seq(Part)
  BY <1>1, <1>2 DEF Init
<1>4. analysed \in BOOLEAN /\ repack \in BOOLEAN /\ cancelled \in BOOLEAN
  BY Zenon DEF Init
<1>5. TypeOK
  BY <1>3, <1>4 DEF Init, TypeOK
<1> QED BY <1>1, <1>5 DEF Init, IInv, Reached, Shown, InOrder, OverOnlyAlone, Busy, InPart, UpTo

LEMMA NextIInv == IInv /\ [Next]_vars => IInv'
<1> SUFFICES ASSUME IInv, [Next]_vars PROVE IInv' OBVIOUS
<1> USE DEF IInv, TypeOK, Reached, Shown, Busy, InPart
<1>0. Pages \in Nat /\ Pages > 0
  BY DocumentFacts
<1>e. <<>> \in Seq(Part) /\ Len(<<>>) = 0 /\ InOrder(<<>>)
  BY DEF InOrder
<1>1. CASE Split
  <2>1. /\ first' \in 1..(Pages' + 1) /\ last' \in 0..Pages' /\ bytes' \in FileSizes \cup {0}
        /\ doc' \in Documents /\ ask' \in Asks /\ stage' \in {"pack", "analyse"}
        /\ made' = <<>> /\ shown' = <<>> /\ zip' = <<>> /\ first' = 1
    BY <1>1, <1>0 DEF Split, Pages
  <2>2. analysed' \in BOOLEAN /\ repack' \in BOOLEAN /\ cancelled' \in BOOLEAN
    BY <1>1, Zenon DEF Split
  <2>3. UpTo(made', first') /\ InOrder(made') /\ OverOnlyAlone'
    BY <2>1, <1>e DEF UpTo, OverOnlyAlone
  <2> QED BY <2>1, <2>2, <2>3, <1>e
<1>2. CASE Analyse
  BY <1>2, <1>0 DEF Analyse, partVars, sums, Pages, OverOnlyAlone
<1>3. CASE Pack
  BY <1>3, <1>0 DEF Pack, sums, Pages, OverOnlyAlone
<1>4. CASE Count
  <2>1. ask.n \in Nat \ {0}
    BY SplittingAssumption
  <2>2. last' \in first..Pages
    BY <2>1, <1>4, <1>0 DEF Count
  <2> QED BY <2>2, <1>4, <1>0 DEF Count, sums, Pages, OverOnlyAlone
<1>5. CASE Copy
  BY <1>5, <1>0 DEF Copy, partVars, sums, Pages, OverOnlyAlone
<1>6. CASE Write
  BY <1>6, <1>0 DEF Write, sums, Pages, OverOnlyAlone
<1>7. CASE Repack
  <2>1. /\ last' \in first..Pages /\ repack' = FALSE /\ stage' = "copy"
        /\ UNCHANGED <<doc, analysed, ask, first, bytes, made, cancelled, shown, zip>>
    BY <1>7 DEF Repack
  <2>r. repack' \in BOOLEAN
    BY <2>1, Zenon
  <2>2. TypeOK'
    BY <2>1, <2>r, <1>0 DEF Pages
  <2> QED BY <2>1, <2>2, <1>7 DEF Repack, OverOnlyAlone, UpTo, InOrder, Pages
<1>8. CASE Trim
  <2>1. /\ last' \in first..(last - 1) /\ repack' = FALSE /\ stage' = "copy"
        /\ UNCHANGED <<doc, analysed, ask, first, bytes, made, cancelled, shown, zip>>
    BY <1>8 DEF Trim
  <2>2. last' \in first..Pages /\ stage = "weigh"
    BY <2>1, <1>8, <1>0 DEF Trim
  <2>r. repack' \in BOOLEAN
    BY <2>1, Zenon
  <2>3. TypeOK'
    BY <2>1, <2>2, <2>r, <1>0 DEF Pages
  <2>4. first' <= last'
    BY <2>1, <2>2, <1>0
  <2> QED BY <2>1, <2>2, <2>3, <2>4 DEF OverOnlyAlone, UpTo, InOrder, Pages
<1>9. CASE Finish
  <2> DEFINE part == [from |-> first, to |-> last, size |-> bytes,
                      over |-> ask.by = "size" /\ bytes > ask.n]
  <2>1. part \in Part /\ part.from <= part.to
    BY <1>9, <1>0 DEF Finish, Part
  <2>2. made' = Append(made, part) /\ first' = part.to + 1
    BY <1>9 DEF Finish
  <2>3. made' \in Seq(Part) /\ InOrder(made') /\ UpTo(made', first')
    BY <2>1, <2>2, AppendInOrder, <1>9 DEF Finish
  <2>4. TypeOK'
    BY <2>3, <1>9, <1>0 DEF Finish, Pages
  <2>5. OverOnlyAlone'
    <3>1. bytes \in Nat /\ ask.n \in Nat
      BY <1>9, SplittingAssumption DEF Finish
    <3>2. ask.by = "size" => IF part.size > ask.n THEN part.over /\ part.from = part.to ELSE ~part.over
      <4>1. ask.by = "size" /\ bytes > ask.n => first = last
        BY <3>1, <1>9, <1>0 DEF Finish, TooBig
      <4>2. part.size = bytes /\ part.from = first /\ part.to = last
        OBVIOUS
      <4>3. part.over <=> ask.by = "size" /\ bytes > ask.n
        BY Zenon
      <4> QED BY <4>1, <4>2, <4>3, Zenon
    <3>3. \A i \in 1..Len(made') : made'[i] = IF i <= Len(made) THEN made[i] ELSE part
      BY <2>1, <2>2, AppendProperties
    <3>4. Len(made') = Len(made) + 1 /\ Len(made) \in Nat
      BY <2>1, <2>2, AppendProperties, LenProperties
    <3> QED BY <3>2, <3>3, <3>4, <1>9 DEF Finish, OverOnlyAlone
  <2> QED BY <2>3, <2>4, <2>5, <1>9 DEF Finish
<1>10. CASE List
  <2>1. made # <<>> /\ made[Len(made)].to = Pages
    <3>1. made # <<>>
      BY <1>10, <1>0 DEF List, UpTo
    <3>2. Len(made) \in 1..Len(made)
      BY <3>1, EmptySeq, LenProperties
    <3>3. made[Len(made)].to \in Nat
      <4>1. made[Len(made)] \in Part
        BY <3>2, ElementOfSeq
      <4> QED BY <4>1 DEF Part
    <3> QED BY <3>1, <3>3, <1>10, <1>0 DEF List, UpTo
  <2> QED BY <2>1, <1>10, <1>0 DEF List, partVars, sums, Pages, OverOnlyAlone
<1>11. CASE Zip
  BY <1>11, <1>0 DEF Zip, partVars, sums, Pages, OverOnlyAlone
<1>12. CASE Throw
  BY <1>12, <1>0, <1>e DEF Throw, partVars, sums, Pages, OverOnlyAlone
<1>13. CASE Cancel
  BY <1>13, <1>0 DEF Cancel, partVars, sums, Pages, OverOnlyAlone
<1>14. CASE UNCHANGED vars
  BY <1>14, <1>0 DEF vars, partVars, sums, Pages, OverOnlyAlone, UpTo, InOrder
<1> QED BY <1>1, <1>2, <1>3, <1>4, <1>5, <1>6, <1>7, <1>8, <1>9, <1>10, <1>11, <1>12, <1>13, <1>14
        DEF Next, Step

LEMMA Invariant == Spec => []IInv
<1> QED BY InitIInv, NextIInv, PTL DEF Spec

(* The split keeps to its types: pages never run past the document's end.   *)
THEOREM TypesHold == Spec => []TypeOK
<1>1. IInv => TypeOK
  BY DEF IInv
<1> QED BY <1>1, Invariant, PTL

(* No page is lost between parts, shown or zipped, in any document.         *)
THEOREM NoPageIsLost == Spec => []NoPageLost
<1>1. IInv => NoPageLost
  BY DEF IInv, Shown, NoPageLost, Busy
<1> QED BY <1>1, Invariant, PTL

(* A part over the limit is a single page, and marked, in any document.     *)
THEOREM OverIsAlone == Spec => []OverOnlyAlone
<1>1. IInv => OverOnlyAlone
  BY DEF IInv
<1> QED BY <1>1, Invariant, PTL

(* A split cancelled gives no zip, wherever Cancel reached it.              *)
THEOREM CancelIsAlwaysHeeded == Spec => CancelIsHeeded
<1>1. [Next]_vars => [cancelled /\ zip' # zip => zip' = <<>>]_vars
  BY DEF Next, Step, Split, Analyse, Pack, Count, Copy, Write, Repack, Trim, Finish, List, Zip, Throw,
         Cancel, vars
<1> QED BY <1>1, PTL DEF Spec, CancelIsHeeded
-----------------------------------------------------------------------------
(* Sums over finite sets, in whatever order their terms are added.          *)

(* A set of naturals has a least element, and a finite one a greatest.      *)
LEMMA LeastNatural ==
    ASSUME NEW T \in SUBSET Nat, T # {}
    PROVE  \E n \in T : \A m \in T : n <= m
<1> DEFINE S == {0 .. n : n \in T}
<1>1. S \subseteq FiniteSubsetsOf(Nat) /\ S # {}
    <2>1. \A n \in T : 0 .. n \in SUBSET Nat /\ IsFiniteSet(0 .. n)
        BY FS_Interval
    <2> QED
        BY <2>1 DEF FiniteSubsetsOf
<1>2. PICK s \in S : \A t \in S : ~(<<t, s>> \in StrictSubsetOrdering(Nat))
    BY <1>1, FS_StrictSubsetOrderingWellFounded, WFMin
<1>3. PICK n \in T : s = 0 .. n
    BY <1>2
<1> SUFFICES ASSUME NEW m \in T, m < n PROVE FALSE
    BY <1>3
<1>4. 0 .. m \in S /\ 0 .. m \subseteq s /\ 0 .. m # s
    BY <1>3
<1>5. <<0 .. m, s>> \in StrictSubsetOrdering(Nat)
    BY <1>3, <1>4 DEF StrictSubsetOrdering
<1> QED
    BY <1>2, <1>4, <1>5

LEMMA GreatestNatural ==
    ASSUME NEW T \in SUBSET Nat, T # {}, IsFiniteSet(T)
    PROVE  \E n \in T : \A m \in T : m <= n
<1> DEFINE Above(n) == {m \in T : m > n}
           Counts == {Cardinality(Above(n)) : n \in T}
<1>1. \A n \in T : IsFiniteSet(Above(n)) /\ Cardinality(Above(n)) \in Nat
    BY FS_Subset, FS_CardinalityType
<1>2. Counts \in SUBSET Nat /\ Counts # {}
    BY <1>1
<1>3. PICK c \in Counts : \A k \in Counts : c <= k
    BY <1>2, LeastNatural
<1>4. PICK n \in T : c = Cardinality(Above(n))
    BY <1>3
<1> SUFFICES ASSUME NEW m \in T, m > n PROVE FALSE
    BY <1>4
<1>5. Above(m) \subseteq Above(n) /\ m \in Above(n) /\ m \notin Above(m)
    <2>1. m \in Nat /\ n \in Nat /\ \A k \in T : k \in Nat /\ (k > m => k > n)
        OBVIOUS
    <2>2. m > n /\ ~(m > m)
        BY <2>1
    <2> QED
        BY <2>1, <2>2
<1>6. Cardinality(Above(m)) < Cardinality(Above(n))
    BY <1>1, <1>5, FS_Subset
<1>7. c <= Cardinality(Above(m))
    BY <1>3
<1> QED
    BY <1>1, <1>4, <1>6, <1>7

(* Induction, over the naturals and over the subsets of a finite set, as    *)
(* what belongs to a set.                                                   *)
LEMMA UpFromZero ==
    ASSUME NEW S, 0 \in S, \A n \in Nat : n \in S => n + 1 \in S
    PROVE  Nat \subseteq S
<1> SUFFICES ASSUME Nat \ S # {} PROVE FALSE
    OBVIOUS
<1>1. PICK n \in Nat \ S : \A m \in Nat \ S : n <= m
    BY LeastNatural
<1>2. n # 0 /\ n - 1 \in Nat /\ n - 1 \in S
    BY <1>1
<1> QED
    BY <1>1, <1>2

LEMMA UpFromEmpty ==
    ASSUME NEW S, IsFiniteSet(S), NEW P,
           \A s \in SUBSET S : (\A x \in s : s \ {x} \in P) => s \in P
    PROVE  SUBSET S \subseteq P
<1> SUFFICES ASSUME (SUBSET S) \ P # {} PROVE FALSE
    OBVIOUS
<1>1. (SUBSET S) \ P \subseteq FiniteSubsetsOf(S)
    BY FS_Subset DEF FiniteSubsetsOf
<1>2. PICK s \in (SUBSET S) \ P : \A t \in (SUBSET S) \ P : ~(<<t, s>> \in StrictSubsetOrdering(S))
    BY <1>1, FS_StrictSubsetOrderingWellFounded, WFMin
<1>3. \A x \in s : s \ {x} \in P
    <2> SUFFICES ASSUME NEW x \in s, s \ {x} \notin P PROVE FALSE
        OBVIOUS
    <2>1. <<s \ {x}, s>> \in StrictSubsetOrdering(S)
        BY DEF StrictSubsetOrdering
    <2> QED
        BY <1>2, <2>1
<1> QED
    BY <1>2, <1>3
-----------------------------------------------------------------------------
(* A table of the sums over the subsets of S, adding one chosen element's   *)
(* value after the other.                                                   *)
One(s) == CHOOSE x \in s : TRUE
Table(f, U, g) == g = [s \in U |-> IF s = {} THEN 0 ELSE f[One(s)] + g[s \ {One(s)}]]

LEMMA OneIsThere == \A s : s # {} => One(s) \in s
BY DEF One

LEMMA TableExists ==
    ASSUME NEW S, IsFiniteSet(S), NEW f
    PROVE  \E g : Table(f, SUBSET S, g)
<1> DEFINE D(n) == {s \in SUBSET S : Cardinality(s) <= n}
           Built == {n \in Nat : \E g : Table(f, D(n), g)}
<1>1. \A s \in SUBSET S : IsFiniteSet(s) /\ Cardinality(s) \in Nat
    BY FS_Subset, FS_CardinalityType
<1>2. 0 \in Built
    <2>1. \A s \in D(0) : s = {}
        BY <1>1, FS_EmptySet
    <2>2. PICK g : g = [s \in D(0) |-> 0]
        OBVIOUS
    <2>3. PICK U : U = D(0)
        OBVIOUS
    <2>4. Table(f, U, g)
        BY <2>1, <2>2, <2>3 DEF Table
    <2> QED
        BY <2>3, <2>4
<1>3. ASSUME NEW n \in Nat, n \in Built
      PROVE  n + 1 \in Built
    <2>1. PICK g : Table(f, D(n), g)
        BY <1>3
    <2>2. PICK U : U = D(n)
        OBVIOUS
    <2>3. PICK V : V = D(n + 1)
        OBVIOUS
    <2>4. PICK h : h = [s \in V |-> IF s = {} THEN 0 ELSE f[One(s)] + g[s \ {One(s)}]]
        OBVIOUS
    <2>5. U \subseteq V
        BY <1>1, <2>2, <2>3
    <2>6. \A s \in V : s # {} => s \ {One(s)} \in U
        <3> SUFFICES ASSUME NEW s \in V, s # {} PROVE s \ {One(s)} \in U
            OBVIOUS
        <3>1. s \in SUBSET S /\ Cardinality(s) <= n + 1 /\ One(s) \in s
            BY <2>3, OneIsThere
        <3>2. Cardinality(s \ {One(s)}) = Cardinality(s) - 1
            BY <1>1, <3>1, FS_RemoveElement
        <3>3. Cardinality(s \ {One(s)}) <= n
            BY <1>1, <3>1, <3>2
        <3> QED
            BY <2>2, <3>1, <3>3
    <2>7. \A s \in U : h[s] = g[s]
        BY <2>1, <2>2, <2>4, <2>5 DEF Table
    <2>8. Table(f, V, h)
        BY <2>4, <2>6, <2>7 DEF Table
    <2>9. n + 1 \in Nat
        OBVIOUS
    <2> HIDE DEF D
    <2>10. \E k : Table(f, D(n + 1), k)
        BY <2>3, <2>8
    <2> QED
        BY <2>9, <2>10
<1>4. Cardinality(S) \in Built
    <2> HIDE DEF Built
    <2>1. Nat \subseteq Built
        BY <1>2, <1>3, UpFromZero
    <2> QED
        BY <1>1, <2>1
<1>5. D(Cardinality(S)) = SUBSET S
    BY <1>1, FS_Subset
<1> QED
    BY <1>4, <1>5

(* The sum over S is what a table over its subsets has for it ...           *)
LEMMA SumIsOfTable ==
    ASSUME NEW S, IsFiniteSet(S), NEW f
    PROVE  \E g : Table(f, SUBSET S, g) /\ SumFunctionOnSet(f, S) = g[S]
<1>1. PICK g : g = CHOOSE h : h = [s \in SUBSET S |-> IF s = {} THEN 0 ELSE f[CHOOSE x \in s : TRUE] + h[s \ {CHOOSE x \in s : TRUE}]]
    OBVIOUS
<1>2. SumFunctionOnSet(f, S) = g[S]
    BY <1>1 DEF SumFunctionOnSet, FoldFunctionOnSet, MapThenFoldSet
<1>3. \E h : h = [s \in SUBSET S |-> IF s = {} THEN 0 ELSE f[CHOOSE x \in s : TRUE] + h[s \ {CHOOSE x \in s : TRUE}]]
    <2>1. PICK h : Table(f, SUBSET S, h)
        BY TableExists
    <2> QED
        BY <2>1 DEF Table, One
<1>4. g = [s \in SUBSET S |-> IF s = {} THEN 0 ELSE f[CHOOSE x \in s : TRUE] + g[s \ {CHOOSE x \in s : TRUE}]]
    BY <1>1, <1>3
<1>5. Table(f, SUBSET S, g)
    BY <1>4 DEF Table, One
<1> QED
    BY <1>2, <1>5

(* ... and all tables have the same for it.                                 *)
LEMMA TablesAgree ==
    ASSUME NEW S, IsFiniteSet(S), NEW f, NEW h, \A x \in S : f[x] = h[x],
           NEW U, SUBSET S \subseteq U, NEW V, SUBSET S \subseteq V,
           NEW g, Table(f, U, g), NEW k, Table(h, V, k)
    PROVE  g[S] = k[S]
<1> DEFINE P == {s \in SUBSET S : g[s] = k[s]}
<1>1. ASSUME NEW s \in SUBSET S, \A x \in s : s \ {x} \in P
      PROVE  s \in P
    <2>1. s \in U /\ s \in V
        OBVIOUS
    <2>2. CASE s = {}
        BY <2>1, <2>2 DEF Table
    <2>3. CASE s # {}
        <3>1. One(s) \in s
            BY <2>3, OneIsThere
        <3>2. g[s] = f[One(s)] + g[s \ {One(s)}]
            BY <2>1, <2>3 DEF Table
        <3>3. k[s] = h[One(s)] + k[s \ {One(s)}]
            BY <2>1, <2>3 DEF Table
        <3>4. g[s \ {One(s)}] = k[s \ {One(s)}]
            BY <1>1, <3>1
        <3> QED
            BY <3>1, <3>2, <3>3, <3>4
    <2> QED
        BY <2>2, <2>3
<1>2. SUBSET S \subseteq P
    <2> HIDE DEF P
    <2> QED
        BY <1>1, UpFromEmpty
<1> QED
    BY <1>2

(* A sum adds up values, not the functions they are values of.              *)
LEMMA SumSame ==
    ASSUME NEW S, IsFiniteSet(S), NEW f, NEW h, \A x \in S : f[x] = h[x]
    PROVE  SumFunctionOnSet(f, S) = SumFunctionOnSet(h, S)
<1>1. PICK g : Table(f, SUBSET S, g) /\ SumFunctionOnSet(f, S) = g[S]
    BY SumIsOfTable
<1>2. PICK k : Table(h, SUBSET S, k) /\ SumFunctionOnSet(h, S) = k[S]
    BY SumIsOfTable
<1> QED
    BY <1>1, <1>2, TablesAgree

LEMMA SumOfNone ==
    ASSUME NEW f
    PROVE  SumFunctionOnSet(f, {}) = 0
<1>1. PICK g : Table(f, SUBSET {}, g) /\ SumFunctionOnSet(f, {}) = g[{}]
    BY SumIsOfTable, FS_EmptySet
<1> QED
    BY <1>1 DEF Table

LEMMA SumOfOneMore ==
    ASSUME NEW S, IsFiniteSet(S), S # {}, NEW f
    PROVE  One(S) \in S /\ SumFunctionOnSet(f, S) = f[One(S)] + SumFunctionOnSet(f, S \ {One(S)})
<1>1. PICK rest : rest = S \ {One(S)}
    OBVIOUS
<1>2. PICK g : Table(f, SUBSET S, g) /\ SumFunctionOnSet(f, S) = g[S]
    BY SumIsOfTable
<1>3. IsFiniteSet(rest) /\ SUBSET rest \subseteq SUBSET S
    BY <1>1, FS_Subset
<1>4. PICK k : Table(f, SUBSET rest, k) /\ SumFunctionOnSet(f, rest) = k[rest]
    BY <1>3, SumIsOfTable
<1>5. g[rest] = k[rest]
    <2>1. PICK U : U = SUBSET S
        OBVIOUS
    <2>2. PICK V : V = SUBSET rest
        OBVIOUS
    <2>3. SUBSET rest \subseteq U /\ SUBSET rest \subseteq V /\ Table(f, U, g) /\ Table(f, V, k)
        BY <1>2, <1>3, <1>4, <2>1, <2>2
    <2>4. \A x \in rest : f[x] = f[x]
        OBVIOUS
    <2> QED
        BY <1>3, <2>3, <2>4, TablesAgree
<1>6. g[S] = f[One(S)] + g[rest]
    BY <1>1, <1>2 DEF Table
<1> QED
    BY <1>1, <1>2, <1>4, <1>5, <1>6, OneIsThere

LEMMA SumType ==
    ASSUME NEW S, IsFiniteSet(S), NEW f, \A x \in S : f[x] \in Nat
    PROVE  SumFunctionOnSet(f, S) \in Nat
<1> DEFINE P == {s \in SUBSET S : SumFunctionOnSet(f, s) \in Nat}
<1>1. ASSUME NEW s \in SUBSET S, \A x \in s : s \ {x} \in P
      PROVE  s \in P
    <2>1. IsFiniteSet(s)
        BY FS_Subset
    <2>2. CASE s = {}
        BY <2>2, SumOfNone
    <2>3. CASE s # {}
        <3>1. One(s) \in s /\ SumFunctionOnSet(f, s) = f[One(s)] + SumFunctionOnSet(f, s \ {One(s)})
            BY <2>1, <2>3, SumOfOneMore
        <3>2. SumFunctionOnSet(f, s \ {One(s)}) \in Nat /\ f[One(s)] \in Nat
            BY <1>1, <3>1
        <3> QED
            BY <3>1, <3>2
    <2> QED
        BY <2>2, <2>3
<1>2. SUBSET S \subseteq P
    <2> HIDE DEF P
    <2> QED
        BY <1>1, UpFromEmpty
<1> QED
    BY <1>2

(* It does not matter which value is added first, ...                       *)
LEMMA SumWithout ==
    ASSUME NEW S, IsFiniteSet(S), NEW f, \A x \in S : f[x] \in Nat, NEW x \in S
    PROVE  SumFunctionOnSet(f, S) = f[x] + SumFunctionOnSet(f, S \ {x})
<1> DEFINE Sum(s) == SumFunctionOnSet(f, s)
           P == {s \in SUBSET S : \A y \in s : Sum(s) = f[y] + Sum(s \ {y})}
<1>1. \A s \in SUBSET S : IsFiniteSet(s) /\ Sum(s) \in Nat
    <2> SUFFICES ASSUME NEW s \in SUBSET S PROVE IsFiniteSet(s) /\ Sum(s) \in Nat
        OBVIOUS
    <2>1. IsFiniteSet(s) /\ \A y \in s : f[y] \in Nat
        BY FS_Subset
    <2> QED
        BY <2>1, SumType
<1>2. \A s \in SUBSET S : s # {} => One(s) \in s /\ Sum(s) = f[One(s)] + Sum(s \ {One(s)})
    BY <1>1, SumOfOneMore
<1>3. ASSUME NEW s \in SUBSET S, \A y \in s : s \ {y} \in P
      PROVE  s \in P
    <2> SUFFICES ASSUME NEW y \in s PROVE Sum(s) = f[y] + Sum(s \ {y})
        OBVIOUS
    <2>1. PICK c \in s : c = One(s) /\ Sum(s) = f[c] + Sum(s \ {c})
        BY <1>2
    <2>2. CASE y # c
        <3>1. PICK rest \in SUBSET S : rest = (s \ {c}) \ {y} /\ rest = (s \ {y}) \ {c}
            OBVIOUS
        <3>2. Sum(s \ {c}) = f[y] + Sum(rest)
            BY <1>3, <2>2, <3>1
        <3>3. Sum(s \ {y}) = f[c] + Sum(rest)
            BY <1>3, <2>2, <3>1
        <3>4. Sum(rest) \in Nat /\ f[y] \in Nat /\ f[c] \in Nat
            BY <1>1
        <3> HIDE DEF Sum
        <3> QED
            BY <2>1, <3>2, <3>3, <3>4
    <2> QED
        BY <2>1, <2>2
<1>4. SUBSET S \subseteq P
    <2> HIDE DEF P
    <2> QED
        BY <1>3, UpFromEmpty
<1> QED
    BY <1>4

LEMMA SumWith ==
    ASSUME NEW S, IsFiniteSet(S), NEW x, x \notin S, NEW f, \A y \in S \cup {x} : f[y] \in Nat
    PROVE  SumFunctionOnSet(f, S \cup {x}) = f[x] + SumFunctionOnSet(f, S)
<1>1. PICK T : T = S \cup {x}
    OBVIOUS
<1>2. IsFiniteSet(T) /\ T \ {x} = S /\ x \in T /\ \A y \in T : f[y] \in Nat
    BY <1>1, FS_AddElement
<1> QED
    BY <1>1, <1>2, SumWithout

(* ... or whether some are added up apart.                                  *)
LEMMA SumOfUnion ==
    ASSUME NEW S, IsFiniteSet(S), NEW T, IsFiniteSet(T), S \cap T = {},
           NEW f, \A x \in S \cup T : f[x] \in Nat
    PROVE  SumFunctionOnSet(f, S \cup T) = SumFunctionOnSet(f, S) + SumFunctionOnSet(f, T)
<1> DEFINE Sum(s) == SumFunctionOnSet(f, s)
           P == {t \in SUBSET T : Sum(S \cup t) = Sum(S) + Sum(t)}
<1>1. IsFiniteSet(S \cup T)
    BY FS_Union
<1>2. \A s \in SUBSET (S \cup T) : IsFiniteSet(s) /\ Sum(s) \in Nat /\ \A x \in s : Sum(s) = f[x] + Sum(s \ {x})
    <2> SUFFICES ASSUME NEW s \in SUBSET (S \cup T)
                 PROVE  IsFiniteSet(s) /\ Sum(s) \in Nat /\ \A x \in s : Sum(s) = f[x] + Sum(s \ {x})
        OBVIOUS
    <2>1. IsFiniteSet(s) /\ \A y \in s : f[y] \in Nat
        BY <1>1, FS_Subset
    <2> QED
        BY <2>1, SumType, SumWithout
<1>3. ASSUME NEW t \in SUBSET T, \A x \in t : t \ {x} \in P
      PROVE  t \in P
    <2>1. CASE t = {}
        <3>1. S \cup t = S /\ Sum(t) = 0 /\ Sum(S) \in Nat
            BY <1>2, <2>1, SumOfNone
        <3> HIDE DEF Sum
        <3> QED
            BY <2>1, <3>1
    <2>2. CASE t # {}
        <3>1. PICK x \in t : TRUE
            BY <2>2
        <3>2. (S \cup t) \ {x} = S \cup (t \ {x}) /\ S \cup t \in SUBSET (S \cup T) /\ t \in SUBSET (S \cup T)
            OBVIOUS
        <3>3. Sum(S \cup (t \ {x})) = Sum(S) + Sum(t \ {x})
            BY <1>3, <3>1
        <3>4. Sum(S \cup t) = f[x] + Sum(S \cup (t \ {x})) /\ Sum(t) = f[x] + Sum(t \ {x})
            BY <1>2, <3>1, <3>2
        <3>5. f[x] \in Nat /\ Sum(S) \in Nat /\ Sum(t \ {x}) \in Nat
            BY <1>2, <3>1
        <3> HIDE DEF Sum
        <3>6. Sum(S \cup t) = Sum(S) + Sum(t)
            BY <3>3, <3>4, <3>5
        <3> QED
            BY <3>6
    <2> QED
        BY <2>1, <2>2
<1>4. SUBSET T \subseteq P
    <2> HIDE DEF P
    <2> QED
        BY <1>3, UpFromEmpty
<1> QED
    BY <1>4
-----------------------------------------------------------------------------
LEMMA PageFacts ==
    ASSUME doc \in Documents
    PROVE  /\ Pages \in Nat
           /\ \A p \in 1..Pages : doc.own[p] \in Nat /\ doc.needs[p] \subseteq Objects
<1>1. doc.own \in Seq(Nat) /\ doc.needs \in [1..Pages -> SUBSET Objects]
    BY SplittingAssumption DEF Pages
<1>2. Pages \in Nat /\ \A p \in 1..Pages : doc.own[p] \in Nat
    BY <1>1, LenProperties, ElementOfSeq DEF Pages
<1> QED
    BY <1>1, <1>2

(* What pages need are finitely many objects, with a size each.             *)
LEMMA NeededFacts ==
    ASSUME doc \in Documents, NEW s \in 1..(Pages + 1), NEW e \in Int, e <= Pages
    PROVE  IsFiniteSet(Needed(s, e)) /\ \A o \in Needed(s, e) : ObjectSize[o] \in Nat
<1>1. Needed(s, e) \subseteq Objects
    BY PageFacts DEF Needed
<1> QED
    BY <1>1, FS_Subset, SplittingAssumption

LEMMA CostFacts ==
    ASSUME doc \in Documents, NEW s \in 1..(Pages + 1), NEW p \in s..Pages
    PROVE  /\ Cost(s)[p] = doc.own[p] + SumFunctionOnSet(ObjectSize, doc.needs[p] \ Needed(s, p - 1))
           /\ Cost(s)[p] \in Nat
           /\ IsFiniteSet(doc.needs[p] \ Needed(s, p - 1))
           /\ \A o \in doc.needs[p] : ObjectSize[o] \in Nat
<1>1. p \in 1..Pages /\ doc.own[p] \in Nat /\ doc.needs[p] \subseteq Objects
    BY PageFacts
<1>2. PICK fresh : fresh = doc.needs[p] \ Needed(s, p - 1)
    OBVIOUS
<1>3. fresh \subseteq Objects /\ IsFiniteSet(fresh) /\ \A o \in Objects : ObjectSize[o] \in Nat
    BY <1>1, <1>2, FS_Subset, SplittingAssumption
<1>4. SumFunctionOnSet(ObjectSize, fresh) \in Nat
    BY <1>3, SumType
<1>5. Cost(s)[p] = doc.own[p] + SumFunctionOnSet(ObjectSize, fresh)
    BY <1>2 DEF Cost
<1> QED
    BY <1>1, <1>2, <1>3, <1>4, <1>5

(* The costs of the pages of a part add up to the pages' own sizes and the  *)
(* size of each object they need, counted once.                             *)
LEMMA CostsOnce ==
    ASSUME doc \in Documents, NEW s \in 1..(Pages + 1), NEW e \in (s - 1)..Pages
    PROVE  SumFunctionOnSet(Cost(s), s..e)
               = SumFunctionOnSet(doc.own, s..e) + SumFunctionOnSet(ObjectSize, Needed(s, e))
<1> DEFINE Equal(n) == SumFunctionOnSet(Cost(s), s..n)
               = SumFunctionOnSet(doc.own, s..n) + SumFunctionOnSet(ObjectSize, Needed(s, n))
           P == {n \in Nat : s - 1 + n <= Pages => Equal(s - 1 + n)}
<1>0. Pages \in Nat /\ s \in Nat
    BY PageFacts
<1>1. 0 \in P
    <2>1. s..(s - 1 + 0) = {} /\ Needed(s, s - 1 + 0) = {}
        BY <1>0 DEF Needed
    <2>2. SumFunctionOnSet(Cost(s), {}) = 0 /\ SumFunctionOnSet(doc.own, {}) = 0
          /\ SumFunctionOnSet(ObjectSize, {}) = 0
        BY SumOfNone
    <2>3. Equal(s - 1 + 0)
        BY <2>1, <2>2
    <2> HIDE DEF Equal
    <2> QED
        BY <2>3
<1>2. ASSUME NEW n \in Nat, n \in P
      PROVE  n + 1 \in P
    <2> SUFFICES ASSUME s - 1 + (n + 1) <= Pages PROVE Equal(s - 1 + (n + 1))
        OBVIOUS
    <2>1. PICK p \in s..Pages : p = s - 1 + (n + 1) /\ p - 1 = s - 1 + n
        BY <1>0
    <2>2. Equal(p - 1)
        BY <1>0, <1>2, <2>1
    <2>3. PICK before : before = s..(p - 1)
        OBVIOUS
    <2>4. IsFiniteSet(before) /\ p \notin before /\ s..p = before \cup {p}
        <3>1. IsFiniteSet(s..(p - 1))
            BY <1>0, FS_Interval
        <3> QED
            BY <1>0, <2>3, <3>1
    <2>5. \A q \in before \cup {p} : q \in s..Pages /\ q \in 1..Pages
        BY <1>0, <2>3
    <2>6. \A q \in before \cup {p} : doc.own[q] \in Nat /\ Cost(s)[q] \in Nat
        BY <2>5, PageFacts, CostFacts
    <2>7. SumFunctionOnSet(Cost(s), s..p) = Cost(s)[p] + SumFunctionOnSet(Cost(s), before)
        <3>1. PICK f : f = Cost(s)
            OBVIOUS
        <3> QED
            BY <2>4, <2>6, <3>1, SumWith
    <2>8. SumFunctionOnSet(doc.own, s..p) = doc.own[p] + SumFunctionOnSet(doc.own, before)
        BY <2>4, <2>6, SumWith
    <2>9. PICK known : known = Needed(s, p - 1)
        OBVIOUS
    <2>10. PICK fresh : fresh = doc.needs[p] \ known
        OBVIOUS
    <2>11. Needed(s, p) = known \cup fresh /\ known \cap fresh = {}
        <3>1. Needed(s, p) = known \cup doc.needs[p]
            BY <2>3, <2>4, <2>9 DEF Needed
        <3> QED
            BY <2>10, <3>1
    <2>12. IsFiniteSet(known) /\ IsFiniteSet(fresh) /\ \A o \in known \cup fresh : ObjectSize[o] \in Nat
        <3>1. p - 1 \in Int /\ p - 1 <= Pages
            BY <1>0
        <3> QED
            BY <2>9, <2>10, <3>1, NeededFacts, CostFacts
    <2>13. SumFunctionOnSet(ObjectSize, Needed(s, p))
               = SumFunctionOnSet(ObjectSize, known) + SumFunctionOnSet(ObjectSize, fresh)
        BY <2>11, <2>12, SumOfUnion
    <2>14. /\ SumFunctionOnSet(ObjectSize, known) \in Nat /\ SumFunctionOnSet(ObjectSize, fresh) \in Nat
           /\ SumFunctionOnSet(doc.own, before) \in Nat
        <3>1. \A q \in before : doc.own[q] \in Nat
            BY <2>6
        <3> QED
            BY <2>4, <2>12, <3>1, SumType
    <2>15. Cost(s)[p] = doc.own[p] + SumFunctionOnSet(ObjectSize, fresh) /\ doc.own[p] \in Nat
        BY <2>6, <2>9, <2>10, CostFacts
    <2>16. SumFunctionOnSet(Cost(s), before)
               = SumFunctionOnSet(doc.own, before) + SumFunctionOnSet(ObjectSize, known)
        BY <2>2, <2>3, <2>9
    <2>17. Equal(p)
        BY <2>7, <2>8, <2>13, <2>14, <2>15, <2>16
    <2> HIDE DEF Equal
    <2> QED
        BY <2>1, <2>17
<1>3. Nat \subseteq P
    <2> HIDE DEF P
    <2> QED
        BY <1>1, <1>2, UpFromZero
<1>4. PICK n \in Nat : n = e - s + 1 /\ s - 1 + n = e
    BY <1>0
<1>5. Equal(e)
    <2> HIDE DEF Equal
    <2>1. s - 1 + n <= Pages
        BY <1>0, <1>4
    <2>2. Equal(s - 1 + n)
        BY <1>3, <2>1
    <2> QED
        BY <1>4, <2>2
<1> QED
    BY <1>5

(* Pages taken off the end of a part take what they cost off its estimate.  *)
LEMMA PackedApart ==
    ASSUME doc \in Documents, NEW s \in 1..Pages, NEW e \in s..Pages, NEW k \in s..e
    PROVE  Packed(s, e) - SumFunctionOnSet(Cost(s), (k + 1)..e) = Packed(s, k)
<1>1. PICK f : f = Cost(s)
    OBVIOUS
<1>2. PICK kept : kept = s..k
    OBVIOUS
<1>3. PICK off : off = (k + 1)..e
    OBVIOUS
<1>4. Pages \in Nat /\ PartOverhead \in Nat /\ s \in 1..(Pages + 1)
    BY PageFacts, SplittingAssumption
<1>5. IsFiniteSet(kept) /\ IsFiniteSet(off)
    <2>1. IsFiniteSet(s..k) /\ IsFiniteSet((k + 1)..e)
        BY <1>4, FS_Interval
    <2> QED
        BY <1>2, <1>3, <2>1
<1>6. kept \cap off = {} /\ kept \cup off = s..e /\ kept \cup off \subseteq s..Pages
    BY <1>2, <1>3, <1>4
<1>7. \A p \in kept \cup off : f[p] \in Nat
    BY <1>1, <1>4, <1>6, CostFacts
<1>8. SumFunctionOnSet(f, s..e) = SumFunctionOnSet(f, kept) + SumFunctionOnSet(f, off)
    BY <1>5, <1>6, <1>7, SumOfUnion
<1>9. SumFunctionOnSet(f, kept) \in Nat /\ SumFunctionOnSet(f, off) \in Nat
    BY <1>5, <1>7, SumType
<1> QED
    BY <1>1, <1>2, <1>3, <1>4, <1>8, <1>9 DEF Packed

LEMMA PackedStays ==
    ASSUME doc' = doc, NEW CONSTANT s, NEW CONSTANT e
    PROVE  Packed(s, e)' = Packed(s, e)
BY DEF Packed, Cost, Needed, Pages

LEMMA NextAsPacked == IInv /\ IInv' /\ AsPacked /\ [Next]_vars => AsPacked'
<1> SUFFICES ASSUME IInv, IInv', AsPacked, [Next]_vars, InPart', ask'.by = "size"
             PROVE  estimate' = Packed(first, last)'
    BY DEF AsPacked
<1>1. doc \in Documents /\ doc' = doc
    BY DEF IInv, TypeOK, Next, Step, Split, Analyse, Pack, Count, Copy, Write, Repack, Trim, Finish, List,
           Zip, Throw, Cancel, vars
<1>2. PICK s : s = first'
    OBVIOUS
<1>3. PICK e : e = last'
    OBVIOUS
<1>4. SUFFICES estimate' = Packed(s, e)
    <2>1. Packed(first, last)' = Packed(s, e)'
        BY <1>2, <1>3 DEF Packed, Cost, Needed, Pages
    <2> QED
        BY <1>1, <1>4, <2>1, PackedStays
<1>5. CASE Pack \/ Repack
    BY <1>2, <1>3, <1>5 DEF Pack, Repack
<1>6. CASE Trim
    <2>1. /\ InPart /\ ask.by = "size" /\ s = first /\ e \in first..(last - 1)
          /\ estimate' = estimate - SumFunctionOnSet(Cost(s), (e + 1)..last)
        BY <1>2, <1>3, <1>6 DEF Trim, TooBig, InPart
    <2>2. estimate = Packed(s, last)
        BY <2>1 DEF AsPacked
    <2>3. Pages \in Nat /\ first \in 1..(Pages + 1) /\ last \in 0..Pages
        BY <1>1, PageFacts DEF IInv, TypeOK
    <2>4. s \in 1..Pages /\ last \in s..Pages /\ e \in s..last
        BY <2>1, <2>3
    <2> QED
        BY <1>1, <2>1, <2>2, <2>4, PackedApart
<1>7. CASE Copy \/ Write \/ Cancel \/ UNCHANGED vars
    <2>1. InPart /\ ask' = ask /\ first' = first /\ last' = last /\ estimate' = estimate
        BY <1>7 DEF Copy, Write, Cancel, vars, partVars, InPart
    <2> QED
        BY <1>2, <1>3, <2>1 DEF AsPacked
<1>8. CASE Split \/ Analyse \/ Count \/ Finish \/ List \/ Zip \/ Throw
    <2>1. ~InPart' \/ (ask' = ask /\ ask.by = "pages")
        BY <1>8 DEF Split, Analyse, Count, Finish, List, Zip, Throw, InPart
    <2> QED
        BY <2>1
<1> QED
    BY <1>5, <1>6, <1>7, <1>8 DEF Next, Step

(* An estimate counts each object its pages need once, in any document: the *)
(* packing, the second packing and the pages taken off agree.               *)
THEOREM ObjectsOnce == Spec => []EachObjectOnce
<1>1. Init => AsPacked
    BY DEF Init, AsPacked, InPart
<1>2. Spec => []AsPacked
    BY <1>1, NextAsPacked, Invariant, PTL DEF Spec
<1>3. IInv /\ AsPacked => EachObjectOnce
    <2> SUFFICES ASSUME IInv, AsPacked, InPart, ask.by = "size"
                 PROVE  estimate = PartOverhead + SumFunctionOnSet(doc.own, first..last)
                                                + SumFunctionOnSet(ObjectSize, Needed(first, last))
        BY DEF EachObjectOnce, InPart
    <2>1. doc \in Documents /\ estimate = Packed(first, last)
        BY DEF IInv, TypeOK, AsPacked
    <2>2. Pages \in Nat /\ first \in 1..(Pages + 1) /\ last \in first..Pages /\ PartOverhead \in Nat
        <3>1. Pages \in Nat /\ first \in 1..(Pages + 1) /\ last \in 0..Pages /\ first <= last
            BY <2>1, PageFacts DEF IInv, TypeOK, Reached
        <3> QED
            BY <3>1, SplittingAssumption
    <2>3. SumFunctionOnSet(Cost(first), first..last)
              = SumFunctionOnSet(doc.own, first..last) + SumFunctionOnSet(ObjectSize, Needed(first, last))
        BY <2>1, <2>2, CostsOnce
    <2>4. SumFunctionOnSet(doc.own, first..last) \in Nat
        <3>1. IsFiniteSet(first..last) /\ \A p \in first..last : p \in 1..Pages
            BY <2>2, FS_Interval
        <3>2. \A p \in first..last : doc.own[p] \in Nat
            BY <2>1, <3>1, PageFacts
        <3> QED
            BY <3>1, <3>2, SumType
    <2>5. SumFunctionOnSet(ObjectSize, Needed(first, last)) \in Nat
        <3>1. last \in Int /\ last <= Pages
            BY <2>2
        <3> QED
            BY <2>1, <2>2, <3>1, NeededFacts, SumType
    <2> QED
        BY <2>1, <2>2, <2>3, <2>4, <2>5 DEF Packed
<1> QED
    BY <1>2, <1>3, Invariant, PTL
=============================================================================
