--------------------------- MODULE PdfObjectsProofs ---------------------------
(***************************************************************************)
(* What PdfObjects promises, for any documents: those the compressor is    *)
(* given show the same, with nothing twice and nothing unused, and those   *)
(* the splitter is given come apart by page.                               *)
(***************************************************************************)
EXTENDS PdfObjects, FiniteSetTheorems, WellFoundedInduction, TLAPS

(* A set of naturals has a least element.                                   *)
LEMMA LeastNatural ==
    ASSUME NEW T \in SUBSET Nat, T # {}
    PROVE  \E n \in T : \A m \in T : n <= m
<1> DEFINE S == {0 .. n : n \in T}
<1>1. S \subseteq FiniteSubsetsOf(Nat) /\ S # {}
    <2>1. \A n \in T : 0 .. n \in SUBSET Nat /\ IsFiniteSet(0 .. n)
        BY FS_Interval
    <2> QED
        BY <2>1 DEF FiniteSubsetsOf
<1>2. PICK s \in S : \A t \in S : ~(<<t, s>> \in StrictSubsetOrdering(Nat))
    BY <1>1, FS_StrictSubsetOrderingWellFounded, WFMin
<1>3. PICK n \in T : s = 0 .. n
    BY <1>2
<1> SUFFICES ASSUME NEW m \in T, m < n PROVE FALSE
    BY <1>3
<1>4. 0 .. m \in S /\ 0 .. m \subseteq s /\ 0 .. m # s
    BY <1>3
<1>5. <<0 .. m, s>> \in StrictSubsetOrdering(Nat)
    BY <1>3, <1>4 DEF StrictSubsetOrdering
<1> QED
    BY <1>2, <1>4, <1>5

(* Induction over the naturals, as what belongs to a set.                   *)
LEMMA UpFromZero ==
    ASSUME NEW S, 0 \in S, \A n \in Nat : n \in S => n + 1 \in S
    PROVE  Nat \subseteq S
<1> SUFFICES ASSUME Nat \ S # {} PROVE FALSE
    OBVIOUS
<1>1. PICK n \in Nat \ S : \A m \in Nat \ S : n <= m
    BY LeastNatural
<1>2. n # 0 /\ n - 1 \in Nat /\ n - 1 \in S
    BY <1>1
<1> QED
    BY <1>1, <1>2
-----------------------------------------------------------------------------
(* A function on the naturals, each value made of the one before.           *)
Iterates(a, F, w) == w = [n \in Nat |-> IF n = 0 THEN a ELSE F[w[n - 1]]]

LEMMA IteratesExist ==
    ASSUME NEW S, NEW a \in S, NEW F \in [S -> S]
    PROVE  \E w \in [Nat -> S] : Iterates(a, F, w)
<1> DEFINE Upto(n) == {v \in [Nat -> S] : v[0] = a /\ \A i \in 1..n : v[i] = F[v[i - 1]]}
           Some == {n \in Nat : Upto(n) # {}}
           Alone == {n \in Nat : \A u, v \in Upto(n) : u[n] = v[n]}
<1>1. 0 \in Some
    <2>1. [i \in Nat |-> a] \in Upto(0)
        OBVIOUS
    <2> QED
        BY <2>1
<1>2. ASSUME NEW n \in Nat, n \in Some PROVE n + 1 \in Some
    <2>1. PICK v \in Upto(n) : TRUE
        BY <1>2
    <2>2. PICK u : u = [i \in Nat |-> IF i = n + 1 THEN F[v[n]] ELSE v[i]]
        OBVIOUS
    <2>3. u \in [Nat -> S] /\ u[0] = a
        BY <2>1, <2>2
    <2>4. \A i \in 1..(n + 1) : u[i] = F[u[i - 1]]
        BY <2>1, <2>2
    <2> QED
        BY <2>3, <2>4
<1>3. Nat \subseteq Some
    <2> HIDE DEF Some
    <2> QED
        BY <1>1, <1>2, UpFromZero
<1>4. \A n \in Nat : Upto(n + 1) \subseteq Upto(n)
    OBVIOUS
<1>5. 0 \in Alone
    OBVIOUS
<1>6. ASSUME NEW n \in Nat, n \in Alone PROVE n + 1 \in Alone
    <2> SUFFICES ASSUME NEW u \in Upto(n + 1), NEW v \in Upto(n + 1)
                 PROVE  u[n + 1] = v[n + 1]
        OBVIOUS
    <2>1. u[n] = v[n]
        BY <1>4, <1>6
    <2>2. u[n + 1] = F[u[n]] /\ v[n + 1] = F[v[n]]
        OBVIOUS
    <2> QED
        BY <2>1, <2>2
<1>7. Nat \subseteq Alone
    <2> HIDE DEF Alone
    <2> QED
        BY <1>5, <1>6, UpFromZero
<1>8. PICK c : c = [n \in Nat |-> CHOOSE v : v \in Upto(n)]
    OBVIOUS
<1>9. \A n \in Nat : c[n] \in Upto(n)
    BY <1>3, <1>8
<1>10. PICK w : w = [n \in Nat |-> c[n][n]]
    OBVIOUS
<1>11. w \in [Nat -> S] /\ w[0] = a
    BY <1>9, <1>10
<1>12. ASSUME NEW n \in Nat, n # 0 PROVE w[n] = F[w[n - 1]]
    <2>1. n - 1 \in Nat /\ n = (n - 1) + 1
        BY <1>12
    <2>2. c[n] \in Upto(n - 1)
        BY <1>4, <1>9, <2>1
    <2>3. c[n][n - 1] = c[n - 1][n - 1]
        BY <1>7, <1>9, <2>1, <2>2
    <2>4. c[n][n] = F[c[n][n - 1]]
        BY <1>9, <1>12
    <2> QED
        BY <1>10, <2>1, <2>3, <2>4
<1>13. w = [n \in Nat |-> IF n = 0 THEN a ELSE F[w[n - 1]]]
    BY <1>10, <1>11, <1>12
<1> QED
    BY <1>11, <1>13 DEF Iterates
-----------------------------------------------------------------------------
(* What is reached: the least that has the roots and all its objects lead   *)
(* to.                                                                      *)
LEMMA FurtherFacts ==
    ASSUME NEW g, NEW X
    PROVE  /\ X \subseteq Further(g, X) /\ Further(g, X) \subseteq X \cup DOMAIN g
           /\ \A r \in X : Refs(g[r]) \cap DOMAIN g \subseteq Further(g, X)
           /\ \A C : X \subseteq C /\ (\A r \in X : Refs(g[r]) \cap DOMAIN g \subseteq C) => Further(g, X) \subseteq C
<1>1. \A t : t \in Further(g, X) <=> t \in X \/ (t \in DOMAIN g /\ \E r \in X : t \in Refs(g[r]))
    BY DEF Further
<1> QED
    BY <1>1

LEMMA ReachedRounds ==
    ASSUME NEW g, IsFiniteSet(DOMAIN g), NEW roots
    PROVE  \E w : /\ w \in [Nat -> SUBSET DOMAIN g]
                  /\ w[0] = roots \cap DOMAIN g
                  /\ \A n \in Nat : w[n + 1] = Further(g, w[n])
                  /\ Reached(g, roots) = w[Cardinality(DOMAIN g)]
<1> DEFINE Round(w) ==
        w = [n \in Nat |-> IF n = 0 THEN roots \cap DOMAIN g
                           ELSE Further(g, w[n - 1])]
<1>1. PICK w : w = CHOOSE v : Round(v)
    OBVIOUS
<1>2. Reached(g, roots) = w[Cardinality(DOMAIN g)]
    BY <1>1 DEF Reached
<1>3. \E v : Round(v)
    <2>1. PICK S : S = SUBSET DOMAIN g
        OBVIOUS
    <2>2. PICK F : F = [X \in S |-> Further(g, X)]
        OBVIOUS
    <2>3. \A X \in S : F[X] = Further(g, X)
        BY <2>2
    <2>4. F \in [S -> S] /\ roots \cap DOMAIN g \in S
        BY <2>1, <2>2, <2>3, FurtherFacts
    <2>5. PICK v \in [Nat -> S] : Iterates(roots \cap DOMAIN g, F, v)
        BY <2>4, IteratesExist
    <2>6. \A n \in Nat : n # 0 => n - 1 \in Nat /\ v[n - 1] \in S
        BY <2>5
    <2>7. Round(v)
        BY <2>2, <2>5, <2>6 DEF Iterates
    <2> QED
        BY <2>7
<1>4. Round(w)
    BY <1>1, <1>3
<1>5. w[0] = roots \cap DOMAIN g
    BY <1>4
<1>6. \A n \in Nat : w[n + 1] = Further(g, w[n])
    <2> SUFFICES ASSUME NEW n \in Nat PROVE w[n + 1] = Further(g, w[n])
        OBVIOUS
    <2>1. PICK m \in Nat : m = n + 1 /\ m # 0 /\ m - 1 = n
        OBVIOUS
    <2>2. w[m] = Further(g, w[m - 1])
        BY <1>4, <2>1
    <2> QED
        BY <2>1, <2>2
<1>7. \A n \in Nat : w[n] \in SUBSET DOMAIN g
    <2> DEFINE P == {n \in Nat : w[n] \in SUBSET DOMAIN g}
    <2>1. 0 \in P
        BY <1>5
    <2>2. ASSUME NEW n \in Nat, n \in P PROVE n + 1 \in P
        BY <1>6, <2>2, FurtherFacts
    <2>3. Nat \subseteq P
        <3> HIDE DEF P
        <3> QED
            BY <2>1, <2>2, UpFromZero
    <2> QED
        BY <2>3
<1>8. w \in [Nat -> SUBSET DOMAIN g]
    <2>1. w = [n \in Nat |-> w[n]]
        BY <1>4
    <2> QED
        BY <1>7, <2>1
<1> QED
    BY <1>2, <1>5, <1>6, <1>8

LEMMA ReachedClosed ==
    ASSUME NEW g, IsFiniteSet(DOMAIN g), NEW roots
    PROVE  /\ roots \cap DOMAIN g \subseteq Reached(g, roots)
           /\ Reached(g, roots) \subseteq DOMAIN g
           /\ \A r \in Reached(g, roots) : Refs(g[r]) \cap DOMAIN g \subseteq Reached(g, roots)
<1>1. PICK w : /\ w \in [Nat -> SUBSET DOMAIN g]
               /\ w[0] = roots \cap DOMAIN g
               /\ \A n \in Nat : w[n + 1] = Further(g, w[n])
               /\ Reached(g, roots) = w[Cardinality(DOMAIN g)]
    BY ReachedRounds
<1> DEFINE N == Cardinality(DOMAIN g)
           Done(n) == Further(g, w[n]) = w[n]
           P == {n \in Nat : roots \cap DOMAIN g \subseteq w[n] /\ (Done(n) \/ Cardinality(w[n]) >= n)}
<1>2. \A n \in Nat : w[n] \subseteq DOMAIN g /\ IsFiniteSet(w[n]) /\ Cardinality(w[n]) \in Nat
    BY <1>1, FS_Subset, FS_CardinalityType
<1>3. 0 \in P
    BY <1>1, <1>2
<1>4. ASSUME NEW n \in Nat, n \in P PROVE n + 1 \in P
    <2>1. w[n + 1] = Further(g, w[n]) /\ w[n] \subseteq w[n + 1] /\ n + 1 \in Nat
        BY <1>1, FurtherFacts
    <2>2. roots \cap DOMAIN g \subseteq w[n + 1]
        BY <1>4, <2>1
    <2>3. CASE Done(n)
        BY <2>1, <2>2, <2>3
    <2>4. CASE ~Done(n)
        <3>1. w[n] # w[n + 1] /\ Cardinality(w[n]) >= n
            BY <1>4, <2>1, <2>4
        <3>2. Cardinality(w[n]) < Cardinality(w[n + 1])
            BY <1>2, <2>1, <3>1, FS_Subset
        <3>3. Cardinality(w[n + 1]) >= n + 1
            BY <1>2, <2>1, <3>1, <3>2
        <3> QED
            BY <2>1, <2>2, <3>3
    <2> QED
        BY <2>3, <2>4
<1>5. Nat \subseteq P
    <2> HIDE DEF P
    <2> QED
        BY <1>3, <1>4, UpFromZero
<1>6. N \in Nat /\ N \in P
    BY <1>5, FS_CardinalityType
<1>7. Done(N)
    <2>1. CASE Cardinality(w[N]) >= N
        <3>1. w[N] = DOMAIN g
            BY <1>2, <1>6, <2>1, FS_Subset
        <3> QED
            BY <3>1, FurtherFacts
    <2> QED
        BY <1>6, <2>1
<1> QED
    BY <1>1, <1>2, <1>6, <1>7, FurtherFacts

LEMMA ReachedLeast ==
    ASSUME NEW g, IsFiniteSet(DOMAIN g), NEW roots, NEW C,
           roots \cap DOMAIN g \subseteq C, \A r \in C \cap DOMAIN g : Refs(g[r]) \cap DOMAIN g \subseteq C
    PROVE  Reached(g, roots) \subseteq C
<1>1. PICK w : /\ w \in [Nat -> SUBSET DOMAIN g]
               /\ w[0] = roots \cap DOMAIN g
               /\ \A n \in Nat : w[n + 1] = Further(g, w[n])
               /\ Reached(g, roots) = w[Cardinality(DOMAIN g)]
    BY ReachedRounds
<1> DEFINE P == {n \in Nat : w[n] \subseteq C}
<1>2. 0 \in P
    BY <1>1
<1>3. ASSUME NEW n \in Nat, n \in P PROVE n + 1 \in P
    <2>1. w[n] \subseteq C \cap DOMAIN g /\ w[n + 1] = Further(g, w[n])
        BY <1>1, <1>3
    <2> QED
        BY <2>1, FurtherFacts
<1>4. Nat \subseteq P
    <2> HIDE DEF P
    <2> QED
        BY <1>2, <1>3, UpFromZero
<1> QED
    BY <1>1, <1>4, FS_CardinalityType

(* It is the same where the objects reached lead to the same.               *)
LEMMA ReachedSame ==
    ASSUME NEW g, NEW h, IsFiniteSet(DOMAIN g), DOMAIN h = DOMAIN g, NEW roots,
           \A r \in Reached(h, roots) : Refs(g[r]) = Refs(h[r])
    PROVE  Reached(g, roots) = Reached(h, roots)
<1>1. Reached(g, roots) \subseteq Reached(h, roots)
    <2>1. PICK C : C = Reached(h, roots)
        OBVIOUS
    <2>2. roots \cap DOMAIN g \subseteq C /\ \A r \in C : Refs(g[r]) \cap DOMAIN g \subseteq C
        BY <2>1, ReachedClosed
    <2> QED
        BY <2>1, <2>2, ReachedLeast
<1>2. Reached(h, roots) \subseteq Reached(g, roots)
    <2>1. PICK C : C = Reached(g, roots)
        OBVIOUS
    <2>2. roots \cap DOMAIN g \subseteq C /\ \A r \in C : Refs(g[r]) \cap DOMAIN g \subseteq C
        BY <2>1, ReachedClosed
    <2>3. roots \cap DOMAIN h \subseteq C /\ \A r \in C \cap DOMAIN h : Refs(h[r]) \cap DOMAIN h \subseteq C
        BY <1>1, <2>1, <2>2
    <2> QED
        BY <2>1, <2>3, ReachedLeast
<1> QED
    BY <1>1, <1>2

(* ... and where only what is reached is kept.                              *)
LEMMA ReachedKept ==
    ASSUME NEW g, NEW h, IsFiniteSet(DOMAIN g), NEW roots,
           h = [r \in Reached(g, roots) |-> g[r]]
    PROVE  Reached(h, roots) = DOMAIN h
<1>1. PICK K : K = Reached(g, roots)
    OBVIOUS
<1>2. /\ DOMAIN h = K /\ K \subseteq DOMAIN g /\ roots \cap DOMAIN g \subseteq K
      /\ \A r \in K : h[r] = g[r] /\ Refs(g[r]) \cap DOMAIN g \subseteq K
    BY <1>1, ReachedClosed
<1>3. IsFiniteSet(DOMAIN h)
    BY <1>2, FS_Subset
<1>4. PICK C : C = Reached(h, roots)
    OBVIOUS
<1>5. roots \cap K \subseteq C /\ C \subseteq K /\ \A r \in C : Refs(h[r]) \cap K \subseteq C
    BY <1>2, <1>3, <1>4, ReachedClosed
<1>6. roots \cap DOMAIN g \subseteq C /\ \A r \in C \cap DOMAIN g : Refs(g[r]) \cap DOMAIN g \subseteq C
    BY <1>2, <1>5
<1>7. K \subseteq C
    BY <1>1, <1>6, ReachedLeast
<1> QED
    BY <1>2, <1>4, <1>5, <1>7
-----------------------------------------------------------------------------
(* An object, as it came or changed.                                        *)
Shaped(o) ==
    /\ o = [kind |-> o.kind, data |-> o.data, redrawn |-> o.redrawn, refs |-> o.refs]
    /\ o.refs = [k \in DOMAIN o.refs |-> o.refs[k]]

LEMMA FieldsChanged ==
    ASSUME NEW o, Shaped(o)
    PROVE  /\ \A refs : refs = [k \in DOMAIN refs |-> refs[k]] =>
                  /\ Shaped([o EXCEPT !.refs = refs])
                  /\ [o EXCEPT !.refs = refs] = [kind |-> o.kind, data |-> o.data, redrawn |-> o.redrawn, refs |-> refs]
           /\ \A redrawn :
                  /\ Shaped([o EXCEPT !.redrawn = redrawn])
                  /\ [o EXCEPT !.redrawn = redrawn]
                         = [kind |-> o.kind, data |-> o.data, redrawn |-> redrawn, refs |-> o.refs]
<1>1. PICK kind, data, drawn, to : o = [kind |-> kind, data |-> data, redrawn |-> drawn, refs |-> to]
    BY DEF Shaped
<1>2. o.kind = kind /\ o.data = data /\ o.redrawn = drawn /\ o.refs = to /\ to = [k \in DOMAIN to |-> to[k]]
    BY <1>1 DEF Shaped
<1>3. ASSUME NEW refs, refs = [k \in DOMAIN refs |-> refs[k]]
      PROVE  /\ Shaped([o EXCEPT !.refs = refs])
             /\ [o EXCEPT !.refs = refs] = [kind |-> o.kind, data |-> o.data, redrawn |-> o.redrawn, refs |-> refs]
    <2>1. [o EXCEPT !.refs = refs] = [kind |-> kind, data |-> data, redrawn |-> drawn, refs |-> refs]
        BY <1>1
    <2>2. Shaped([kind |-> kind, data |-> data, redrawn |-> drawn, refs |-> refs])
        BY <1>3 DEF Shaped
    <2> QED
        BY <1>2, <2>1, <2>2
<1>4. ASSUME NEW redrawn
      PROVE  /\ Shaped([o EXCEPT !.redrawn = redrawn])
             /\ [o EXCEPT !.redrawn = redrawn]
                    = [kind |-> o.kind, data |-> o.data, redrawn |-> redrawn, refs |-> o.refs]
    <2>1. [o EXCEPT !.redrawn = redrawn] = [kind |-> kind, data |-> data, redrawn |-> redrawn, refs |-> to]
        BY <1>1
    <2>2. Shaped([kind |-> kind, data |-> data, redrawn |-> redrawn, refs |-> to])
        BY <1>2 DEF Shaped
    <2> QED
        BY <1>2, <2>1, <2>2
<1> QED
    BY <1>3, <1>4

LEMMA WithoutFacts ==
    ASSUME NEW o, Shaped(o), NEW keys
    PROVE  /\ Shaped(Without(o, keys))
           /\ Without(o, keys).kind = o.kind /\ Without(o, keys).data = o.data
           /\ Without(o, keys).redrawn = o.redrawn
           /\ Without(o, keys).refs = [k \in DOMAIN o.refs \ keys |-> o.refs[k]]
<1>1. PICK refs : refs = [k \in DOMAIN o.refs \ keys |-> o.refs[k]]
    OBVIOUS
<1>2. refs = [k \in DOMAIN refs |-> refs[k]]
    BY <1>1
<1>3. Without(o, keys) = [o EXCEPT !.refs = refs]
    BY <1>1 DEF Without
<1>4. /\ Shaped([o EXCEPT !.refs = refs])
      /\ [o EXCEPT !.refs = refs] = [kind |-> o.kind, data |-> o.data, redrawn |-> o.redrawn, refs |-> refs]
    BY <1>2, FieldsChanged
<1> QED
    BY <1>1, <1>3, <1>4

LEMMA SmallerFacts ==
    ASSUME NEW o, Shaped(o)
    PROVE  /\ Shaped(Smaller(o))
           /\ Smaller(o).kind = o.kind /\ Smaller(o).data = o.data /\ Smaller(o).redrawn
           /\ DOMAIN Smaller(o).refs = DOMAIN o.refs \cap {"SMask"}
           /\ \A k \in DOMAIN Smaller(o).refs : Smaller(o).refs[k] = o.refs[k]
<1>1. PICK keys : keys = DOMAIN o.refs \ {"SMask"}
    OBVIOUS
<1>2. PICK p : p = Without(o, keys)
    OBVIOUS
<1>3. /\ Shaped(p) /\ p.kind = o.kind /\ p.data = o.data
      /\ p.refs = [k \in DOMAIN o.refs \ keys |-> o.refs[k]]
    BY <1>2, WithoutFacts
<1>4. Smaller(o) = [p EXCEPT !.redrawn = TRUE]
    BY <1>1, <1>2 DEF Smaller
<1>5. /\ Shaped([p EXCEPT !.redrawn = TRUE])
      /\ [p EXCEPT !.redrawn = TRUE] = [kind |-> p.kind, data |-> p.data, redrawn |-> TRUE, refs |-> p.refs]
    BY <1>3, FieldsChanged
<1> QED
    BY <1>1, <1>3, <1>4, <1>5

(* The objects now, each in the place of the one it was.                    *)
Made(h, g) ==
    /\ g = [r \in DOMAIN g |-> g[r]]
    /\ DOMAIN g \subseteq DOMAIN h /\ RootsIn(h) \subseteq DOMAIN g
    /\ \A r \in DOMAIN g :
           /\ Shaped(g[r]) /\ g[r].kind = h[r].kind /\ g[r].data = h[r].data
           /\ DOMAIN g[r].refs \subseteq DOMAIN h[r].refs

LEMMA RootsSame ==
    ASSUME NEW h, NEW g, Made(h, g)
    PROVE  RootsIn(g) = RootsIn(h)
BY DEF Made, RootsIn

LEMMA AsItCame ==
    ASSUME NEW h, IsPdf(h)
    PROVE  Made(h, h) /\ \A r \in DOMAIN h : ~h[r].redrawn
<1>1. \A r \in DOMAIN h : Shaped(h[r]) /\ ~h[r].redrawn
    BY DEF IsPdf, IsObject, Shaped
<1> QED
    BY <1>1 DEF IsPdf, Made, RootsIn
-----------------------------------------------------------------------------
(* Streams kept once.                                                       *)
AlikeIn(g, r, s) == g[r].kind \in {"picture", "stream"} /\ g[r] = g[s]
KeptIn(g, r) == Min({s \in DOMAIN g : s = r \/ AlikeIn(g, s, r)})
Targets(g) == {t \in DOMAIN g : \E r \in DOMAIN g : t \in Refs(g[r])}

(* One round more.                                                          *)
Round(g, h) ==
    /\ h = [r \in DOMAIN h |-> h[r]] /\ DOMAIN h = DOMAIN g
    /\ \A r \in DOMAIN g :
           /\ Shaped(h[r]) /\ h[r].kind = g[r].kind /\ h[r].data = g[r].data /\ h[r].redrawn = g[r].redrawn
           /\ DOMAIN h[r].refs = DOMAIN g[r].refs
           /\ \A k \in DOMAIN g[r].refs :
                  h[r].refs[k] = IF g[r].refs[k] \in DOMAIN g THEN KeptIn(g, g[r].refs[k]) ELSE g[r].refs[k]

LEMMA KeptFacts ==
    ASSUME NEW g, DOMAIN g \subseteq Nat, NEW x \in DOMAIN g
    PROVE  /\ KeptIn(g, x) \in DOMAIN g /\ g[KeptIn(g, x)] = g[x]
           /\ KeptIn(g, x) = x \/ AlikeIn(g, KeptIn(g, x), x)
           /\ \A y \in DOMAIN g : AlikeIn(g, x, y) => KeptIn(g, x) = KeptIn(g, y)
           /\ KeptIn(g, KeptIn(g, x)) = KeptIn(g, x)
<1> DEFINE Class(y) == {s \in DOMAIN g : s = y \/ AlikeIn(g, s, y)}
<1>1. \A y \in DOMAIN g : KeptIn(g, y) \in Class(y)
    <2> SUFFICES ASSUME NEW y \in DOMAIN g PROVE KeptIn(g, y) \in Class(y)
        OBVIOUS
    <2>1. PICK T \in SUBSET Nat : T = Class(y) /\ T # {}
        OBVIOUS
    <2>2. \E n \in T : \A m \in T : n <= m
        BY <2>1, LeastNatural
    <2>3. Min(T) \in T
        BY <2>2 DEF Min
    <2> QED
        BY <2>1, <2>3 DEF KeptIn
<1>2. \A y, z \in DOMAIN g : AlikeIn(g, y, z) => Class(y) = Class(z)
    <2> SUFFICES ASSUME NEW y \in DOMAIN g, NEW z \in DOMAIN g, AlikeIn(g, y, z)
                 PROVE  Class(y) = Class(z)
        OBVIOUS
    <2>1. g[y] = g[z] /\ g[y].kind \in {"picture", "stream"} /\ g[z].kind \in {"picture", "stream"}
        BY DEF AlikeIn
    <2>2. \A s \in DOMAIN g : (s = y \/ AlikeIn(g, s, y)) <=> (s = z \/ AlikeIn(g, s, z))
        BY <2>1 DEF AlikeIn
    <2> QED
        BY <2>2
<1>3. \A y, z \in DOMAIN g : AlikeIn(g, y, z) => KeptIn(g, y) = KeptIn(g, z)
    BY <1>2 DEF KeptIn
<1>4. KeptIn(g, x) \in DOMAIN g /\ (KeptIn(g, x) = x \/ AlikeIn(g, KeptIn(g, x), x))
    BY <1>1
<1>5. g[KeptIn(g, x)] = g[x] /\ KeptIn(g, KeptIn(g, x)) = KeptIn(g, x)
    BY <1>3, <1>4 DEF AlikeIn
<1> QED
    BY <1>3, <1>4, <1>5

LEMMA KeepOnceIsRound ==
    ASSUME IsPdf(before), Made(before, objects), KeepOnce
    PROVE  Round(objects, objects')
<1> DEFINE to(r) == [k \in DOMAIN objects[r].refs |->
                        IF objects[r].refs[k] \in DOMAIN objects THEN KeptFor(objects[r].refs[k]) ELSE objects[r].refs[k]]
<1>1. objects' = [r \in DOMAIN objects |-> [objects[r] EXCEPT !.refs = to(r)]]
    BY DEF KeepOnce
<1>2. \A x : KeptFor(x) = KeptIn(objects, x)
    BY DEF KeptFor, KeptIn, Alike, AlikeIn
<1>3. ASSUME NEW r \in DOMAIN objects
      PROVE  /\ Shaped(objects'[r]) /\ objects'[r].kind = objects[r].kind /\ objects'[r].data = objects[r].data
             /\ objects'[r].redrawn = objects[r].redrawn /\ objects'[r].refs = to(r)
    <2>1. PICK o : o = objects[r]
        OBVIOUS
    <2>2. PICK refs : refs = to(r)
        OBVIOUS
    <2>3. refs = [k \in DOMAIN refs |-> refs[k]] /\ Shaped(o)
        BY <2>1, <2>2 DEF Made
    <2>4. objects'[r] = [o EXCEPT !.refs = refs]
        BY <1>1, <2>1, <2>2
    <2>5. /\ Shaped([o EXCEPT !.refs = refs])
          /\ [o EXCEPT !.refs = refs] = [kind |-> o.kind, data |-> o.data, redrawn |-> o.redrawn, refs |-> refs]
        BY <2>3, FieldsChanged
    <2> QED
        BY <2>1, <2>2, <2>4, <2>5
<1>4. objects' = [r \in DOMAIN objects' |-> objects'[r]] /\ DOMAIN objects' = DOMAIN objects
    BY <1>1
<1> QED
    BY <1>2, <1>3, <1>4 DEF Round

LEMMA RoundMade ==
    ASSUME NEW b, NEW g, NEW h, Made(b, g), Round(g, h)
    PROVE  Made(b, h)
BY DEF Made, Round

(* After a round, what refers to nothing is there once, of what is used ... *)
EndsOnce(g) ==
    \A r, s \in Targets(g) : AlikeIn(g, r, s) /\ Refs(g[r]) = {} => r = s

(* ... and after two, what refers to such.                                  *)
UsedOnce(b, g) ==
    \A r, s \in Targets(g) : AlikeIn(g, r, s) /\ (\A t \in Refs(g[r]) : Refs(b[t]) = {}) => r = s

LEMMA NoKeys ==
    ASSUME NEW o
    PROVE  Refs(o) = {} <=> DOMAIN o.refs = {}
BY DEF Refs

(* What is used after a round was kept in it.                               *)
LEMMA TargetsKept ==
    ASSUME NEW g, DOMAIN g \subseteq Nat, NEW h, Round(g, h), NEW r \in Targets(h)
    PROVE  r \in DOMAIN g /\ KeptIn(g, r) = r
<1>1. PICK q \in DOMAIN h : r \in Refs(h[q])
    BY DEF Targets
<1>2. PICK k \in DOMAIN g[q].refs : r = h[q].refs[k]
    BY <1>1 DEF Refs, Round
<1>3. q \in DOMAIN g /\ r \in DOMAIN g /\ r = IF g[q].refs[k] \in DOMAIN g THEN KeptIn(g, g[q].refs[k]) ELSE g[q].refs[k]
    BY <1>2 DEF Round, Targets
<1>4. g[q].refs[k] \in DOMAIN g /\ r = KeptIn(g, g[q].refs[k])
    BY <1>3
<1> QED
    BY <1>3, <1>4, KeptFacts

LEMMA FirstRound ==
    ASSUME NEW b, NEW g, DOMAIN g \subseteq Nat, Made(b, g), NEW h, Round(g, h)
    PROVE  EndsOnce(h)
<1> SUFFICES ASSUME NEW r \in Targets(h), NEW s \in Targets(h), AlikeIn(h, r, s), Refs(h[r]) = {}
             PROVE  r = s
    BY DEF EndsOnce
<1>1. /\ r \in DOMAIN g /\ KeptIn(g, r) = r
      /\ s \in DOMAIN g /\ KeptIn(g, s) = s
    BY TargetsKept
<1>2. h[r] = h[s] /\ h[r].kind \in {"picture", "stream"}
    BY DEF AlikeIn
<1>3. DOMAIN h[r].refs = {}
    BY NoKeys
<1>4. DOMAIN g[r].refs = {} /\ DOMAIN g[s].refs = {}
    BY <1>1, <1>2, <1>3 DEF Made, Round
<1>5. g[r].refs = g[s].refs
    <2>1. g[r].refs = [k \in DOMAIN g[r].refs |-> g[r].refs[k]] /\ g[s].refs = [k \in DOMAIN g[s].refs |-> g[s].refs[k]]
        BY <1>1 DEF Made, Shaped
    <2> QED
        BY <1>4, <2>1
<1>6. /\ g[r].kind = g[s].kind /\ g[r].data = g[s].data /\ g[r].redrawn = g[s].redrawn
      /\ g[r].kind \in {"picture", "stream"}
    BY <1>1, <1>2 DEF Round
<1>7. g[r] = g[s]
    BY <1>1, <1>5, <1>6 DEF Made, Shaped
<1> QED
    BY <1>1, <1>6, <1>7, KeptFacts DEF AlikeIn

LEMMA SecondRound ==
    ASSUME NEW b, NEW g, DOMAIN g \subseteq Nat, Made(b, g), EndsOnce(g), NEW h, Round(g, h)
    PROVE  UsedOnce(b, h)
<1> SUFFICES ASSUME NEW r \in Targets(h), NEW s \in Targets(h), AlikeIn(h, r, s),
                    \A t \in Refs(h[r]) : Refs(b[t]) = {}
             PROVE  r = s
    BY DEF UsedOnce
<1>1. /\ r \in DOMAIN g /\ KeptIn(g, r) = r
      /\ s \in DOMAIN g /\ KeptIn(g, s) = s
    BY TargetsKept
<1>2. h[r] = h[s] /\ h[r].kind \in {"picture", "stream"}
    BY DEF AlikeIn
<1>3. DOMAIN g[r].refs = DOMAIN g[s].refs
    BY <1>1, <1>2 DEF Round
<1>4. ASSUME NEW k \in DOMAIN g[r].refs
      PROVE  g[r].refs[k] = g[s].refs[k]
    <2>1. PICK x, y : x = g[r].refs[k] /\ y = g[s].refs[k]
        OBVIOUS
    <2>2. PICK t : t = h[r].refs[k]
        OBVIOUS
    <2>3. /\ t = IF x \in DOMAIN g THEN KeptIn(g, x) ELSE x
          /\ t = IF y \in DOMAIN g THEN KeptIn(g, y) ELSE y
        BY <1>1, <1>2, <1>3, <2>1, <2>2 DEF Round
    <2>4. CASE x \notin DOMAIN g \/ y \notin DOMAIN g
        BY <2>1, <2>3, <2>4, KeptFacts
    <2>5. CASE x \in DOMAIN g /\ y \in DOMAIN g
        <3>1. /\ t = x \/ AlikeIn(g, t, x)
              /\ t = y \/ AlikeIn(g, t, y)
              /\ t \in DOMAIN g
            BY <2>3, <2>5, KeptFacts
        <3>2. x \in Targets(g) /\ y \in Targets(g)
            BY <1>1, <1>3, <2>1, <2>5 DEF Targets, Refs
        <3>3. Refs(b[t]) = {}
            <4>1. k \in DOMAIN h[r].refs
                BY <1>1 DEF Round
            <4> QED
                BY <2>2, <4>1 DEF Refs
        <3>4. CASE t = x /\ t = y
            BY <2>1, <3>4
        <3>5. CASE ~(t = x /\ t = y)
            <4>1. AlikeIn(g, x, y) /\ g[x] = g[t]
                BY <3>1, <3>5 DEF AlikeIn
            <4>2. Refs(g[x]) = {}
                BY <3>1, <3>3, <4>1, NoKeys DEF Made
            <4> QED
                BY <2>1, <3>2, <4>1, <4>2 DEF EndsOnce
        <3> QED
            BY <3>4, <3>5
    <2> QED
        BY <2>4, <2>5
<1>5. g[r].refs = g[s].refs
    <2>1. g[r].refs = [k \in DOMAIN g[r].refs |-> g[r].refs[k]] /\ g[s].refs = [k \in DOMAIN g[s].refs |-> g[s].refs[k]]
        BY <1>1 DEF Made, Shaped
    <2> QED
        BY <1>3, <1>4, <2>1
<1>6. /\ g[r].kind = g[s].kind /\ g[r].data = g[s].data /\ g[r].redrawn = g[s].redrawn
      /\ g[r].kind \in {"picture", "stream"}
    BY <1>1, <1>2 DEF Round
<1>7. g[r] = g[s]
    BY <1>1, <1>5, <1>6 DEF Made, Shaped
<1> QED
    BY <1>1, <1>6, <1>7, KeptFacts DEF AlikeIn

(* Nothing is alike where the round kept everything; there is no other.     *)
LEMMA NoRound ==
    ASSUME NEW b, NEW g, DOMAIN g \subseteq Nat, Made(b, g), NEW h, Round(g, h),
           \A r \in DOMAIN g : KeptIn(g, r) = r
    PROVE  UsedOnce(b, h)
<1>1. ASSUME NEW r \in DOMAIN g PROVE h[r] = g[r]
    <2>1. \A k \in DOMAIN g[r].refs : h[r].refs[k] = g[r].refs[k]
        BY <1>1 DEF Round
    <2>2. h[r].refs = [k \in DOMAIN h[r].refs |-> h[r].refs[k]] /\ g[r].refs = [k \in DOMAIN g[r].refs |-> g[r].refs[k]]
        BY <1>1 DEF Made, Round, Shaped
    <2>3. h[r].refs = g[r].refs
        BY <1>1, <2>1, <2>2 DEF Round
    <2>4. h[r].kind = g[r].kind /\ h[r].data = g[r].data /\ h[r].redrawn = g[r].redrawn
        BY <1>1 DEF Round
    <2>5. Shaped(h[r]) /\ Shaped(g[r])
        BY <1>1 DEF Made, Round
    <2> QED
        BY <2>3, <2>4, <2>5 DEF Shaped
<1>2. \A r, s \in DOMAIN g : AlikeIn(h, r, s) => r = s
    <2> SUFFICES ASSUME NEW r \in DOMAIN g, NEW s \in DOMAIN g, AlikeIn(h, r, s)
                 PROVE  r = s
        OBVIOUS
    <2>1. AlikeIn(g, r, s)
        BY <1>1 DEF AlikeIn
    <2>2. KeptIn(g, r) = KeptIn(g, s)
        BY <2>1, KeptFacts
    <2> QED
        BY <2>2
<1> QED
    BY <1>2 DEF UsedOnce, Targets, Round
-----------------------------------------------------------------------------
(* What is left when what the roots do not reach is gone.                   *)
SweptOf(g) == [r \in Reached(g, RootsIn(g)) |-> g[r]]

LEMMA SweptFacts ==
    ASSUME NEW b, IsFiniteSet(DOMAIN b), NEW g, Made(b, g), NEW h, h = SweptOf(g)
    PROVE  /\ Made(b, h) /\ DOMAIN h \subseteq DOMAIN g /\ \A r \in DOMAIN h : h[r] = g[r]
           /\ \A r \in DOMAIN h : Refs(h[r]) \cap DOMAIN g \subseteq DOMAIN h
           /\ DOMAIN h = Reached(h, RootsIn(h))
           /\ \A r \in DOMAIN h : r \in RootsIn(g) \/ r \in Targets(g)
<1>1. IsFiniteSet(DOMAIN g)
    BY FS_Subset DEF Made
<1>2. PICK roots : roots = RootsIn(g) /\ roots = RootsIn(b) /\ roots \subseteq DOMAIN g
    BY RootsSame DEF Made
<1>3. PICK K : K = Reached(g, roots) /\ DOMAIN h = K /\ h = [r \in K |-> g[r]]
    BY <1>2 DEF SweptOf
<1>4. roots \subseteq K /\ K \subseteq DOMAIN g /\ \A r \in K : h[r] = g[r] /\ Refs(g[r]) \cap DOMAIN g \subseteq K
    <2>1. roots \cap DOMAIN g \subseteq K /\ K \subseteq DOMAIN g /\ \A r \in K : Refs(g[r]) \cap DOMAIN g \subseteq K
        BY <1>1, <1>3, ReachedClosed
    <2> QED
        BY <1>2, <1>3, <2>1
<1>5. Made(b, h)
    BY <1>2, <1>3, <1>4 DEF Made
<1>6. DOMAIN h = Reached(h, roots)
    BY <1>1, <1>3, ReachedKept
<1>7. RootsIn(h) = roots
    BY <1>2, <1>5, RootsSame
<1>8. K \subseteq roots \cup Targets(g)
    <2>1. PICK C : C = roots \cup Targets(g)
        OBVIOUS
    <2>2. roots \cap DOMAIN g \subseteq C /\ \A r \in C \cap DOMAIN g : Refs(g[r]) \cap DOMAIN g \subseteq C
        BY <2>1 DEF Targets
    <2>3. K \subseteq C
        BY <1>1, <1>3, <2>2, ReachedLeast
    <2> QED
        BY <2>1, <2>3
<1> QED
    BY <1>2, <1>3, <1>4, <1>5, <1>6, <1>7, <1>8

(* Once what is not reached is gone, no two are alike.                      *)
LEMMA SweptOnce ==
    ASSUME NEW b, IsPdf(b), NEW g, Made(b, g), UsedOnce(b, g), NEW h, h = SweptOf(g),
           NEW r \in DOMAIN h, NEW s \in DOMAIN h, AlikeIn(h, r, s),
           \A t \in Refs(h[r]) : Refs(b[t]) = {}
    PROVE  r = s
<1>1. /\ h[r] = g[r] /\ h[s] = g[s]
      /\ r \in RootsIn(g) \/ r \in Targets(g)
      /\ s \in RootsIn(g) \/ s \in Targets(g)
    BY SweptFacts DEF IsPdf
<1>2. AlikeIn(g, r, s) /\ g[r].kind \in {"picture", "stream"} /\ g[s].kind \in {"picture", "stream"}
    BY <1>1 DEF AlikeIn
<1>3. \A t \in RootsIn(g) : g[t].kind \notin {"picture", "stream"}
    BY DEF Made, IsPdf, RootsIn
<1> QED
    BY <1>1, <1>2, <1>3 DEF UsedOnce
-----------------------------------------------------------------------------
(* The objects g show what the objects b did: there are pairs of objects,   *)
(* each root and itself among them, that have the same contents and lead, *)
(* by the same keys but for those that go, to such pairs.                   *)
GoesIn(x, o) ==
    CASE x.kind = "page" -> {"PieceInfo", "Thumb"}
      [] o.redrawn -> DOMAIN x.refs \ {"SMask"}
      [] OTHER -> {}

Like(x, o) ==
    /\ x.kind = o.kind /\ x.data = o.data
    /\ DOMAIN o.refs \subseteq DOMAIN x.refs
    /\ DOMAIN x.refs \ DOMAIN o.refs \subseteq GoesIn(x, o)

Leads(R, b, g, x, o) ==
    \A k \in DOMAIN o.refs : x.refs[k] \in DOMAIN b => o.refs[k] \in DOMAIN g /\ <<x.refs[k], o.refs[k]>> \in R

Shows(R, b, g) ==
    /\ \A r \in RootsIn(b) : <<r, r>> \in R
    /\ \A x \in DOMAIN b, y \in DOMAIN g :
           <<x, y>> \in R => Like(b[x], g[y]) /\ Leads(R, b, g, b[x], g[y])

LEMMA ShowsItself ==
    ASSUME NEW b, IsPdf(b)
    PROVE  \E R : Shows(R, b, b)
<1>1. PICK R : R = {<<r, r>> : r \in DOMAIN b}
    OBVIOUS
<1>2. \A r \in RootsIn(b) : <<r, r>> \in R
    BY <1>1 DEF RootsIn
<1>3. ASSUME NEW x \in DOMAIN b, NEW y \in DOMAIN b, <<x, y>> \in R
      PROVE  Like(b[x], b[y]) /\ Leads(R, b, b, b[x], b[y])
    <2>1. x = y
        BY <1>1, <1>3
    <2> QED
        BY <1>1, <2>1 DEF Like, Leads
<1> QED
    BY <1>2, <1>3 DEF Shows

LEMMA ShowsStripped ==
    ASSUME NEW b, NEW g, Made(b, g), \A r \in DOMAIN g : ~g[r].redrawn, NEW R, Shows(R, b, g), NEW h,
           h = [r \in DOMAIN g |-> IF g[r].kind = "page" THEN Without(g[r], {"PieceInfo", "Thumb"}) ELSE g[r]]
    PROVE  Made(b, h) /\ Shows(R, b, h) /\ \A r \in DOMAIN h : ~h[r].redrawn
<1>1. ASSUME NEW r \in DOMAIN g
      PROVE  /\ Shaped(h[r]) /\ h[r].kind = g[r].kind /\ h[r].data = g[r].data /\ h[r].redrawn = g[r].redrawn
             /\ DOMAIN h[r].refs \subseteq DOMAIN g[r].refs
             /\ DOMAIN g[r].refs \ DOMAIN h[r].refs \subseteq IF g[r].kind = "page" THEN {"PieceInfo", "Thumb"} ELSE {}
             /\ \A k \in DOMAIN h[r].refs : h[r].refs[k] = g[r].refs[k]
    <2>1. Shaped(g[r])
        BY DEF Made
    <2>2. CASE g[r].kind = "page"
        <3>1. PICK o : o = Without(g[r], {"PieceInfo", "Thumb"})
            OBVIOUS
        <3>2. h[r] = o
            BY <2>2, <3>1
        <3>3. /\ Shaped(o) /\ o.kind = g[r].kind /\ o.data = g[r].data /\ o.redrawn = g[r].redrawn
              /\ o.refs = [k \in DOMAIN g[r].refs \ {"PieceInfo", "Thumb"} |-> g[r].refs[k]]
            BY <2>1, <3>1, WithoutFacts
        <3> QED
            BY <2>2, <3>2, <3>3
    <2>3. CASE g[r].kind # "page"
        BY <2>1, <2>3
    <2> QED
        BY <2>2, <2>3
<1>2. DOMAIN h = DOMAIN g /\ h = [r \in DOMAIN h |-> h[r]]
    OBVIOUS
<1>3. Made(b, h)
    BY <1>1, <1>2 DEF Made
<1>4. ASSUME NEW x \in DOMAIN b, NEW y \in DOMAIN h, <<x, y>> \in R
      PROVE  Like(b[x], h[y]) /\ Leads(R, b, h, b[x], h[y])
    <2>1. Like(b[x], g[y]) /\ Leads(R, b, g, b[x], g[y])
        BY <1>2, <1>4 DEF Shows
    <2>2. Like(b[x], h[y])
        <3>1. GoesIn(b[x], h[y]) = GoesIn(b[x], g[y])
            BY <1>1, <1>2, <1>4 DEF GoesIn
        <3>2. b[x].kind = "page" => GoesIn(b[x], h[y]) = {"PieceInfo", "Thumb"}
            BY <1>1, <1>2, <1>4 DEF GoesIn
        <3> QED
            BY <1>1, <1>2, <1>4, <2>1, <3>1, <3>2 DEF Like
    <2> QED
        BY <1>1, <1>2, <1>4, <2>1, <2>2 DEF Leads
<1> QED
    BY <1>1, <1>2, <1>3, <1>4 DEF Shows

LEMMA ShowsRound ==
    ASSUME NEW b, NEW g, DOMAIN g \subseteq Nat, Made(b, g), NEW R, Shows(R, b, g), NEW h, Round(g, h)
    PROVE  \E Q : Shows(Q, b, h)
<1>1. PICK Q : Q = {p \in (DOMAIN b) \X (DOMAIN g) : \E z \in DOMAIN g : <<p[1], z>> \in R /\ g[z] = g[p[2]]}
    OBVIOUS
<1>2. \A r \in RootsIn(b) : <<r, r>> \in Q
    <2>1. \A r \in RootsIn(b) : r \in DOMAIN g /\ r \in DOMAIN b /\ <<r, r>> \in R
        BY DEF Made, Shows
    <2> QED
        BY <1>1, <2>1
<1>3. ASSUME NEW x \in DOMAIN b, NEW y \in DOMAIN h, <<x, y>> \in Q
      PROVE  Like(b[x], h[y]) /\ Leads(Q, b, h, b[x], h[y])
    <2>1. y \in DOMAIN g
        BY DEF Round
    <2>2. PICK z \in DOMAIN g : <<x, z>> \in R /\ g[z] = g[y]
        BY <1>1, <1>3
    <2>3. Like(b[x], g[y]) /\ Leads(R, b, g, b[x], g[y])
        BY <2>2 DEF Shows
    <2>4. /\ h[y].kind = g[y].kind /\ h[y].data = g[y].data /\ h[y].redrawn = g[y].redrawn
          /\ DOMAIN h[y].refs = DOMAIN g[y].refs
        BY <2>1 DEF Round
    <2>5. Like(b[x], h[y])
        BY <2>3, <2>4 DEF Like, GoesIn
    <2>6. ASSUME NEW k \in DOMAIN h[y].refs, b[x].refs[k] \in DOMAIN b
          PROVE  h[y].refs[k] \in DOMAIN h /\ <<b[x].refs[k], h[y].refs[k]>> \in Q
        <3>1. PICK u, v : u = b[x].refs[k] /\ v = g[y].refs[k]
            OBVIOUS
        <3>2. u \in DOMAIN b /\ v \in DOMAIN g /\ <<u, v>> \in R
            BY <2>3, <2>4, <2>6, <3>1 DEF Leads
        <3>3. h[y].refs[k] = KeptIn(g, v)
            BY <2>1, <2>4, <3>1, <3>2 DEF Round
        <3>4. KeptIn(g, v) \in DOMAIN g /\ g[KeptIn(g, v)] = g[v]
            BY <3>2, KeptFacts
        <3>5. <<u, KeptIn(g, v)>> \in Q
            BY <1>1, <3>2, <3>4
        <3> QED
            BY <3>1, <3>3, <3>4, <3>5 DEF Round
    <2> QED
        BY <2>5, <2>6 DEF Leads
<1> QED
    BY <1>2, <1>3 DEF Shows

LEMMA ShowsSwept ==
    ASSUME NEW b, IsFiniteSet(DOMAIN b), NEW g, Made(b, g), NEW R, Shows(R, b, g), NEW h, h = SweptOf(g)
    PROVE  Shows(R, b, h)
<1>1. /\ DOMAIN h \subseteq DOMAIN g
      /\ \A r \in DOMAIN h : h[r] = g[r] /\ Refs(h[r]) \cap DOMAIN g \subseteq DOMAIN h
    BY SweptFacts
<1>2. ASSUME NEW x \in DOMAIN b, NEW y \in DOMAIN h, <<x, y>> \in R
      PROVE  Like(b[x], h[y]) /\ Leads(R, b, h, b[x], h[y])
    <2>1. Like(b[x], h[y]) /\ Leads(R, b, g, b[x], h[y])
        BY <1>1, <1>2 DEF Shows
    <2>2. \A k \in DOMAIN h[y].refs : h[y].refs[k] \in Refs(h[y])
        BY DEF Refs
    <2> QED
        BY <1>1, <2>1, <2>2 DEF Leads
<1> QED
    BY <1>2 DEF Shows

LEMMA ShowsRedrawn ==
    ASSUME NEW b, NEW g, Made(b, g), \A r \in DOMAIN g : ~g[r].redrawn, NEW R, Shows(R, b, g), NEW h,
           NEW some \in SUBSET {r \in DOMAIN g : g[r].kind = "picture"},
           h = [r \in DOMAIN g |-> IF r \in some THEN Smaller(g[r]) ELSE g[r]]
    PROVE  Made(b, h) /\ Shows(R, b, h)
<1>1. ASSUME NEW r \in DOMAIN g
      PROVE  /\ Shaped(h[r]) /\ h[r].kind = g[r].kind /\ h[r].data = g[r].data
             /\ DOMAIN h[r].refs \subseteq DOMAIN g[r].refs
             /\ \A k \in DOMAIN h[r].refs : h[r].refs[k] = g[r].refs[k]
             /\ h[r] = g[r] \/ (/\ g[r].kind = "picture" /\ h[r].redrawn
                                /\ DOMAIN h[r].refs = DOMAIN g[r].refs \cap {"SMask"})
    <2>1. Shaped(g[r])
        BY DEF Made
    <2>2. CASE r \in some
        <3>1. PICK o : o = Smaller(g[r])
            OBVIOUS
        <3>2. h[r] = o /\ g[r].kind = "picture"
            BY <2>2, <3>1
        <3>3. /\ Shaped(o) /\ o.kind = g[r].kind /\ o.data = g[r].data /\ o.redrawn
              /\ DOMAIN o.refs = DOMAIN g[r].refs \cap {"SMask"} /\ \A k \in DOMAIN o.refs : o.refs[k] = g[r].refs[k]
            BY <2>1, <3>1, SmallerFacts
        <3> QED
            BY <3>2, <3>3
    <2>3. CASE r \notin some
        BY <2>1, <2>3
    <2> QED
        BY <2>2, <2>3
<1>2. DOMAIN h = DOMAIN g /\ h = [r \in DOMAIN h |-> h[r]]
    OBVIOUS
<1>3. Made(b, h)
    BY <1>1, <1>2 DEF Made
<1>4. ASSUME NEW x \in DOMAIN b, NEW y \in DOMAIN h, <<x, y>> \in R
      PROVE  Like(b[x], h[y]) /\ Leads(R, b, h, b[x], h[y])
    <2>1. Like(b[x], g[y]) /\ Leads(R, b, g, b[x], g[y])
        BY <1>2, <1>4 DEF Shows
    <2>2. Like(b[x], h[y])
        <3>1. CASE h[y] = g[y]
            BY <2>1, <3>1
        <3>2. CASE h[y] # g[y]
            <4>1. /\ g[y].kind = "picture" /\ h[y].redrawn /\ h[y].kind = g[y].kind /\ h[y].data = g[y].data
                  /\ DOMAIN h[y].refs = DOMAIN g[y].refs \cap {"SMask"} /\ ~g[y].redrawn
                BY <1>1, <1>2, <1>4, <3>2
            <4>2. GoesIn(b[x], g[y]) = {} /\ GoesIn(b[x], h[y]) = DOMAIN b[x].refs \ {"SMask"}
                BY <2>1, <4>1 DEF GoesIn, Like
            <4> QED
                BY <2>1, <4>1, <4>2 DEF Like
        <3> QED
            BY <3>1, <3>2
    <2> QED
        BY <1>1, <1>2, <1>4, <2>1, <2>2 DEF Leads
<1> QED
    BY <1>2, <1>3, <1>4 DEF Shows

(* What is found the same way from the catalog is among those pairs.        *)
LEMMA SameIsShown ==
    ASSUME IsPdf(before), Made(before, objects), NEW R, Shows(R, before, objects)
    PROVE  Same \subseteq R \cap ((DOMAIN before) \X (DOMAIN objects))
<1>1. PICK A : A = (DOMAIN before) \X (DOMAIN objects)
    OBVIOUS
<1>2. \A pairs : pairs \subseteq A => Along(pairs) \subseteq A
    BY <1>1 DEF Along
<1>0. PICK start : start = {<<r, r>> : r \in RootsIn(before)}
    OBVIOUS
<1> DEFINE Rounds(w) == w = [n \in Nat |-> IF n = 0 THEN start ELSE Along(w[n - 1])]
<1>3. PICK w : w = CHOOSE v : Rounds(v)
    OBVIOUS
<1>4. Same = w[Cardinality(DOMAIN before)]
    BY <1>0, <1>3 DEF Same
<1>5. start \subseteq A
    BY <1>0, <1>1 DEF IsPdf, Made, RootsIn
<1>6. \E v : Rounds(v)
    <2>1. PICK S : S = SUBSET A
        OBVIOUS
    <2>2. PICK F : F = [X \in S |-> Along(X)]
        OBVIOUS
    <2>3. F \in [S -> S] /\ start \in S
        BY <1>2, <1>5, <2>1, <2>2
    <2>4. PICK v \in [Nat -> S] : Iterates(start, F, v)
        BY <2>3, IteratesExist
    <2>5. \A n \in Nat : n # 0 => n - 1 \in Nat /\ v[n - 1] \in S
        BY <2>4
    <2>6. Rounds(v)
        BY <2>2, <2>4, <2>5 DEF Iterates
    <2> QED
        BY <2>6
<1>7. Rounds(w)
    BY <1>3, <1>6
<1> DEFINE P == {n \in Nat : w[n] \subseteq R \cap A}
<1>8. 0 \in P
    BY <1>0, <1>5, <1>7 DEF Shows
<1>9. ASSUME NEW n \in Nat, n \in P PROVE n + 1 \in P
    <2>1. PICK m \in Nat : m = n + 1 /\ m # 0 /\ m - 1 = n
        OBVIOUS
    <2>2. w[m] = Along(w[m - 1])
        BY <1>7, <2>1
    <2>3. PICK X : X = w[n] /\ X \subseteq R /\ X \subseteq A
        BY <1>9
    <2>4. Along(X) \subseteq A
        BY <1>2, <2>3
    <2>5. \A p \in X : SameKeys(p[1], p[2]) \cap A \subseteq R
        <3> SUFFICES ASSUME NEW p \in X, NEW q \in SameKeys(p[1], p[2]) \cap A
                     PROVE  q \in R
            OBVIOUS
        <3>1. PICK x \in DOMAIN before, y \in DOMAIN objects : p = <<x, y>>
            BY <1>1, <2>3
        <3>2. PICK k \in DOMAIN before[x].refs \cap DOMAIN objects[y].refs :
                  q = <<before[x].refs[k], objects[y].refs[k]>>
            BY <3>1 DEF SameKeys
        <3>3. before[x].refs[k] \in DOMAIN before
            BY <1>1, <3>2
        <3>4. Leads(R, before, objects, before[x], objects[y])
            BY <2>3, <3>1 DEF Shows
        <3> QED
            BY <3>2, <3>3, <3>4 DEF Leads
    <2>6. Along(X) \subseteq R
        BY <1>1, <2>3, <2>5 DEF Along
    <2> QED
        BY <2>1, <2>2, <2>3, <2>4, <2>6
<1>10. Nat \subseteq P
    <2> HIDE DEF P
    <2> QED
        BY <1>8, <1>9, UpFromZero
<1>11. Cardinality(DOMAIN before) \in P
    <2>1. Cardinality(DOMAIN before) \in Nat
        BY FS_CardinalityType DEF IsPdf
    <2> HIDE DEF P
    <2> QED
        BY <1>10, <2>1
<1> QED
    BY <1>1, <1>4, <1>11
-----------------------------------------------------------------------------
(* Pages cut apart.                                                         *)
CutIn(g, o) == Without(o, {k \in DOMAIN o.refs : o.refs[k] \in TreeIn(g)})
CutAll(g) == [r \in DOMAIN g |-> CutIn(g, g[r])]

StartsIn(g, p) ==
    LET own == g[p].refs
    IN  {own[k] : k \in DOMAIN own \ {"Parent"}}
        \cup IF "Resources" \in DOMAIN own THEN {} ELSE Inherited([r \in TreeIn(g) |-> g[r]], p)

(* What a page needs of the document as it came.                            *)
FoundIn(b, p) == Reached(CutAll(b), StartsIn(b, p))

(* Some of b's objects cut, none of the tree.                               *)
PartlyCut(b, g) ==
    /\ g = [r \in DOMAIN g |-> g[r]] /\ DOMAIN g = DOMAIN b
    /\ \A r \in DOMAIN b : g[r] = b[r] \/ g[r] = CutIn(b, b[r])
    /\ \A r \in TreeIn(b) : g[r] = b[r]

LEMMA CutFacts ==
    ASSUME NEW b, NEW o, Shaped(o)
    PROVE  /\ Shaped(CutIn(b, o)) /\ CutIn(b, o).kind = o.kind /\ CutIn(b, o).data = o.data
           /\ DOMAIN CutIn(b, o).refs = {k \in DOMAIN o.refs : o.refs[k] \notin TreeIn(b)}
           /\ \A k \in DOMAIN CutIn(b, o).refs : CutIn(b, o).refs[k] = o.refs[k]
           /\ CutIn(b, CutIn(b, o)) = CutIn(b, o)
<1>1. PICK keys : keys = {k \in DOMAIN o.refs : o.refs[k] \in TreeIn(b)}
    OBVIOUS
<1>2. PICK c : c = Without(o, keys)
    OBVIOUS
<1>3. CutIn(b, o) = c
    BY <1>1, <1>2 DEF CutIn
<1>4. /\ Shaped(c) /\ c.kind = o.kind /\ c.data = o.data /\ c.redrawn = o.redrawn
      /\ c.refs = [k \in DOMAIN o.refs \ keys |-> o.refs[k]]
    BY <1>2, WithoutFacts
<1>5. PICK none : none = {k \in DOMAIN c.refs : c.refs[k] \in TreeIn(b)} /\ none = {}
    BY <1>1, <1>4
<1>6. PICK d : d = Without(c, none)
    OBVIOUS
<1>7. CutIn(b, c) = d
    BY <1>5, <1>6 DEF CutIn
<1>8. /\ Shaped(d) /\ d.kind = c.kind /\ d.data = c.data /\ d.redrawn = c.redrawn
      /\ d.refs = [k \in DOMAIN c.refs \ none |-> c.refs[k]]
    <2>1. Shaped(c)
        BY <1>4
    <2> QED
        BY <1>6, <2>1, WithoutFacts
<1>9. d.refs = c.refs
    BY <1>4, <1>5, <1>8
<1>10. d = c
    BY <1>4, <1>8, <1>9 DEF Shaped
<1> QED
    BY <1>1, <1>3, <1>4, <1>7, <1>10

LEMMA PartlyCutFacts ==
    ASSUME NEW b, IsPdf(b), NEW g, PartlyCut(b, g)
    PROVE  /\ Made(b, g) /\ TreeIn(g) = TreeIn(b)
           /\ \A r \in DOMAIN b : CutIn(g, g[r]) = CutIn(b, b[r])
<1>1. \A r \in DOMAIN b : Shaped(b[r])
    BY AsItCame DEF Made
<1>2. ASSUME NEW r \in DOMAIN b
      PROVE  /\ Shaped(g[r]) /\ g[r].kind = b[r].kind /\ g[r].data = b[r].data
             /\ DOMAIN g[r].refs \subseteq DOMAIN b[r].refs /\ CutIn(b, g[r]) = CutIn(b, b[r])
    <2>1. CASE g[r] = b[r]
        BY <1>1, <2>1
    <2>2. CASE g[r] = CutIn(b, b[r])
        BY <1>1, <2>2, CutFacts
    <2> QED
        BY <2>1, <2>2 DEF PartlyCut
<1>3. DOMAIN g = DOMAIN b /\ g = [r \in DOMAIN g |-> g[r]]
    BY DEF PartlyCut
<1>4. Made(b, g)
    BY <1>2, <1>3 DEF Made, IsPdf, RootsIn
<1>5. TreeIn(g) = TreeIn(b)
    BY <1>2, <1>3 DEF TreeIn
<1> QED
    BY <1>2, <1>4, <1>5 DEF CutIn

LEMMA AboveInTree ==
    ASSUME NEW t, IsFiniteSet(DOMAIN t), NEW p
    PROVE  Above(t, p) \subseteq DOMAIN t
<1>1. PICK up : up = [r \in DOMAIN t |-> Without(t[r], DOMAIN t[r].refs \ {"Parent"})]
    OBVIOUS
<1>2. PICK roots : roots = {t[p].refs[k] : k \in DOMAIN t[p].refs \cap {"Parent"}}
    OBVIOUS
<1>3. DOMAIN up = DOMAIN t
    BY <1>1
<1>4. Reached(up, roots) \subseteq DOMAIN up
    BY <1>3, ReachedClosed
<1> QED
    BY <1>1, <1>2, <1>3, <1>4 DEF Above

(* A page starts from the same, whatever was cut, and from none of the tree.*)
LEMMA StartsSame ==
    ASSUME NEW b, IsPdf(b), NEW g, PartlyCut(b, g), NEW p, IsLeaf(p, b)
    PROVE  StartsIn(g, p) = StartsIn(b, p) /\ StartsIn(b, p) \cap TreeIn(b) = {}
<1>1. PICK own : own = b[p].refs
    OBVIOUS
<1>2. p \in TreeIn(b) /\ \A k \in DOMAIN own \ {"Parent"} : own[k] \notin TreeIn(b)
    BY <1>1 DEF IsLeaf
<1>3. PICK tree : tree = [r \in TreeIn(b) |-> b[r]]
    OBVIOUS
<1>4. g[p].refs = own /\ TreeIn(g) = TreeIn(b) /\ \A r \in TreeIn(b) : g[r] = b[r]
    BY <1>1, <1>2, PartlyCutFacts DEF PartlyCut
<1>5. tree = [r \in TreeIn(g) |-> g[r]]
    BY <1>3, <1>4
<1>6. PICK more : more = Inherited(tree, p)
    OBVIOUS
<1>7. PICK starts : starts = {own[k] : k \in DOMAIN own \ {"Parent"}}
                             \cup IF "Resources" \in DOMAIN own THEN {} ELSE more
    OBVIOUS
<1>8. StartsIn(b, p) = starts
    BY <1>1, <1>3, <1>6, <1>7 DEF StartsIn
<1>9. StartsIn(g, p) = starts
    BY <1>4, <1>5, <1>6, <1>7 DEF StartsIn
<1>10. more \cap TreeIn(b) = {}
    <2>1. IsFiniteSet(DOMAIN tree) /\ DOMAIN tree = TreeIn(b)
        BY <1>3, FS_Subset DEF IsPdf, TreeIn
    <2>2. Above(tree, p) \subseteq TreeIn(b)
        BY <2>1, AboveInTree
    <2>3. \A a \in Above(tree, p) : "Resources" \in DOMAIN tree[a].refs => tree[a].refs["Resources"] \notin TreeIn(b)
        BY <1>3, <2>2 DEF IsLeaf
    <2> QED
        BY <1>6, <2>3 DEF Inherited
<1>11. starts \cap TreeIn(b) = {}
    BY <1>2, <1>7, <1>10
<1> QED
    BY <1>8, <1>9, <1>11

LEMMA FoundFacts ==
    ASSUME NEW b, IsPdf(b), NEW p, IsLeaf(p, b)
    PROVE  FoundIn(b, p) \subseteq DOMAIN b /\ FoundIn(b, p) \cap TreeIn(b) = {}
<1>1. PICK c : c = CutAll(b) /\ DOMAIN c = DOMAIN b /\ IsFiniteSet(DOMAIN c)
    BY DEF CutAll, IsPdf
<1>2. PICK roots : roots = StartsIn(b, p)
    OBVIOUS
<1>3. roots \cap TreeIn(b) = {}
    <2>1. PartlyCut(b, b)
        BY DEF PartlyCut, IsPdf
    <2> QED
        BY <1>2, <2>1, StartsSame
<1>4. PICK C : C = DOMAIN b \ TreeIn(b)
    OBVIOUS
<1>5. \A r \in DOMAIN b : Refs(c[r]) \cap TreeIn(b) = {}
    <2> SUFFICES ASSUME NEW r \in DOMAIN b, NEW k \in DOMAIN c[r].refs PROVE c[r].refs[k] \notin TreeIn(b)
        BY DEF Refs
    <2>1. Shaped(b[r]) /\ c[r] = CutIn(b, b[r])
        BY <1>1, AsItCame DEF Made, CutAll
    <2> QED
        BY <2>1, CutFacts
<1>6. roots \cap DOMAIN c \subseteq C /\ \A r \in C \cap DOMAIN c : Refs(c[r]) \cap DOMAIN c \subseteq C
    BY <1>1, <1>3, <1>4, <1>5
<1>7. Reached(c, roots) \subseteq C
    BY <1>1, <1>6, ReachedLeast
<1> QED
    BY <1>1, <1>2, <1>4, <1>7 DEF FoundIn

(* What a page needs is reached from it once that is cut.                   *)
LEMMA FoundAsCut ==
    ASSUME NEW b, IsPdf(b), NEW g, PartlyCut(b, g), NEW p, IsLeaf(p, b),
           \A r \in FoundIn(b, p) : g[r] = CutIn(b, b[r])
    PROVE  Reached(g, StartsIn(g, p)) = FoundIn(b, p)
<1>1. PICK c : c = CutAll(b) /\ DOMAIN c = DOMAIN b /\ \A r \in DOMAIN b : c[r] = CutIn(b, b[r])
    <2>1. PICK a : a = CutAll(b)
        OBVIOUS
    <2>2. DOMAIN a = DOMAIN b /\ \A r \in DOMAIN b : a[r] = CutIn(b, b[r])
        BY <2>1 DEF CutAll
    <2> QED
        BY <2>1, <2>2
<1>2. PICK roots : roots = StartsIn(b, p) /\ roots = StartsIn(g, p)
    BY StartsSame
<1>3. DOMAIN g = DOMAIN b /\ IsFiniteSet(DOMAIN g)
    BY DEF PartlyCut, IsPdf
<1>4. \A r \in Reached(c, roots) : Refs(g[r]) = Refs(c[r])
    BY <1>1, <1>2, FoundFacts DEF FoundIn
<1>5. Reached(g, roots) = Reached(c, roots)
    BY <1>1, <1>3, <1>4, ReachedSame
<1> QED
    BY <1>1, <1>2, <1>5 DEF FoundIn
-----------------------------------------------------------------------------
IsMask(g, m) ==
    \E p \in DOMAIN g : g[p].kind = "picture" /\ \E k \in DOMAIN g[p].refs \cap {"SMask", "Mask"} : m = g[p].refs[k]

MasksKept(g) == \A m \in DOMAIN g : IsMask(g, m) => ~g[m].redrawn

AllOnce(b, g) ==
    \A r, s \in DOMAIN g : AlikeIn(g, r, s) /\ (\A t \in Refs(g[r]) : Refs(b[t]) = {}) => r = s

(* What is so while a document is compressed ...                            *)
Compressing ==
    /\ \E R : Shows(R, before, objects)
    /\ stage \in {"strip", "once", "twice", "sweep", "redraw"} => \A r \in DOMAIN objects : ~objects[r].redrawn
    /\ stage = "twice" => EndsOnce(objects)
    /\ stage = "sweep" => UsedOnce(before, objects)
    /\ stage = "redraw" => AllOnce(before, objects)
    /\ stage \in {"again", "saved"} => MasksKept(objects)
    /\ stage = "saved" => DOMAIN objects = Reached(objects, RootsIn(objects))

(* ... and while one is analysed: each page so far was found what it needs  *)
(* of the document as it came, and that was cut.                            *)
Analysing ==
    /\ leaves \in Seq(DOMAIN before) /\ \A i \in DOMAIN leaves : IsLeaf(leaves[i], before)
    /\ PartlyCut(before, objects)
    /\ needs \in Seq(SUBSET (DOMAIN before)) /\ Len(needs) <= Len(leaves)
    /\ \A i \in 1..Len(needs) :
           /\ needs[i] = FoundIn(before, leaves[i])
           /\ \A r \in needs[i] : objects[r] = CutIn(before, before[r])

PdfInv ==
    /\ IsPdf(before) /\ Made(before, objects)
    /\ stage \in {"strip", "once", "twice", "sweep", "redraw", "again", "saved", "analyse"}
    /\ IF stage = "analyse" THEN Analysing ELSE Compressing

LEMMA MasksAre == \A m : m \in Masks <=> IsMask(objects, m)
BY DEF Masks, IsMask

LEMMA InitPdfInv == Init => PdfInv
<1> SUFFICES ASSUME Init PROVE PdfInv OBVIOUS
<1>1. CASE before \in ToCompress /\ leaves = <<>> /\ stage = "strip"
    <2>1. IsPdf(before)
        BY <1>1, PdfAssumption
    <2>2. Made(before, before) /\ \A r \in DOMAIN before : ~before[r].redrawn
        BY <2>1, AsItCame
    <2>3. \E R : Shows(R, before, before)
        BY <2>1, ShowsItself
    <2>4. objects = before
        BY DEF Init
    <2> QED
        BY <1>1, <2>1, <2>2, <2>3, <2>4 DEF PdfInv, Compressing
<1>2. CASE \E d \in ToSplit : before = d.objects /\ leaves = d.pages /\ stage = "analyse"
    <2>1. PICK d \in ToSplit : before = d.objects /\ leaves = d.pages /\ stage = "analyse"
        BY <1>2
    <2>2. IsPdf(before) /\ leaves \in Seq(DOMAIN before) /\ \A i \in DOMAIN leaves : IsLeaf(leaves[i], before)
        BY <2>1, PdfAssumption
    <2>3. objects = before /\ needs = <<>>
        BY DEF Init
    <2>4. PartlyCut(before, objects)
        BY <2>2, <2>3 DEF PartlyCut, IsPdf
    <2>5. Made(before, objects)
        BY <2>2, <2>3, AsItCame
    <2>6. Len(leaves) \in Nat /\ needs \in Seq(SUBSET (DOMAIN before)) /\ Len(needs) = 0
        BY <2>2, <2>3
    <2> QED
        BY <2>1, <2>2, <2>4, <2>5, <2>6 DEF PdfInv, Analysing
<1> QED
    BY <1>1, <1>2 DEF Init

LEMMA NextPdfInv == PdfInv /\ [Next]_vars => PdfInv'
<1> SUFFICES ASSUME PdfInv, [Next]_vars PROVE PdfInv' OBVIOUS
<1>0. IsPdf(before) /\ Made(before, objects) /\ IsFiniteSet(DOMAIN before) /\ DOMAIN objects \subseteq Nat
    BY DEF PdfInv, IsPdf, Made
<1>1. CASE Strip
    <2>1. before' = before /\ stage = "strip" /\ stage' = "once" /\ Compressing
        BY <1>1 DEF Strip, PdfInv
    <2>2. PICK R : Shows(R, before, objects)
        BY <2>1 DEF Compressing
    <2>3. objects' = [r \in DOMAIN objects |-> IF objects[r].kind = "page"
                                                  THEN Without(objects[r], {"PieceInfo", "Thumb"}) ELSE objects[r]]
        BY <1>1 DEF Strip
    <2>4. \A r \in DOMAIN objects : ~objects[r].redrawn
        BY <2>1 DEF Compressing
    <2>5. Made(before, objects') /\ Shows(R, before, objects') /\ \A r \in DOMAIN objects' : ~objects'[r].redrawn
        BY <1>0, <2>2, <2>3, <2>4, ShowsStripped
    <2> QED
        BY <1>0, <2>1, <2>5 DEF PdfInv, Compressing
<1>2. CASE KeepOnce
    <2>1. before' = before /\ stage \in {"once", "twice"} /\ stage' \in {"twice", "sweep"} /\ Compressing
        BY <1>2 DEF KeepOnce, PdfInv
    <2>2. PICK R : Shows(R, before, objects)
        BY <2>1 DEF Compressing
    <2>3. Round(objects, objects')
        BY <1>0, <1>2, KeepOnceIsRound
    <2>4. Made(before, objects')
        BY <1>0, <2>3, RoundMade
    <2>5. \E Q : Shows(Q, before, objects')
        BY <1>0, <2>2, <2>3, ShowsRound
    <2>6. \A r \in DOMAIN objects' : ~objects'[r].redrawn
        BY <2>1, <2>3 DEF Compressing, Round
    <2>7. CASE stage = "once" /\ stage' = "twice"
        <3>1. EndsOnce(objects')
            BY <1>0, <2>3, FirstRound
        <3> QED
            BY <1>0, <2>1, <2>4, <2>5, <2>6, <2>7, <3>1 DEF PdfInv, Compressing
    <2>8. CASE stage = "once" /\ stage' = "sweep"
        <3>1. \A r \in DOMAIN objects : KeptFor(r) = r
            BY <1>2, <2>8 DEF KeepOnce
        <3>2. \A r \in DOMAIN objects : KeptIn(objects, r) = r
            BY <3>1 DEF KeptFor, KeptIn, Alike, AlikeIn
        <3>3. UsedOnce(before, objects')
            BY <1>0, <2>3, <3>2, NoRound
        <3> QED
            BY <1>0, <2>1, <2>4, <2>5, <2>6, <2>8, <3>3 DEF PdfInv, Compressing
    <2>9. CASE stage = "twice"
        <3>1. stage' = "sweep"
            BY <1>2, <2>9 DEF KeepOnce
        <3>2. UsedOnce(before, objects')
            BY <1>0, <2>1, <2>3, <2>9, SecondRound DEF Compressing
        <3> QED
            BY <1>0, <2>1, <2>4, <2>5, <2>6, <3>1, <3>2 DEF PdfInv, Compressing
    <2> QED
        BY <2>1, <2>7, <2>8, <2>9
<1>3. CASE CollectGarbage
    <2>1. before' = before /\ stage = "sweep" /\ stage' = "redraw" /\ Compressing /\ objects' = SweptOf(objects)
        BY <1>3 DEF CollectGarbage, PdfInv, Swept, SweptOf
    <2>2. PICK R : Shows(R, before, objects)
        BY <2>1 DEF Compressing
    <2>3. PICK h : h = objects' /\ h = SweptOf(objects)
        BY <2>1
    <2>4. Made(before, h) /\ DOMAIN h \subseteq DOMAIN objects /\ \A r \in DOMAIN h : h[r] = objects[r]
        BY <1>0, <2>3, SweptFacts
    <2>5. Shows(R, before, h)
        BY <1>0, <2>2, <2>3, ShowsSwept
    <2>6. \A r \in DOMAIN h : ~h[r].redrawn
        BY <2>1, <2>4 DEF Compressing
    <2>7. AllOnce(before, h)
        BY <1>0, <2>1, <2>3, SweptOnce DEF Compressing, AllOnce
    <2> QED
        BY <1>0, <2>1, <2>3, <2>4, <2>5, <2>6, <2>7 DEF PdfInv, Compressing
<1>4. CASE Redraw
    <2>1. before' = before /\ stage = "redraw" /\ stage' = "again" /\ Compressing
        BY <1>4 DEF Redraw, PdfInv
    <2>2. PICK R : Shows(R, before, objects)
        BY <2>1 DEF Compressing
    <2>3. PICK some \in SUBSET ({r \in DOMAIN objects : objects[r].kind = "picture"} \ Masks) :
              objects' = [r \in DOMAIN objects |-> IF r \in some THEN Smaller(objects[r]) ELSE objects[r]]
        BY <1>4 DEF Redraw
    <2>4. PICK h : h = objects'
        OBVIOUS
    <2>5. \A r \in DOMAIN objects : ~objects[r].redrawn
        BY <2>1 DEF Compressing
    <2>6. Made(before, h) /\ Shows(R, before, h)
        BY <1>0, <2>2, <2>3, <2>4, <2>5, ShowsRedrawn
    <2>7. MasksKept(h)
        <3> SUFFICES ASSUME NEW m \in DOMAIN h, IsMask(h, m) PROVE ~h[m].redrawn
            BY DEF MasksKept
        <3>1. PICK p \in DOMAIN h : h[p].kind = "picture" /\ \E k \in DOMAIN h[p].refs \cap {"SMask", "Mask"} : m = h[p].refs[k]
            BY DEF IsMask
        <3>2. PICK k \in DOMAIN h[p].refs \cap {"SMask", "Mask"} : m = h[p].refs[k]
            BY <3>1
        <3>3. p \in DOMAIN objects /\ m \in DOMAIN objects /\ Shaped(objects[p])
            BY <1>0, <2>3, <2>4 DEF Made
        <3>4. k \in DOMAIN objects[p].refs /\ m = objects[p].refs[k] /\ objects[p].kind = "picture"
            <4>1. CASE p \in some
                <5>1. h[p] = Smaller(objects[p])
                    BY <2>3, <2>4, <3>3, <4>1
                <5> QED
                    BY <3>1, <3>2, <3>3, <5>1, SmallerFacts
            <4>2. CASE p \notin some
                BY <2>3, <2>4, <3>1, <3>2, <3>3, <4>2
            <4> QED
                BY <4>1, <4>2
        <3>5. IsMask(objects, m)
            BY <3>2, <3>3, <3>4 DEF IsMask
        <3>6. m \notin some
            BY <3>5, MasksAre
        <3> QED
            BY <2>3, <2>4, <2>5, <3>3, <3>6
    <2> QED
        BY <1>0, <2>1, <2>4, <2>6, <2>7 DEF PdfInv, Compressing
<1>5. CASE CollectAgain
    <2>1. before' = before /\ stage = "again" /\ stage' = "saved" /\ Compressing /\ objects' = SweptOf(objects)
        BY <1>5 DEF CollectAgain, PdfInv, Swept, SweptOf
    <2>2. PICK R : Shows(R, before, objects)
        BY <2>1 DEF Compressing
    <2>3. PICK h : h = objects' /\ h = SweptOf(objects)
        BY <2>1
    <2>4. /\ Made(before, h) /\ DOMAIN h \subseteq DOMAIN objects /\ \A r \in DOMAIN h : h[r] = objects[r]
          /\ DOMAIN h = Reached(h, RootsIn(h))
        BY <1>0, <2>3, SweptFacts
    <2>5. Shows(R, before, h)
        BY <1>0, <2>2, <2>3, ShowsSwept
    <2>6. MasksKept(h)
        <3>1. \A m \in DOMAIN h : IsMask(h, m) => IsMask(objects, m)
            BY <2>4 DEF IsMask
        <3> QED
            BY <2>1, <2>4, <3>1 DEF Compressing, MasksKept
    <2> QED
        BY <1>0, <2>1, <2>3, <2>4, <2>5, <2>6 DEF PdfInv, Compressing
<1>6. CASE AnalysePage
    <2>1. /\ stage = "analyse" /\ Len(needs) < Len(leaves) /\ Analysing
          /\ UNCHANGED <<before, leaves, stage>>
        BY <1>6 DEF AnalysePage, PdfInv
    <2>2. PICK n \in 1..Len(leaves) : n = Len(needs) + 1
        <3>1. Len(leaves) \in Nat /\ Len(needs) \in Nat
            BY <2>1 DEF Analysing
        <3> QED
            BY <2>1, <3>1
    <2>3. PICK p \in DOMAIN before : p = leaves[n] /\ IsLeaf(p, before)
        BY <2>1, <2>2 DEF Analysing
    <2>4. PICK found : found = FoundIn(before, p)
        OBVIOUS
    <2>5. PartlyCut(before, objects)
        BY <2>1 DEF Analysing
    <2>6. \A r \in DOMAIN before : NoLinks(objects[r]) = CutIn(before, before[r])
        <3>1. \A o : NoLinks(o) = CutIn(objects, o)
            BY DEF NoLinks, CutIn, Tree
        <3> QED
            BY <1>0, <2>5, <3>1, PartlyCutFacts
    <2>7. DOMAIN objects = DOMAIN before
        BY <2>5 DEF PartlyCut
    <2>8. found = Reached([r \in DOMAIN objects |-> NoLinks(objects[r])], Starts(leaves[Len(needs) + 1]))
        <3>1. [r \in DOMAIN objects |-> NoLinks(objects[r])] = CutAll(before)
            BY <2>6, <2>7 DEF CutAll
        <3>2. Starts(p) = StartsIn(objects, p)
            BY DEF Starts, StartsIn, Tree
        <3>3. Starts(p) = StartsIn(before, p)
            BY <1>0, <2>3, <2>5, <3>2, StartsSame
        <3> QED
            BY <2>2, <2>3, <2>4, <3>1, <3>3 DEF FoundIn
    <2>9. /\ objects' = [r \in DOMAIN objects |-> IF r \in found THEN NoLinks(objects[r]) ELSE objects[r]]
          /\ needs' = Append(needs, found)
        BY <1>6, <2>8 DEF AnalysePage
    <2>10. found \subseteq DOMAIN before /\ found \cap TreeIn(before) = {}
        BY <1>0, <2>3, <2>4, FoundFacts
    <2>11. PICK h : h = objects' /\ PartlyCut(before, h) /\ \A r \in found : h[r] = CutIn(before, before[r])
        <3>1. PICK h : h = [r \in DOMAIN objects |-> IF r \in found THEN NoLinks(objects[r]) ELSE objects[r]]
            OBVIOUS
        <3>2. \A r \in found : h[r] = CutIn(before, before[r])
            BY <2>6, <2>7, <2>10, <3>1
        <3>3. \A r \in DOMAIN before \ found : h[r] = objects[r]
            BY <2>7, <3>1
        <3>4. DOMAIN h = DOMAIN before /\ h = [r \in DOMAIN h |-> h[r]]
            BY <2>7, <3>1
        <3>5. \A r \in DOMAIN before : h[r] = before[r] \/ h[r] = CutIn(before, before[r])
            <4>1. \A r \in DOMAIN before : objects[r] = before[r] \/ objects[r] = CutIn(before, before[r])
                BY <2>5 DEF PartlyCut
            <4> QED
                BY <3>2, <3>3, <4>1
        <3>6. \A r \in TreeIn(before) : h[r] = before[r]
            <4>1. \A r \in TreeIn(before) : objects[r] = before[r]
                BY <2>5 DEF PartlyCut
            <4>2. \A r \in TreeIn(before) : r \in DOMAIN before \ found
                BY <2>10 DEF TreeIn
            <4> QED
                BY <3>3, <4>1, <4>2
        <3>7. PartlyCut(before, h)
            BY <3>4, <3>5, <3>6 DEF PartlyCut
        <3> QED
            BY <2>9, <3>1, <3>2, <3>7
    <2>12. \A r \in DOMAIN before : objects[r] = CutIn(before, before[r]) => h[r] = CutIn(before, before[r])
        <3>1. \A r \in DOMAIN before : r \notin found => h[r] = objects[r]
            BY <2>7, <2>9, <2>11
        <3> QED
            BY <2>11, <3>1
    <2>13. PICK needs2 : needs2 = needs' /\ needs2 = Append(needs, found)
        BY <2>9
    <2>14. /\ needs2 \in Seq(SUBSET (DOMAIN before)) /\ Len(needs2) = n
           /\ needs2[n] = found /\ \A i \in 1..Len(needs) : needs2[i] = needs[i]
           /\ Len(needs) \in Nat
        BY <2>1, <2>2, <2>10, <2>13 DEF Analysing
    <2>15. \A i \in 1..Len(needs2) :
               /\ needs2[i] = FoundIn(before, leaves[i])
               /\ \A r \in needs2[i] : h[r] = CutIn(before, before[r])
        <3> SUFFICES ASSUME NEW i \in 1..Len(needs2)
                     PROVE  /\ needs2[i] = FoundIn(before, leaves[i])
                            /\ \A r \in needs2[i] : h[r] = CutIn(before, before[r])
            OBVIOUS
        <3>1. CASE i = n
            BY <2>3, <2>4, <2>11, <2>14, <3>1
        <3>2. CASE i # n
            <4>1. i \in 1..Len(needs) /\ needs2[i] = needs[i]
                BY <2>2, <2>14, <3>2
            <4>2. needs[i] = FoundIn(before, leaves[i]) /\ \A r \in needs[i] : r \in DOMAIN before /\ objects[r] = CutIn(before, before[r])
                BY <2>1, <4>1 DEF Analysing
            <4> QED
                BY <2>12, <4>1, <4>2
        <3> QED
            BY <3>1, <3>2
    <2>16. Made(before, h)
        BY <1>0, <2>11, PartlyCutFacts
    <2>17. Analysing'
        BY <2>1, <2>2, <2>11, <2>13, <2>14, <2>15 DEF Analysing
    <2> QED
        BY <1>0, <2>1, <2>11, <2>16, <2>17 DEF PdfInv
<1>7. CASE AnalyseAgain
    <2>1. stage = "analyse" /\ Analysing /\ needs' = <<>> /\ UNCHANGED <<before, objects, leaves, stage>>
        BY <1>7 DEF AnalyseAgain, PdfInv
    <2>2. <<>> \in Seq(SUBSET (DOMAIN before)) /\ Len(<<>>) = 0 /\ 1..0 = {}
        OBVIOUS
    <2>3. Len(leaves) \in Nat
        BY <2>1 DEF Analysing
    <2>4. Analysing'
        BY <2>1, <2>2, <2>3 DEF Analysing
    <2> QED
        BY <1>0, <2>1, <2>4 DEF PdfInv
<1>8. CASE UNCHANGED vars
    BY <1>8 DEF vars, PdfInv, Compressing, Analysing
<1> QED
    BY <1>1, <1>2, <1>3, <1>4, <1>5, <1>6, <1>7, <1>8 DEF Next

LEMMA AlwaysPdfInv == Spec => []PdfInv
<1> QED
    BY InitPdfInv, NextPdfInv, PTL DEF Spec
-----------------------------------------------------------------------------
(* compress.js (compressPdf): what is saved shows the same as what came, by *)
(* the same keys, whatever was kept once, redrawn or deleted, but for the   *)
(* keys of redrawn pictures that had a mask or a layer; no mask was redrawn. *)
THEOREM ShowsSame == Spec => []ShowsTheSame
<1>1. PdfInv => ShowsTheSame
    <2> SUFFICES ASSUME PdfInv, stage = "saved" PROVE ShowsTheSame
        BY DEF ShowsTheSame
    <2>1. IsPdf(before) /\ Made(before, objects) /\ Compressing
        BY DEF PdfInv
    <2>2. PICK R : Shows(R, before, objects)
        BY <2>1 DEF Compressing
    <2>3. \A m \in Masks \cap DOMAIN objects : ~objects[m].redrawn
        BY <2>1, MasksAre DEF Compressing, MasksKept
    <2>4. ASSUME NEW pair \in Same
          PROVE  /\ before[pair[1]].kind = objects[pair[2]].kind /\ before[pair[1]].data = objects[pair[2]].data
                 /\ DOMAIN objects[pair[2]].refs \subseteq DOMAIN before[pair[1]].refs
                 /\ \/ LostMask(pair[1], pair[2])
                    \/ DOMAIN before[pair[1]].refs \ DOMAIN objects[pair[2]].refs \subseteq Goes(pair[1], pair[2])
                 /\ \A k \in DOMAIN objects[pair[2]].refs :
                        before[pair[1]].refs[k] \in DOMAIN before => objects[pair[2]].refs[k] \in DOMAIN objects
        <3>1. PICK x \in DOMAIN before, y \in DOMAIN objects : pair = <<x, y>> /\ <<x, y>> \in R
            BY <2>1, <2>2, SameIsShown
        <3>2. pair[1] = x /\ pair[2] = y
            BY <3>1
        <3>3. Like(before[x], objects[y]) /\ Leads(R, before, objects, before[x], objects[y])
            BY <2>2, <3>1 DEF Shows
        <3>4. ~LostMask(x, y) => Goes(x, y) = GoesIn(before[x], objects[y])
            BY DEF Goes, GoesIn, LostMask
        <3> QED
            BY <3>2, <3>3, <3>4 DEF Like, Leads
    <2> QED
        BY <2>3, <2>4 DEF ShowsTheSame
<1> QED
    BY <1>1, AlwaysPdfInv, PTL

(* compress.js (collectGarbage): nothing is saved that is never shown, also *)
(* what only the pictures redrawn had used.                                 *)
THEOREM NothingUnusedSaved == Spec => []NothingUnused
<1>1. PdfInv => NothingUnused
    BY DEF PdfInv, Compressing, NothingUnused
<1> QED
    BY <1>1, AlwaysPdfInv, PTL

(* compress.js (keepOnce): two rounds leave no stream twice whose own       *)
(* objects refer to nothing.                                                *)
THEOREM StreamsKeptOnce == Spec => []KeptOnce
<1>1. PdfInv => KeptOnce
    <2> SUFFICES ASSUME PdfInv, stage = "redraw" PROVE KeptOnce
        BY DEF KeptOnce
    <2>1. AllOnce(before, objects)
        BY DEF PdfInv, Compressing
    <2>2. \A r, s : Alike(r, s) <=> AlikeIn(objects, r, s)
        BY DEF Alike, AlikeIn
    <2> QED
        BY <2>1, <2>2 DEF KeptOnce, AllOnce
<1> QED
    BY <1>1, AlwaysPdfInv, PTL

(* split.js (analyse): a page is copied with what was found for it and with *)
(* no other page, whichever pages were analysed before it or again.         *)
THEOREM PagesApart == Spec => []PagesKeepApart
<1>1. PdfInv => PagesKeepApart
    <2> SUFFICES ASSUME PdfInv, Analysed, NEW i \in 1..Len(leaves)
                 PROVE  Reached(objects, Starts(leaves[i])) = needs[i] /\ needs[i] \cap Tree = {}
        BY DEF PagesKeepApart
    <2>1. IsPdf(before) /\ Analysing /\ Len(needs) = Len(leaves)
        BY DEF PdfInv, Analysed
    <2>2. PICK p : p = leaves[i]
        OBVIOUS
    <2>3. IsLeaf(p, before) /\ PartlyCut(before, objects)
        BY <2>1, <2>2 DEF Analysing
    <2>4. needs[i] = FoundIn(before, p) /\ \A r \in needs[i] : objects[r] = CutIn(before, before[r])
        BY <2>1, <2>2 DEF Analysing
    <2>5. Reached(objects, StartsIn(objects, p)) = FoundIn(before, p)
        BY <2>1, <2>3, <2>4, FoundAsCut
    <2>6. Starts(p) = StartsIn(objects, p) /\ Tree = TreeIn(objects)
        BY DEF Starts, StartsIn, Tree
    <2>7. TreeIn(objects) = TreeIn(before) /\ FoundIn(before, p) \cap TreeIn(before) = {}
        BY <2>1, <2>3, PartlyCutFacts, FoundFacts
    <2> QED
        BY <2>2, <2>4, <2>5, <2>6, <2>7
<1> QED
    BY <1>1, AlwaysPdfInv, PTL

(* split.js (reach): an object keeps every key that does not lead into the  *)
(* page tree.                                                               *)
THEOREM LinksOnly == Spec => []OnlyLinksCut
<1>1. PdfInv => OnlyLinksCut
    <2> SUFFICES ASSUME PdfInv, stage = "analyse", NEW r \in DOMAIN before, NEW k \in DOMAIN before[r].refs,
                        before[r].refs[k] \notin Tree
                 PROVE  k \in DOMAIN objects[r].refs /\ objects[r].refs[k] = before[r].refs[k]
        BY DEF OnlyLinksCut
    <2>1. IsPdf(before) /\ PartlyCut(before, objects)
        BY DEF PdfInv, Analysing
    <2>2. Tree = TreeIn(before)
        BY <2>1, PartlyCutFacts DEF Tree
    <2>3. Shaped(before[r])
        BY <2>1, AsItCame DEF Made
    <2>4. objects[r] = before[r] \/ objects[r] = CutIn(before, before[r])
        BY <2>1 DEF PartlyCut
    <2> QED
        BY <2>2, <2>3, <2>4, CutFacts
<1> QED
    BY <1>1, AlwaysPdfInv, PTL
=============================================================================
