--------------------------- MODULE CompressorProofs ---------------------------
(***************************************************************************)
(* What Compressor promises, for any number of workers and pictures, and   *)
(* however many a drawer draws at once.                                    *)
(***************************************************************************)
EXTENDS Compressor, FiniteSetTheorems, WellFoundedInduction, TLAPS

(* A set of naturals has a least element.                                   *)
LEMMA LeastNatural ==
    ASSUME NEW T \in SUBSET Nat, T # {}
    PROVE  \E n \in T : \A m \in T : n <= m
<1> DEFINE S == {0 .. n : n \in T}
<1>1. S \subseteq FiniteSubsetsOf(Nat) /\ S # {}
    <2>1. \A n \in T : 0 .. n \in SUBSET Nat /\ IsFiniteSet(0 .. n)
        BY FS_Interval
    <2> QED
        BY <2>1 DEF FiniteSubsetsOf
<1>2. PICK s \in S : \A t \in S : ~(<<t, s>> \in StrictSubsetOrdering(Nat))
    BY <1>1, FS_StrictSubsetOrderingWellFounded, WFMin
<1>3. PICK n \in T : s = 0 .. n
    BY <1>2
<1> SUFFICES ASSUME NEW m \in T, m < n PROVE FALSE
    BY <1>3
<1>4. 0 .. m \in S /\ 0 .. m \subseteq s /\ 0 .. m # s
    BY <1>3
<1>5. <<0 .. m, s>> \in StrictSubsetOrdering(Nat)
    BY <1>3, <1>4 DEF StrictSubsetOrdering
<1> QED
    BY <1>2, <1>4, <1>5
-----------------------------------------------------------------------------
Places == AtWork \cup {"off", "ready", "pause", "out"}

Typed ==
    /\ phase \in {"prepare", "starting", "pictures", "packing", "saving", "done",
                  "cancelled", "failed"}
    /\ plan \in [1..Pictures -> {"keep", "read", "draw"}]
    /\ outcome \in [1..Pictures -> {"none", "kept", "redrawn"}]
    /\ next \in 1..(Pictures + 1)
    /\ pc \in [Runners -> Places]
    /\ at \in [Runners -> 0..Pictures]
    /\ on = [r \in Runners |-> on[r]]
    /\ mine \in [Runners -> Runners \cup {0}]
    /\ drawer \in Runners \cup {0}
    /\ waiting \in [Drawers -> Seq(Runners)]

(* A runner at work has a picture taken before, whose outcome is not known, *)
(* to itself ...                                                            *)
OwnPictures ==
    /\ \A r \in Runners : pc[r] \in AtWork => at[r] \in 1..(next - 1) /\ outcome[at[r]] = "none"
    /\ \A r, q \in Runners : pc[r] \in AtWork /\ pc[q] \in AtWork /\ at[r] = at[q] => r = q

(* ... and no picture taken is forgotten.                                   *)
Claimed ==
    /\ \A p \in next..Pictures : outcome[p] = "none"
    /\ \A p \in 1..(next - 1) :
        outcome[p] = "none" => \E r \in Runners : pc[r] \in AtWork /\ at[r] = p

(* There is a picture for every runner about to take one: at first each     *)
(* takes its own or a later runner's; after that one at a time looks.       *)
Turns ==
    \A r \in Runners : pc[r] = "ready" =>
        /\ next <= Pictures
        /\ (r <= Pictures /\ next <= r) \/ \A q \in Runners : pc[q] = "ready" => q = r

(* Jobs are out for who awaits them; who waits for a drawer waits once.     *)
Awaited ==
    /\ \A r \in Runners : on[r] # 0 => pc[r] \in {"reading", "encoding"}
    /\ \A r \in Runners : pc[r] \in {"waiting", "woken", "drawing", "rendering"} => mine[r] \in Drawers
    /\ \A d \in Drawers : \A i \in 1..Len(waiting[d]) :
           pc[waiting[d][i]] = "waiting" /\ mine[waiting[d][i]] = d
    /\ \A d \in Drawers : \A i, j \in 1..Len(waiting[d]) :
           waiting[d][i] = waiting[d][j] => i = j

(* Runners are at work only from start to end, and one of them until there  *)
(* are no more pictures.                                                    *)
Stages ==
    /\ phase \in {"prepare", "starting"} =>
           next = 1 /\ \A r \in Runners : pc[r] = "off" /\ at[r] = 0
    /\ phase = "pictures" /\ next <= Pictures => \E r \in Runners : pc[r] # "off"
    /\ phase \in {"packing", "saving", "done"} =>
           next = Pictures + 1 /\ \A r \in Runners : pc[r] = "off"

(* After Cancel only a runner that has had no picture yet takes one.        *)
Heeded == cancelled => \A r \in Runners : pc[r] = "ready" => at[r] = 0

IInv == Typed /\ OwnPictures /\ Claimed /\ Turns /\ Awaited /\ Stages /\ Heeded

USE CompressorAssumption

LEMMA InitIInv == Init => IInv
<1> SUFFICES ASSUME Init PROVE IInv
  OBVIOUS
<1>1. Typed
  BY DEF Init, Typed, Places, Runners, Drawers
<1>2. OwnPictures /\ Claimed /\ Turns /\ Stages /\ Heeded
  BY DEF Init, OwnPictures, Claimed, Turns, Stages, Heeded, AtWork, Runners
<1>3. Awaited
  BY DEF Init, Awaited, Runners, Drawers
<1> QED
  BY <1>1, <1>2, <1>3 DEF IInv

(* A picture taken by the runner whose turn it is. *)
LEMMA StepTake ==
    ASSUME IInv, NEW r \in Runners, Take(r)
    PROVE  IInv'
<1> DEFINE p == next
           to == CASE plan[next] = "keep" -> "pause"
                   [] plan[next] = "read" -> "ask"
                   [] plan[next] = "draw" -> "import"
<1>1. /\ pc[r] = "ready"
      /\ \A q \in Runners : q < r => pc[q] \notin {"ready", "ask"}
      /\ at' = [at EXCEPT ![r] = p] /\ next' = p + 1
      /\ pc' = [pc EXCEPT ![r] = to]
      /\ outcome' = IF plan[p] = "keep" THEN [outcome EXCEPT ![p] = "kept"] ELSE outcome
      /\ mine' = [mine EXCEPT ![r] = drawer]
      /\ UNCHANGED <<phase, cancelled, plan, on, drawer, waiting>>
  BY DEF Take, Turn, Runners, poolVars, drawerVars
<1>2. p \in 1..Pictures
  BY <1>1 DEF IInv, Typed, Turns
<1>3. to \in {"pause", "ask", "import"} /\ (to = "pause" <=> plan[p] = "keep")
  BY <1>2 DEF IInv, Typed
<1> HIDE DEF to, p
<1>4. Typed'
  BY <1>1, <1>2, <1>3 DEF IInv, Typed, Places, AtWork, p
<1>5. OwnPictures'
  <2>1. pc'[r] \in AtWork => at'[r] = p /\ outcome' = outcome /\ outcome[p] = "none"
    BY <1>1, <1>2, <1>3 DEF IInv, Typed, Claimed, AtWork, p
  <2>2. \A q \in Runners \ {r} :
            pc'[q] \in AtWork => /\ at'[q] = at[q] /\ at[q] \in 1..(p - 1)
                                /\ outcome'[at[q]] = "none"
    BY <1>1, <1>2, <1>3 DEF IInv, Typed, OwnPictures, p
  <2>3. \A q \in Runners \ {r} : pc'[q] = pc[q]
    BY <1>1 DEF IInv, Typed
  <2>4. \A q \in Runners :
            pc'[q] \in AtWork => at'[q] \in 1..(next' - 1) /\ outcome'[at'[q]] = "none"
    BY <1>1, <1>2, <2>1, <2>2 DEF p
  <2>5. \A q, s \in Runners :
            pc'[q] \in AtWork /\ pc'[s] \in AtWork /\ at'[q] = at'[s] => q = s
    BY <1>2, <2>1, <2>2, <2>3 DEF IInv, OwnPictures, p
  <2> QED
    BY <2>4, <2>5 DEF OwnPictures
<1>6. Claimed'
  <2>1. \A o \in next'..Pictures : outcome'[o] = "none"
    BY <1>1, <1>2 DEF IInv, Typed, Claimed, p
  <2>2. outcome'[p] = "none" => pc'[r] \in AtWork /\ at'[r] = p
    BY <1>1, <1>2, <1>3 DEF IInv, Typed, AtWork, p
  <2>3. ASSUME NEW o \in 1..(p - 1), outcome'[o] = "none"
        PROVE  \E q \in Runners : pc'[q] \in AtWork /\ at'[q] = o
    <3>1. PICK q \in Runners : pc[q] \in AtWork /\ at[q] = o
      BY <1>1, <1>2, <2>3 DEF IInv, Typed, Claimed, p
    <3>2. q # r
      BY <1>1, <3>1 DEF AtWork
    <3> QED
      BY <1>1, <3>1, <3>2 DEF IInv, Typed
  <2> QED
    BY <1>1, <1>2, <2>1, <2>2, <2>3 DEF Claimed, p
<1>7. Turns'
  <2> SUFFICES ASSUME NEW q \in Runners, pc'[q] = "ready"
               PROVE  next' <= Pictures /\ q <= Pictures /\ next' <= q
    BY DEF Turns
  <2>1. q # r /\ pc[q] = "ready"
    BY <1>1, <1>3 DEF IInv, Typed
  <2>2. r < q
    BY <1>1, <2>1 DEF Runners
  <2>3. next <= r /\ q <= Pictures
    BY <1>1, <2>1 DEF IInv, Turns
  <2> QED
    BY <1>1, <2>2, <2>3 DEF IInv, Typed, Runners, p
<1>8. Awaited'
  BY <1>1, <1>2, <1>3, SMTT(30) DEF IInv, Typed, Awaited, Places, AtWork, p
<1>9. Stages' /\ Heeded'
  <2>1. pc'[r] # "off" /\ pc'[r] # "ready" /\ phase' = phase
    BY <1>1, <1>3 DEF IInv, Typed
  <2>2. phase \notin {"prepare", "starting", "packing", "saving", "done"}
    BY <1>1, <1>2 DEF IInv, Stages, Typed, p
  <2>3. Heeded'
    BY <1>1, <1>3 DEF IInv, Typed, Heeded
  <2> QED
    BY <2>1, <2>2, <2>3 DEF Stages
<1> QED
  BY <1>4, <1>5, <1>6, <1>7, <1>8, <1>9 DEF IInv

-----------------------------------------------------------------------------
(* Runners that stay at work on their pictures disturb no other's.          *)
LEMMA StayAtWork ==
    ASSUME IInv,
           UNCHANGED <<phase, cancelled, outcome, next, at>>,
           \A q \in Runners : \/ pc'[q] = pc[q]
                              \/ pc[q] \in AtWork /\ pc'[q] \in AtWork
    PROVE  OwnPictures' /\ Claimed' /\ Turns' /\ Stages' /\ Heeded'
<1>1. \A q \in Runners : /\ pc'[q] \in AtWork <=> pc[q] \in AtWork
                         /\ pc'[q] = "ready" <=> pc[q] = "ready"
                         /\ pc'[q] = "off" <=> pc[q] = "off"
  BY DEF AtWork
<1>2. OwnPictures' /\ Claimed'
  BY <1>1 DEF IInv, OwnPictures, Claimed
<1>3. Turns'
  BY <1>1 DEF IInv, Turns
<1>4. Stages' /\ Heeded'
  BY <1>1 DEF IInv, Stages, Heeded
<1> QED
  BY <1>2, <1>3, <1>4

(* A job is sent off. *)
LEMMA StepSend ==
    ASSUME IInv, NEW r \in Runners, Ask(r) \/ Encode(r)
    PROVE  IInv'
<1> DEFINE until == IF pc[r] = "ask" THEN "reading" ELSE "encoding"
<1>1. /\ pc[r] \in {"ask", "bitmap"} /\ pc' = [pc EXCEPT ![r] = until]
      /\ UNCHANGED <<phase, cancelled, plan, outcome, next, at, mine, drawer, waiting>>
      /\ on' = on \/ on' = [on EXCEPT ![r] = LeastLoaded]
  BY DEF Ask, Encode, Send, pictureVars, drawerVars
<1>2. until \in {"reading", "encoding"}
  OBVIOUS
<1> HIDE DEF until
<1>3. Typed'
  BY <1>1, <1>2 DEF IInv, Typed, Places, AtWork
<1>4. OwnPictures' /\ Claimed' /\ Turns' /\ Stages' /\ Heeded'
  <2>1. \A q \in Runners : \/ pc'[q] = pc[q]
                           \/ pc[q] \in AtWork /\ pc'[q] \in AtWork
    BY <1>1, <1>2 DEF IInv, Typed, AtWork
  <2> QED
    BY <1>1, <2>1, StayAtWork
<1>5. Awaited'
  BY <1>1, <1>2 DEF IInv, Typed, Awaited
<1> QED
  BY <1>3, <1>4, <1>5 DEF IInv

(* A drawer entered, or waited for. *)
LEMMA EnterIInv ==
    ASSUME IInv, NEW r \in Runners, NEW d \in Drawers,
           pc[r] \in {"import", "woken"}, Enter(r, d),
           UNCHANGED <<phase, cancelled, plan, outcome, next, at, on>>,
           mine' = [mine EXCEPT ![r] = d], drawer' \in Runners \cup {0}
    PROVE  IInv'
<1>1. \/ /\ pc' = [pc EXCEPT ![r] = "waiting"]
         /\ waiting' = [waiting EXCEPT ![d] = Append(@, r)]
      \/ /\ pc' = [pc EXCEPT ![r] = "drawing"]
         /\ waiting' = waiting
  <2>1. CASE drawing[d] >= AtOnce
    BY <2>1 DEF Enter
  <2>2. CASE ~(drawing[d] >= AtOnce)
    BY <2>2 DEF Enter
  <2> QED
    BY <2>1, <2>2
<1>2. /\ pc'[r] \in {"waiting", "drawing"} /\ mine'[r] = d
      /\ \A q \in Runners \ {r} : pc'[q] = pc[q] /\ mine'[q] = mine[q]
  BY <1>1 DEF IInv, Typed
<1>3. Typed'
  <2>1. waiting' \in [Drawers -> Seq(Runners)]
    <3>1. waiting[d] \in Seq(Runners)
      BY DEF IInv, Typed
    <3>2. Append(waiting[d], r) \in Seq(Runners)
      BY <3>1
    <3> QED
      BY <1>1, <3>2 DEF IInv, Typed
  <2>2. pc' \in [Runners -> Places] /\ mine' \in [Runners -> Runners \cup {0}]
    BY <1>1 DEF IInv, Typed, Places, AtWork, Drawers
  <2> QED
    BY <2>1, <2>2 DEF IInv, Typed
<1>4. OwnPictures' /\ Claimed' /\ Turns' /\ Stages' /\ Heeded'
  <2>1. \A q \in Runners : \/ pc'[q] = pc[q]
                           \/ pc[q] \in AtWork /\ pc'[q] \in AtWork
    BY <1>1 DEF IInv, Typed, AtWork
  <2> QED
    BY <2>1, StayAtWork
<1>5. Awaited'
  <2>1. \A q \in Runners : on'[q] # 0 => pc'[q] \in {"reading", "encoding"}
    BY <1>2 DEF IInv, Awaited
  <2>2. \A q \in Runners :
           pc'[q] \in {"waiting", "woken", "drawing", "rendering"} => mine'[q] \in Drawers
    BY <1>2 DEF IInv, Awaited
  <2>3. \A c \in Drawers : \A i \in 1..Len(waiting[c]) :
            waiting[c][i] \in Runners /\ waiting[c][i] # r
    BY DEF IInv, Typed, Awaited
  <2>4. ASSUME NEW c \in Drawers
        PROVE  /\ \A i \in 1..Len(waiting'[c]) :
                      pc'[waiting'[c][i]] = "waiting" /\ mine'[waiting'[c][i]] = c
               /\ \A i, j \in 1..Len(waiting'[c]) : waiting'[c][i] = waiting'[c][j] => i = j
    <3>1. CASE waiting'[c] = waiting[c]
      BY <1>2, <2>3, <3>1 DEF IInv, Awaited
    <3>2. CASE waiting'[c] # waiting[c]
      <4>1. c = d /\ waiting'[c] = Append(waiting[c], r) /\ pc'[r] = "waiting"
        BY <1>1, <3>2 DEF IInv, Typed
      <4> DEFINE s == waiting[c]
                 n == Len(waiting[c])
      <4>2. s \in Seq(Runners) /\ n \in Nat
        BY DEF IInv, Typed
      <4>3. /\ \A i \in 1..n : pc[s[i]] = "waiting" /\ mine[s[i]] = c /\ s[i] \in Runners \ {r}
            /\ \A i, j \in 1..n : s[i] = s[j] => i = j
        BY <2>3 DEF IInv, Awaited
      <4>4. /\ Len(waiting'[c]) = n + 1
            /\ \A i \in 1..(n + 1) : waiting'[c][i] = IF i = n + 1 THEN r ELSE s[i]
        BY <4>1, <4>2
      <4> HIDE DEF s, n
      <4>5. \A i \in 1..(n + 1) : i = n + 1 \/ i \in 1..n
        BY <4>2
      <4> DEFINE t == waiting'[c]
      <4>6. \A i \in 1..(n + 1) : t[i] = r \/ (t[i] \in Runners \ {r} /\ pc[t[i]] = "waiting" /\ mine[t[i]] = c)
        BY <4>3, <4>4, <4>5
      <4>7. \A i, j \in 1..(n + 1) : t[i] = t[j] => i = j
        BY <4>3, <4>4, <4>5
      <4>8. Len(t) = n + 1
        BY <4>4
      <4> HIDE DEF t
      <4>9. \A i \in 1..Len(t) : pc'[t[i]] = "waiting" /\ mine'[t[i]] = c
        BY <1>2, <4>1, <4>6, <4>8
      <4> QED
        BY <4>7, <4>8, <4>9 DEF t
    <3> QED
      BY <3>1, <3>2
  <2> QED
    BY <2>1, <2>2, <2>4 DEF Awaited
<1> QED
  BY <1>3, <1>4, <1>5 DEF IInv

LEMMA StepEnter ==
    ASSUME IInv, NEW r \in Runners, Import(r) \/ Woken(r)
    PROVE  IInv'
<1>1. CASE Import(r) /\ mine[r] # 0
  <2>1. mine[r] \in Drawers /\ mine' = [mine EXCEPT ![r] = mine[r]]
    BY <1>1 DEF Import, IInv, Typed, Drawers
  <2> QED
    BY <1>1, <2>1, EnterIInv DEF Import, pictureVars, poolVars, IInv, Typed
<1>2. CASE Import(r) /\ mine[r] = 0
  BY <1>2, EnterIInv DEF Import, pictureVars, poolVars, IInv, Typed, Drawers
<1>3. CASE Woken(r)
  <2>1. mine[r] \in Drawers /\ mine' = [mine EXCEPT ![r] = mine[r]]
    BY <1>3 DEF Woken, IInv, Typed, Awaited
  <2> QED
    BY <1>3, <2>1, EnterIInv DEF Woken, pictureVars, poolVars, IInv, Typed
<1> QED
  BY <1>1, <1>2, <1>3 DEF Import

LEMMA StepOpenPdf ==
    ASSUME IInv, NEW r \in Runners, OpenPdf(r)
    PROVE  IInv'
<1>1. /\ pc[r] = "drawing" /\ pc' = [pc EXCEPT ![r] = "rendering"]
      /\ UNCHANGED <<phase, cancelled, plan, outcome, next, at, on, mine, drawer, waiting>>
  BY DEF OpenPdf, pictureVars, poolVars
<1>2. Typed' /\ Awaited'
  BY <1>1 DEF IInv, Typed, Awaited, Places, AtWork
<1>3. \A q \in Runners : \/ pc'[q] = pc[q]
                         \/ pc[q] \in AtWork /\ pc'[q] \in AtWork
  BY <1>1 DEF IInv, Typed, AtWork
<1> QED
  BY <1>1, <1>2, <1>3, StayAtWork DEF IInv
-----------------------------------------------------------------------------
(* Runners that are done with their pictures, each with an outcome.         *)
LEMMA PicturesDone ==
    ASSUME IInv,
           UNCHANGED <<cancelled, next, at>>, phase' = phase \/ phase' = "cancelled",
           \A q \in Runners : \/ pc'[q] = pc[q]
                              \/ pc[q] \in AtWork /\ pc'[q] \in AtWork
                              \/ pc[q] \in AtWork /\ pc'[q] = "pause" /\ outcome'[at[q]] # "none"
                              \/ pc[q] = "pause" /\ pc'[q] = "out",
           \A p \in 1..Pictures :
               \/ outcome'[p] = outcome[p]
               \/ \E q \in Runners : pc[q] \in AtWork /\ pc'[q] = "pause" /\ at[q] = p
    PROVE  OwnPictures' /\ Claimed' /\ Turns' /\ Stages' /\ Heeded'
<1>1. \A q \in Runners : /\ pc'[q] \in AtWork => pc[q] \in AtWork
                         /\ pc'[q] = "ready" <=> pc[q] = "ready"
                         /\ pc'[q] = "off" <=> pc[q] = "off"
  BY DEF AtWork
<1>2. "pause" \notin AtWork
  BY DEF AtWork
<1>3. OwnPictures'
  <2>1. ASSUME NEW r \in Runners, pc'[r] \in AtWork
        PROVE  at[r] \in 1..(next - 1) /\ outcome'[at[r]] = "none"
    <3>1. pc[r] \in AtWork /\ at[r] \in 1..(next - 1) /\ outcome[at[r]] = "none"
      BY <1>1, <2>1 DEF IInv, OwnPictures
    <3>2. at[r] \in 1..Pictures
      BY <3>1 DEF IInv, Typed
    <3>3. \A q \in Runners : pc[q] \in AtWork /\ at[q] = at[r] => q = r
      BY <3>1 DEF IInv, OwnPictures
    <3> QED
      BY <1>2, <2>1, <3>1, <3>2, <3>3
  <2> QED
    BY <1>1, <2>1 DEF IInv, OwnPictures
<1>4. Claimed'
  <2>1. ASSUME NEW p \in next..Pictures
        PROVE  outcome'[p] = "none"
    <3>1. p \in 1..Pictures /\ outcome[p] = "none"
      BY DEF IInv, Typed, Claimed
    <3>2. \A q \in Runners : pc[q] \in AtWork => at[q] # p
      BY DEF IInv, Typed, OwnPictures
    <3> QED
      BY <3>1, <3>2
  <2>2. ASSUME NEW p \in 1..(next - 1), outcome'[p] = "none"
        PROVE  \E q \in Runners : pc'[q] \in AtWork /\ at[q] = p
    <3>1. p \in 1..Pictures
      BY DEF IInv, Typed
    <3>2. outcome[p] = "none"
      BY <2>2, <3>1, <1>2
    <3>3. PICK q \in Runners : pc[q] \in AtWork /\ at[q] = p
      BY <3>2 DEF IInv, Claimed
    <3> QED
      BY <1>2, <2>2, <3>3
  <2> QED
    BY <2>1, <2>2 DEF Claimed
<1>5. Turns'
  BY <1>1 DEF IInv, Turns
<1>6. Stages' /\ Heeded'
  BY <1>1 DEF IInv, Stages, Heeded
<1> QED
  BY <1>3, <1>4, <1>5, <1>6

(* A drawer left, and the first who waits for it woken. *)
LEMMA LeaveWakes ==
    ASSUME IInv, NEW r \in Runners, NEW until \in {"bitmap", "pause"},
           pc[r] \in {"drawing", "rendering"}, Leave(r, until),
           UNCHANGED <<on, mine>>
    PROVE  /\ pc' \in [Runners -> Places] /\ waiting' \in [Drawers -> Seq(Runners)]
           /\ Awaited'
           /\ pc'[r] = until
           /\ \A q \in Runners \ {r} : \/ pc'[q] = pc[q]
                                       \/ pc[q] = "waiting" /\ pc'[q] = "woken"
<1> DEFINE d == mine[r]
<1>1. d \in Drawers /\ waiting[d] \in Seq(Runners)
  BY DEF IInv, Typed, Awaited
<1>2. CASE waiting[d] = <<>>
  <2>1. pc' = [pc EXCEPT ![r] = until] /\ waiting' = waiting
    BY <1>2 DEF Leave
  <2> QED
    BY <2>1 DEF IInv, Typed, Awaited, Places, AtWork
<1>3. CASE waiting[d] # <<>>
  <2> DEFINE s == waiting[d]
             n == Len(waiting[d])
             x == Head(waiting[d])
  <2>1. /\ n \in Nat \ {0} /\ x = s[1] /\ x \in Runners
        /\ Tail(s) \in Seq(Runners) /\ Len(Tail(s)) = n - 1
        /\ \A i \in 1..(n - 1) : Tail(s)[i] = s[i + 1]
    BY <1>1, <1>3
  <2>2. /\ pc' = [pc EXCEPT ![r] = until, ![x] = "woken"]
        /\ waiting' = [waiting EXCEPT ![d] = Tail(s)]
    BY <1>3 DEF Leave
  <2>3. \A c \in Drawers : /\ \A i \in 1..Len(waiting[c]) : /\ pc[waiting[c][i]] = "waiting"
                                                            /\ mine[waiting[c][i]] = c
                                                            /\ waiting[c][i] \in Runners
                           /\ \A i, j \in 1..Len(waiting[c]) : waiting[c][i] = waiting[c][j] => i = j
    BY DEF IInv, Typed, Awaited
  <2>4. pc[x] = "waiting" /\ mine[x] = d /\ x # r
    BY <1>1, <2>1, <2>3
  <2> HIDE DEF x
  <2>5. /\ pc' \in [Runners -> Places] /\ pc'[r] = until /\ pc'[x] = "woken"
        /\ \A q \in Runners \ {r, x} : pc'[q] = pc[q]
    BY <2>1, <2>2, <2>4 DEF IInv, Typed, Places, AtWork
  <2>6. waiting' \in [Drawers -> Seq(Runners)]
    BY <1>1, <2>1, <2>2 DEF IInv, Typed
  <2>7. ASSUME NEW c \in Drawers
        PROVE  /\ \A i \in 1..Len(waiting'[c]) : pc'[waiting'[c][i]] = "waiting" /\ mine[waiting'[c][i]] = c
               /\ \A i, j \in 1..Len(waiting'[c]) : waiting'[c][i] = waiting'[c][j] => i = j
    <3>1. CASE c # d
      <4>1. waiting'[c] = waiting[c]
        BY <2>2, <3>1 DEF IInv, Typed
      <4>2. \A i \in 1..Len(waiting[c]) : waiting[c][i] \in Runners \ {r, x}
        BY <2>3, <2>4, <3>1
      <4> QED
        BY <2>3, <2>5, <4>1, <4>2
    <3>2. CASE c = d
      <4>1. /\ \A i \in 1..n : pc[s[i]] = "waiting" /\ mine[s[i]] = d /\ s[i] \in Runners
            /\ \A i, j \in 1..n : s[i] = s[j] => i = j
        BY <1>1, <2>3
      <4> DEFINE t == waiting'[c]
      <4>2. t = Tail(s)
        BY <1>1, <2>2, <3>2 DEF IInv, Typed
      <4> HIDE DEF t
      <4>3. Len(t) = n - 1 /\ \A i \in 1..(n - 1) : t[i] = s[i + 1]
        BY <2>1, <4>2
      <4> HIDE DEF s, n, d
      <4>4. \A i \in 1..(n - 1) : i + 1 \in 1..n /\ i + 1 # 1
        BY <2>1
      <4>5. 1 \in 1..n
        BY <2>1
      <4>6. \A i \in 1..(n - 1) : t[i] \in Runners \ {r, x} /\ mine[t[i]] = d /\ pc[t[i]] = "waiting"
        BY <2>1, <4>1, <4>3, <4>4, <4>5
      <4>7. \A i, j \in 1..(n - 1) : t[i] = t[j] => i = j
        <5> SUFFICES ASSUME NEW i \in 1..(n - 1), NEW j \in 1..(n - 1), t[i] = t[j] PROVE i = j
          OBVIOUS
        <5>1. i + 1 = j + 1
          BY <4>1, <4>3, <4>4
        <5> QED
          BY <5>1, <2>1
      <4>8. \A i \in 1..Len(t) : pc'[t[i]] = "waiting" /\ mine[t[i]] = c
        BY <2>5, <3>2, <4>3, <4>6
      <4> QED
        BY <4>3, <4>7, <4>8 DEF t
    <3> QED
      BY <3>1, <3>2
  <2>8. /\ \A q \in Runners : on'[q] # 0 => pc'[q] \in {"reading", "encoding"}
        /\ \A q \in Runners :
              pc'[q] \in {"waiting", "woken", "drawing", "rendering"} => mine'[q] \in Drawers
    BY <1>1, <2>4, <2>5 DEF IInv, Awaited
  <2>9. Awaited'
    BY <2>7, <2>8 DEF Awaited
  <2> QED
    BY <2>4, <2>5, <2>6, <2>9
<1> QED
  BY <1>2, <1>3

(* No drawer could be made: as a job that fails, nobody else concerned.     *)
LEMMA StepImportFails ==
    ASSUME IInv, NEW r \in Runners, ImportFails(r)
    PROVE  IInv'
<1>1. /\ pc[r] = "import" /\ pc' = [pc EXCEPT ![r] = "pause"]
      /\ outcome' = [outcome EXCEPT ![at[r]] = "kept"]
      /\ UNCHANGED <<phase, cancelled, plan, next, at, on, mine, drawer, waiting>>
  BY DEF ImportFails, poolVars, drawerVars
<1>2. pc[r] \in AtWork /\ at[r] \in 1..Pictures
  BY <1>1 DEF IInv, Typed, OwnPictures, AtWork
<1>3. /\ pc'[r] = "pause" /\ outcome'[at[r]] = "kept"
      /\ \A q \in Runners \ {r} : pc'[q] = pc[q]
      /\ \A p \in 1..Pictures \ {at[r]} : outcome'[p] = outcome[p]
  BY <1>1, <1>2 DEF IInv, Typed
<1>4. Typed'
  BY <1>1, <1>2 DEF IInv, Typed, Places, AtWork
<1>5. OwnPictures' /\ Claimed' /\ Turns' /\ Stages' /\ Heeded'
  <2>1. \A q \in Runners : \/ pc'[q] = pc[q]
                           \/ pc[q] \in AtWork /\ pc'[q] \in AtWork
                           \/ pc[q] \in AtWork /\ pc'[q] = "pause" /\ outcome'[at[q]] # "none"
                           \/ pc[q] = "pause" /\ pc'[q] = "out"
    BY <1>2, <1>3
  <2>2. \A p \in 1..Pictures :
            \/ outcome'[p] = outcome[p]
            \/ \E q \in Runners : pc[q] \in AtWork /\ pc'[q] = "pause" /\ at[q] = p
    BY <1>2, <1>3
  <2> QED
    BY <1>1, <2>1, <2>2, PicturesDone
<1>6. Awaited'
  <2>1. \A q \in Runners :
            \/ pc'[q] = pc[q]
            \/ /\ pc[q] \notin {"waiting", "woken", "drawing", "rendering", "reading", "encoding"}
               /\ pc'[q] \notin {"waiting", "woken", "drawing", "rendering", "reading", "encoding"}
    BY <1>1, <1>3
  <2> QED
    BY <1>1, <2>1 DEF IInv, Typed, Awaited
<1> QED
  BY <1>4, <1>5, <1>6 DEF IInv

LEMMA StepLeave ==
    ASSUME IInv, NEW r \in Runners, Drawn(r) \/ NotDrawn(r)
    PROVE  IInv'
<1>1. CASE Drawn(r)
  <2>1. /\ pc[r] = "rendering" /\ Leave(r, "bitmap")
        /\ UNCHANGED <<phase, cancelled, plan, outcome, next, at, on, mine, drawer>>
    BY <1>1 DEF Drawn, pictureVars, poolVars
  <2>2. /\ pc' \in [Runners -> Places] /\ waiting' \in [Drawers -> Seq(Runners)] /\ Awaited'
        /\ pc'[r] = "bitmap"
        /\ \A q \in Runners \ {r} : pc'[q] = pc[q] \/ (pc[q] = "waiting" /\ pc'[q] = "woken")
    BY <2>1, LeaveWakes
  <2>3. \A q \in Runners : \/ pc'[q] = pc[q]
                           \/ pc[q] \in AtWork /\ pc'[q] \in AtWork
    BY <2>1, <2>2 DEF AtWork
  <2>4. Typed'
    BY <2>1, <2>2 DEF IInv, Typed
  <2> QED
    BY <2>1, <2>2, <2>3, <2>4, StayAtWork DEF IInv
<1>2. CASE NotDrawn(r)
  <2>1. /\ pc[r] \in {"drawing", "rendering"} /\ Leave(r, "pause")
        /\ outcome' = [outcome EXCEPT ![at[r]] = "kept"]
        /\ UNCHANGED <<phase, cancelled, plan, next, at, on, mine, drawer>>
    BY <1>2 DEF NotDrawn, poolVars
  <2>2. /\ pc' \in [Runners -> Places] /\ waiting' \in [Drawers -> Seq(Runners)] /\ Awaited'
        /\ pc'[r] = "pause"
        /\ \A q \in Runners \ {r} : pc'[q] = pc[q] \/ (pc[q] = "waiting" /\ pc'[q] = "woken")
    BY <2>1, LeaveWakes
  <2>3. pc[r] \in AtWork /\ at[r] \in 1..Pictures /\ outcome'[at[r]] = "kept"
    BY <2>1 DEF IInv, Typed, OwnPictures, AtWork
  <2>4. \A q \in Runners : \/ pc'[q] = pc[q]
                           \/ pc[q] \in AtWork /\ pc'[q] \in AtWork
                           \/ pc[q] \in AtWork /\ pc'[q] = "pause" /\ outcome'[at[q]] # "none"
                           \/ pc[q] = "pause" /\ pc'[q] = "out"
    BY <2>2, <2>3 DEF AtWork
  <2>5. \A p \in 1..Pictures :
            \/ outcome'[p] = outcome[p]
            \/ \E q \in Runners : pc[q] \in AtWork /\ pc'[q] = "pause" /\ at[q] = p
    BY <2>1, <2>2, <2>3 DEF IInv, Typed
  <2>6. Typed'
    BY <2>1, <2>2, <2>3 DEF IInv, Typed
  <2> QED
    BY <2>1, <2>2, <2>4, <2>5, <2>6, PicturesDone DEF IInv
<1> QED
  BY <1>1, <1>2
-----------------------------------------------------------------------------
LEMMA PictureOf ==
    ASSUME IInv, NEW r \in Runners, pc[r] \in AtWork
    PROVE  at[r] \in 1..Pictures
<1>1. at[r] \in 1..(next - 1) /\ next \in 1..(Pictures + 1)
  BY DEF IInv, Typed, OwnPictures
<1> QED
  BY <1>1

(* Runners that wait go on waiting for the same drawers. *)
LEMMA SameWaiting ==
    ASSUME IInv, waiting' = waiting,
           \A q \in Runners :
               /\ on'[q] # 0 => pc'[q] \in {"reading", "encoding"}
               /\ pc[q] \in {"waiting", "woken", "drawing", "rendering"} <=>
                     pc'[q] \in {"waiting", "woken", "drawing", "rendering"}
               /\ pc[q] = "waiting" <=> pc'[q] = "waiting"
               /\ pc[q] \in {"waiting", "woken", "drawing", "rendering"} => mine'[q] = mine[q]
    PROVE  Awaited'
<1>1. \A q \in Runners : /\ on'[q] # 0 => pc'[q] \in {"reading", "encoding"}
                         /\ pc'[q] \in {"waiting", "woken", "drawing", "rendering"} => mine'[q] \in Drawers
  BY DEF IInv, Awaited
<1>2. ASSUME NEW d \in Drawers
      PROVE  /\ \A i \in 1..Len(waiting[d]) : pc'[waiting[d][i]] = "waiting" /\ mine'[waiting[d][i]] = d
             /\ \A i, j \in 1..Len(waiting[d]) : waiting[d][i] = waiting[d][j] => i = j
  <2>1. waiting[d] \in Seq(Runners)
    BY DEF IInv, Typed
  <2>2. \A i \in 1..Len(waiting[d]) : waiting[d][i] \in Runners
    BY <2>1
  <2>3. /\ \A i \in 1..Len(waiting[d]) : pc[waiting[d][i]] = "waiting" /\ mine[waiting[d][i]] = d
        /\ \A i, j \in 1..Len(waiting[d]) : waiting[d][i] = waiting[d][j] => i = j
    BY DEF IInv, Awaited
  <2> QED
    BY <2>2, <2>3
<1> QED
  BY <1>1, <1>2 DEF Awaited

(* Jobs that came back. *)
LEMMA BackIInv ==
    ASSUME IInv, NEW rs \in SUBSET Runners, NEW a \in {"smaller", "no gain", "error"},
           \A q \in rs : pc[q] \in {"reading", "encoding"}, Back(rs, a),
           UNCHANGED <<phase, cancelled, plan, next, at, drawer, waiting>>
    PROVE  IInv'
<1> DEFINE failed == {q \in rs : a = "error" /\ pc[q] = "reading"}
<1>1. /\ pc' = [q \in Runners |-> IF q \in failed THEN "import" ELSE IF q \in rs THEN "pause" ELSE pc[q]]
      /\ mine' = [q \in Runners |-> IF q \in failed THEN drawer ELSE mine[q]]
      /\ on' = [q \in Runners |-> IF q \in rs THEN 0 ELSE on[q]]
      /\ outcome' = [p \in 1..Pictures |-> IF \E q \in rs \ failed : at[q] = p
                                           THEN IF a = "smaller" THEN "redrawn" ELSE "kept"
                                           ELSE outcome[p]]
  BY DEF Back
<1>2. Typed'
  BY <1>1 DEF IInv, Typed, Places, AtWork
<1>3. Awaited'
  <2>1. \A q \in Runners : /\ on'[q] # 0 => pc'[q] \in {"reading", "encoding"}
                           /\ pc[q] \in {"waiting", "woken", "drawing", "rendering"} <=>
                                 pc'[q] \in {"waiting", "woken", "drawing", "rendering"}
                           /\ pc[q] = "waiting" <=> pc'[q] = "waiting"
                           /\ pc[q] \in {"waiting", "woken", "drawing", "rendering"} => mine'[q] = mine[q]
    BY <1>1 DEF IInv, Awaited
  <2> QED
    BY <2>1, SameWaiting
<1>4. \A q \in Runners : \/ pc'[q] = pc[q]
                         \/ pc[q] \in AtWork /\ pc'[q] \in AtWork
                         \/ pc[q] \in AtWork /\ pc'[q] = "pause" /\ outcome'[at[q]] # "none"
                         \/ pc[q] = "pause" /\ pc'[q] = "out"
  <2> SUFFICES ASSUME NEW q \in rs
               PROVE  \/ pc[q] \in AtWork /\ pc'[q] \in AtWork
                      \/ pc[q] \in AtWork /\ pc'[q] = "pause" /\ outcome'[at[q]] # "none"
    BY <1>1
  <2>1. q \in Runners /\ pc[q] \in AtWork
    BY DEF AtWork
  <2>2. at[q] \in 1..Pictures
    BY <2>1, PictureOf
  <2>3. CASE q \in failed
    BY <1>1, <2>1, <2>3 DEF AtWork
  <2>4. CASE q \notin failed
    <3>1. pc'[q] = "pause"
      BY <1>1, <2>1, <2>4
    <3>2. outcome'[at[q]] \in {"redrawn", "kept"}
      BY <1>1, <2>2, <2>4
    <3> QED
      BY <2>1, <3>1, <3>2
  <2> QED
    BY <2>3, <2>4
<1>5. \A p \in 1..Pictures :
          \/ outcome'[p] = outcome[p]
          \/ \E q \in Runners : pc[q] \in AtWork /\ pc'[q] = "pause" /\ at[q] = p
  BY <1>1 DEF AtWork
<1>6. OwnPictures' /\ Claimed' /\ Turns' /\ Stages' /\ Heeded'
  BY <1>4, <1>5, PicturesDone
<1> QED
  BY <1>2, <1>3, <1>6 DEF IInv

LEMMA StepBack ==
    ASSUME IInv, (\E r \in Runners : Answer(r)) \/ (\E w \in Workers : WorkerError(w))
    PROVE  IInv'
<1>1. ASSUME NEW r \in Runners, Answer(r)
      PROVE  IInv'
  <2>1. PICK a \in {"smaller", "no gain", "error"} : Back({r}, a)
    BY <1>1 DEF Answer
  <2>2. \A q \in {r} : pc[q] \in {"reading", "encoding"}
    BY <1>1 DEF Answer
  <2>3. UNCHANGED <<phase, cancelled, plan, next, at, drawer, waiting>>
    BY <1>1 DEF Answer, drawerVars
  <2>4. {r} \in SUBSET Runners
    OBVIOUS
  <2> QED
    BY <2>1, <2>2, <2>3, <2>4, BackIInv
<1>2. ASSUME NEW w \in Workers, WorkerError(w)
      PROVE  IInv'
  <2> DEFINE rs == {r \in Runners : on[r] = w}
  <2>1. \A q \in rs : pc[q] \in {"reading", "encoding"}
    BY DEF IInv, Awaited, Workers
  <2>2. Back(rs, "error") /\ UNCHANGED <<phase, cancelled, plan, next, at, drawer, waiting>>
    BY <1>2 DEF WorkerError, drawerVars
  <2> HIDE DEF rs
  <2>3. rs \in SUBSET Runners
    BY DEF rs
  <2> QED
    BY <2>1, <2>2, <2>3, BackIInv
<1> QED
  BY <1>1, <1>2
-----------------------------------------------------------------------------
(* On to the next picture. *)
LEMMA StepGoOn ==
    ASSUME IInv, NEW r \in Runners, GoOn(r)
    PROVE  IInv'
<1>1. /\ Quiet /\ pc[r] = "pause" /\ ~cancelled
      /\ pc' = [pc EXCEPT ![r] = IF next <= Pictures THEN "ready" ELSE "off"]
      /\ UNCHANGED <<phase, cancelled, plan, outcome, next, at, on, mine, drawer, waiting>>
  BY DEF GoOn, pictureVars, poolVars, drawerVars
<1>2. /\ \A q \in Runners : pc[q] # "ready"
      /\ \A q \in Runners \ {r} : pc'[q] = pc[q]
      /\ pc'[r] = IF next <= Pictures THEN "ready" ELSE "off"
  BY <1>1 DEF IInv, Typed, Quiet
<1>3. Typed'
  BY <1>1 DEF IInv, Typed, Places
<1>4. \A q \in Runners : pc'[q] \in AtWork <=> pc[q] \in AtWork
  BY <1>1, <1>2 DEF AtWork
<1>5. OwnPictures' /\ Claimed'
  BY <1>1, <1>4 DEF IInv, OwnPictures, Claimed
<1>6. Turns'
  BY <1>1, <1>2 DEF Turns
<1>10. /\ \A q \in Runners : pc'[q] = pc[q] \/ (pc[q] = "pause" /\ pc'[q] \in {"ready", "off"})
       /\ \A q \in Runners : on[q] # 0 => pc[q] \in {"reading", "encoding"}
  BY <1>1, <1>2 DEF IInv, Awaited
<1>7. Awaited'
  BY <1>1, <1>10, SameWaiting
<1>8. Stages'
  BY <1>1, <1>2 DEF IInv, Stages
<1>9. Heeded'
  BY <1>1 DEF Heeded
<1> QED
  BY <1>3, <1>5, <1>6, <1>7, <1>8, <1>9 DEF IInv

(* Cancel is noticed. *)
LEMMA StepNotice ==
    ASSUME IInv, NEW r \in Runners, Notice(r)
    PROVE  IInv'
<1> DEFINE asked == {q \in Runners : on[q] # 0}
<1>1. /\ pc[r] = "pause"
      /\ UNCHANGED <<cancelled, plan, next, at, drawer, waiting>>
  BY DEF Notice
<1>2. \A q \in asked : pc[q] \in {"reading", "encoding"} /\ q # r
  BY <1>1 DEF IInv, Awaited
<1>3. CASE phase = "pictures"
  <2>1. /\ phase' = "cancelled"
        /\ pc' = [q \in Runners |-> IF q = r THEN "out"
                                    ELSE IF q \notin asked THEN pc[q]
                                    ELSE IF pc[q] = "reading" THEN "import" ELSE "pause"]
        /\ mine' = [q \in Runners |-> IF q \in asked /\ pc[q] = "reading" THEN drawer ELSE mine[q]]
        /\ on' = [q \in Runners |-> 0]
        /\ outcome' = [p \in 1..Pictures |->
                          IF \E q \in asked : at[q] = p /\ pc[q] = "encoding" THEN "kept" ELSE outcome[p]]
    BY <1>3 DEF Notice
  <2> HIDE DEF asked
  <2>2. Typed'
    BY <1>1, <1>2, <2>1 DEF IInv, Typed, Places, AtWork
  <2>3. Awaited'
    <3>1. \A q \in Runners :
             /\ on'[q] # 0 => pc'[q] \in {"reading", "encoding"}
             /\ pc[q] \in {"waiting", "woken", "drawing", "rendering"} <=>
                   pc'[q] \in {"waiting", "woken", "drawing", "rendering"}
             /\ pc[q] = "waiting" <=> pc'[q] = "waiting"
             /\ pc[q] \in {"waiting", "woken", "drawing", "rendering"} => mine'[q] = mine[q]
      BY <1>1, <1>2, <2>1
    <3> QED
      BY <1>1, <3>1, SameWaiting
  <2>4. \A q \in Runners : \/ pc'[q] = pc[q]
                           \/ pc[q] \in AtWork /\ pc'[q] \in AtWork
                           \/ pc[q] \in AtWork /\ pc'[q] = "pause" /\ outcome'[at[q]] # "none"
                           \/ pc[q] = "pause" /\ pc'[q] = "out"
    <3> SUFFICES ASSUME NEW q \in Runners, q \in asked
                 PROVE  \/ pc[q] \in AtWork /\ pc'[q] \in AtWork
                        \/ pc[q] \in AtWork /\ pc'[q] = "pause" /\ outcome'[at[q]] # "none"
      BY <1>1, <2>1
    <3>1. pc[q] \in AtWork /\ at[q] \in 1..Pictures
      BY <1>2, PictureOf DEF AtWork
    <3>2. CASE pc[q] = "reading"
      BY <1>2, <2>1, <3>1, <3>2 DEF AtWork
    <3>3. CASE pc[q] = "encoding"
      BY <1>2, <2>1, <3>1, <3>3
    <3> QED
      BY <1>2, <3>2, <3>3
  <2>5. \A p \in 1..Pictures :
            \/ outcome'[p] = outcome[p]
            \/ \E q \in Runners : pc[q] \in AtWork /\ pc'[q] = "pause" /\ at[q] = p
    <3> SUFFICES ASSUME NEW p \in 1..Pictures, NEW q \in asked, at[q] = p, pc[q] = "encoding"
                 PROVE  q \in Runners /\ pc[q] \in AtWork /\ pc'[q] = "pause"
      BY <2>1
    <3> QED
      BY <1>2, <2>1 DEF asked, AtWork
  <2>6. OwnPictures' /\ Claimed' /\ Turns' /\ Stages' /\ Heeded'
    BY <1>1, <2>1, <2>4, <2>5, PicturesDone
  <2> QED
    BY <2>2, <2>3, <2>6 DEF IInv
<1>4. CASE phase # "pictures"
  <2>1. pc' = [pc EXCEPT ![r] = "out"] /\ UNCHANGED <<phase, mine, on, outcome>>
    BY <1>4 DEF Notice
  <2>2. /\ pc'[r] = "out" /\ \A q \in Runners \ {r} : pc'[q] = pc[q]
    BY <2>1 DEF IInv, Typed
  <2>3. Typed'
    BY <1>1, <2>1 DEF IInv, Typed, Places
  <2>4. Awaited'
    BY <1>1, <2>1, <2>2, SameWaiting DEF IInv, Awaited
  <2>5. OwnPictures' /\ Claimed' /\ Turns' /\ Stages' /\ Heeded'
    BY <1>1, <2>1, <2>2, PicturesDone
  <2> QED
    BY <2>3, <2>4, <2>5 DEF IInv
<1> QED
  BY <1>3, <1>4
-----------------------------------------------------------------------------
(* What leaves the pictures and the runners alone. *)
LEMMA SameRunners ==
    ASSUME IInv, UNCHANGED <<plan, outcome, next, pc, at, on, mine, drawer, waiting>>
    PROVE  OwnPictures' /\ Claimed' /\ Turns' /\ Awaited'
BY DEF IInv, OwnPictures, Claimed, Turns, Awaited

(* The workers started, the runners take their first pictures. *)
LEMMA StepStarted ==
    ASSUME IInv, Started
    PROVE  IInv'
<1>1. /\ phase = "starting" /\ phase' = "pictures"
      /\ pc' \in [Runners -> {"ready", "off"}]
      /\ \A r \in Runners : pc'[r] = "ready" => r <= Pictures
      /\ pc'[1] = "ready" /\ 1 \in Runners
      /\ UNCHANGED <<cancelled, plan, outcome, next, at, on, mine, drawer, waiting>>
  BY DEF Started, pictureVars, drawerVars, Runners
<1>2. next = 1 /\ \A r \in Runners : pc[r] = "off" /\ at[r] = 0
  BY <1>1 DEF IInv, Stages
<1>3. Typed'
  BY <1>1 DEF IInv, Typed, Places
<1>4. OwnPictures' /\ Claimed'
  BY <1>1, <1>2 DEF IInv, OwnPictures, Claimed, AtWork
<1>5. Turns'
  BY <1>1, <1>2 DEF Turns, Runners
<1>6. Awaited'
  BY <1>1, <1>2, SameWaiting DEF IInv, Awaited
<1>7. Stages' /\ Heeded'
  BY <1>1, <1>2 DEF Stages, Heeded
<1> QED
  BY <1>3, <1>4, <1>5, <1>6, <1>7 DEF IInv

(* The other steps of the compression as a whole. *)
LEMMA StepGo ==
    ASSUME IInv, Prepare \/ AllTaken \/ Pack \/ Save \/ Stop \/ Cancel \/ UNCHANGED vars
    PROVE  IInv'
<1>1. UNCHANGED <<plan, outcome, next, pc, at, on, mine, drawer, waiting>>
  BY DEF Prepare, AllTaken, Pack, Save, Stop, Cancel, vars, pictureVars, poolVars, drawerVars
<1>2. OwnPictures' /\ Claimed' /\ Turns' /\ Awaited'
  BY <1>1, SameRunners
<1>3. Typed'
  <2>1. phase' \in {"starting", "packing", "saving", "done", "cancelled", "failed", phase}
    BY DEF Prepare, AllTaken, Pack, Save, Stop, Cancel, vars
  <2> QED
    BY <1>1, <2>1 DEF IInv, Typed
<1>4. Stages'
  <2>1. \/ phase = "prepare" /\ phase' = "starting"
        \/ phase = "pictures" /\ phase' = "packing" /\ \A r \in Runners : pc[r] = "off"
        \/ phase = "packing" /\ phase' = "saving"
        \/ phase = "saving" /\ phase' = "done"
        \/ phase' \in {"cancelled", "failed"}
        \/ phase' = phase
    BY DEF Prepare, AllTaken, Pack, Save, Stop, Cancel, vars
  <2>2. next \in 1..(Pictures + 1)
    BY DEF IInv, Typed
  <2> QED
    BY <1>1, <2>1, <2>2 DEF IInv, Stages
<1>5. Heeded'
  <2>1. CASE Cancel
    BY <1>1, <2>1 DEF Cancel, Quiet, Heeded
  <2>2. CASE ~Cancel
    <3>1. cancelled' = cancelled
      BY <2>2 DEF Prepare, AllTaken, Pack, Save, Stop, vars
    <3> QED
      BY <1>1, <3>1 DEF IInv, Heeded
  <2> QED
    BY <2>1, <2>2
<1> QED
  BY <1>2, <1>3, <1>4, <1>5 DEF IInv

LEMMA StepIInv == IInv /\ [Next]_vars => IInv'
<1> SUFFICES ASSUME IInv, [Next]_vars PROVE IInv'
  OBVIOUS
<1>1. ASSUME NEW r \in Runners, Advance(r) PROVE IInv'
  BY <1>1, StepTake, StepSend, StepBack, StepEnter, StepImportFails, StepOpenPdf, StepLeave, StepGoOn, StepNotice
     DEF Advance
<1>2. CASE Go
  BY <1>2, StepStarted, StepGo DEF Go
<1>3. CASE \E w \in Workers : WorkerError(w)
  BY <1>3, StepBack
<1>4. CASE Cancel \/ UNCHANGED vars
  BY <1>4, StepGo
<1> QED
  BY <1>1, <1>2, <1>3, <1>4 DEF Next

(* The strengthening holds in every reachable state. *)
THEOREM Inductive == Spec => []IInv
BY InitIInv, StepIInv, PTL DEF Spec

(* A picture is at one runner only and its outcome is not given twice, and  *)
(* what is packed and saved has every picture done and nobody at work: for  *)
(* any number of workers and pictures, whatever fails and whenever.         *)
THEOREM PicturesOnce == Spec => []EveryPictureOnce
<1>1. IInv => EveryPictureOnce
  <2> SUFFICES ASSUME IInv PROVE EveryPictureOnce
    OBVIOUS
  <2>1. ASSUME phase \in {"packing", "saving", "done"}
        PROVE  (\A p \in 1..Pictures : outcome[p] # "none") /\ \A r \in Runners : pc[r] = "off"
    <3>1. next = Pictures + 1 /\ \A r \in Runners : pc[r] = "off"
      BY <2>1 DEF IInv, Stages
    <3>2. \A p \in 1..Pictures : p \in 1..(next - 1)
      BY <3>1
    <3> QED
      BY <3>1, <3>2 DEF IInv, Claimed, AtWork
  <2> QED
    BY <2>1 DEF IInv, OwnPictures, EveryPictureOnce
<1> QED
  BY <1>1, Inductive, PTL

(* After Cancel no runner that has had a picture takes another.             *)
THEOREM CancelIsAlwaysHeeded == Spec => CancelIsHeeded
<1>1. ASSUME IInv, [Next]_vars
      PROVE  [cancelled => \A r \in Runners : at[r] # 0 => at'[r] = at[r]]_vars
  <2>1. CASE \E r \in Runners : Take(r)
    <3>1. PICK r \in Runners : Take(r)
      BY <2>1
    <3>2. cancelled => at[r] = 0
      BY <1>1, <3>1 DEF Take, IInv, Heeded
    <3> QED
      BY <1>1, <3>1, <3>2 DEF Take, IInv, Typed
  <2>2. CASE ~\E r \in Runners : Take(r)
    <3>1. at' = at
      BY <1>1, <2>2 DEF Next, Go, Advance, Prepare, Started, AllTaken, Pack, Save, Stop, Cancel, Ask,
         Answer, WorkerError, Import, ImportFails, Woken, OpenPdf, Drawn, NotDrawn, Encode, GoOn, Notice, vars
    <3> QED
      BY <3>1
  <2> QED
    BY <2>1, <2>2
<1> QED
  BY <1>1, Inductive, PTL DEF Spec, CancelIsHeeded
-----------------------------------------------------------------------------
(* The pool: jobs counted for each worker *)

(* There is a first of the least loaded. *)
LEMMA LeastLoadedWorks ==
    ASSUME load \in [Workers -> Nat]
    PROVE  LeastLoaded \in Workers
<1>1. PICK n \in {load[w] : w \in Workers} : \A m \in {load[w] : w \in Workers} : n <= m
  <2>1. {load[w] : w \in Workers} \in SUBSET Nat
    OBVIOUS
  <2>2. 1 \in Workers
    BY DEF Workers
  <2> HIDE DEF Workers
  <2>3. {load[w] : w \in Workers} # {}
    BY <2>2
  <2> QED
    BY <2>1, <2>3, LeastNatural
<1>2. PICK w \in {v \in Workers : load[v] = n} : \A v \in {v \in Workers : load[v] = n} : w <= v
  <2>1. {v \in Workers : load[v] = n} \in SUBSET Nat
    BY DEF Workers
  <2>2. {v \in Workers : load[v] = n} # {}
    BY <1>1
  <2> QED
    BY <2>1, <2>2, LeastNatural
<1>3. /\ \A v \in Workers : load[w] <= load[v]
      /\ \A v \in 1..(w - 1) : load[v] > load[w]
  <2>1. \A v \in Workers : load[v] \in Nat /\ load[w] <= load[v] /\ (load[v] = n => w <= v)
    BY <1>1, <1>2
  <2>2. \A v \in 1..(w - 1) : v \in Workers /\ ~(w <= v)
    BY <1>2 DEF Workers
  <2> QED
    BY <1>2, <2>1, <2>2
<1> QED
  BY <1>2, <1>3 DEF LeastLoaded

Jobs(w) == {r \in Runners : on[r] = w}

(* Jobs are sent to workers, and counted until they come back.              *)
Loads ==
    /\ load \in [Workers -> Nat]
    /\ on \in [Runners -> Workers \cup {0}]
    /\ phase \in {"prepare", "starting"} => \A w \in Workers : load[w] = 0
    /\ phase = "pictures" => \A w \in Workers : load[w] = Cardinality(Jobs(w))

LEMMA RunnersAreFew ==
    ASSUME NEW S \in SUBSET Runners
    PROVE  IsFiniteSet(S) /\ Cardinality(S) \in Nat
<1>1. W \in Nat /\ 2 * W \in Int /\ 1 \in Int
  OBVIOUS
<1>2. IsFiniteSet(Runners)
  BY <1>1, FS_Interval DEF Runners
<1>3. IsFiniteSet(S)
  BY <1>2, FS_Subset
<1> QED
  BY <1>3, FS_CardinalityType

LEMMA NobodyAsked ==
    ASSUME \A r \in Runners : on[r] = 0
    PROVE  \A w \in Workers : Cardinality(Jobs(w)) = 0
<1>1. \A w \in Workers : Jobs(w) = {}
  BY DEF Jobs, Workers
<1> QED
  BY <1>1, FS_EmptySet

(* A job sent is counted for the worker it went to. *)
LEMMA SendLoads ==
    ASSUME IInv, Loads, NEW r \in Runners, Ask(r) \/ Encode(r)
    PROVE  Loads'
<1>1. /\ on[r] = 0 /\ phase' = phase /\ phase \notin {"prepare", "starting"}
      /\ \/ UNCHANGED <<on, load>>
         \/ /\ on' = [on EXCEPT ![r] = LeastLoaded]
            /\ load' = [load EXCEPT ![LeastLoaded] = @ + 1]
  BY DEF Ask, Encode, Send, IInv, Awaited, Stages
<1>2. CASE UNCHANGED <<on, load>>
  BY <1>1, <1>2 DEF Loads, Jobs
<1>3. CASE on' = [on EXCEPT ![r] = LeastLoaded] /\ load' = [load EXCEPT ![LeastLoaded] = @ + 1]
  <2>1. PICK x \in Workers : x = LeastLoaded
    BY LeastLoadedWorks DEF Loads
  <2>2. on' = [on EXCEPT ![r] = x] /\ load' = [load EXCEPT ![x] = @ + 1]
    BY <1>3, <2>1
  <2>3. on' \in [Runners -> Workers \cup {0}] /\ load' \in [Workers -> Nat]
    BY <2>1, <2>2 DEF Loads
  <2>4. Jobs(x)' = Jobs(x) \cup {r} /\ r \notin Jobs(x)
    BY <1>1, <2>1, <2>2 DEF Loads, Jobs, Workers
  <2>5. Cardinality(Jobs(x)') = Cardinality(Jobs(x)) + 1
    <3>1. IsFiniteSet(Jobs(x))
      BY RunnersAreFew DEF Jobs
    <3> QED
      BY <2>4, <3>1, FS_AddElement
  <2>6. \A w \in Workers \ {x} : Jobs(w)' = Jobs(w) /\ load'[w] = load[w]
    BY <1>1, <2>1, <2>2 DEF Loads, Jobs, Workers
  <2>7. load'[x] = load[x] + 1
    BY <2>1, <2>2 DEF Loads
  <2> QED
    BY <1>1, <2>1, <2>3, <2>5, <2>6, <2>7 DEF Loads
<1> QED
  BY <1>1, <1>2, <1>3

(* An answer is counted off. *)
LEMMA AnswerLoads ==
    ASSUME IInv, Loads, NEW r \in Runners, Answer(r)
    PROVE  Loads'
<1>1. /\ phase = "pictures" /\ phase' = phase
      /\ on' = [q \in Runners |-> IF q = r THEN 0 ELSE on[q]]
      /\ load' = IF on[r] = 0 THEN load ELSE [load EXCEPT ![on[r]] = @ - 1]
  BY DEF Answer, Back
<1> DEFINE x == on[r]
<1>2. \A w \in Workers : Jobs(w)' = Jobs(w) \ {r}
  BY <1>1 DEF Jobs, Workers
<1>3. \A w \in Workers : /\ IsFiniteSet(Jobs(w)) /\ Cardinality(Jobs(w)) \in Nat
                         /\ Cardinality(Jobs(w)') \in Nat
                         /\ Cardinality(Jobs(w)') =
                                IF w = x THEN Cardinality(Jobs(w)) - 1 ELSE Cardinality(Jobs(w))
  <2> SUFFICES ASSUME NEW w \in Workers
               PROVE  /\ IsFiniteSet(Jobs(w)) /\ Cardinality(Jobs(w)) \in Nat
                      /\ Cardinality(Jobs(w)') \in Nat
                      /\ Cardinality(Jobs(w)') =
                             IF w = x THEN Cardinality(Jobs(w)) - 1 ELSE Cardinality(Jobs(w))
    OBVIOUS
  <2>1. Jobs(w) \in SUBSET Runners /\ Jobs(w)' \in SUBSET Runners
    BY DEF Jobs
  <2>2. IsFiniteSet(Jobs(w)) /\ Cardinality(Jobs(w)) \in Nat /\ Cardinality(Jobs(w)') \in Nat
    BY <2>1, RunnersAreFew
  <2>3. r \in Jobs(w) <=> w = x
    BY DEF Jobs
  <2> QED
    BY <1>2, <2>2, <2>3, FS_RemoveElement
<1> HIDE DEF x
<1>4. \A w \in Workers : load'[w] = IF w = x THEN load[w] - 1 ELSE load[w]
  BY <1>1 DEF Loads, Workers, x
<1>5. /\ on' \in [Runners -> Workers \cup {0}]
      /\ \A w \in Workers : load'[w] = Cardinality(Jobs(w)')
  BY <1>1, <1>3, <1>4 DEF Loads
<1>6. load' \in [Workers -> Nat]
  <2>1. load' = [w \in Workers |-> load'[w]]
    BY <1>1 DEF Loads
  <2> QED
    BY <1>3, <1>5, <2>1
<1> QED
  BY <1>1, <1>5, <1>6 DEF Loads

(* A worker that failed has nothing left to do. *)
LEMMA ErrorLoads ==
    ASSUME IInv, Loads, NEW x \in Workers, WorkerError(x)
    PROVE  Loads'
<1>1. /\ phase = "pictures" /\ phase' = phase
      /\ on' = [q \in Runners |-> IF q \in Jobs(x) THEN 0 ELSE on[q]]
      /\ load' = [load EXCEPT ![x] = @ - Cardinality(Jobs(x))]
  BY DEF WorkerError, Back, Jobs
<1>2. Jobs(x)' = {} /\ \A w \in Workers \ {x} : Jobs(w)' = Jobs(w)
  BY <1>1 DEF Jobs, Workers
<1>3. load[x] = Cardinality(Jobs(x)) /\ load[x] \in Nat
  BY <1>1 DEF Loads
<1>4. load' = [load EXCEPT ![x] = 0]
  <2>1. load[x] - Cardinality(Jobs(x)) = 0
    BY <1>3
  <2> QED
    BY <1>1, <2>1
<1>5. \A w \in Workers : load'[w] = Cardinality(Jobs(w)')
  BY <1>1, <1>2, <1>4, FS_EmptySet DEF Loads
<1>6. on' \in [Runners -> Workers \cup {0}] /\ load' \in [Workers -> Nat]
  BY <1>1, <1>4 DEF Loads
<1> QED
  BY <1>1, <1>5, <1>6 DEF Loads

LEMMA StepLoads == IInv /\ Loads /\ [Next]_vars => Loads'
<1> SUFFICES ASSUME IInv, Loads, [Next]_vars PROVE Loads'
  OBVIOUS
<1>0. ASSUME UNCHANGED <<on, load>>,
             \/ phase' = phase \/ (phase = "prepare" /\ phase' = "starting")
             \/ phase' \notin {"prepare", "starting", "pictures"}
      PROVE  Loads'
  BY <1>0 DEF Loads, Jobs
<1>1. ASSUME NEW r \in Runners, Advance(r)
      PROVE  Loads'
  <2>1. CASE Take(r) \/ Import(r) \/ ImportFails(r) \/ Woken(r) \/ OpenPdf(r) \/ Drawn(r) \/ NotDrawn(r)
            \/ GoOn(r)
    <3>1. UNCHANGED <<on, load, phase>>
      BY <2>1 DEF Take, Import, ImportFails, Woken, OpenPdf, Drawn, NotDrawn, GoOn, poolVars
    <3> QED
      BY <1>0, <3>1
  <2>2. CASE Notice(r)
    <3>1. /\ load' = load /\ on' \in [Runners -> Workers \cup {0}]
          /\ phase' = "cancelled" \/ (phase' = phase /\ phase # "pictures")
      BY <2>2 DEF Notice, Loads
    <3>2. phase \notin {"prepare", "starting"}
      BY <2>2 DEF Notice, IInv, Stages
    <3> QED
      BY <3>1, <3>2 DEF Loads
  <2> QED
    BY <1>1, <2>1, <2>2, SendLoads, AnswerLoads DEF Advance
<1>2. CASE Started
  <2>1. /\ phase = "starting" /\ phase' = "pictures" /\ UNCHANGED <<on, load>>
        /\ \A r \in Runners : on[r] = 0
    BY <1>2 DEF Started, IInv, Stages, Awaited
  <2>2. \A w \in Workers : load'[w] = Cardinality(Jobs(w)')
    BY <2>1, NobodyAsked DEF Loads, Jobs
  <2> QED
    BY <2>1, <2>2 DEF Loads
<1>3. CASE Prepare \/ AllTaken \/ Pack \/ Save \/ Stop \/ Cancel \/ UNCHANGED vars
  <2>1. /\ UNCHANGED <<on, load>>
        /\ \/ phase' = phase \/ (phase = "prepare" /\ phase' = "starting")
           \/ phase' \notin {"prepare", "starting", "pictures"}
    BY <1>3 DEF Prepare, AllTaken, Pack, Save, Stop, Cancel, vars, poolVars
  <2> QED
    BY <1>0, <2>1
<1>4. ASSUME NEW w \in Workers, WorkerError(w)
      PROVE  Loads'
  BY <1>4, ErrorLoads
<1> QED
  BY <1>1, <1>2, <1>3, <1>4 DEF Next, Go

(* A worker's load is the number of jobs it has, for any number of workers  *)
(* and runners, also after answers and errors in any order: the least       *)
(* loaded is the one with the fewest jobs.                                  *)
THEOREM LoadsArePending == Spec => []LoadIsPending
<1>1. Init => Loads
  BY DEF Init, Loads, Workers
<1>2. Loads => LoadIsPending
  BY DEF Loads, Jobs, LoadIsPending
<1> QED
  BY <1>1, <1>2, StepLoads, Inductive, PTL DEF Spec
-----------------------------------------------------------------------------
(* The drawers: pictures counted as being drawn by each *)

Drawing(d) == {r \in Runners : mine[r] = d /\ pc[r] \in {"drawing", "rendering"}}
WokenOf(d) == {r \in Runners : mine[r] = d /\ pc[r] = "woken"}

(* Who draws is counted, and whoever waits, waits for somebody: for those   *)
(* who draw, or for one who is woken and not there yet.                     *)
Rooms ==
    /\ drawing \in [Drawers -> 0..AtOnce]
    /\ \A d \in Drawers :
           /\ drawing[d] = Cardinality(Drawing(d))
           /\ waiting[d] # <<>> => drawing[d] + Cardinality(WokenOf(d)) >= AtOnce

LEMMA RoomsAreFew ==
    \A d : /\ IsFiniteSet(Drawing(d)) /\ Cardinality(Drawing(d)) \in Nat
           /\ IsFiniteSet(WokenOf(d)) /\ Cardinality(WokenOf(d)) \in Nat
BY RunnersAreFew DEF Drawing, WokenOf

(* Steps of runners that neither draw nor are woken, before or after. *)
LEMMA SameRooms ==
    ASSUME Rooms, UNCHANGED <<drawing, waiting>>,
           \A q \in Runners :
               \/ pc'[q] = pc[q] /\ mine'[q] = mine[q]
               \/ pc[q] \notin {"woken", "drawing", "rendering"} /\ pc'[q] \notin {"woken", "drawing", "rendering"}
               \/ pc[q] = "drawing" /\ pc'[q] = "rendering" /\ mine'[q] = mine[q]
    PROVE  Rooms'
<1>1. \A d \in Drawers : Drawing(d)' = Drawing(d) /\ WokenOf(d)' = WokenOf(d)
  BY DEF Drawing, WokenOf
<1> QED
  BY <1>1 DEF Rooms

(* Room taken by one who comes or was woken, or a wait begun. *)
LEMMA EnterRooms ==
    ASSUME IInv, Rooms, NEW r \in Runners, NEW d \in Drawers,
           pc[r] = "import" \/ (pc[r] = "woken" /\ mine[r] = d), Enter(r, d),
           mine' = [mine EXCEPT ![r] = d]
    PROVE  Rooms'
<1>1. /\ drawing[d] \in 0..AtOnce /\ AtOnce \in Nat
      /\ pc \in [Runners -> Places] /\ mine \in [Runners -> Runners \cup {0}]
      /\ waiting \in [Drawers -> Seq(Runners)]
  BY DEF Rooms, IInv, Typed
<1>2. /\ mine'[r] = d /\ pc'[r] \in {"waiting", "drawing"}
      /\ \A q \in Runners \ {r} : pc'[q] = pc[q] /\ mine'[q] = mine[q]
      /\ drawing[d] >= AtOnce <=> pc'[r] = "waiting"
  BY <1>1 DEF Enter
<1>3. \A c \in Drawers \ {d} : /\ Drawing(c)' = Drawing(c) /\ WokenOf(c)' = WokenOf(c)
                               /\ drawing'[c] = drawing[c] /\ waiting'[c] = waiting[c]
  <2>1. \A c \in Drawers \ {d} : Drawing(c)' = Drawing(c) /\ WokenOf(c)' = WokenOf(c)
    BY <1>2 DEF Drawing, WokenOf
  <2>2. \A c \in Drawers \ {d} : drawing'[c] = drawing[c] /\ waiting'[c] = waiting[c]
    BY <1>1 DEF Enter, Rooms
  <2> QED
    BY <2>1, <2>2
<1>4. WokenOf(d)' = WokenOf(d) \ {r} /\ r \notin Drawing(d)
  BY <1>2 DEF Drawing, WokenOf
<1>5. CASE drawing[d] >= AtOnce
  <2>1. Drawing(d)' = Drawing(d) /\ drawing' = drawing
    BY <1>2, <1>4, <1>5 DEF Drawing, Enter
  <2>2. drawing[d] = AtOnce /\ Cardinality(WokenOf(d)') \in Nat
    BY <1>1, <1>4, <1>5, RoomsAreFew, RunnersAreFew DEF WokenOf
  <2> QED
    BY <1>1, <1>3, <2>1, <2>2 DEF Rooms
<1>6. CASE ~(drawing[d] >= AtOnce)
  <2>1. /\ Drawing(d)' = Drawing(d) \cup {r} /\ drawing' = [drawing EXCEPT ![d] = @ + 1]
        /\ waiting' = waiting
    BY <1>2, <1>6 DEF Drawing, Enter
  <2>2. Cardinality(Drawing(d)') = Cardinality(Drawing(d)) + 1
    BY <1>4, <2>1, RoomsAreFew, FS_AddElement
  <2>3. /\ Cardinality(WokenOf(d)') >= Cardinality(WokenOf(d)) - 1
        /\ Cardinality(WokenOf(d)) \in Nat /\ Cardinality(WokenOf(d)') \in Nat
    <3>1. IsFiniteSet(WokenOf(d)) /\ Cardinality(WokenOf(d)) \in Nat
      BY RoomsAreFew
    <3>2. IsFiniteSet(WokenOf(d)') /\ Cardinality(WokenOf(d)') \in Nat
      BY <1>4, RunnersAreFew DEF WokenOf
    <3> QED
      BY <1>4, <3>1, <3>2, FS_RemoveElement
  <2>4. drawing'[d] = drawing[d] + 1 /\ drawing' \in [Drawers -> 0..AtOnce]
    BY <1>1, <1>6, <2>1 DEF Rooms
  <2>5. drawing'[d] = Cardinality(Drawing(d)')
    BY <2>2, <2>4 DEF Rooms
  <2>6. waiting'[d] # <<>> => drawing'[d] + Cardinality(WokenOf(d)') >= AtOnce
    BY <1>1, <2>1, <2>3, <2>4 DEF Rooms
  <2> QED
    BY <1>3, <2>4, <2>5, <2>6 DEF Rooms
<1> QED
  BY <1>5, <1>6

(* Room given up, and who waits first woken for it. *)
LEMMA LeaveRooms ==
    ASSUME IInv, Rooms, NEW r \in Runners, NEW until \in {"bitmap", "pause"},
           pc[r] \in {"drawing", "rendering"}, Leave(r, until), UNCHANGED <<on, mine>>
    PROVE  Rooms'
<1>0. PICK d \in Drawers : d = mine[r]
  BY DEF IInv, Awaited
<1>1. /\ waiting[d] \in Seq(Runners) /\ drawing \in [Drawers -> 0..AtOnce] /\ AtOnce \in Nat
      /\ waiting \in [Drawers -> Seq(Runners)] /\ pc \in [Runners -> Places]
  BY <1>0 DEF IInv, Typed, Rooms
<1>2. drawing' = [drawing EXCEPT ![d] = @ - 1]
  BY <1>0 DEF Leave
<1>3. pc'[r] = until /\ \A q \in Runners \ {r} : \/ pc'[q] = pc[q]
                                                 \/ pc[q] = "waiting" /\ pc'[q] = "woken"
  BY LeaveWakes
<1>4. /\ Drawing(d)' = Drawing(d) \ {r} /\ r \in Drawing(d)
      /\ \A c \in Drawers \ {d} : Drawing(c)' = Drawing(c)
  BY <1>0, <1>3 DEF Drawing
<1>5. Cardinality(Drawing(d)') = Cardinality(Drawing(d)) - 1 /\ Cardinality(Drawing(d)') \in Nat
  <2>1. IsFiniteSet(Drawing(d)) /\ Cardinality(Drawing(d)) \in Nat
    BY RoomsAreFew
  <2>2. Drawing(d)' \in SUBSET Runners
    BY <1>4 DEF Drawing
  <2> QED
    BY <1>4, <2>1, <2>2, RunnersAreFew, FS_RemoveElement
<1>6. /\ drawing' \in [Drawers -> 0..AtOnce]
      /\ \A c \in Drawers : drawing'[c] = Cardinality(Drawing(c)')
      /\ drawing'[d] = drawing[d] - 1
      /\ \A c \in Drawers \ {d} : drawing'[c] = drawing[c]
  <2>1. drawing[d] = Cardinality(Drawing(d)) /\ drawing[d] \in 0..AtOnce
    BY <1>1 DEF Rooms
  <2>2. drawing[d] - 1 \in 0..AtOnce
    BY <1>1, <1>5, <2>1
  <2>3. /\ drawing'[d] = drawing[d] - 1 /\ drawing' \in [Drawers -> 0..AtOnce]
        /\ \A c \in Drawers \ {d} : drawing'[c] = drawing[c]
    BY <1>1, <1>2, <2>2
  <2> QED
    BY <1>4, <1>5, <2>1, <2>3 DEF Rooms
<1>7. CASE waiting[d] = <<>>
  <2>1. waiting' = waiting /\ pc' = [pc EXCEPT ![r] = until]
    BY <1>0, <1>7 DEF Leave
  <2>2. \A c \in Drawers : WokenOf(c)' = WokenOf(c)
    BY <1>1, <2>1 DEF WokenOf
  <2> QED
    BY <1>6, <1>7, <2>1, <2>2 DEF Rooms
<1>8. CASE waiting[d] # <<>>
  <2>1. PICK x \in Runners : x = Head(waiting[d]) /\ pc[x] = "waiting" /\ mine[x] = d /\ x # r
    BY <1>0, <1>1, <1>8 DEF IInv, Awaited
  <2>2. /\ pc' = [pc EXCEPT ![r] = until, ![x] = "woken"]
        /\ waiting' = [waiting EXCEPT ![d] = Tail(@)]
    BY <1>0, <1>8, <2>1 DEF Leave
  <2>3. /\ WokenOf(d)' = WokenOf(d) \cup {x} /\ x \notin WokenOf(d)
        /\ \A c \in Drawers \ {d} : WokenOf(c)' = WokenOf(c) /\ waiting'[c] = waiting[c]
    <3>1. pc'[x] = "woken" /\ pc'[r] = until /\ \A q \in Runners \ {r, x} : pc'[q] = pc[q]
      BY <1>1, <2>1, <2>2
    <3>2. \A c \in Drawers \ {d} : waiting'[c] = waiting[c]
      BY <1>1, <2>2
    <3> QED
      BY <2>1, <3>1, <3>2 DEF WokenOf
  <2>4. /\ Cardinality(WokenOf(d)') = Cardinality(WokenOf(d)) + 1
        /\ Cardinality(WokenOf(d)) \in Nat
    BY <2>3, RoomsAreFew, FS_AddElement
  <2>5. drawing[d] + Cardinality(WokenOf(d)) >= AtOnce /\ drawing[d] \in 0..AtOnce
    BY <1>1, <1>8 DEF Rooms
  <2>6. drawing'[d] + Cardinality(WokenOf(d)') >= AtOnce
    BY <1>1, <1>6, <2>4, <2>5
  <2> QED
    BY <1>6, <2>3, <2>6 DEF Rooms
<1> QED
  BY <1>7, <1>8

LEMMA StepRooms == IInv /\ Rooms /\ [Next]_vars => Rooms'
<1> SUFFICES ASSUME IInv, Rooms, [Next]_vars PROVE Rooms'
  OBVIOUS
<1> DEFINE Room == {"woken", "drawing", "rendering"}
<1>1. ASSUME NEW r \in Runners, Advance(r)
      PROVE  Rooms'
  <2>0. pc \in [Runners -> Places] /\ mine \in [Runners -> Runners \cup {0}] /\ drawer \in Runners \cup {0}
    BY DEF IInv, Typed
  <2>1. CASE Take(r) \/ Ask(r) \/ Encode(r) \/ GoOn(r)
    <3>1. /\ \A q \in Runners \ {r} : pc'[q] = pc[q] /\ mine'[q] = mine[q]
          /\ pc[r] \notin Room /\ UNCHANGED <<drawing, waiting>>
      BY <2>0, <2>1 DEF Take, Ask, Encode, Send, GoOn, drawerVars
    <3>2. pc'[r] \notin Room
      <4>1. CASE Take(r)
        <5>1. plan[next] \in {"keep", "read", "draw"}
          BY <4>1 DEF Take, IInv, Typed, Turns
        <5> QED
          BY <2>0, <4>1, <5>1 DEF Take
      <4>2. CASE Ask(r) \/ Encode(r) \/ GoOn(r)
        BY <2>0, <4>2 DEF Ask, Encode, Send, GoOn
      <4> QED
        BY <2>1, <4>1, <4>2
    <3> QED
      BY <3>1, <3>2, SameRooms
  <2>2. CASE Answer(r)
    <3>1. PICK a \in {"smaller", "no gain", "error"} : Back({r}, a)
      BY <2>2 DEF Answer
    <3>2. /\ \A q \in Runners \ {r} : pc'[q] = pc[q] /\ mine'[q] = mine[q]
          /\ pc[r] \in {"reading", "encoding"} /\ pc'[r] \in {"import", "pause"}
          /\ UNCHANGED <<drawing, waiting>>
      BY <2>2, <3>1 DEF Answer, Back, drawerVars
    <3> QED
      BY <3>2, SameRooms
  <2>3. CASE Import(r) /\ mine[r] # 0
    <3>1. mine[r] \in Drawers /\ mine' = [mine EXCEPT ![r] = mine[r]] /\ Enter(r, mine[r]) /\ pc[r] = "import"
      BY <2>0, <2>3 DEF Import, Drawers
    <3> QED
      BY <3>1, EnterRooms
  <2>4. CASE Import(r) /\ mine[r] = 0
    <3>1. r \in Drawers /\ mine' = [mine EXCEPT ![r] = r] /\ Enter(r, r) /\ pc[r] = "import"
      BY <2>4 DEF Import, Drawers
    <3> QED
      BY <3>1, EnterRooms
  <2>9. CASE ImportFails(r)
    <3>1. /\ \A q \in Runners \ {r} : pc'[q] = pc[q] /\ mine'[q] = mine[q]
          /\ pc[r] = "import" /\ pc'[r] = "pause" /\ UNCHANGED <<drawing, waiting>>
      BY <2>0, <2>9 DEF ImportFails, drawerVars
    <3> QED
      BY <3>1, SameRooms
  <2>5. CASE Woken(r)
    <3>1. mine[r] \in Drawers /\ mine' = [mine EXCEPT ![r] = mine[r]] /\ Enter(r, mine[r]) /\ pc[r] = "woken"
      BY <2>0, <2>5 DEF Woken, IInv, Awaited
    <3> QED
      BY <3>1, EnterRooms
  <2>6. CASE OpenPdf(r)
    <3>1. /\ \A q \in Runners \ {r} : pc'[q] = pc[q]
          /\ pc[r] = "drawing" /\ pc'[r] = "rendering" /\ UNCHANGED <<mine, drawing, waiting>>
      BY <2>0, <2>6 DEF OpenPdf
    <3> QED
      BY <3>1, SameRooms
  <2>7. CASE Drawn(r) \/ NotDrawn(r)
    BY <2>7, LeaveRooms DEF Drawn, NotDrawn
  <2>8. CASE Notice(r)
    <3>1. \A q \in Runners : on[q] # 0 => pc[q] \in {"reading", "encoding"}
      BY DEF IInv, Awaited
    <3>2. pc[r] = "pause" /\ UNCHANGED <<drawing, waiting>>
      BY <2>8 DEF Notice
    <3>3. CASE phase = "pictures"
      <4>1. \A q \in Runners :
                \/ pc'[q] = pc[q] /\ mine'[q] = mine[q]
                \/ q = r /\ pc'[q] = "out"
                \/ on[q] # 0 /\ pc'[q] \in {"import", "pause"}
        BY <2>8, <3>3 DEF Notice
      <4> QED
        BY <3>1, <3>2, <4>1, SameRooms
    <3>4. CASE phase # "pictures"
      <4>1. mine' = mine /\ pc' = [pc EXCEPT ![r] = "out"]
        BY <2>8, <3>4 DEF Notice
      <4> QED
        BY <2>0, <3>2, <4>1, SameRooms
    <3> QED
      BY <3>3, <3>4
  <2> QED
    BY <1>1, <2>1, <2>2, <2>3, <2>4, <2>5, <2>6, <2>7, <2>8, <2>9 DEF Advance
<1>2. CASE Started
  <2>1. /\ \A r \in Runners : pc[r] = "off" /\ pc'[r] \in {"ready", "off"}
        /\ UNCHANGED <<mine, drawing, waiting>>
    BY <1>2 DEF Started, IInv, Stages, drawerVars
  <2> QED
    BY <2>1, SameRooms
<1>3. CASE Prepare \/ AllTaken \/ Pack \/ Save \/ Stop \/ Cancel \/ UNCHANGED vars
  <2>1. UNCHANGED <<pc, mine, drawing, waiting>>
    BY <1>3 DEF Prepare, AllTaken, Pack, Save, Stop, Cancel, vars, drawerVars
  <2> QED
    BY <2>1, SameRooms
<1>4. ASSUME NEW w \in Workers, WorkerError(w)
      PROVE  Rooms'
  <2>1. \A q \in Runners :
            \/ pc'[q] = pc[q] /\ mine'[q] = mine[q]
            \/ on[q] = w /\ pc'[q] \in {"import", "pause"}
    BY <1>4 DEF WorkerError, Back
  <2>2. \A q \in Runners : on[q] = w => pc[q] \in {"reading", "encoding"}
    BY DEF IInv, Awaited, Workers
  <2>3. UNCHANGED <<drawing, waiting>>
    BY <1>4 DEF WorkerError, drawerVars
  <2> QED
    BY <2>1, <2>2, <2>3, SameRooms
<1> QED
  BY <1>1, <1>2, <1>3, <1>4 DEF Next, Go

(* A drawer counts exactly the pictures it draws, no more than AtOnce, and  *)
(* no runner is left waiting for one with room that nobody woken is about   *)
(* to take: for any number of runners and pictures, also when pictures      *)
(* cannot be drawn and when drawers come and go.                            *)
THEOREM WaitingIsForSomebody == Spec => []NobodyLeftWaiting
<1>1. Init => Rooms
  <2> SUFFICES ASSUME Init PROVE Rooms
    OBVIOUS
  <2>1. \A d \in Drawers : Drawing(d) = {} /\ waiting[d] = <<>> /\ drawing[d] = 0
    BY DEF Init, Drawing
  <2>2. drawing \in [Drawers -> 0..AtOnce]
    BY DEF Init
  <2> QED
    BY <2>1, <2>2, FS_EmptySet DEF Rooms
<1>2. Rooms => NobodyLeftWaiting
  <2> SUFFICES ASSUME Rooms, NEW d \in Drawers
               PROVE  /\ drawing[d] = Cardinality(Drawing(d)) /\ drawing[d] <= AtOnce
                      /\ waiting[d] # <<>> => drawing[d] + Cardinality(WokenOf(d)) >= AtOnce
    BY DEF NobodyLeftWaiting, Drawing, WokenOf
  <2> QED
    BY DEF Rooms
<1> QED
  BY <1>1, <1>2, StepRooms, Inductive, PTL DEF Spec
-----------------------------------------------------------------------------
(* A number is a multiple and its remainder ...                             *)
LEMMA Remainder ==
    ASSUME NEW L \in Nat \ {0}, NEW a \in Int
    PROVE  a % L \in 0..(L - 1) /\ a \div L \in Int /\ a = (L * (a \div L)) + (a % L)
  BY SMT

LEMMA Reduced ==
    ASSUME NEW L \in Nat \ {0}, NEW k \in Int, NEW x \in 0..(L - 1)
    PROVE  (x - (L * k)) % L = x
  BY SMT

(* ... so what is taken from a sample, modulo Levels, can be added again.   *)
LEMMA AddedAgain ==
    ASSUME NEW L \in Nat \ {0}, NEW x \in 0..(L - 1), NEW p \in Int
    PROVE  /\ (((x - p) % L) + p) % L = x
           /\ (x - p) % L \in 0..(L - 1)
<1>1. PICK a \in Int : a = x - p
  OBVIOUS
<1>2. PICK q \in Int, r \in 0..(L - 1) : a = (L * q) + r /\ r = a % L
  BY Remainder
<1>3. PICK c \in Int : c = L * q
  OBVIOUS
<1>4. a = c + r
  BY <1>2, <1>3
<1>5. r + p = x - c
  BY <1>1, <1>4
<1>6. (r + p) % L = x
  BY <1>3, <1>5, Reduced
<1> QED
  BY <1>1, <1>2, <1>6

(* What a filter predicts is a number, and what PNG says it is.             *)
LEMMA PredictsAsPng ==
    ASSUME NEW type \in 0..4, NEW left \in Int, NEW up \in Int, NEW upLeft \in Int
    PROVE  /\ Prediction(type, left, up, upLeft) \in Int
           /\ PngPrediction(type, left, up, upLeft) = Prediction(type, left, up, upLeft)
<1>1. Prediction(type, left, up, upLeft) \in Int
  BY DEF Prediction, Abs
<1>2. CASE type # 4
  BY <1>2 DEF Prediction, PngPrediction
<1>3. CASE type = 4
  <2> DEFINE near == <<left, up, upLeft>>
             off(k) == Abs(left + up - upLeft - near[k])
             Nearest(k) == /\ \A j \in 1..3 : off(k) <= off(j)
                           /\ \A j \in 1..(k - 1) : off(j) > off(k)
             best == IF off(1) <= off(2) /\ off(1) <= off(3) THEN 1 ELSE IF off(2) <= off(3) THEN 2 ELSE 3
  <2>1. PngPrediction(type, left, up, upLeft) = near[CHOOSE k \in 1..3 : Nearest(k)]
    BY <1>3 DEF PngPrediction
  <2>2. off(1) \in Int /\ off(2) \in Int /\ off(3) \in Int
    BY DEF Abs
  <2>3. Prediction(type, left, up, upLeft) = near[best]
    BY <1>3 DEF Prediction
  <2> HIDE DEF off, near
  <2>4. best \in 1..3 /\ Nearest(best)
    BY <2>2
  <2>5. ASSUME NEW k \in 1..3, Nearest(k) PROVE k = best
    BY <2>2, <2>5
  <2>6. (CHOOSE k \in 1..3 : Nearest(k)) = best
    BY <2>4, <2>5
  <2> QED
    BY <1>1, <2>1, <2>3, <2>6
<1> QED
  BY <1>1, <1>2, <1>3
(* A row filtered by what is to the left of a sample and above it.          *)
FilteredRow(line, type, row, above, channels) ==
    /\ line \in Seq(0..(Levels - 1)) /\ Len(line) = Len(row)
    /\ \A i \in 1..Len(row) :
           line[i] = (row[i] - Prediction(type, Sample(row, i - channels), above[i],
                                          Sample(above, i - channels))) % Levels

SamplesOf(m) == [1..m -> 0..(Levels - 1)]

LEMMA SamplesAreNumbers ==
    ASSUME Levels \in Nat \ {0}, NEW m \in Nat, NEW row \in SamplesOf(m), NEW i \in 1..m, NEW channels \in Nat \ {0}
    PROVE  row[i] \in Int /\ Sample(row, i - channels) \in Int
<1>1. PICK j \in Int : j = i - channels /\ j <= m
  OBVIOUS
<1>2. j >= 1 => row[j] \in 0..(Levels - 1)
  BY <1>1 DEF SamplesOf
<1>3. row[i] \in 0..(Levels - 1)
  BY DEF SamplesOf
<1> QED
  BY <1>1, <1>2, <1>3 DEF Sample

(* A filtered row is read back: by the least sample that were not.          *)
LEMMA RowComesBack ==
    ASSUME Levels \in Nat \ {0}, NEW type \in 0..4, NEW channels \in Nat \ {0}, NEW m \in Nat,
           NEW row \in SamplesOf(m), NEW above \in SamplesOf(m), NEW line,
           FilteredRow(line, type, row, above, channels)
    PROVE  UnfilteredRow(type, line, above, channels) = row
<1>1. /\ row \in Seq(0..(Levels - 1)) /\ Len(row) = m /\ Len(line) = m
      /\ row = [i \in 1..m |-> row[i]]
      /\ \A i \in 1..m : row[i] \in 0..(Levels - 1) /\ above[i] \in 0..(Levels - 1)
  BY DEF SamplesOf, FilteredRow
<1> DEFINE P(i, left) == Prediction(type, left, above[i], Sample(above, i - channels))
           Value(i, f) == (line[i] + P(i, IF i > channels THEN f[i - channels] ELSE 0)) % Levels
           Undoes(f) == f = [i \in 1..Len(line) |-> Value(i, f)]
<1>2. ASSUME NEW i \in 1..m, NEW f, i > channels => f[i - channels] = row[i - channels]
      PROVE  Value(i, f) = row[i]
  <2>1. PICK left \in Int : left = IF i > channels THEN f[i - channels] ELSE 0
    BY <1>1, <1>2
  <2>2. left = Sample(row, i - channels)
    BY <1>2, <2>1 DEF Sample
  <2>3. above[i] \in Int /\ Sample(above, i - channels) \in Int
    BY SamplesAreNumbers
  <2>4. PICK p \in Int : p = P(i, left)
    BY <2>3, PredictsAsPng
  <2>5. line[i] = (row[i] - p) % Levels
    BY <1>1, <2>2, <2>4 DEF FilteredRow
  <2>6. ((row[i] - p) % Levels) + p = line[i] + p
    BY <2>5
  <2> QED
    BY <1>1, <2>1, <2>4, <2>6, AddedAgain
<1>3. Undoes(row)
  <2>1. \A i \in 1..m : Value(i, row) = row[i]
    BY <1>2
  <2> HIDE DEF Value
  <2> QED
    BY <1>1, <2>1
<1>4. PICK current : current = CHOOSE f : Undoes(f)
  OBVIOUS
<1>5. Undoes(current)
  BY <1>3, <1>4
<1>6. UnfilteredRow(type, line, above, channels) = [i \in 1..Len(line) |-> current[i]]
  BY <1>4 DEF UnfilteredRow
<1>7. \A i \in 1..m : current[i] = Value(i, current)
  <2> HIDE DEF Value
  <2> QED
    BY <1>1, <1>5
<1>8. \A i \in 1..m : current[i] = row[i]
  <2> DEFINE Wrong == {i \in 1..m : current[i] # row[i]}
  <2> SUFFICES ASSUME Wrong # {} PROVE FALSE
    OBVIOUS
  <2>1. PICK i \in Wrong : \A j \in Wrong : i <= j
    <3>1. Wrong \in SUBSET Nat
      OBVIOUS
    <3> QED
      BY <3>1, LeastNatural
  <2>2. i > channels => i - channels \in 1..m /\ i - channels \notin Wrong
    BY <2>1
  <2> HIDE DEF Value
  <2> QED
    BY <1>2, <1>7, <2>1, <2>2
<1> QED
  BY <1>1, <1>6, <1>8

(* So are rows that were filtered each from the one before it, the first    *)
(* from samples that are 0.                                                 *)
FilteredRows(data, types, rows, channels) ==
    /\ Len(data) = Len(rows)
    /\ \A n \in 1..Len(rows) :
           /\ data[n][1] = types[n]
           /\ FilteredRow(data[n][2], types[n], rows[n],
                          IF n = 1 THEN [i \in 1..Len(rows[1]) |-> 0] ELSE rows[n - 1], channels)

RowsOf(rows, m) == rows \in Seq(SamplesOf(m))

LEMMA RowsComeBack ==
    ASSUME Levels \in Nat \ {0}, NEW channels \in Nat \ {0}, NEW m \in Nat,
           NEW rows, RowsOf(rows, m), NEW types, \A n \in 1..Len(rows) : types[n] \in 0..4,
           NEW data, FilteredRows(data, types, rows, channels)
    PROVE  Unpredict(data, channels) = rows
<1>1. PICK k \in Nat : k = Len(rows) /\ k = Len(data)
  BY DEF RowsOf, FilteredRows
<1>2. rows = [n \in 1..k |-> rows[n]] /\ \A n \in 1..k : rows[n] \in SamplesOf(m)
  <2>1. PICK S : S = SamplesOf(m)
    OBVIOUS
  <2>2. rows \in Seq(S)
    BY <2>1 DEF RowsOf
  <2>3. rows = [n \in 1..Len(rows) |-> rows[n]]
    BY <2>2
  <2>4. \A n \in 1..Len(rows) : rows[n] \in S
    BY <2>2
  <2> QED
    BY <1>1, <2>1, <2>3, <2>4
<1> DEFINE zeros == [i \in 1..Len(data[1][2]) |-> 0]
           Undone(n, f) == IF n = 0 THEN zeros ELSE UnfilteredRow(data[n][1], data[n][2], f[n - 1], channels)
           Undoes(f) == f = [n \in 0..Len(data) |-> Undone(n, f)]
           all == [n \in 0..k |-> IF n = 0 THEN zeros ELSE rows[n]]
<1>3. ASSUME NEW n \in 1..k PROVE Undone(n, all) = rows[n]
  <2>1. Len(rows[n]) = m /\ Len(rows[1]) = m /\ Len(data[1][2]) = m
    <3>1. 1 \in 1..k /\ rows[1] \in SamplesOf(m) /\ rows[n] \in SamplesOf(m)
      BY <1>2
    <3>2. Len(data[1][2]) = Len(rows[1])
      BY <1>1, <3>1 DEF FilteredRows, FilteredRow
    <3> QED
      BY <3>1, <3>2 DEF SamplesOf
  <2>2. zeros \in SamplesOf(m) /\ zeros = [i \in 1..Len(rows[1]) |-> 0]
    BY <2>1 DEF SamplesOf
  <2> HIDE DEF zeros
  <2>3. PICK above : above = IF n = 1 THEN zeros ELSE rows[n - 1]
    OBVIOUS
  <2>4. above \in SamplesOf(m)
    BY <1>2, <2>2, <2>3
  <2>5. all[n - 1] = above
    BY <2>3
  <2>6. data[n][1] = types[n] /\ types[n] \in 0..4 /\ FilteredRow(data[n][2], types[n], rows[n], above, channels)
    BY <1>1, <2>2, <2>3 DEF FilteredRows
  <2>7. UnfilteredRow(types[n], data[n][2], above, channels) = rows[n]
    BY <1>2, <2>4, <2>6, RowComesBack
  <2> QED
    BY <2>5, <2>6, <2>7
<1>4. all[0] = zeros /\ \A n \in 1..k : all[n] = rows[n]
  OBVIOUS
<1>5. Undoes(all)
  <2> HIDE DEF zeros
  <2>1. \A n \in 0..k : Undone(n, all) = all[n]
    BY <1>3, <1>4
  <2> HIDE DEF Undone
  <2> QED
    BY <1>1, <2>1
<1>6. PICK made : made = CHOOSE f : Undoes(f)
  OBVIOUS
<1>7. Undoes(made)
  BY <1>5, <1>6
<1>8. Unpredict(data, channels) = [n \in 1..Len(data) |-> made[n]]
  BY <1>6 DEF Unpredict
<1>9. \A n \in 0..k : made[n] = Undone(n, made)
  <2> HIDE DEF Undone
  <2> QED
    BY <1>1, <1>7
<1>10. \A n \in 0..k : made[n] = all[n]
  <2> DEFINE Wrong == {n \in 0..k : made[n] # all[n]}
  <2> HIDE DEF zeros, all
  <2> SUFFICES ASSUME Wrong # {} PROVE FALSE
    OBVIOUS
  <2>1. PICK n \in Wrong : \A j \in Wrong : n <= j
    <3>1. Wrong \in SUBSET Nat
      OBVIOUS
    <3> QED
      BY <3>1, LeastNatural
  <2>2. n \in 1..k
    BY <1>4, <1>9, <2>1
  <2>3. made[n - 1] = all[n - 1]
    BY <2>1, <2>2
  <2> QED
    BY <1>3, <1>4, <1>9, <2>1, <2>2, <2>3
<1>11. \A n \in 1..k : made[n] = rows[n]
  BY <1>4, <1>10
<1> QED
  BY <1>1, <1>2, <1>8, <1>11
(* A row less what the filter predicts is that row filtered.                *)
LEMMA RowIsFiltered ==
    ASSUME Levels \in Nat \ {0}, NEW type \in 0..4, NEW channels \in Nat \ {0}, NEW m \in Nat,
           NEW row \in SamplesOf(m), NEW above \in SamplesOf(m), NEW line,
           line = [i \in 1..m |-> line[i]],
           \A i \in 1..m :
               line[i] = (row[i] - Prediction(type, Sample(row, i - channels), above[i],
                                              Sample(above, i - channels))) % Levels
    PROVE  FilteredRow(line, type, row, above, channels)
<1>1. Len(row) = m
  BY DEF SamplesOf
<1>2. ASSUME NEW i \in 1..m
      PROVE  line[i] \in 0..(Levels - 1)
  <2>1. row[i] \in 0..(Levels - 1) /\ above[i] \in Int
    BY DEF SamplesOf
  <2>2. Sample(row, i - channels) \in Int /\ Sample(above, i - channels) \in Int
    BY SamplesAreNumbers
  <2>3. PICK p \in Int : p = Prediction(type, Sample(row, i - channels), above[i], Sample(above, i - channels))
    BY <2>1, <2>2, PredictsAsPng
  <2>4. line[i] = (row[i] - p) % Levels
    BY <2>3
  <2> QED
    BY <2>1, <2>4, AddedAgain
<1>3. line \in Seq(0..(Levels - 1)) /\ Len(line) = m
  BY <1>2
<1> QED
  BY <1>1, <1>3 DEF FilteredRow

(* However the rows of a picture's samples are filtered, they are read back *)
(* as they were, and so is what the compressor saved without loss           *)
(* (encode-image.js, unpredict and predict).                                *)
THEOREM FilteredSamplesComeBack ==
    ASSUME NEW s \in Samplings
    PROVE  SamplesComeBack(s.rows, s.types, s.channels)
<1>1. PICK rows, types, channels : rows = s.rows /\ types = s.types /\ channels = s.channels
  OBVIOUS
<1>2. /\ Levels \in Nat \ {0} /\ channels \in Nat \ {0}
      /\ rows \in Seq(Seq(0..(Levels - 1)))
      /\ \A i, j \in 1..Len(rows) : Len(rows[i]) = Len(rows[j])
      /\ types \in [1..Len(rows) -> 0..4]
  BY <1>1, SamplingsAssumption
<1>3. PICK k \in Nat : k = Len(rows)
  BY <1>2
<1>4. PICK m \in Nat : \A n \in 1..k : rows[n] \in SamplesOf(m) /\ Len(rows[n]) = m
  <2>1. PICK S : S = Seq(0..(Levels - 1))
    OBVIOUS
  <2>2. rows \in Seq(S)
    BY <1>2, <2>1
  <2>3. \A n \in 1..Len(rows) : rows[n] \in S
    BY <2>2
  <2>4. ASSUME NEW row \in S PROVE row \in SamplesOf(Len(row)) /\ Len(row) \in Nat
    <3>1. PICK T : T = 0..(Levels - 1)
      OBVIOUS
    <3>2. row \in Seq(T)
      BY <2>1, <3>1
    <3>3. row \in [1..Len(row) -> T] /\ Len(row) \in Nat
      BY <3>2
    <3> QED
      BY <3>1, <3>3 DEF SamplesOf
  <2>5. CASE k = 0
    BY <2>5
  <2>6. CASE k # 0
    <3>1. 1 \in 1..k /\ Len(rows[1]) \in Nat
      BY <1>3, <2>3, <2>4, <2>6
    <3>2. \A n \in 1..k : rows[n] \in SamplesOf(Len(rows[1])) /\ Len(rows[n]) = Len(rows[1])
      BY <1>2, <1>3, <2>3, <2>4, <3>1
    <3> QED
      BY <3>1, <3>2
  <2> QED
    BY <2>5, <2>6
<1>5. RowsOf(rows, m)
  <2>1. PICK S : S = SamplesOf(m)
    OBVIOUS
  <2>2. rows = [n \in 1..k |-> rows[n]]
    BY <1>2, <1>3
  <2>3. \A n \in 1..k : rows[n] \in S
    BY <1>4, <2>1
  <2>4. rows \in Seq(S)
    BY <2>2, <2>3
  <2> QED
    BY <2>1, <2>4 DEF RowsOf
<1> DEFINE Above(n) == IF n = 1 THEN [j \in 1..Len(rows[1]) |-> 0] ELSE rows[n - 1]
<1>6. ASSUME NEW n \in 1..k
      PROVE  Above(n) \in SamplesOf(m) /\ 1 \in 1..k /\ Len(rows[n]) = m /\ Len(rows[1]) = m
  <2>1. 1 \in 1..k /\ Len(rows[n]) = m /\ Len(rows[1]) = m
    BY <1>4
  <2>2. CASE n = 1
    BY <1>2, <2>1, <2>2 DEF SamplesOf
  <2>3. CASE n # 1
    BY <1>4, <2>3
  <2> QED
    BY <2>1, <2>2, <2>3
<1>7. Unpredict(Filtered(rows, types, channels), channels) = rows
  <2>1. PICK data : data = Filtered(rows, types, channels)
    OBVIOUS
  <2>2. Len(data) = Len(rows)
    BY <1>3, <2>1 DEF Filtered
  <2>3. ASSUME NEW n \in 1..k
        PROVE  data[n][1] = types[n] /\ FilteredRow(data[n][2], types[n], rows[n], Above(n), channels)
    <3>1. PICK above \in SamplesOf(m) : above = Above(n)
      BY <1>6
    <3>2. above = IF n = 1 THEN [j \in 1..Len(rows[n]) |-> 0] ELSE rows[n - 1]
      BY <1>6, <3>1
    <3>3. /\ data[n][1] = types[n]
          /\ data[n][2] = [i \in 1..m |->
                 (rows[n][i] - PngPrediction(types[n], Sample(rows[n], i - channels), above[i],
                                             Sample(above, i - channels))) % Levels]
      BY <1>3, <1>6, <2>1, <3>2 DEF Filtered
    <3>4. types[n] \in 0..4 /\ rows[n] \in SamplesOf(m)
      BY <1>2, <1>3, <1>4
    <3>5. ASSUME NEW i \in 1..m
          PROVE  PngPrediction(types[n], Sample(rows[n], i - channels), above[i], Sample(above, i - channels))
                     = Prediction(types[n], Sample(rows[n], i - channels), above[i], Sample(above, i - channels))
      BY <1>2, <3>4, SamplesAreNumbers, PredictsAsPng
    <3>6. /\ data[n][2] = [i \in 1..m |-> data[n][2][i]]
          /\ \A i \in 1..m : data[n][2][i] =
                 (rows[n][i] - Prediction(types[n], Sample(rows[n], i - channels), above[i],
                                          Sample(above, i - channels))) % Levels
      BY <3>3, <3>5
    <3>7. FilteredRow(data[n][2], types[n], rows[n], above, channels)
      BY <1>2, <3>4, <3>6, RowIsFiltered
    <3> QED
      BY <3>1, <3>3, <3>7
  <2>4. FilteredRows(data, types, rows, channels)
    BY <1>3, <2>2, <2>3 DEF FilteredRows
  <2> QED
    BY <1>2, <1>3, <1>5, <2>1, <2>4, RowsComeBack
<1>8. Unpredict(LosslessOf(rows), channels) = rows
  <2>1. PICK data, ups : data = LosslessOf(rows) /\ ups = [n \in 1..k |-> 2]
    OBVIOUS
  <2>2. Len(data) = Len(rows)
    BY <1>3, <2>1 DEF LosslessOf
  <2>3. ASSUME NEW n \in 1..k
        PROVE  data[n][1] = ups[n] /\ FilteredRow(data[n][2], ups[n], rows[n], Above(n), channels)
    <3>1. PICK above \in SamplesOf(m) : above = Above(n)
      BY <1>6
    <3>2. \A i \in 1..m : above[i] = IF n = 1 THEN 0 ELSE rows[n - 1][i]
      BY <1>6, <3>1
    <3>3. /\ data[n][1] = 2 /\ ups[n] = 2
          /\ data[n][2] = [i \in 1..m |-> (rows[n][i] - (IF n = 1 THEN 0 ELSE rows[n - 1][i])) % Levels]
      BY <1>3, <1>6, <2>1 DEF LosslessOf
    <3>4. \A i \in 1..m : Prediction(2, Sample(rows[n], i - channels), above[i], Sample(above, i - channels))
                              = IF n = 1 THEN 0 ELSE rows[n - 1][i]
      BY <3>2 DEF Prediction
    <3>5. /\ data[n][2] = [i \in 1..m |-> data[n][2][i]]
          /\ \A i \in 1..m : data[n][2][i] =
                 (rows[n][i] - Prediction(2, Sample(rows[n], i - channels), above[i],
                                          Sample(above, i - channels))) % Levels
      BY <3>3, <3>4
    <3>6. rows[n] \in SamplesOf(m) /\ 2 \in 0..4
      BY <1>4
    <3>7. FilteredRow(data[n][2], 2, rows[n], above, channels)
      BY <1>2, <3>5, <3>6, RowIsFiltered
    <3> QED
      BY <3>1, <3>3, <3>7
  <2>4. FilteredRows(data, ups, rows, channels)
    BY <1>3, <2>2, <2>3 DEF FilteredRows
  <2>5. \A n \in 1..Len(rows) : ups[n] \in 0..4
    BY <1>3, <2>1
  <2> QED
    BY <1>2, <1>5, <2>1, <2>4, <2>5, RowsComeBack
<1> QED
  BY <1>1, <1>7, <1>8 DEF SamplesComeBack
-----------------------------------------------------------------------------
(* One sequence flattened, and two.                                         *)
LEMMA FlattenFew ==
    ASSUME NEW n \in 1..2, NEW t, Len(t) = n
    PROVE  (n = 1 => FlattenSeq(t) = t[1]) /\ (n = 2 => FlattenSeq(t) = t[1] \o t[2])
<1> DEFINE Whole(f) == f = [i \in 1..Len(t) |-> IF i = 1 THEN t[i] ELSE f[i - 1] \o t[i]]
           w == [i \in 1..Len(t) |-> IF i = 1 THEN t[1] ELSE t[1] \o t[2]]
<1>1. FlattenSeq(t) = (CHOOSE f : Whole(f))[n]
  BY DEF FlattenSeq
<1>2. PICK f : f = CHOOSE x : Whole(x)
  OBVIOUS
<1>3. \A i \in 1..Len(t) : w[i] = IF i = 1 THEN t[i] ELSE w[i - 1] \o t[i]
  OBVIOUS
<1>4. Whole(w)
  BY <1>3
<1>5. Whole(f)
  BY <1>2, <1>4
<1>6. \A i \in 1..n : f[i] = IF i = 1 THEN t[i] ELSE f[i - 1] \o t[i]
  BY <1>5
<1>7. f[1] = t[1]
  BY <1>6
<1>8. CASE n = 1
  BY <1>1, <1>2, <1>7, <1>8
<1>9. CASE n = 2
  <2>1. PICK one : one = 2 - 1
    OBVIOUS
  <2>2. one = 1 /\ f[2] = f[one] \o t[2]
    BY <1>6, <1>9, <2>1
  <2> QED
    BY <1>1, <1>2, <1>7, <1>9, <2>2
<1> QED
  BY <1>8, <1>9

LEMMA Joined ==
    ASSUME NEW S, NEW x \in Seq(S), NEW y \in Seq(S), NEW z \in Seq(S)
    PROVE  <<>> \o x = x /\ x \o <<>> = x /\ (x \o y) \o z = x \o (y \o z)
  OBVIOUS

(* What the filters of a picture mean: of none, of one, of two.             *)
LEMMA MeantOfFew ==
    ASSUME NEW image, NEW end,
           end = IF "DCTDecode" \in ToSet(image.filters) THEN <<>>
                 ELSE <<Step("samples", image.channels, image.bits)>>
    PROVE  /\ image.filters = <<>> => Meant(image) = <<>> \o end
           /\ \A f : image.filters = <<f>> => Meant(image) = Unpacked(f, image.params) \o end
           /\ \A f, g : image.filters = <<f, g>> =>
                  Meant(image) = (Unpacked(f, image.params)
                                  \o Unpacked(g, [image.params EXCEPT !.predictor = 0])) \o end
<1> DEFINE params(i) == IF i = 1 THEN image.params ELSE [image.params EXCEPT !.predictor = 0]
           parts == [i \in DOMAIN image.filters |-> Unpacked(image.filters[i], params(i))]
<1>1. Meant(image) = FlattenSeq(parts) \o end
  BY DEF Meant
<1>2. ASSUME image.filters = <<>> PROVE FlattenSeq(parts) = <<>>
  <2>1. parts = <<>> /\ Len(parts) = 0
    BY <1>2
  <2> QED
    BY <2>1 DEF FlattenSeq
<1>3. ASSUME NEW f, image.filters = <<f>> PROVE FlattenSeq(parts) = Unpacked(f, image.params)
  <2>1. Len(parts) = 1 /\ parts[1] = Unpacked(f, image.params)
    BY <1>3
  <2> HIDE DEF parts
  <2>2. PICK t : t = parts
    OBVIOUS
  <2>3. FlattenSeq(t) = t[1]
    BY <2>1, <2>2, FlattenFew
  <2> QED
    BY <2>1, <2>2, <2>3
<1>4. ASSUME NEW f, NEW g, image.filters = <<f, g>>
      PROVE  FlattenSeq(parts) = Unpacked(f, image.params) \o Unpacked(g, [image.params EXCEPT !.predictor = 0])
  <2>1. /\ Len(parts) = 2 /\ parts[1] = Unpacked(f, image.params)
        /\ parts[2] = Unpacked(g, [image.params EXCEPT !.predictor = 0])
    BY <1>4
  <2> HIDE DEF parts
  <2>2. PICK t : t = parts
    OBVIOUS
  <2>4. PICK two \in 1..2 : two = 2
    OBVIOUS
  <2>5. Len(t) = two
    BY <2>1, <2>2, <2>4
  <2>3. FlattenSeq(t) = t[1] \o t[2]
    BY <2>4, <2>5, FlattenFew
  <2> QED
    BY <2>1, <2>2, <2>3
<1> QED
  BY <1>1, <1>2, <1>3, <1>4

(* A picture that is its bytes, perhaps inflated and unpredicted first.     *)
LEMMA SamplesAsMeant ==
    ASSUME NEW image \in Images, Samples(image), ~Jpeg(image),
           Plan(image) \notin {Keep, Draw}, image.params.form \in {"none", "dict"},
           image.params.columns = 0 => Predictor(image) <= 1
    PROVE  Plan(image) = Meant(image)
<1>1. /\ image.filters \in {<<>>, <<"FlateDecode">>} /\ image.bits = 8 /\ image.width # 0
      /\ image.params \in Params /\ image.channels \in Nat /\ image.width \in Nat
      /\ image.params.form = "none" \/ image.filters = <<>> => image.params = NoParams
      /\ Predictor(image) > 1 => Matches(image.params, image.channels)
  BY ImagesAssumption DEF Samples, Plan
<1>2. Predictor(image) = image.params.predictor /\ image.params.predictor \in Nat
  BY <1>1 DEF Predictor, NoParams, Params
<1> DEFINE unpredict == Step("unpredict", image.channels,
                             IF image.params.columns = 0 THEN image.width ELSE image.params.columns)
           before == IF Predictor(image) > 1 THEN <<unpredict>> ELSE <<>>
           end == <<Step("samples", image.channels, 8)>>
           first == <<Step("inflate", 0, 0)>>
<1>3. Plan(image) = (IF Inflate(image) THEN first ELSE <<>>) \o (before \o end)
  BY <1>1 DEF Plan
<1>8. PICK S : S = {unpredict, Step("samples", image.channels, 8), Step("inflate", 0, 0)}
  OBVIOUS
<1>4. before \in Seq(S) /\ end \in Seq(S) /\ first \in Seq(S) /\ <<>> \in Seq(S)
  <2> HIDE DEF unpredict
  <2>1. unpredict \in S /\ Step("samples", image.channels, 8) \in S /\ Step("inflate", 0, 0) \in S
    BY <1>8
  <2> QED
    BY <2>1
<1>5. "DCTDecode" \notin ToSet(image.filters)
  BY <1>1 DEF ToSet
<1>6. CASE image.filters = <<>>
  <2>1. Predictor(image) = 0
    BY <1>1, <1>2, <1>6 DEF NoParams
  <2>2. Plan(image) = <<>> \o (<<>> \o end)
    BY <1>3, <1>6, <2>1 DEF Inflate
  <2>3. Meant(image) = <<>> \o end
    BY <1>1, <1>5, <1>6, MeantOfFew
  <2> QED
    BY <1>4, <2>2, <2>3, Joined
<1>7. CASE image.filters = <<"FlateDecode">>
  <2>1. Plan(image) = first \o (before \o end)
    BY <1>3, <1>7 DEF Inflate
  <2>2. Meant(image) = Unpacked("FlateDecode", image.params) \o end
    BY <1>1, <1>5, <1>7, MeantOfFew
  <2>3. Unpacked("FlateDecode", image.params) = first \o before
    <3>1. CASE image.params.predictor <= 1
      BY <1>2, <3>1 DEF Unpacked
    <3>2. CASE image.params.predictor > 1
      <4>1. /\ image.params.predictor >= 10 /\ image.params.columns # 0
            /\ (IF image.params.colors = 0 THEN 1 ELSE image.params.colors) = image.channels
        BY <1>1, <1>2, <3>2 DEF Matches
      <4> QED
        BY <1>2, <3>2, <4>1 DEF Unpacked
    <3> QED
      BY <1>2, <3>1, <3>2
  <2> QED
    BY <1>4, <2>1, <2>2, <2>3, Joined
<1> QED
  BY <1>1, <1>6, <1>7

(* A picture that is a JPEG, perhaps inflated first.                        *)
LEMMA JpegAsMeant ==
    ASSUME NEW image \in Images, Jpeg(image), Plan(image) \notin {Keep, Draw}
    PROVE  Plan(image) = Meant(image)
<1> DEFINE jpeg == <<Step("jpeg", 0, 0)>>
           first == <<Step("inflate", 0, 0)>>
<1>1. Plan(image) = (IF Inflate(image) THEN first ELSE <<>>) \o jpeg
  BY DEF Plan
<1>8. PICK S : S = {Step("jpeg", 0, 0), Step("inflate", 0, 0)}
  OBVIOUS
<1>2. first \in Seq(S) /\ jpeg \in Seq(S) /\ <<>> \in Seq(S)
  <2>1. Step("jpeg", 0, 0) \in S /\ Step("inflate", 0, 0) \in S
    BY <1>8
  <2> QED
    BY <2>1
<1>3. image.filters \in Seq(STRING) /\ image.params \in Params
  BY ImagesAssumption
<1>4. image.filters = <<"DCTDecode">> \/ image.filters = <<"FlateDecode", "DCTDecode">>
  BY <1>3 DEF Jpeg, Last
<1>5. "DCTDecode" \in ToSet(image.filters)
  BY <1>4 DEF ToSet
<1>6. CASE image.filters = <<"DCTDecode">>
  <2>1. Plan(image) = <<>> \o jpeg
    BY <1>1, <1>6 DEF Inflate
  <2>2. Meant(image) = Unpacked("DCTDecode", image.params) \o <<>>
    BY <1>5, <1>6, MeantOfFew
  <2>3. Unpacked("DCTDecode", image.params) = jpeg
    BY DEF Unpacked
  <2> QED
    BY <1>2, <2>1, <2>2, <2>3, Joined
<1>7. CASE image.filters = <<"FlateDecode", "DCTDecode">>
  <2>1. Plan(image) = first \o jpeg
    BY <1>1, <1>7 DEF Inflate
  <2>2. Meant(image) = (Unpacked("FlateDecode", image.params)
                        \o Unpacked("DCTDecode", [image.params EXCEPT !.predictor = 0])) \o <<>>
    BY <1>5, <1>7, MeantOfFew
  <2>3. Unpacked("DCTDecode", [image.params EXCEPT !.predictor = 0]) = jpeg
    BY DEF Unpacked
  <2>4. image.params = NoParams
    BY <1>7, ImagesAssumption DEF Jpeg
  <2>5. Unpacked("FlateDecode", image.params) = first \o <<>>
    BY <2>4 DEF Unpacked, NoParams
  <2>6. first \o <<>> = first /\ (first \o jpeg) \o <<>> = first \o jpeg
    <3>1. first \o jpeg \in Seq(S)
      BY <1>2
    <3> QED
      BY <1>2, <3>1, Joined
  <2> QED
    BY <2>1, <2>2, <2>3, <2>5, <2>6
<1> QED
  BY <1>4, <1>6, <1>7

(* A picture the compressor writes is read again as it was meant.           *)
LEMMA RedrawnAsMeant ==
    ASSUME NEW image \in Images, Plan(image) # Keep, NEW kind \in {"jpeg", "flate"}
    PROVE  Plan(Redrawn(image, 1, kind)) = Meant(Redrawn(image, 1, kind))
<1>1. PICK redrawn : redrawn = Redrawn(image, 1, kind)
  OBVIOUS
<1>2. ~image.small /\ ~image.cut
  BY DEF Plan
<1>3. /\ ~redrawn.small /\ ~redrawn.cut /\ redrawn.decode = FALSE /\ redrawn.width = 1 /\ redrawn.bits = 8
      /\ redrawn.channels \in {1, 3}
      /\ redrawn.filters = IF kind = "jpeg" THEN <<"DCTDecode">> ELSE <<"FlateDecode">>
      /\ kind = "flate" => redrawn.params = [form |-> "dict", predictor |-> 15,
                                             colors |-> redrawn.channels, columns |-> 1]
  <2>1. image \in [small : BOOLEAN, cut : BOOLEAN, filters : Seq(STRING), params : Params, bits : Nat,
                   channels : Nat, decode : BOOLEAN, width : Nat]
    BY ImagesAssumption
  <2> QED
    BY <1>1, <1>2, <2>1 DEF Redrawn
<1>4. PICK S : S = {Step("jpeg", 0, 0), Step("inflate", 0, 0), Step("unpredict", redrawn.channels, 1),
                    Step("samples", redrawn.channels, 8)}
  OBVIOUS
<1>5. /\ <<Step("jpeg", 0, 0)>> \in Seq(S) /\ <<Step("inflate", 0, 0)>> \in Seq(S)
      /\ <<Step("unpredict", redrawn.channels, 1)>> \in Seq(S)
      /\ <<Step("samples", redrawn.channels, 8)>> \in Seq(S)
  <2>1. /\ Step("jpeg", 0, 0) \in S /\ Step("inflate", 0, 0) \in S
        /\ Step("unpredict", redrawn.channels, 1) \in S /\ Step("samples", redrawn.channels, 8) \in S
    BY <1>4
  <2> QED
    BY <2>1
<1>6. ~FaxLike(redrawn)
  BY <1>3 DEF FaxLike, ToSet
<1>7. CASE kind = "jpeg"
  <2>1. redrawn.filters = <<"DCTDecode">>
    BY <1>3, <1>7
  <2>2. Jpeg(redrawn) /\ ~Inflate(redrawn)
    BY <2>1 DEF Jpeg, Inflate, Last
  <2>3. Plan(redrawn) = <<>> \o <<Step("jpeg", 0, 0)>>
    BY <1>3, <1>6, <2>2 DEF Plan
  <2>4. "DCTDecode" \in ToSet(redrawn.filters)
    BY <2>1 DEF ToSet
  <2>5. Meant(redrawn) = Unpacked("DCTDecode", redrawn.params) \o <<>>
    BY <2>1, <2>4, MeantOfFew
  <2>6. Unpacked("DCTDecode", redrawn.params) = <<Step("jpeg", 0, 0)>>
    BY DEF Unpacked
  <2> QED
    BY <1>1, <1>5, <2>3, <2>5, <2>6, Joined
<1>8. CASE kind = "flate"
  <2>1. /\ redrawn.filters = <<"FlateDecode">>
        /\ redrawn.params = [form |-> "dict", predictor |-> 15, colors |-> redrawn.channels, columns |-> 1]
    BY <1>3, <1>8
  <2>2. ~Jpeg(redrawn) /\ Inflate(redrawn)
    BY <2>1 DEF Jpeg, Inflate, Last
  <2>3. Samples(redrawn) /\ Predictor(redrawn) = 15
    BY <1>3, <2>1 DEF Samples, Matches, Predictor
  <2>4. Plan(redrawn) = <<Step("inflate", 0, 0)>>
                        \o (<<Step("unpredict", redrawn.channels, 1)>> \o <<Step("samples", redrawn.channels, 8)>>)
    BY <1>3, <1>6, <2>1, <2>2, <2>3 DEF Plan
  <2>5. "DCTDecode" \notin ToSet(redrawn.filters)
    BY <2>1 DEF ToSet
  <2>6. Meant(redrawn) = Unpacked("FlateDecode", redrawn.params) \o <<Step("samples", redrawn.channels, 8)>>
    BY <1>3, <2>1, <2>5, MeantOfFew
  <2>7. Unpacked("FlateDecode", redrawn.params)
            = <<Step("inflate", 0, 0)>> \o <<Step("unpredict", redrawn.channels, 1)>>
    BY <1>3, <2>1 DEF Unpacked
  <2>8. PICK i, u, s : /\ i \in Seq(S) /\ u \in Seq(S) /\ s \in Seq(S)
                      /\ i = <<Step("inflate", 0, 0)>> /\ u = <<Step("unpredict", redrawn.channels, 1)>>
                      /\ s = <<Step("samples", redrawn.channels, 8)>>
    BY <1>5
  <2>9. (i \o u) \o s = i \o (u \o s)
    BY <2>8, Joined
  <2> QED
    BY <1>1, <2>4, <2>6, <2>7, <2>8, <2>9
<1> QED
  BY <1>7, <1>8

(* Every picture the compressor reads itself is read in the steps its       *)
(* filters and parameters mean, whatever its dictionary, and so is what it  *)
(* writes (compress.js, directly).                                          *)
THEOREM PicturesReadAsMeant ==
    ASSUME NEW image \in Images
    PROVE  ReadAsMeant(image)
<1>1. Plan(image) \notin {Keep, Draw} => Jpeg(image) \/ Samples(image)
  BY DEF Plan
<1> QED
  BY <1>1, JpegAsMeant, SamplesAsMeant, RedrawnAsMeant DEF ReadAsMeant

(* Nothing is lost between the pictures of a PDF and what is read of them,  *)
(* nor between their samples and the filtered rows they are saved in:       *)
(* pictures of any size, of any number of rows, with any filters.           *)
THEOREM PicturesAlwaysComeBack == Spec => []PicturesComeBack
<1>1. PicturesComeBack
  BY PicturesReadAsMeant, FilteredSamplesComeBack DEF PicturesComeBack
<1> QED
  BY <1>1, PTL
=============================================================================
