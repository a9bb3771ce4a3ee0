------------------------------ MODULE Compressor ------------------------------
(***************************************************************************)
(* The pictures of a PDF made smaller in the browser, several at once.     *)
(*                                                                         *)
(*   pdf-compressor/compress.js    runners that take the next picture      *)
(*   pdf-compressor/image-pool.js  workers, each job to the least loaded   *)
(*   pdf-compressor/draw-image.js  pictures pdf.js has to draw, AtOnce     *)
(*                                 drawn by one drawer at a time           *)
(*                                                                         *)
(* A runner is at one picture at a time, so a job on its way is told by    *)
(* its runner. Between two awaits JavaScript runs on without a click, a    *)
(* message or another runner in between: that is one action.               *)
(***************************************************************************)
EXTENDS FiniteSets, PngFilters, PictureReading

CONSTANTS
    W,         \* how many workers are started
    Pictures,  \* how many pictures the PDF has
    AtOnce     \* how many one drawer draws at a time

ASSUME CompressorAssumption == {W, Pictures, AtOnce} \subseteq Nat \ {0}

Workers == 1..W
Runners == 1..(2 * W)
Drawers == Runners   \* no runner makes a second one: each is known by who made it

VARIABLES
    phase,      \* where compressPdf is
    cancelled,  \* Cancel was clicked
    plan,       \* each picture: kept as it is, read directly, drawn by pdf.js
    outcome,    \* each picture: "none", "kept" or "redrawn"
    next,       \* the next picture to take
    pool,       \* "none" before, then "page", "workers", "closed"
    load,       \* jobs counted for each worker
    pc,         \* where each runner is
    at,         \* its picture,
    on,         \* the worker with its job, or 0
    mine,       \* the drawer it uses, or 0
    drawer,     \* the one compressPdf knows, or 0
    drawing,    \* pictures counted as being drawn by each drawer
    waiting,    \* runners waiting for it
    pdfWorker   \* each drawer's pdf.js worker: "none", "open" or "closed"

pictureVars == <<outcome, next>>
poolVars == <<pool, load>>
drawerVars == <<drawer, drawing, waiting, pdfWorker>>
vars == <<phase, cancelled, plan, pictureVars, poolVars, pc, at, on, mine, drawerVars>>

Init ==
    /\ phase = "prepare" /\ cancelled = FALSE
    /\ plan \in [1..Pictures -> {"keep", "read", "draw"}]
    /\ outcome = [p \in 1..Pictures |-> "none"] /\ next = 1
    /\ pool = "none" /\ load = [w \in Workers |-> 0]
    /\ pc = [r \in Runners |-> "off"] /\ at = [r \in Runners |-> 0]
    /\ on = [r \in Runners |-> 0] /\ mine = [r \in Runners |-> 0]
    /\ drawer = 0
    /\ drawing = [d \in Drawers |-> 0] /\ waiting = [d \in Drawers |-> <<>>]
    /\ pdfWorker = [d \in Drawers |-> "none"]

(* No runner is in the middle of its turn. *)
Quiet == \A r \in Runners : pc[r] \notin {"ready", "ask"}

(* Loaded, what is kept twice or never shown taken out.                     *)
Prepare ==
    /\ phase = "prepare" /\ ~cancelled
    /\ phase' = "starting"
    /\ UNCHANGED <<cancelled, plan, pictureVars, poolVars, pc, at, on, mine, drawerVars>>

(* All workers said they are ready; or one did not in time, and the page    *)
(* itself does one picture after the other.                                 *)
Started ==
    /\ phase = "starting"
    /\ phase' = "pictures"
    /\ pool' \in {"workers", "page"}
    /\ pc' = [r \in Runners |->
                IF r <= Pictures /\ (pool' = "workers" \/ r = 1) THEN "ready" ELSE "off"]
    /\ UNCHANGED <<cancelled, plan, pictureVars, load, at, on, mine, drawerVars>>
-----------------------------------------------------------------------------
(* Runners get their first turn in order. *)
Turn(r) == \A q \in 1..(r - 1) : pc[q] \notin {"ready", "ask"}

(* Mutant: the next picture is counted after the first await. *)
TakeSame(r) ==
    /\ pc[r] = "ready" /\ Turn(r)
    /\ at' = [at EXCEPT ![r] = next]
    /\ next' = IF plan[next] = "read" THEN next ELSE next + 1
    /\ pc' = [pc EXCEPT ![r] = CASE plan[next] = "keep" -> "pause"
                                 [] plan[next] = "read" -> "ask"
                                 [] plan[next] = "draw" -> "import"]
    /\ outcome' = IF plan[next] = "keep" THEN [outcome EXCEPT ![next] = "kept"] ELSE outcome
    /\ mine' = [mine EXCEPT ![r] = drawer]
    /\ UNCHANGED <<phase, cancelled, plan, poolVars, on, drawerVars>>

(* The next picture: kept as it is, to be read directly, or to be drawn.    *)
Take(r) ==
    /\ pc[r] = "ready" /\ Turn(r)
    /\ at' = [at EXCEPT ![r] = next]
    /\ next' = next + 1
    /\ pc' = [pc EXCEPT ![r] = CASE plan[next] = "keep" -> "pause"
                                 [] plan[next] = "read" -> "ask"
                                 [] plan[next] = "draw" -> "import"]
    /\ outcome' = IF plan[next] = "keep" THEN [outcome EXCEPT ![next] = "kept"] ELSE outcome
    /\ mine' = [mine EXCEPT ![r] = drawer]
    /\ UNCHANGED <<phase, cancelled, plan, poolVars, on, drawerVars>>

(* The first worker of those with the fewest jobs. *)
LeastLoaded ==
    CHOOSE w \in Workers :
        /\ \A v \in Workers : load[w] <= load[v]
        /\ \A v \in 1..(w - 1) : load[v] > load[w]

(* A job is sent: to a worker, or done here when there is none. One sent to *)
(* a worker terminated meanwhile is never answered.                         *)
Send(r, until) ==
    /\ pc' = [pc EXCEPT ![r] = until]
    /\ IF pool = "page" THEN UNCHANGED <<on, load>>
       ELSE /\ on' = [on EXCEPT ![r] = LeastLoaded]
            /\ load' = [load EXCEPT ![LeastLoaded] = @ + 1]

Ask(r) ==
    /\ pc[r] = "ask" /\ Turn(r)
    /\ Send(r, "reading")
    /\ UNCHANGED <<phase, cancelled, plan, pictureVars, pool, at, mine, drawerVars>>

(* What runners rs do when each's job came back with answer a: a picture    *)
(* that could not be read directly is drawn; any other is done, smaller or  *)
(* left as it was.                                                          *)
Back(rs, a) ==
    LET failed == {r \in rs : a = "error" /\ pc[r] = "reading"}
    IN  /\ pc' = [r \in Runners |-> IF r \in failed THEN "import"
                                    ELSE IF r \in rs THEN "pause" ELSE pc[r]]
        /\ mine' = [r \in Runners |-> IF r \in failed THEN drawer ELSE mine[r]]
        /\ outcome' = [p \in 1..Pictures |->
                          IF \E r \in rs \ failed : at[r] = p
                          THEN IF a = "smaller" THEN "redrawn" ELSE "kept"
                          ELSE outcome[p]]
        /\ on' = [r \in Runners |-> IF r \in rs THEN 0 ELSE on[r]]

(* A worker's answer, or the page's own.                                    *)
Answer(r) ==
    /\ Quiet /\ phase = "pictures" /\ pc[r] \in {"reading", "encoding"}
    /\ \E a \in {"smaller", "no gain", "error"} : Back({r}, a)
    /\ load' = IF on[r] = 0 THEN load ELSE [load EXCEPT ![on[r]] = @ - 1]
    /\ UNCHANGED <<phase, cancelled, plan, next, pool, at, drawerVars>>

(* Mutant: the jobs of a worker that failed stay counted for it. *)
WorkerErrorCounted(w) ==
    /\ Quiet /\ phase = "pictures" /\ pool = "workers"
    /\ Back({r \in Runners : on[r] = w}, "error")
    /\ UNCHANGED <<phase, cancelled, plan, next, pool, load, at, drawerVars>>

(* A worker reports an error: every job of its fails.                       *)
WorkerError(w) ==
    /\ Quiet /\ phase = "pictures" /\ pool = "workers"
    /\ Back({r \in Runners : on[r] = w}, "error")
    /\ load' = [load EXCEPT ![w] = @ - Cardinality({r \in Runners : on[r] = w})]
    /\ UNCHANGED <<phase, cancelled, plan, next, pool, at, drawerVars>>
-----------------------------------------------------------------------------
(* Runner r begins to draw with drawer d, or waits while enough are drawn.  *)
Enter(r, d) ==
    IF drawing[d] >= AtOnce
    THEN /\ pc' = [pc EXCEPT ![r] = "waiting"]
         /\ waiting' = [waiting EXCEPT ![d] = Append(@, r)]
         /\ UNCHANGED drawing
    ELSE /\ pc' = [pc EXCEPT ![r] = "drawing"]
         /\ drawing' = [drawing EXCEPT ![d] = @ + 1]
         /\ UNCHANGED waiting

(* drawerOf(): the drawer known when it was called; or a new one, also when *)
(* another runner made one meanwhile.                                       *)
Import(r) ==
    /\ Quiet /\ pc[r] = "import"
    /\ IF mine[r] # 0
       THEN Enter(r, mine[r]) /\ UNCHANGED <<mine, drawer>>
       ELSE /\ drawer' = r
            /\ mine' = [mine EXCEPT ![r] = r]
            /\ Enter(r, r)
    /\ UNCHANGED <<phase, cancelled, plan, pictureVars, poolVars, at, on, pdfWorker>>

(* The script that draws cannot be fetched: no drawer is made, and the      *)
(* picture is left as it was.                                               *)
ImportFails(r) ==
    /\ Quiet /\ pc[r] = "import" /\ mine[r] = 0
    /\ pc' = [pc EXCEPT ![r] = "pause"]
    /\ outcome' = [outcome EXCEPT ![at[r]] = "kept"]
    /\ UNCHANGED <<phase, cancelled, plan, next, poolVars, at, on, mine, drawerVars>>

(* Woken, it looks again: another may have come before it.                  *)
Woken(r) ==
    /\ Quiet /\ pc[r] = "woken"
    /\ Enter(r, mine[r])
    /\ UNCHANGED <<phase, cancelled, plan, pictureVars, poolVars, at, on, mine, drawer, pdfWorker>>

(* The small PDF is handed to the drawer's pdf.js worker.                   *)
OpenPdf(r) ==
    /\ Quiet /\ pc[r] = "drawing"
    /\ pc' = [pc EXCEPT ![r] = "rendering"]
    /\ pdfWorker' = [pdfWorker EXCEPT ![mine[r]] = "open"]
    /\ UNCHANGED <<phase, cancelled, plan, pictureVars, poolVars, at, on, mine, drawer, drawing, waiting>>

(* Mutant: nobody is woken when a picture could not be drawn. *)
LeaveAsleep(r, until) ==
    LET d == mine[r]
    IN  /\ drawing' = [drawing EXCEPT ![d] = @ - 1]
        /\ IF waiting[d] = <<>> \/ until = "pause"
           THEN pc' = [pc EXCEPT ![r] = until] /\ UNCHANGED waiting
           ELSE /\ pc' = [pc EXCEPT ![r] = until, ![Head(waiting[d])] = "woken"]
                /\ waiting' = [waiting EXCEPT ![d] = Tail(@)]

(* Runner r leaves its drawer, to be at `until`, and wakes the first who waits. *)
Leave(r, until) ==
    LET d == mine[r]
    IN  /\ drawing' = [drawing EXCEPT ![d] = @ - 1]
        /\ IF waiting[d] = <<>>
           THEN pc' = [pc EXCEPT ![r] = until] /\ UNCHANGED waiting
           ELSE /\ pc' = [pc EXCEPT ![r] = until, ![Head(waiting[d])] = "woken"]
                /\ waiting' = [waiting EXCEPT ![d] = Tail(@)]

Drawn(r) ==
    /\ Quiet /\ pc[r] = "rendering"
    /\ Leave(r, "bitmap")
    /\ UNCHANGED <<phase, cancelled, plan, pictureVars, poolVars, at, on, mine, drawer, pdfWorker>>

(* The picture could not be drawn: left as it was.                          *)
NotDrawn(r) ==
    /\ Quiet /\ pc[r] \in {"drawing", "rendering"}
    /\ Leave(r, "pause")
    /\ outcome' = [outcome EXCEPT ![at[r]] = "kept"]
    /\ UNCHANGED <<phase, cancelled, plan, next, poolVars, at, on, mine, drawer, pdfWorker>>

(* What was drawn, a bitmap now, is sent to be encoded.                     *)
Encode(r) ==
    /\ Quiet /\ pc[r] = "bitmap"
    /\ Send(r, "encoding")
    /\ UNCHANGED <<phase, cancelled, plan, pictureVars, pool, at, mine, drawerVars>>
-----------------------------------------------------------------------------
(* Mutant: the next picture is taken without a look at Cancel. *)
GoOnAnyway(r) ==
    /\ Quiet /\ pc[r] = "pause"
    /\ pc' = [pc EXCEPT ![r] = IF next <= Pictures THEN "ready" ELSE "off"]
    /\ UNCHANGED <<phase, cancelled, plan, pictureVars, poolVars, at, on, mine, drawerVars>>

(* After each picture the browser gets a moment; then on to the next.       *)
GoOn(r) ==
    /\ Quiet /\ pc[r] = "pause" /\ ~cancelled
    /\ pc' = [pc EXCEPT ![r] = IF next <= Pictures THEN "ready" ELSE "off"]
    /\ UNCHANGED <<phase, cancelled, plan, pictureVars, poolVars, at, on, mine, drawerVars>>

ClosedDrawer == [d \in Drawers |-> IF d = drawer /\ pdfWorker[d] = "open" THEN "closed" ELSE pdfWorker[d]]

(* The first runner to notice Cancel ends it all: pool and drawer are       *)
(* closed, jobs on their way fail. The other runners go on from there until *)
(* each notices for itself.                                                 *)
Notice(r) ==
    /\ Quiet /\ pc[r] = "pause" /\ cancelled
    /\ IF phase = "pictures"
       THEN LET asked == {q \in Runners : on[q] # 0}
            IN  /\ phase' = "cancelled" /\ pool' = "closed" /\ pdfWorker' = ClosedDrawer
                /\ pc' = [q \in Runners |-> IF q = r THEN "out"
                                            ELSE IF q \notin asked THEN pc[q]
                                            ELSE IF pc[q] = "reading" THEN "import" ELSE "pause"]
                /\ mine' = [q \in Runners |-> IF q \in asked /\ pc[q] = "reading" THEN drawer ELSE mine[q]]
                /\ on' = [q \in Runners |-> 0]
                /\ outcome' = [p \in 1..Pictures |->
                                  IF \E q \in asked : at[q] = p /\ pc[q] = "encoding" THEN "kept" ELSE outcome[p]]
       ELSE /\ pc' = [pc EXCEPT ![r] = "out"]
            /\ UNCHANGED <<phase, pool, pdfWorker, mine, on, outcome>>
    /\ UNCHANGED <<cancelled, plan, next, load, at, drawer, drawing, waiting>>

(* Mutant: pictures left as they were do not count as done. *)
AllRedrawn ==
    /\ phase = "pictures" /\ \A p \in 1..Pictures : outcome[p] = "redrawn"
    /\ \A r \in Runners : pc[r] = "off"
    /\ phase' = "packing" /\ pool' = "closed" /\ pdfWorker' = ClosedDrawer
    /\ UNCHANGED <<cancelled, plan, pictureVars, load, pc, at, on, mine, drawer, drawing, waiting>>

(* All runners are through.                                                 *)
AllTaken ==
    /\ phase = "pictures" /\ \A r \in Runners : pc[r] = "off"
    /\ phase' = "packing" /\ pool' = "closed" /\ pdfWorker' = ClosedDrawer
    /\ UNCHANGED <<cancelled, plan, pictureVars, load, pc, at, on, mine, drawer, drawing, waiting>>

(* Streams packed, with a moment for the browser after each.                *)
Pack ==
    /\ phase = "packing" /\ ~cancelled
    /\ phase' = "saving"
    /\ UNCHANGED <<cancelled, plan, pictureVars, poolVars, pc, at, on, mine, drawerVars>>

(* Saved, and given back: the smaller of what was saved and what came.      *)
Save ==
    /\ phase = "saving"
    /\ phase' = "done"
    /\ UNCHANGED <<cancelled, plan, pictureVars, poolVars, pc, at, on, mine, drawerVars>>

(* Cancel noticed outside the pictures; or the PDF cannot be read or saved. *)
Stop ==
    /\ \/ phase \in {"prepare", "packing"} /\ cancelled /\ phase' = "cancelled"
       \/ phase \in {"prepare", "saving"} /\ phase' = "failed"
    /\ UNCHANGED <<cancelled, plan, pictureVars, poolVars, pc, at, on, mine, drawerVars>>

Busy == phase \notin {"done", "cancelled", "failed"}

Cancel ==
    /\ Busy /\ Quiet
    /\ cancelled' = TRUE
    /\ UNCHANGED <<phase, plan, pictureVars, poolVars, pc, at, on, mine, drawerVars>>

Advance(r) ==
    \/ Take(r) \/ Ask(r) \/ Answer(r) \/ Import(r) \/ ImportFails(r) \/ Woken(r)
    \/ OpenPdf(r) \/ Drawn(r) \/ NotDrawn(r) \/ Encode(r) \/ GoOn(r) \/ Notice(r)

Go == Prepare \/ Started \/ AllTaken \/ Pack \/ Save \/ Stop

Next == Go \/ Cancel \/ (\E r \in Runners : Advance(r)) \/ (\E w \in Workers : WorkerError(w))

Spec == Init /\ [][Next]_vars

(* The page's own steps go on, and a worker answers in the end what it was  *)
(* asked (or says it failed). Nobody has to click.                          *)
FairSpec == Spec /\ WF_vars(Go) /\ \A r \in Runners : WF_vars(Advance(r))
-----------------------------------------------------------------------------
AtWork == {"ask", "reading", "import", "waiting", "woken", "drawing", "rendering", "bitmap", "encoding"}

(* However the runners interleave and whatever fails, a picture is at one   *)
(* runner only, none is taken from a runner before its outcome is known,    *)
(* and the file is packed and saved with every picture done and no runner   *)
(* still changing it.                                                       *)
EveryPictureOnce ==
    /\ \A r, q \in Runners : pc[r] \in AtWork /\ pc[q] \in AtWork /\ at[r] = at[q] => r = q
    /\ \A r \in Runners : pc[r] \in AtWork => outcome[at[r]] = "none"
    /\ phase \in {"packing", "saving", "done"} =>
           /\ \A p \in 1..Pictures : outcome[p] # "none"
           /\ \A r \in Runners : pc[r] = "off"

(* A worker's load is the jobs it has, also after errors: picking the least *)
(* loaded one spreads them.                                                 *)
LoadIsPending ==
    phase = "pictures" => \A w \in Workers : load[w] = Cardinality({r \in Runners : on[r] = w})

(* Nothing is lost between a picture and what is read of it, nor between    *)
(* its samples and its filtered rows, whatever pictures the PDF has: asked  *)
(* before the first is read (encode-image.js, unpredict; compress.js,       *)
(* directly).                                                               *)
PicturesComeBack ==
    phase = "prepare" /\ plan = [p \in 1..Pictures |-> "keep"] =>
        /\ \A image \in Images : ReadAsMeant(image)
        /\ \A s \in Samplings : SamplesComeBack(s.rows, s.types, s.channels)

(* A drawer draws no more than AtOnce, and nobody waits for one with room   *)
(* that no woken runner is about to take.                                   *)
NobodyLeftWaiting ==
    \A d \in Drawers :
        LET in == {r \in Runners : mine[r] = d /\ pc[r] \in {"drawing", "rendering"}}
            woken == {r \in Runners : mine[r] = d /\ pc[r] = "woken"}
        IN  /\ drawing[d] = Cardinality(in) /\ drawing[d] <= AtOnce
            /\ waiting[d] # <<>> => drawing[d] + Cardinality(woken) >= AtOnce

(* After Cancel no runner that has had a picture takes another: what is on  *)
(* its way is all that is still done.                                       *)
CancelIsHeeded == [][cancelled => \A r \in Runners : at[r] # 0 => at'[r] = at[r]]_vars

(* Every compression ends: also when workers fail, and when the user gives  *)
(* up.                                                                      *)
CompressEnds == <>~Busy

(* "Pictures drawn at once: each is decoded whole in pdf.js's worker, so a  *)
(* few big scans are memory enough." (draw-image.js, AT_ONCE)               *)
FewDrawnAtOnce == Cardinality({r \in Runners : pc[r] \in {"drawing", "rendering"}}) <= AtOnce
=============================================================================
