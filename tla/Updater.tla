------------------------------- MODULE Updater -------------------------------
(***************************************************************************)
(* The one-click system update: nine steps, each started by a web request  *)
(* of its own, and the maintenance mode they switch on and off.            *)
(*                                                                         *)
(*   app/Services/Updater/Updater.php           the steps and their state  *)
(*   app/Services/CronWebhookRunner.php         the web cron carries it on *)
(*   app/Filament/Shared/Pages/SystemUpdates.php  the page: start, retry,  *)
(*                                              give up, next step         *)
(*   app/Models/Setting.php                     settings, read through a   *)
(*                                              copy kept for the request  *)
(*                                                                         *)
(* A runner is whoever asks for the next step again and again: the loop of *)
(* an open page, or the web cron.  Setting::get() answers from the copy of *)
(* all settings the request took when it first read one, which is before   *)
(* it tries the step lock.                                                 *)
(***************************************************************************)
EXTENDS Integers, Sequences, FiniteSets

CONSTANTS
    Runners,      \* requesters of steps
    Pages,        \* open System Updates pages (their buttons)
    Updates,      \* versions that can be updated to
    SilentSteps,  \* steps that may print nothing for STALE_AFTER seconds
    Silences,     \* whether that much time may pass with nothing printed
    Stores,       \* the cache stores it may run on: TRUE is one with locks
    MaxDeaths,    \* bound: requests the server kills half-way
    None          \* a setting that is not there

ASSUME ConstantsAssumption ==
    /\ Silences \in BOOLEAN
    /\ Stores \subseteq BOOLEAN
    /\ MaxDeaths \in Nat

Steps == <<"preflight", "maintenance", "code", "dependencies", "database",
           "permissions", "cleanup", "optimize", "finish">>
Last == Len(Steps)

(* updater_state: `completed` is always the first `done` of the steps,      *)
(* since each save appends the first one it does not hold.                  *)
Progress == [update : Updates, done : 0..Last, failed : BOOLEAN]

(* updater_previous_offline: app_offline, and was_down *)
Previous == [offline : BOOLEAN, down : BOOLEAN]

(* A request's copy of the settings *)
Copy == [state : Progress \cup {None}, prev : Previous \cup {None}, offline : BOOLEAN]

ASSUME NoneAssumption == None \notin Progress /\ None \notin Previous /\ None \notin Runners
                            /\ None \notin Copy

VARIABLES
    state,    \* the updater_state setting
    prev,     \* the updater_previous_offline setting
    offline,  \* the app_offline setting
    down,     \* storage/framework/down: the framework's own maintenance mode
    locks,    \* the cache store has locks
    lock,     \* who holds updater:step
    quiet,    \* the live log is older than STALE_AFTER
    pc,       \* where each runner's request is
    copy,     \* the settings it goes by, or None
    page,     \* what each page last showed
    before,   \* how the site stood before any update
    deaths,   \* requests killed so far
    stranded  \* one of them between forgetting the record and leaving the
              \* maintenance mode it was the record of

siteVars   == <<prev, offline, down>>
runnerVars == <<pc, copy>>
settled    == <<before, locks>>    \* never change
killVars   == <<deaths, stranded>>
vars == <<state, siteVars, lock, quiet, runnerVars, page, settled, killVars>>

Init ==
    /\ state = None /\ prev = None
    /\ offline \in BOOLEAN /\ down \in BOOLEAN
    /\ before = [offline |-> offline, down |-> down]
    /\ locks \in Stores /\ lock = None
    /\ quiet = FALSE
    /\ pc = [p \in Runners |-> "idle"]
    /\ copy = [p \in Runners |-> None]
    /\ page = [g \in Pages |-> "none"]
    /\ deaths = 0 /\ stranded = FALSE

(* Mutant: a failed update is carried on like any other. *)
NotOver(s) == s # None

InProgress(s) == s # None /\ ~s.failed

(* Inside a step, from its first line of the live log to its last write *)
StepPcs == {"running", "recorded", "switched", "putback", "restored", "forgetting"}
InStep(p) == pc[p] \in StepPcs
StepOf(p) == Steps[copy[p].state.done + 1]

GoTo(p, l) == pc' = [pc EXCEPT ![p] = l]

(* The answer goes out; the lock is released by its owner only. *)
Answer(p) ==
    /\ GoTo(p, "idle")
    /\ copy' = [copy EXCEPT ![p] = None]

Release(p) == lock' = IF lock = p THEN None ELSE lock

-----------------------------------------------------------------------------
(* Asking for the next step *)

(* The request begins and takes its copy of the settings.  The cron asks   *)
(* only for an update under way, and any other request is turned away.     *)
Ask(p) ==
    /\ pc[p] = "idle" /\ InProgress(state)
    /\ GoTo(p, "ready")
    /\ copy' = [copy EXCEPT ![p] = [state |-> state, prev |-> prev, offline |-> offline]]
    /\ UNCHANGED <<state, siteVars, lock, quiet, page, settled, killVars>>

(* Mutant: the lock is taken without asking whether it is free. *)
AcquireAnyway(p) ==
    /\ pc[p] \in {"ready", "forced"}
    /\ lock' = p
    /\ GoTo(p, "locked")
    /\ UNCHANGED <<state, siteVars, quiet, copy, page, settled, killVars>>

(* Cache::lock(); a store without locks throws, and the step goes on        *)
(* without one.                                                            *)
Acquire(p) ==
    /\ pc[p] \in {"ready", "forced"} /\ lock = None
    /\ lock' = IF locks THEN p ELSE None
    /\ GoTo(p, "locked")
    /\ UNCHANGED <<state, siteVars, quiet, copy, page, settled, killVars>>

Busy(p) ==
    /\ \/ pc[p] = "ready" /\ lock # None /\ ~quiet
       \/ pc[p] = "forced" /\ lock # None
    /\ Answer(p)
    /\ UNCHANGED <<state, siteVars, lock, quiet, page, settled, killVars>>

(* Mutant: busy, however long the holder has been silent. *)
NeverTakeOver(p) ==
    /\ pc[p] = "ready" /\ lock # None /\ quiet
    /\ Answer(p)
    /\ UNCHANGED <<state, siteVars, lock, quiet, page, settled, killVars>>

(* A step gone silent is dead: take over.                                  *)
FindDead(p) ==
    /\ pc[p] = "ready" /\ lock # None /\ quiet
    /\ GoTo(p, "taking")
    /\ UNCHANGED <<state, siteVars, lock, quiet, copy, page, settled, killVars>>

ForceRelease(p) ==
    /\ pc[p] = "taking"
    /\ lock' = None
    /\ GoTo(p, "forced")
    /\ UNCHANGED <<state, siteVars, quiet, copy, page, settled, killVars>>

-----------------------------------------------------------------------------
(* Running it *)

(* The first pending step of the copy; each starts a fresh live log.       *)
BeginStep(p) ==
    /\ pc[p] = "locked"
    /\ IF InProgress(copy[p].state) /\ copy[p].state.done < Last
       THEN /\ quiet' = FALSE
            /\ GoTo(p, "running")
            /\ UNCHANGED <<lock, copy>>
       ELSE /\ Release(p) /\ Answer(p)
            /\ UNCHANGED quiet
    /\ UNCHANGED <<state, siteVars, page, settled, killVars>>

(* Mutant: how the site stands is recorded at every try. *)
RecordEveryTime(p) ==
    /\ pc[p] = "running" /\ StepOf(p) = "maintenance"
    /\ prev' = [offline |-> copy[p].offline, down |-> down]
    /\ GoTo(p, "recorded")
    /\ UNCHANGED <<state, offline, down, lock, quiet, copy, page, settled, killVars>>

(* enterMaintenance(): how the site stood is recorded the first time only. *)
RecordOffline(p) ==
    /\ pc[p] = "running" /\ StepOf(p) = "maintenance"
    /\ prev' = IF copy[p].prev = None
               THEN [offline |-> copy[p].offline, down |-> down]
               ELSE prev
    /\ GoTo(p, "recorded")
    /\ UNCHANGED <<state, offline, down, lock, quiet, copy, page, settled, killVars>>

SwitchOffline(p) ==
    /\ pc[p] = "recorded"
    /\ offline' = TRUE
    /\ GoTo(p, "switched")
    /\ UNCHANGED <<state, prev, down, lock, quiet, copy, page, settled, killVars>>

(* Mutant: the record is forgotten before what it says is put back.        *)
ForgetFirst(p) ==
    /\ pc[p] = "running" /\ StepOf(p) = "finish" /\ copy[p].prev # None
    /\ prev' = None
    /\ GoTo(p, "putback")
    /\ UNCHANGED <<state, offline, down, lock, quiet, copy, page, settled, killVars>>

(* restoreOfflineMode(): the settings put back first, and then the record  *)
(* of them forgotten.                                                      *)
PutBack(p) ==
    /\ pc[p] = "running" /\ StepOf(p) = "finish" /\ copy[p].prev # None
    /\ offline' = copy[p].prev.offline
    /\ GoTo(p, "putback")
    /\ UNCHANGED <<state, prev, down, lock, quiet, copy, page, settled, killVars>>

ForgetPrevious(p) ==
    /\ pc[p] = "putback"
    /\ prev' = None
    /\ GoTo(p, "restored")
    /\ UNCHANGED <<state, offline, down, lock, quiet, copy, page, settled, killVars>>

(* What is left of the step once its settings are written: the framework's *)
(* maintenance mode last, in both directions.                              *)
Rest(p) ==
    CASE pc[p] = "switched" -> down' = TRUE
      [] pc[p] = "restored" -> down' = (down /\ copy[p].prev.down)
      [] pc[p] = "running"  ->
            /\ StepOf(p) # "maintenance"
            /\ StepOf(p) = "finish" => copy[p].prev = None
            /\ UNCHANGED down

(* The step is appended to the copy's list and the copy saved.             *)
Complete(p) ==
    /\ pc[p] \in {"running", "switched", "restored"}
    /\ Rest(p)
    /\ state' = [copy[p].state EXCEPT !.done = @ + 1]
    /\ IF StepOf(p) = "finish"
       THEN GoTo(p, "forgetting") /\ UNCHANGED <<lock, copy>>
       ELSE Release(p) /\ Answer(p)
    /\ UNCHANGED <<prev, offline, quiet, page, settled, killVars>>

(* Mutant: the finished update is left in the settings. *)
KeepFinished(p) ==
    /\ pc[p] = "forgetting"
    /\ Release(p) /\ Answer(p)
    /\ UNCHANGED <<state, siteVars, quiet, page, settled, killVars>>

(* "Once finished, nothing is left to resume": a second write.             *)
Forget(p) ==
    /\ pc[p] = "forgetting"
    /\ state' = None
    /\ Release(p) /\ Answer(p)
    /\ UNCHANGED <<siteVars, quiet, page, settled, killVars>>

(* The step throws: what it did stays, and the copy is saved as failed.    *)
Fail(p) ==
    /\ pc[p] \in StepPcs \ {"forgetting"}
    /\ IF pc[p] = "restored" THEN Rest(p) ELSE UNCHANGED down
    /\ state' = [copy[p].state EXCEPT !.failed = TRUE]
    /\ Release(p) /\ Answer(p)
    /\ UNCHANGED <<prev, offline, quiet, page, settled, killVars>>

-----------------------------------------------------------------------------
(* The server: time passes, requests die *)

(* Ten minutes can pass: nobody is about to start a step, and whoever is   *)
(* inside one prints nothing.                                              *)
Quiescent ==
    \A p \in Runners : pc[p] # "locked" /\ (InStep(p) => StepOf(p) \in SilentSteps)

GoSilent ==
    /\ Silences /\ ~quiet /\ Quiescent
    /\ quiet' = TRUE
    /\ UNCHANGED <<state, siteVars, lock, runnerVars, page, settled, killVars>>

(* The lock's own 1800 seconds                                             *)
Expire ==
    /\ Silences /\ lock # None /\ Quiescent
    /\ lock' = None
    /\ UNCHANGED <<state, siteVars, quiet, runnerVars, page, settled, killVars>>

(* Killed outright: no finally runs, and the lock stays taken.  The step    *)
(* may have been through the framework's maintenance mode already, with its *)
(* progress not saved.                                                     *)
Die(p) ==
    /\ deaths < MaxDeaths /\ (InStep(p) \/ pc[p] = "locked")
    /\ deaths' = deaths + 1
    /\ \/ UNCHANGED down
       \/ pc[p] \in {"switched", "restored"} /\ Rest(p)
    /\ stranded' = (stranded \/ (pc[p] = "restored" /\ down' /\ ~copy[p].prev.down))
    /\ Answer(p)
    /\ UNCHANGED <<state, prev, offline, lock, quiet, page, settled>>

-----------------------------------------------------------------------------
(* The buttons of a page, which go by what it last showed *)

Shown(s) == IF s = None THEN "none" ELSE IF s.failed THEN "failed" ELSE "under way"

Refresh(g) ==
    /\ page[g] # Shown(state)
    /\ page' = [page EXCEPT ![g] = Shown(state)]
    /\ UNCHANGED <<state, siteVars, lock, quiet, runnerVars, settled, killVars>>

(* A newer release may be out at any time.                                 *)
Start(g, u) ==
    /\ page[g] = "none"
    /\ state' = [update |-> u, done |-> 0, failed |-> FALSE]
    /\ page' = [page EXCEPT ![g] = "under way"]
    /\ UNCHANGED <<siteVars, lock, quiet, runnerVars, settled, killVars>>

Retry(g) ==
    /\ page[g] = "failed"
    /\ state' = IF state = None THEN None ELSE [state EXCEPT !.failed = FALSE]
    /\ page' = [page EXCEPT ![g] = Shown(state')]
    /\ UNCHANGED <<siteVars, lock, quiet, runnerVars, settled, killVars>>

(* Mutant: the record is dropped and nothing put back. *)
AbandonOnly(g) ==
    /\ page[g] = "failed"
    /\ prev' = None /\ state' = None
    /\ page' = [page EXCEPT ![g] = "none"]
    /\ UNCHANGED <<offline, down, lock, quiet, runnerVars, settled, killVars>>

(* Give up: the site as it was, whatever state the code is in.             *)
Abandon(g) ==
    /\ page[g] = "failed"
    /\ IF prev = None
       THEN UNCHANGED siteVars
       ELSE /\ offline' = prev.offline
            /\ down' = (down /\ prev.down)
            /\ prev' = None
    /\ state' = None
    /\ page' = [page EXCEPT ![g] = "none"]
    /\ UNCHANGED <<lock, quiet, runnerVars, settled, killVars>>

(* Killed between two of its writes, the settings put back first.          *)
AbandonDies(g) ==
    /\ page[g] = "failed" /\ prev # None
    /\ deaths < MaxDeaths
    /\ deaths' = deaths + 1
    /\ offline' = prev.offline
    /\ \/ UNCHANGED <<prev, down, stranded>>
       \/ prev' = None /\ down' = (down /\ prev.down) /\ UNCHANGED stranded
       \/ prev' = None /\ UNCHANGED down /\ stranded' = (stranded \/ (down /\ ~prev.down))
    /\ UNCHANGED <<state, lock, quiet, runnerVars, page, settled>>

(* What a runner does, unless the step throws or the server kills it *)
Work(p) ==
    \/ Ask(p) \/ Acquire(p) \/ Busy(p) \/ FindDead(p) \/ ForceRelease(p)
    \/ BeginStep(p) \/ RecordOffline(p) \/ SwitchOffline(p)
    \/ PutBack(p) \/ ForgetPrevious(p) \/ Complete(p) \/ Forget(p)

Button(g) ==
    \/ Refresh(g) \/ Retry(g) \/ Abandon(g) \/ AbandonDies(g)
    \/ \E u \in Updates : Start(g, u)

Next ==
    \/ \E p \in Runners : Work(p) \/ Fail(p) \/ Die(p)
    \/ GoSilent \/ Expire
    \/ \E g \in Pages : Button(g)

Spec == Init /\ [][Next]_vars

(* The web cron is called every minute, an open page asks again as soon as *)
(* it is answered, and PHP runs on: each runner goes on for ever.  Ten     *)
(* minutes pass.  Nobody has to press a button.                            *)
FairSpec == Spec /\ WF_vars(GoSilent) /\ \A p \in Runners : WF_vars(Work(p))

-----------------------------------------------------------------------------
(* Properties *)

TypeOK ==
    /\ state \in Progress \cup {None}
    /\ prev \in Previous \cup {None}
    /\ offline \in BOOLEAN /\ down \in BOOLEAN
    /\ locks \in BOOLEAN /\ lock \in Runners \cup {None}
    /\ quiet \in BOOLEAN
    /\ pc \in [Runners -> {"idle", "ready", "taking", "forced", "locked"} \cup StepPcs]
    /\ copy \in [Runners -> Copy \cup {None}]
    /\ page \in [Pages -> {"none", "failed", "under way"}]
    /\ before \in Previous
    /\ deaths \in 0..MaxDeaths /\ stranded \in BOOLEAN

(* No step is started while another is still running (the test of that     *)
(* name in SystemUpdatesTest; Updater::runNextStepIfIdle).                 *)
OneStepAtATime == \A p, q \in Runners : InStep(p) /\ InStep(q) => p = q

(* What is on record as the site before the update is how it stood before  *)
(* it, never the updater's own maintenance mode ("a retried step must not  *)
(* record the updater's own maintenance mode as the previous state"),      *)
(* whatever is killed, unless that left it in maintenance mode unrecorded. *)
RecordIsOfBefore == ~stranded => prev \in {None, before}

(* With no update left, nothing of it is left on the site: it is on or off *)
(* line as it was (Updater::finish, "Bring the site back online";          *)
(* abandon, "back online, whatever state the code is in"), also when        *)
(* requests were killed on the way, anywhere but between forgetting the     *)
(* record and leaving the maintenance mode.                                *)
BackAsBefore ==
    ~stranded /\ state = None => [offline |-> offline, down |-> down] = before

(* Whatever dies and whenever, app_offline is as it was before the update  *)
(* or what it was is still on record: enterMaintenance() records first and *)
(* switches then, restoreOfflineMode() puts back first and forgets then.   *)
OfflineAccountedFor ==
    prev = None => offline = before.offline

(* An update under way is over in the end, or stopped by a failure: the    *)
(* page may be closed ("the update carries on by itself every minute, and  *)
(* the site comes back online when it is done").                           *)
UpdateEnds == InProgress(state) ~> ~InProgress(state)

(* ... or at least has done its last step, also when requests are killed.  *)
StepsGetDone ==
    InProgress(state) ~> \/ ~InProgress(state)
                         \/ state.done = Last

(* A step is started only when it is the one to be done next: "it must     *)
(* never start the same step twice" (Updater::runNextStepIfIdle).          *)
StartsNextStep ==
    [][\A p \in Runners :
            pc[p] = "locked" /\ pc'[p] = "running" => copy[p].state = state]_vars

(* The updater keeps the promises of UpdateProgress.                       *)
Promise == INSTANCE UpdateProgress WITH progress <- state
Promised == Promise!Spec
=============================================================================
