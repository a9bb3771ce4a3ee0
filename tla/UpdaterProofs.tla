---------------------------- MODULE UpdaterProofs ----------------------------
(* Proofs about Updater, for any runners, pages and updates.                *)
EXTENDS Updater, TLAPS

LEMMA StepsAre ==
    /\ Last = 9
    /\ \A n \in 0..8 : /\ Steps[n + 1] = "finish" <=> n = 8
                       /\ Steps[n + 1] = "maintenance" <=> n = 1
<1>1. Last = 9
  BY DEF Last, Steps
<1>2. ASSUME NEW n \in 0..8
      PROVE  /\ Steps[n + 1] = "finish" <=> n = 8
             /\ Steps[n + 1] = "maintenance" <=> n = 1
  <2>1. n \in {0, 1, 2, 3, 4, 5, 6, 7, 8}
    OBVIOUS
  <2> QED
    BY <2>1 DEF Steps
<1> QED
  BY <1>1, <1>2

(* A request that has been answered holds no copy; one that has not goes by *)
(* an update under way, and is inside a step only if one is left to do.     *)
Holding ==
    \A p \in Runners :
        /\ pc[p] # "idle" => copy[p] # None /\ InProgress(copy[p].state)
        /\ pc[p] \in StepPcs \ {"forgetting"} => copy[p].state.done < Last
        /\ pc[p] \in {"putback", "restored"} => copy[p].prev # None

Typed == TypeOK /\ Holding

LEMMA InitTyped == Init => Typed
<1> SUFFICES ASSUME Init PROVE Typed
  OBVIOUS
<1>1. before \in Previous /\ locks \in BOOLEAN
  BY ConstantsAssumption, Zenon DEF Init, Previous, ConstantsAssumption
<1>2. deaths \in 0..MaxDeaths
  BY ConstantsAssumption DEF Init
<1>3. pc \in [Runners -> {"idle"}] /\ copy \in [Runners -> {None}] /\ page \in [Pages -> {"none"}]
  BY DEF Init
<1>4. TypeOK
  BY <1>1, <1>2, <1>3 DEF Init, TypeOK
<1>5. Holding
  BY <1>3 DEF Holding, StepPcs
<1> QED
  BY <1>4, <1>5 DEF Typed

LEMMA DeathsAreCounted == Typed => deaths \in Nat
<1>1. MaxDeaths \in Nat
  BY ConstantsAssumption DEF ConstantsAssumption
<1>2. Typed => deaths \in 0..MaxDeaths
  BY DEF Typed, TypeOK
<1> QED
  BY <1>1, <1>2

LEMMA CopyFields ==
    ASSUME Typed, NEW p \in Runners, pc[p] # "idle"
    PROVE  /\ copy[p] \in Copy
           /\ copy[p].state \in Progress /\ copy[p].prev \in Previous \cup {None}
           /\ copy[p].offline \in BOOLEAN /\ ~copy[p].state.failed
<1>1. copy[p] \in Copy
  BY DEF Typed, TypeOK, Holding, InProgress
<1> QED
  BY <1>1 DEF Copy, Typed, Holding, InProgress

RunnersTyped ==
    /\ pc \in [Runners -> {"idle", "ready", "taking", "forced", "locked"} \cup StepPcs]
    /\ copy \in [Runners -> Copy \cup {None}]

LEMMA AnswerHolding ==
    ASSUME Typed, NEW p \in Runners, Answer(p)
    PROVE  Holding' /\ RunnersTyped'
<1>1. /\ pc' = [pc EXCEPT ![p] = "idle"] /\ copy' = [copy EXCEPT ![p] = None]
      /\ RunnersTyped /\ Holding
  BY DEF Answer, GoTo, Typed, TypeOK, RunnersTyped
<1>2. RunnersTyped'
  BY <1>1 DEF RunnersTyped
<1>3. /\ pc'[p] = "idle"
      /\ \A q \in Runners \ {p} : pc'[q] = pc[q] /\ copy'[q] = copy[q]
  BY <1>1 DEF RunnersTyped
<1> QED
  BY <1>1, <1>2, <1>3 DEF Holding, StepPcs

LEMMA MoveHolding ==
    ASSUME Typed, NEW p \in Runners,
           NEW l \in {"ready", "taking", "forced", "locked"} \cup StepPcs,
           GoTo(p, l), UNCHANGED copy, pc[p] # "idle",
           l \in StepPcs \ {"forgetting"} => copy[p].state.done < Last,
           l \in {"putback", "restored"} => copy[p].prev # None
    PROVE  Holding' /\ RunnersTyped'
<1>1. pc' = [pc EXCEPT ![p] = l] /\ RunnersTyped /\ Holding
  BY DEF GoTo, Typed, TypeOK, RunnersTyped
<1>2. RunnersTyped'
  BY <1>1 DEF RunnersTyped
<1>3. pc'[p] = l /\ \A q \in Runners \ {p} : pc'[q] = pc[q]
  BY <1>1 DEF RunnersTyped
<1> QED
  BY <1>1, <1>2, <1>3 DEF Holding

LEMMA WorkTyped ==
    ASSUME Typed, NEW p \in Runners, Work(p) \/ Fail(p)
    PROVE  Typed'
<1>a. ASSUME RunnersTyped', Holding',
             state' \in Progress \cup {None}, prev' \in Previous \cup {None},
             offline' \in BOOLEAN, down' \in BOOLEAN, lock' \in Runners \cup {None},
             quiet' \in BOOLEAN, UNCHANGED <<page, settled, killVars>>
      PROVE  Typed'
  BY <1>a DEF Typed, TypeOK, RunnersTyped, settled, killVars
<1>b. TypeOK /\ Holding
  BY DEF Typed
<1>1. CASE Ask(p)
  <2> DEFINE taken == [state |-> state, prev |-> prev, offline |-> offline]
  <2>1. taken \in Copy /\ taken.state = state
    BY <1>b, Zenon DEF TypeOK, Copy
  <2>2. /\ copy' = [copy EXCEPT ![p] = taken] /\ pc' = [pc EXCEPT ![p] = "ready"]
        /\ InProgress(state) /\ RunnersTyped
    BY <1>1, <1>b DEF Ask, GoTo, TypeOK, RunnersTyped
  <2>3. RunnersTyped'
    BY <2>1, <2>2 DEF RunnersTyped
  <2>4. /\ pc'[p] = "ready" /\ copy'[p] = taken
        /\ \A q \in Runners \ {p} : pc'[q] = pc[q] /\ copy'[q] = copy[q]
    BY <2>2 DEF RunnersTyped
  <2>5. Holding'
    BY <1>b, <2>1, <2>2, <2>4, NoneAssumption DEF Holding, StepPcs
  <2> QED
    BY <1>1, <1>a, <1>b, <2>3, <2>5 DEF Ask, TypeOK, siteVars
<1>2. CASE Acquire(p) \/ FindDead(p) \/ ForceRelease(p)
  <2>1. Holding' /\ RunnersTyped'
    BY <1>2, MoveHolding DEF Acquire, FindDead, ForceRelease, StepPcs
  <2> QED
    BY <1>2, <1>a, <1>b, <2>1 DEF Acquire, FindDead, ForceRelease, TypeOK, siteVars
<1>3. CASE Busy(p)
  BY <1>3, <1>a, <1>b, AnswerHolding DEF Busy, TypeOK, siteVars
<1>4. CASE BeginStep(p)
  <2>1. Holding' /\ RunnersTyped'
    BY <1>4, MoveHolding, AnswerHolding DEF BeginStep, StepPcs
  <2> QED
    BY <1>4, <1>a, <1>b, <2>1 DEF BeginStep, Release, TypeOK, siteVars
<1>5. CASE RecordOffline(p)
  <2>1. pc[p] = "running" /\ copy[p].state.done < Last
    BY <1>5, <1>b DEF RecordOffline, Holding, StepPcs
  <2>2. Holding' /\ RunnersTyped'
    BY <1>5, <2>1, MoveHolding DEF RecordOffline, StepPcs
  <2>3. prev' \in Previous \cup {None}
    <3>1. copy[p].offline \in BOOLEAN /\ down \in BOOLEAN
      BY <1>b, <2>1, CopyFields DEF TypeOK
    <3>2. [offline |-> copy[p].offline, down |-> down] \in Previous
      BY <3>1, Zenon DEF Previous
    <3> QED
      BY <1>5, <1>b, <3>2 DEF RecordOffline, TypeOK
  <2> QED
    BY <1>5, <1>a, <1>b, <2>2, <2>3 DEF RecordOffline, TypeOK
<1>6. CASE PutBack(p)
  <2>1. pc[p] = "running" /\ copy[p].state.done < Last /\ copy[p].prev # None
    BY <1>6, <1>b DEF PutBack, Holding, StepPcs
  <2>2. Holding' /\ RunnersTyped'
    BY <1>6, <2>1, MoveHolding DEF PutBack, StepPcs
  <2>3. copy[p].prev.offline \in BOOLEAN
    BY <2>1, CopyFields DEF Previous
  <2> QED
    BY <1>6, <1>a, <1>b, <2>2, <2>3 DEF PutBack, TypeOK
<1>s. CASE SwitchOffline(p) \/ ForgetPrevious(p)
  <2>1. /\ pc[p] # "idle" /\ copy[p].state.done < Last
        /\ ForgetPrevious(p) => copy[p].prev # None
    BY <1>s, <1>b DEF SwitchOffline, ForgetPrevious, Holding, StepPcs
  <2>2. Holding' /\ RunnersTyped'
    BY <1>s, <2>1, MoveHolding DEF SwitchOffline, ForgetPrevious, StepPcs
  <2> QED
    BY <1>s, <1>a, <1>b, <2>2 DEF SwitchOffline, ForgetPrevious, TypeOK
<1>7. CASE Complete(p)
  <2>1. pc[p] # "idle" /\ copy[p].state.done < Last
    BY <1>7, <1>b DEF Complete, Holding, StepPcs
  <2>2. state' \in Progress
    BY <1>7, <2>1, CopyFields, StepsAre DEF Complete, Progress
  <2>3. down' \in BOOLEAN
    BY <1>7, <1>b DEF Complete, Rest, TypeOK
  <2>4. Holding' /\ RunnersTyped' /\ lock' \in Runners \cup {None}
    BY <1>7, <1>b, <2>1, MoveHolding, AnswerHolding DEF Complete, Release, StepPcs, TypeOK
  <2> QED
    BY <1>7, <1>a, <1>b, <2>2, <2>3, <2>4 DEF Complete, TypeOK
<1>8. CASE Forget(p)
  BY <1>8, <1>a, <1>b, AnswerHolding DEF Forget, Release, TypeOK, siteVars
<1>9. CASE Fail(p)
  <2>1. pc[p] # "idle"
    BY <1>9 DEF Fail, StepPcs
  <2>2. state' \in Progress
    BY <1>9, <2>1, CopyFields DEF Fail, Progress
  <2>3. down' \in BOOLEAN
    BY <1>9, <1>b DEF Fail, Rest, TypeOK
  <2> QED
    BY <1>9, <1>a, <1>b, <2>2, <2>3, AnswerHolding DEF Fail, Release, TypeOK
<1> QED
  BY <1>1, <1>2, <1>3, <1>4, <1>5, <1>6, <1>s, <1>7, <1>8, <1>9 DEF Work

LEMMA ButtonTyped ==
    ASSUME Typed, NEW g \in Pages, Button(g)
    PROVE  Typed'
<1> USE StepsAre, ConstantsAssumption
<1>1. CASE Refresh(g)
  BY <1>1 DEF Refresh, Shown, Typed, TypeOK, Holding, InProgress, siteVars, runnerVars, settled, killVars
<1>2. CASE Retry(g)
  <2>1. state' \in Progress \cup {None}
    BY <1>2 DEF Retry, Typed, TypeOK, Progress
  <2> QED
    BY <1>2, <2>1 DEF Retry, Shown, Typed, TypeOK, Holding, InProgress, siteVars, runnerVars, settled, killVars
<1>3. CASE Abandon(g)
  BY <1>3 DEF Abandon, Typed, TypeOK, Holding, InProgress, Previous, siteVars, runnerVars, settled, killVars
<1>5. CASE AbandonDies(g)
  <2>1. deaths' \in 0..MaxDeaths
    <3>1. deaths \in 0..MaxDeaths /\ deaths < MaxDeaths /\ deaths' = deaths + 1
      BY <1>5 DEF AbandonDies, Typed, TypeOK
    <3>2. MaxDeaths \in Nat
      BY ConstantsAssumption DEF ConstantsAssumption
    <3> QED
      BY <3>1, <3>2
  <2>2. prev \in Previous /\ prev.offline \in BOOLEAN
    BY <1>5 DEF AbandonDies, Typed, TypeOK, Previous
  <2>3. /\ offline' \in BOOLEAN /\ down' \in BOOLEAN /\ stranded' \in BOOLEAN
        /\ prev' \in Previous \cup {None}
    BY <1>5, <2>2 DEF AbandonDies, Typed, TypeOK
  <2> QED
    BY <1>5, <2>1, <2>3 DEF AbandonDies, Typed, TypeOK, Holding, InProgress, runnerVars, settled
<1>4. ASSUME NEW u \in Updates, Start(g, u)
      PROVE  Typed'
  <2>1. state' \in Progress
    <3>1. 0 \in 0..Last /\ FALSE \in BOOLEAN
      BY StepsAre
    <3>2. state' = [update |-> u, done |-> 0, failed |-> FALSE]
      BY <1>4 DEF Start
    <3> QED
      BY <3>1, <3>2, Zenon DEF Progress
  <2> QED
    BY <1>4, <2>1 DEF Start, Typed, TypeOK, Holding, InProgress, siteVars, runnerVars, settled, killVars
<1> QED
  BY <1>1, <1>2, <1>3, <1>4, <1>5 DEF Button

LEMMA StepTyped == Typed /\ [Next]_vars => Typed'
<1> SUFFICES ASSUME Typed, [Next]_vars
             PROVE  Typed'
  OBVIOUS
<1>1. ASSUME NEW p \in Runners, Die(p)
      PROVE  Typed'
  <2>1. deaths' \in 0..MaxDeaths
    <3>1. deaths \in 0..MaxDeaths /\ deaths < MaxDeaths /\ deaths' = deaths + 1
      BY <1>1 DEF Die, Typed, TypeOK
    <3>2. MaxDeaths \in Nat
      BY ConstantsAssumption DEF ConstantsAssumption
    <3> QED
      BY <3>1, <3>2
  <2>2. down' \in BOOLEAN /\ stranded' \in BOOLEAN
    BY <1>1 DEF Die, Rest, Typed, TypeOK
  <2> QED
    BY <1>1, <2>1, <2>2, AnswerHolding DEF Die, Typed, TypeOK, RunnersTyped, siteVars, settled, killVars
<1>2. CASE GoSilent \/ Expire
  BY <1>2 DEF GoSilent, Expire, Typed, TypeOK, Holding, InProgress, siteVars, runnerVars, settled, killVars
<1>3. CASE UNCHANGED vars
  BY <1>3 DEF vars, siteVars, runnerVars, Typed, TypeOK, Holding, InProgress, settled, killVars
<1> QED
  BY <1>1, <1>2, <1>3, WorkTyped, ButtonTyped DEF Next

(* Every setting, lock and page keeps the values it may have, whatever the  *)
(* runners, the pages and the server's kills do.                            *)
THEOREM TypeCorrect == Spec => []TypeOK
<1>1. Spec => []Typed
  BY InitTyped, StepTyped, PTL DEF Spec
<1> QED
  BY <1>1, PTL DEF Typed

-----------------------------------------------------------------------------
(* One step at a time *)

(* While the log is never silent for long, whoever is past the lock holds   *)
(* it, and nobody takes it over: a killed request's lock stays taken.       *)
Exclusive ==
    /\ locks /\ ~quiet
    /\ \A p \in Runners :
        /\ pc[p] \notin {"taking", "forced"}
        /\ pc[p] \in {"locked"} \cup StepPcs => lock = p

LEMMA StoreStays == [Next]_vars => UNCHANGED locks
BY DEF Next, Work, Fail, Die, Button, Ask, Acquire, Busy, FindDead, ForceRelease,
       BeginStep, RecordOffline, SwitchOffline, PutBack, ForgetPrevious, Complete,
       Forget, GoSilent, Expire, Refresh, Start, Retry, Abandon, AbandonDies, vars, settled

LEMMA StepExclusive ==
    ASSUME ~Silences, TypeOK, Exclusive, [Next]_vars
    PROVE  Exclusive'
<1> USE StoreStays DEF TypeOK, Exclusive
<1>1. ASSUME NEW p \in Runners, Work(p) \/ Fail(p)
      PROVE  Exclusive'
  <2>1. CASE Ask(p)
    BY <2>1 DEF Ask, GoTo, siteVars, StepPcs
  <2>2. CASE Acquire(p)
    BY <2>2, NoneAssumption DEF Acquire, GoTo, siteVars, StepPcs, settled
  <2>3. CASE Busy(p)
    BY <2>3 DEF Busy, Answer, GoTo, siteVars, StepPcs
  <2>4. CASE FindDead(p) \/ ForceRelease(p)
    BY <2>4 DEF FindDead, ForceRelease
  <2>5. CASE BeginStep(p)
    <3>1. lock = p /\ ~quiet'
      BY <2>5 DEF BeginStep
    <3>2. CASE GoTo(p, "running") /\ UNCHANGED lock
      BY <3>1, <3>2 DEF GoTo, StepPcs
    <3>3. CASE Release(p) /\ Answer(p)
      BY <3>1, <3>3 DEF Release, Answer, GoTo, StepPcs
    <3> QED
      BY <2>5, <3>2, <3>3 DEF BeginStep
  <2>6. CASE RecordOffline(p) \/ SwitchOffline(p) \/ PutBack(p) \/ ForgetPrevious(p)
    <3>1. /\ pc[p] \in StepPcs /\ UNCHANGED <<lock, quiet>>
          /\ \E l \in StepPcs : GoTo(p, l)
      BY <2>6 DEF RecordOffline, SwitchOffline, PutBack, ForgetPrevious, StepPcs
    <3> QED
      BY <3>1 DEF GoTo, StepPcs
  <2>7. CASE Complete(p)
    BY <2>7 DEF Complete, Release, Answer, GoTo, StepPcs
  <2>8. CASE Forget(p)
    BY <2>8 DEF Forget, Release, Answer, GoTo, StepPcs
  <2>9. CASE Fail(p)
    BY <2>9 DEF Fail, Release, Answer, GoTo, StepPcs
  <2> QED
    BY <1>1, <2>1, <2>2, <2>3, <2>4, <2>5, <2>6, <2>7, <2>8, <2>9 DEF Work
<1>2. ASSUME NEW p \in Runners, Die(p)
      PROVE  Exclusive'
  BY <1>2 DEF Die, Answer, GoTo, StepPcs
<1>3. CASE GoSilent \/ Expire
  BY <1>3 DEF GoSilent, Expire
<1>4. ASSUME NEW g \in Pages, Button(g)
      PROVE  Exclusive'
  <2>1. UNCHANGED <<pc, lock, quiet, locks>>
    BY <1>4 DEF Button, Refresh, Retry, Abandon, AbandonDies, Start, runnerVars, settled, killVars
  <2> QED
    BY <2>1
<1>5. CASE UNCHANGED vars
  BY <1>5 DEF vars, runnerVars, settled, killVars
<1> QED
  BY <1>1, <1>2, <1>3, <1>4, <1>5 DEF Next

(* On a cache store with locks, and as long as the live log never goes      *)
(* silent, the step lock keeps any number of runners to one step at a time, *)
(* whatever requests are killed.                                            *)
THEOREM OneStepWhileHeard == ~Silences /\ Stores = {TRUE} => (Spec => []OneStepAtATime)
<1> SUFFICES ASSUME ~Silences, Stores = {TRUE} PROVE Spec => []OneStepAtATime
  OBVIOUS
<1>1. Init => Exclusive
  BY DEF Init, Exclusive, StepPcs
<1>2. TypeOK /\ Exclusive /\ [Next]_vars => Exclusive'
  BY StepExclusive
<1>3. Exclusive => OneStepAtATime
  BY DEF Exclusive, OneStepAtATime, InStep
<1> QED
  BY <1>1, <1>2, <1>3, TypeCorrect, PTL DEF Spec

-----------------------------------------------------------------------------
(* Steps that begin on settings still current, buttons that fit *)

(* A request reads its copy of the settings before it has the lock.  This   *)
(* says that, when it begins its step, they are still what is stored and    *)
(* nobody else is inside a step.  Runners may overlap in every other way.   *)
BeginsOnCurrent ==
    \A p \in Runners :
        pc[p] = "locked" /\ pc'[p] = "running" =>
            /\ copy[p] = [state |-> state, prev |-> prev, offline |-> offline]
            /\ \A q \in Runners : ~InStep(q)

(* A button that changes the update is pressed on a page that shows how the *)
(* update stands.                                                           *)
PressedOnCurrent ==
    \A g \in Pages :
        (Retry(g) \/ Abandon(g) \/ AbandonDies(g) \/ \E u \in Updates : Start(g, u))
            => page[g] = Shown(state)

OnCurrent == BeginsOnCurrent /\ PressedOnCurrent
ActsOnCurrent == [][OnCurrent]_vars

(* At most one request is inside a step, and nobody else moves the state    *)
(* under it.                                                                *)
InStepWithState ==
    /\ \A p, q \in Runners : pc[p] \in StepPcs /\ pc[q] \in StepPcs => p = q
    /\ \A p \in Runners :
        /\ pc[p] \in StepPcs \ {"forgetting"} => copy[p].state = state
        /\ pc[p] = "forgetting" => state # None /\ ~state.failed /\ state.done = Last

LEMMA SaveState ==
    ASSUME Typed, InStepWithState, NEW p \in Runners,
           pc[p] \in StepPcs \ {"forgetting"}
    PROVE  /\ state \in Progress /\ copy[p].state = state
           /\ ~state.failed /\ state.done < Last
           /\ [state EXCEPT !.done = @ + 1].done = state.done + 1
           /\ ~[state EXCEPT !.done = @ + 1].failed
           /\ [state EXCEPT !.failed = TRUE].failed
<1>1. pc[p] # "idle" /\ copy[p].state = state /\ state.done < Last
  BY DEF Typed, Holding, InStepWithState, StepPcs
<1>2. state \in Progress /\ ~state.failed
  BY <1>1, CopyFields
<1> QED
  BY <1>1, <1>2 DEF Progress

LEMMA OthersStay ==
    ASSUME TypeOK, NEW p \in Runners, Work(p) \/ Fail(p) \/ Die(p)
    PROVE  \A q \in Runners \ {p} : pc'[q] = pc[q] /\ copy'[q] = copy[q]
<1>1. /\ pc \in [Runners -> {"idle", "ready", "taking", "forced", "locked"} \cup StepPcs]
      /\ copy \in [Runners -> Copy \cup {None}]
  BY DEF TypeOK
<1>2. \/ \E l : pc' = [pc EXCEPT ![p] = l] /\ copy' = copy
      \/ Ask(p)
      \/ Answer(p)
  BY DEF Work, Fail, Die, Acquire, Busy, FindDead, ForceRelease, BeginStep,
         RecordOffline, SwitchOffline, PutBack, ForgetPrevious, Complete, Forget, GoTo
<1> QED
  BY <1>1, <1>2 DEF Ask, Answer, GoTo

LEMMA NobodyInStep ==
    ASSUME Typed, InStepWithState, state = None \/ state.failed
    PROVE  \A p \in Runners : pc[p] \notin StepPcs
BY DEF Typed, Holding, InProgress, InStepWithState, StepPcs

LEMMA StepInStep ==
    ASSUME Typed, Typed', InStepWithState, [Next]_vars, [OnCurrent]_vars
    PROVE  InStepWithState' /\ [Promise!Next]_state
<1> USE NoneAssumption DEF InStepWithState
<1>0. TypeOK /\ Holding /\ TypeOK'
  BY DEF Typed
<1>s. None \notin Progress
  BY NoneAssumption
<1>v. CASE UNCHANGED vars
  BY <1>v DEF vars, runnerVars, settled, killVars
<1>1. ASSUME NEW p \in Runners, Work(p) \/ Fail(p), OnCurrent
      PROVE  InStepWithState' /\ [Promise!Next]_state
  <2>0. \A q \in Runners \ {p} : pc'[q] = pc[q] /\ copy'[q] = copy[q]
    BY <1>0, <1>1, OthersStay
  <2>1. CASE pc'[p] \notin StepPcs /\ UNCHANGED state
    BY <2>0, <2>1 DEF StepPcs
  <2>2. CASE Ask(p) \/ Acquire(p) \/ FindDead(p) \/ ForceRelease(p) \/ Busy(p)
    <3>1. pc'[p] \in {"ready", "locked", "taking", "forced", "idle"} /\ UNCHANGED state
      BY <1>0, <2>2 DEF Ask, Acquire, FindDead, ForceRelease, Busy, Answer, GoTo, TypeOK
    <3> QED
      BY <2>1, <3>1 DEF StepPcs
  <2>3. CASE RecordOffline(p) \/ SwitchOffline(p) \/ PutBack(p) \/ ForgetPrevious(p)
    <3>1. /\ pc[p] \in StepPcs \ {"forgetting"} /\ pc'[p] \in StepPcs \ {"forgetting"}
          /\ UNCHANGED <<state, copy>>
      BY <1>0, <2>3 DEF RecordOffline, SwitchOffline, PutBack, ForgetPrevious, GoTo, TypeOK, StepPcs
    <3> QED
      BY <2>0, <3>1
  <2>4. CASE BeginStep(p)
    <3>1. /\ pc[p] = "locked" /\ UNCHANGED state
          /\ pc'[p] = "idle" \/ (pc'[p] = "running" /\ UNCHANGED copy)
      BY <1>0, <2>4 DEF BeginStep, Answer, GoTo, TypeOK
    <3>2. CASE pc'[p] = "running" /\ UNCHANGED copy
      <4>1. copy[p].state = state /\ \A q \in Runners : pc[q] \notin StepPcs
        BY <1>1, <3>1, <3>2 DEF OnCurrent, BeginsOnCurrent, InStep
      <4> QED
        BY <2>0, <3>1, <3>2, <4>1 DEF StepPcs
    <3> QED
      BY <2>1, <3>1, <3>2 DEF StepPcs
  <2>5. CASE Complete(p)
    <3>1. /\ state \in Progress /\ ~state.failed /\ state.done < Last
          /\ state' = [state EXCEPT !.done = @ + 1]
          /\ ~state'.failed /\ state'.done = state.done + 1 
      BY <2>5, SaveState DEF Complete, StepPcs
    <3>2. pc'[p] = "idle" \/ (pc'[p] = "forgetting" /\ StepOf(p) = "finish")
      BY <1>0, <2>5 DEF Complete, Answer, GoTo, TypeOK
    <3>3. ASSUME StepOf(p) = "finish" PROVE state'.done = Last
      <4>1. Steps[state.done + 1] = "finish"
        BY <2>5, <3>3, SaveState DEF Complete, StepOf, StepPcs
      <4>2. state.done \in 0..8
        BY <3>1, StepsAre DEF Progress
      <4> QED
        BY <3>1, <4>1, <4>2, StepsAre
    <3>4. state' # None
      <4>1. state' \in Progress
        BY <3>1, StepsAre DEF Progress
      <4> QED
        BY <4>1, <1>s
    <3>5. InStepWithState'
      BY <2>0, <2>5, <3>1, <3>2, <3>3, <3>4 DEF Complete, StepPcs
    <3>6. Promise!Advance
      BY <3>1, <1>s DEF Promise!Advance, Promise!UnderWay
    <3> QED
      BY <3>5, <3>6 DEF Promise!Next
  <2>6. CASE Forget(p)
    <3>1. /\ pc[p] = "forgetting" /\ pc'[p] = "idle" /\ state' = None
      BY <1>0, <2>6 DEF Forget, Answer, GoTo, TypeOK
    <3>2. state # None /\ ~state.failed /\ state.done = Last
      BY <3>1
    <3>3. InStepWithState'
      BY <2>0, <3>1 DEF StepPcs
    <3>4. Promise!End
      BY <3>1, <3>2 DEF Promise!End, Promise!UnderWay
    <3> QED
      BY <3>3, <3>4 DEF Promise!Next
  <2>7. CASE Fail(p)
    <3>1. /\ state \in Progress /\ ~state.failed /\ state.done < Last
          /\ state' = [state EXCEPT !.failed = TRUE]
      BY <2>7, SaveState DEF Fail
    <3>2. pc[p] \in StepPcs /\ pc'[p] = "idle"
      BY <1>0, <2>7 DEF Fail, Answer, GoTo, TypeOK
    <3>3. state # None
      BY <3>1, <1>s
    <3>4. InStepWithState'
      BY <2>0, <3>2 DEF StepPcs
    <3>5. Promise!Stop
      BY <3>1, <3>3 DEF Promise!Stop, Promise!UnderWay
    <3> QED
      BY <3>4, <3>5 DEF Promise!Next
  <2> QED
    BY <1>1, <2>2, <2>3, <2>4, <2>5, <2>6, <2>7 DEF Work
<1>2. ASSUME NEW p \in Runners, Die(p)
      PROVE  InStepWithState' /\ [Promise!Next]_state
  <2>1. pc'[p] = "idle" /\ UNCHANGED state
    BY <1>0, <1>2 DEF Die, Answer, GoTo, TypeOK
  <2>2. \A q \in Runners \ {p} : pc'[q] = pc[q] /\ copy'[q] = copy[q]
    BY <1>0, <1>2, OthersStay
  <2> QED
    BY <2>1, <2>2 DEF StepPcs
<1>3. CASE GoSilent \/ Expire
  BY <1>3 DEF GoSilent, Expire, runnerVars, settled, killVars
<1>4. ASSUME NEW g \in Pages, Button(g), OnCurrent
      PROVE  InStepWithState' /\ [Promise!Next]_state
  <2>0. UNCHANGED <<pc, copy>>
    BY <1>4 DEF Button, Refresh, Retry, Abandon, AbandonDies, Start, runnerVars, settled, killVars
  <2>1. ASSUME state = None \/ state.failed
        PROVE  InStepWithState'
    BY <2>0, <2>1, NobodyInStep
  <2>2. CASE Refresh(g) \/ AbandonDies(g)
    BY <2>0, <2>2 DEF Refresh, AbandonDies
  <2>3. CASE Retry(g)
    <3>1. page[g] = "failed" /\ page[g] = Shown(state)
      BY <1>4, <2>3 DEF Retry, OnCurrent, PressedOnCurrent
    <3>2. state # None /\ state.failed /\ state' = [state EXCEPT !.failed = FALSE]
      BY <2>3, <3>1 DEF Retry, Shown
    <3> QED
      BY <2>1, <3>2 DEF Promise!Next, Promise!Resume, Promise!Stopped
  <2>4. CASE Abandon(g)
    <3>1. page[g] = "failed" /\ page[g] = Shown(state)
      BY <1>4, <2>4 DEF Abandon, OnCurrent, PressedOnCurrent
    <3>2. state # None /\ state.failed /\ state' = None
      BY <2>4, <3>1 DEF Abandon, Shown
    <3> QED
      BY <2>1, <3>2 DEF Promise!Next, Promise!End, Promise!Stopped
  <2>5. ASSUME NEW u \in Updates, Start(g, u)
        PROVE  InStepWithState' /\ [Promise!Next]_state
    <3>1. page[g] = "none" /\ page[g] = Shown(state)
      BY <1>4, <2>5 DEF Start, OnCurrent, PressedOnCurrent
    <3>2. state = None /\ state' = [update |-> u, done |-> 0, failed |-> FALSE]
      BY <2>5, <3>1 DEF Start, Shown
    <3> QED
      BY <2>1, <3>2 DEF Promise!Next, Promise!Begin
  <2> QED
    BY <1>4, <2>2, <2>3, <2>4, <2>5 DEF Button
<1> QED
  BY <1>v, <1>1, <1>2, <1>3, <1>4 DEF Next

(* An update keeps the promises of UpdateProgress whoever asks for its      *)
(* steps and however many overlap, whatever requests are killed, however    *)
(* long steps are silent and whichever of them fail, as long as each step   *)
(* begins on settings still current with no other step running, and the     *)
(* buttons are pressed on pages that show how the update stands.            *)
THEOREM KeepsPromises == Spec /\ ActsOnCurrent => Promised
<1>1. Init => InStepWithState /\ Promise!Init
  BY DEF Init, InStepWithState, Promise!Init, StepPcs
<1>2. /\ Typed /\ Typed' /\ InStepWithState /\ [Next]_vars /\ [OnCurrent]_vars
      => InStepWithState' /\ [Promise!Next]_state
  BY StepInStep
<1>3. Spec => []Typed
  BY InitTyped, StepTyped, PTL DEF Spec
<1> QED
  BY <1>1, <1>2, <1>3, PTL DEF Spec, Promised, Promise!Spec, ActsOnCurrent

(* The maintenance mode an update switched on is on record until it is      *)
(* switched off, save between the two halves of restoreOfflineMode().       *)
Site ==
    /\ prev = None \/ prev = before
    /\ before.down => down
    /\ state = None => prev = None
    /\ prev = None => /\ offline = before.offline
                      /\ (\E p \in Runners : pc[p] = "restored") \/ down = before.down
    /\ \A p \in Runners :
        /\ pc[p] = "running" => copy[p].prev = prev /\ copy[p].offline = offline
        /\ pc[p] \in {"recorded", "switched"} =>
                prev = before /\ Steps[copy[p].state.done + 1] = "maintenance"
        /\ pc[p] = "putback" => prev = before /\ copy[p].prev = before /\ offline = before.offline
        /\ pc[p] = "restored" => prev = None /\ copy[p].prev = before
        /\ pc[p] = "forgetting" => prev = None

LEMMA StepSite ==
    ASSUME Typed, InStepWithState, Site, [Next]_vars, [OnCurrent]_vars, ~stranded'
    PROVE  Site'
<1>0. /\ Holding /\ pc \in [Runners -> {"idle", "ready", "taking", "forced", "locked"} \cup StepPcs]
      /\ copy \in [Runners -> Copy \cup {None}] /\ None \notin Previous
      /\ before \in Previous /\ down \in BOOLEAN
  BY NoneAssumption DEF Typed, TypeOK
<1>b. before # None /\ before = [offline |-> before.offline, down |-> before.down]
  BY <1>0 DEF Previous
<1>1. ASSUME NEW p \in Runners, Work(p) \/ Fail(p), OnCurrent
      PROVE  Site'
  <2>0. /\ \A q \in Runners \ {p} : pc'[q] = pc[q] /\ copy'[q] = copy[q]
        /\ pc[p] \in StepPcs => \A q \in Runners \ {p} : pc[q] \notin StepPcs
    BY <1>1, OthersStay DEF InStepWithState, Typed
  <2>1. CASE Ask(p) \/ Acquire(p) \/ FindDead(p) \/ ForceRelease(p) \/ Busy(p)
    <3>1. /\ pc[p] \notin StepPcs /\ pc'[p] \notin StepPcs
          /\ UNCHANGED <<state, prev, offline, down, before>>
      BY <1>0, <2>1 DEF Ask, Acquire, FindDead, ForceRelease, Busy, Answer, GoTo, siteVars,
                        settled, StepPcs
    <3> QED
      BY <2>0, <3>1 DEF Site, StepPcs
  <2>4. CASE BeginStep(p)
    <3>1. /\ pc[p] = "locked" /\ UNCHANGED <<state, prev, offline, down, before>>
          /\ pc'[p] = "idle" \/ (pc'[p] = "running" /\ UNCHANGED copy)
      BY <1>0, <2>4 DEF BeginStep, Answer, GoTo, siteVars, settled
    <3>2. pc'[p] = "running" => copy[p].prev = prev /\ copy[p].offline = offline
      BY <1>1, <3>1 DEF OnCurrent, BeginsOnCurrent
    <3> QED
      BY <2>0, <3>1, <3>2 DEF Site
  <2>5. CASE RecordOffline(p)
    <3>1. /\ pc[p] = "running" /\ pc'[p] = "recorded" /\ UNCHANGED <<state, offline, down, before, copy>>
          /\ prev' = IF copy[p].prev = None
                     THEN [offline |-> copy[p].offline, down |-> down] ELSE prev
      BY <1>0, <2>5 DEF RecordOffline, GoTo, settled
    <3>2. copy[p].prev = prev /\ copy[p].offline = offline
      BY <3>1 DEF Site
    <3>3. prev' = before
      <4>1. CASE prev = None
        <5>1. down = before.down /\ offline = before.offline
          BY <2>0, <3>1, <4>1 DEF Site, StepPcs
        <5> QED
          BY <1>b, <3>1, <3>2, <4>1, <5>1
      <4>2. CASE prev # None
        BY <3>1, <3>2, <4>2 DEF Site
      <4> QED
        BY <4>1, <4>2
    <3>4. state # None
      BY <3>1, <1>0, <2>0, NoneAssumption, SaveState DEF InStepWithState
    <3>5. Steps[copy[p].state.done + 1] = "maintenance"
      BY <2>5 DEF RecordOffline, StepOf
    <3> QED
      BY <1>b, <2>0, <3>1, <3>3, <3>4, <3>5 DEF Site, StepPcs
  <2>s. CASE SwitchOffline(p)
    <3>1. /\ pc[p] = "recorded" /\ pc'[p] = "switched" /\ UNCHANGED <<state, prev, down, before, copy>>
      BY <1>0, <2>s DEF SwitchOffline, GoTo, settled
    <3> QED
      BY <1>b, <2>0, <3>1 DEF Site, StepPcs
  <2>6. CASE PutBack(p)
    <3>1. /\ pc[p] = "running" /\ pc'[p] = "putback" /\ UNCHANGED <<state, prev, down, before, copy>>
          /\ offline' = copy[p].prev.offline /\ copy[p].prev # None
      BY <1>0, <2>6 DEF PutBack, GoTo, settled
    <3>2. copy[p].prev = before /\ prev = before
      BY <3>1 DEF Site
    <3> QED
      BY <1>b, <2>0, <3>1, <3>2 DEF Site, StepPcs
  <2>f. CASE ForgetPrevious(p)
    <3>1. /\ pc[p] = "putback" /\ pc'[p] = "restored" /\ UNCHANGED <<state, offline, down, before, copy>>
          /\ prev' = None
      BY <1>0, <2>f DEF ForgetPrevious, GoTo, settled
    <3> QED
      BY <2>0, <3>1 DEF Site, StepPcs
  <2>7. CASE Complete(p) \/ Fail(p)
    <3>1. /\ pc[p] \in StepPcs \ {"forgetting"} /\ pc'[p] \in {"idle", "forgetting"}
          /\ UNCHANGED <<prev, offline, before>>
      BY <1>0, <2>7 DEF Complete, Fail, Answer, GoTo, StepPcs, settled
    <3>2. state # None /\ state' # None
      <4>1. /\ state \in Progress /\ state.done < Last
            /\ \/ state' = [state EXCEPT !.done = @ + 1]
               \/ state' = [state EXCEPT !.failed = TRUE]
        BY <2>7, <3>1, SaveState DEF Complete, Fail
      <4>2. state' \in Progress
        <5>1. state.done \in 0..9 /\ Last = 9
          BY <4>1, StepsAre DEF Progress
        <5>2. state.done + 1 \in 0..Last
          BY <4>1, <5>1
        <5> QED
          BY <4>1, <5>2 DEF Progress
      <4> QED
        BY <4>1, <4>2, NoneAssumption
    <3>3. pc'[p] = "forgetting" => prev = None
      <4>1. ASSUME pc'[p] = "forgetting", pc[p] = "running"
            PROVE  copy[p].prev = None
        BY <1>0, <2>7, <4>1 DEF Complete, Fail, Rest, Answer, GoTo
      <4>2. ASSUME pc'[p] = "forgetting" PROVE pc[p] \notin {"recorded", "switched", "putback"}
        <5>1. SUFFICES ASSUME pc[p] \in {"recorded", "switched", "putback"} PROVE FALSE
          OBVIOUS
        <5> QED
          BY <1>0, <2>7, <4>2, <5>1 DEF Complete, Fail, Answer, GoTo, StepOf, Site
      <4> QED
        BY <3>1, <4>1, <4>2 DEF Site, StepPcs
    <3>4. (before.down => down') /\ (prev = None => down' = before.down)
      <4>1. CASE pc[p] = "running"
        <5>1. down' = down
          BY <2>7, <4>1 DEF Complete, Fail, Rest
        <5> QED
          BY <2>0, <4>1, <5>1 DEF Site, StepPcs
      <4>2. CASE pc[p] \in {"recorded", "switched", "putback"}
        <5>1. prev # None /\ (down' \/ down' = down)
          BY <1>b, <2>7, <4>2 DEF Complete, Fail, Rest, Site
        <5> QED
          BY <5>1 DEF Site
      <4>3. CASE pc[p] = "restored"
        <5>1. down' = (down /\ before.down) /\ before.down \in BOOLEAN
          BY <1>0, <2>7, <4>3 DEF Complete, Fail, Rest, Site, Previous
        <5> QED
          BY <5>1 DEF Site
      <4> QED
        BY <3>1, <4>1, <4>2, <4>3 DEF StepPcs
    <3> QED
      BY <2>0, <3>1, <3>2, <3>3, <3>4 DEF Site
  <2>8. CASE Forget(p)
    <3>1. /\ pc[p] = "forgetting" /\ pc'[p] = "idle"
          /\ UNCHANGED <<prev, offline, down, before>>
      BY <1>0, <2>8 DEF Forget, Answer, GoTo, siteVars, settled
    <3> QED
      BY <2>0, <3>1 DEF Site
  <2> QED
    BY <1>1, <2>1, <2>4, <2>5, <2>s, <2>6, <2>f, <2>7, <2>8 DEF Work
<1>2. ASSUME NEW p \in Runners, Die(p)
      PROVE  Site'
  <2>0. /\ \A q \in Runners \ {p} : pc'[q] = pc[q] /\ copy'[q] = copy[q]
        /\ pc[p] \in StepPcs => \A q \in Runners \ {p} : pc[q] \notin StepPcs
    BY <1>2, OthersStay DEF InStepWithState, Typed
  <2>1. /\ pc[p] \in {"locked"} \cup StepPcs /\ pc'[p] = "idle"
        /\ UNCHANGED <<state, prev, offline, before>>
    BY <1>0, <1>2 DEF Die, Answer, GoTo, InStep, settled
  <2>2. CASE pc[p] = "locked"
    <3>1. UNCHANGED down
      BY <1>2, <2>2 DEF Die
    <3> QED
      BY <2>0, <2>1, <2>2, <3>1 DEF Site, StepPcs
  <2>3. CASE pc[p] = "restored"
    <3>1. copy[p].prev = before /\ ~(down' /\ ~before.down)
      BY <1>2, <2>3 DEF Die, Site
    <3>2. down' = down \/ down' = (down /\ before.down)
      BY <1>2, <2>3, <3>1 DEF Die, Rest
    <3>3. before.down => down'
      BY <3>2 DEF Site
    <3>4. down' \in BOOLEAN /\ before.down \in BOOLEAN
      BY <1>0, <3>2 DEF Previous
    <3>5. down' = before.down
      BY <3>1, <3>3, <3>4, Zenon
    <3> QED
      BY <2>0, <2>1, <2>3, <3>5 DEF Site, StepPcs
  <2>4. CASE pc[p] \in StepPcs \ {"restored"}
    <3>1. (before.down => down') /\ (prev = None => down' = before.down)
      <4>1. \A q \in Runners : pc[q] # "restored"
        BY <2>0, <2>4 DEF StepPcs
      <4>2. down' = down \/ (pc[p] = "switched" /\ down')
        BY <1>2, <2>4 DEF Die, Rest
      <4>3. pc[p] = "switched" => prev # None
        BY <1>b DEF Site
      <4> QED
        BY <4>1, <4>2, <4>3 DEF Site
    <3> QED
      BY <2>0, <2>1, <2>4, <3>1 DEF Site, StepPcs
  <2> QED
    BY <2>1, <2>2, <2>3, <2>4
<1>3. CASE GoSilent \/ Expire \/ UNCHANGED vars
  BY <1>3 DEF GoSilent, Expire, vars, runnerVars, siteVars, settled, Site
<1>4. ASSUME NEW g \in Pages, Button(g), OnCurrent
      PROVE  Site'
  <2>0. UNCHANGED <<pc, copy, before>>
    BY <1>4 DEF Button, Refresh, Retry, Abandon, AbandonDies, Start, runnerVars, settled, killVars
  <2>1. CASE Refresh(g)
    BY <2>0, <2>1 DEF Refresh, siteVars, Site
  <2>2. CASE Retry(g)
    <3>1. /\ state \in Progress /\ state' = [state EXCEPT !.failed = FALSE]
          /\ UNCHANGED <<prev, offline, down>>
      <4>1. page[g] = "failed" /\ page[g] = Shown(state)
        BY <1>4, <2>2 DEF Retry, OnCurrent, PressedOnCurrent
      <4> QED
        BY <2>2, <4>1 DEF Retry, Shown, Typed, TypeOK, siteVars
    <3>2. state' \in Progress
      BY <3>1 DEF Progress
    <3> QED
      BY <2>0, <3>1, <3>2, NoneAssumption DEF Site
  <2>a. ASSUME Abandon(g) \/ AbandonDies(g)
        PROVE  state # None /\ \A p \in Runners : pc[p] \notin StepPcs
    <3>1. page[g] = "failed" /\ page[g] = Shown(state)
      BY <1>4, <2>a DEF Abandon, AbandonDies, OnCurrent, PressedOnCurrent
    <3> QED
      BY <3>1, NobodyInStep DEF Shown
  <2>b. ASSUME \A p \in Runners : pc[p] \notin StepPcs,
               prev' = None, offline' = before.offline, down' = before.down
        PROVE  Site'
    BY <2>0, <2>b DEF Site, StepPcs
  <2>3. CASE Abandon(g)
    <3>1. CASE prev = None
      <4>1. UNCHANGED <<prev, offline, down>> /\ \A p \in Runners : pc[p] # "restored"
        BY <2>3, <2>a, <3>1 DEF Abandon, siteVars, StepPcs
      <4> QED
        BY <2>3, <2>a, <2>b, <3>1, <4>1 DEF Site
    <3>2. CASE prev # None
      <4>1. /\ prev = before /\ prev' = None /\ offline' = before.offline
            /\ down' = (down /\ before.down) /\ before.down \in BOOLEAN
            /\ before.down => down
        BY <1>0, <2>3, <3>2 DEF Abandon, Site, Previous
      <4>2. down' = before.down
        BY <4>1, Zenon
      <4> QED
        BY <2>3, <2>a, <2>b, <4>1, <4>2
    <3> QED
      BY <3>1, <3>2
  <2>5. CASE AbandonDies(g)
    <3>1. /\ prev = before /\ offline' = before.offline /\ UNCHANGED state
          /\ before.down => down
          /\ before.down \in BOOLEAN /\ down \in BOOLEAN
      BY <1>0, <2>5 DEF AbandonDies, Site, Previous, Typed, TypeOK
    <3>2. CASE UNCHANGED <<prev, down>>
      BY <2>0, <2>5, <2>a, <3>1, <3>2, <1>b DEF Site, StepPcs
    <3>3. CASE prev' = None /\ down' = (down /\ prev.down)
      <4>1. down' = before.down
        BY <3>1, <3>3, Zenon
      <4> QED
        BY <2>5, <2>a, <2>b, <3>1, <3>3, <4>1
    <3>4. CASE prev' = None /\ UNCHANGED down /\ stranded' = (stranded \/ (down /\ ~prev.down))
      <4>1. ~(down /\ ~before.down)
        BY <3>1, <3>4
      <4>2. down' = before.down
        BY <3>1, <3>4, <4>1, Zenon
      <4> QED
        BY <2>5, <2>a, <2>b, <3>1, <3>4, <4>2
    <3> QED
      BY <2>5, <3>2, <3>3, <3>4 DEF AbandonDies
  <2>4. ASSUME NEW u \in Updates, Start(g, u)
        PROVE  Site'
    <3>1. page[g] = "none" /\ page[g] = Shown(state)
      BY <1>4, <2>4 DEF Start, OnCurrent, PressedOnCurrent
    <3>2. prev = None /\ UNCHANGED <<prev, offline, down>>
      BY <2>4, <3>1 DEF Start, Shown, siteVars, Site
    <3> QED
      BY <2>0, <3>2 DEF Site
  <2> QED
    BY <1>4, <2>1, <2>2, <2>3, <2>4, <2>5 DEF Button
<1> QED
  BY <1>1, <1>2, <1>3, <1>4 DEF Next, vars

SiteUnlessStranded == ~stranded => Site

LEMMA AlwaysSite ==
    Spec /\ ActsOnCurrent => [](Typed /\ InStepWithState /\ SiteUnlessStranded)
<1>1. Init => SiteUnlessStranded /\ InStepWithState
  BY DEF Init, Site, SiteUnlessStranded, InStepWithState, StepPcs
<1>2. /\ Typed /\ Typed' /\ InStepWithState /\ [Next]_vars /\ [OnCurrent]_vars
      => InStepWithState'
  BY StepInStep
<1>3. ASSUME Typed, InStepWithState, SiteUnlessStranded, [Next]_vars, [OnCurrent]_vars
      PROVE  SiteUnlessStranded'
  <2> SUFFICES ASSUME ~stranded' PROVE Site'
    BY DEF SiteUnlessStranded
  <2>1. stranded => stranded'
    <3>1. \/ UNCHANGED stranded
          \/ \E p \in Runners : Die(p)
          \/ \E g \in Pages : AbandonDies(g)
      BY <1>3 DEF Next, Work, Fail, Button, Ask, Acquire, Busy, FindDead, ForceRelease,
                  BeginStep, RecordOffline, SwitchOffline, PutBack, ForgetPrevious, Complete,
                  Forget, GoSilent, Expire, Refresh, Start, Retry, Abandon, vars, killVars
    <3> QED
      BY <3>1 DEF Die, AbandonDies
  <2> QED
    BY <1>3, <2>1, StepSite DEF SiteUnlessStranded
<1> QED
  BY <1>1, <1>2, <1>3, InitTyped, StepTyped, PTL DEF Spec, ActsOnCurrent

(* However many ask for steps and whatever requests are killed, the updater *)
(* never takes its own maintenance mode for the site's, as long as steps    *)
(* begin on settings still current, with no other running, buttons fit what *)
(* they are pressed on, and no kill left the site in maintenance mode with  *)
(* its record forgotten.                                                    *)
THEOREM RecordIsTrue == Spec /\ ActsOnCurrent => []RecordIsOfBefore
<1>1. SiteUnlessStranded => RecordIsOfBefore
  BY DEF SiteUnlessStranded, Site, RecordIsOfBefore
<1> QED
  BY <1>1, AlwaysSite, PTL

(* Under the same conditions the updater leaves the site as it was when the *)
(* update is done or given up.                                              *)
THEOREM SiteComesBack == Spec /\ ActsOnCurrent => []BackAsBefore
<1>1. ASSUME Typed, InStepWithState, SiteUnlessStranded
      PROVE  BackAsBefore
  <2> SUFFICES ASSUME ~stranded, state = None
               PROVE  [offline |-> offline, down |-> down] = before
    BY DEF BackAsBefore
  <2>1. \A p \in Runners : pc[p] # "restored"
    BY <1>1, NobodyInStep DEF StepPcs
  <2>2. offline = before.offline /\ down = before.down
    BY <1>1, <2>1 DEF Site, SiteUnlessStranded
  <2>3. before = [offline |-> before.offline, down |-> before.down]
    BY <1>1 DEF Typed, TypeOK, Previous
  <2> QED
    BY <2>2, <2>3
<1> QED
  BY <1>1, AlwaysSite, PTL

-----------------------------------------------------------------------------
(* What app_offline was before the update is never lost *)

Accounted ==
    /\ prev # None => prev.offline = before.offline
    /\ prev = None => offline = before.offline
    /\ \A p \in Runners :
        /\ pc[p] = "running" => copy[p].prev = prev /\ copy[p].offline = offline
        /\ pc[p] \in {"recorded", "switched"} => prev # None
        /\ pc[p] = "putback" => prev # None /\ offline = before.offline

LEMMA StepAccounted ==
    ASSUME Typed, InStepWithState, Accounted, [Next]_vars, [OnCurrent]_vars
    PROVE  Accounted'
<1>0. /\ Holding /\ pc \in [Runners -> {"idle", "ready", "taking", "forced", "locked"} \cup StepPcs]
      /\ copy \in [Runners -> Copy \cup {None}] /\ None \notin Previous
      /\ offline \in BOOLEAN /\ down \in BOOLEAN
  BY NoneAssumption DEF Typed, TypeOK
<1>1. ASSUME NEW p \in Runners, Work(p) \/ Fail(p) \/ Die(p), OnCurrent
      PROVE  Accounted'
  <2>0. /\ \A q \in Runners \ {p} : pc'[q] = pc[q] /\ copy'[q] = copy[q]
        /\ pc[p] \in StepPcs => \A q \in Runners \ {p} : pc[q] \notin StepPcs
    BY <1>1, OthersStay DEF InStepWithState, Typed
  <2>1. CASE Ask(p) \/ Acquire(p) \/ FindDead(p) \/ ForceRelease(p)
    <3>1. pc'[p] \notin StepPcs /\ UNCHANGED <<prev, offline, before>>
      BY <1>0, <2>1 DEF Ask, Acquire, FindDead, ForceRelease, GoTo, siteVars, settled, StepPcs
    <3> QED
      BY <2>0, <3>1 DEF Accounted, StepPcs
  <2>3. CASE BeginStep(p)
    <3>1. /\ pc[p] = "locked" /\ UNCHANGED <<prev, offline, before>>
          /\ pc'[p] = "idle" \/ (pc'[p] = "running" /\ UNCHANGED copy)
      BY <1>0, <2>3 DEF BeginStep, Answer, GoTo, siteVars, settled
    <3>2. pc'[p] = "running" => copy[p].prev = prev /\ copy[p].offline = offline
      BY <1>1, <3>1 DEF OnCurrent, BeginsOnCurrent
    <3> QED
      BY <2>0, <3>1, <3>2 DEF Accounted
  <2>4. CASE Busy(p) \/ Complete(p) \/ Forget(p) \/ Fail(p) \/ Die(p)
    <3>1. pc'[p] \in {"idle", "forgetting"} /\ UNCHANGED <<prev, offline, before>>
      BY <1>0, <2>4 DEF Busy, Complete, Forget, Fail, Die, Answer, GoTo, siteVars, settled
    <3> QED
      BY <2>0, <3>1 DEF Accounted
  <2>5. CASE RecordOffline(p)
    <3>1. /\ pc[p] = "running" /\ pc'[p] = "recorded" /\ UNCHANGED <<offline, before>>
          /\ prev' = IF copy[p].prev = None
                     THEN [offline |-> copy[p].offline, down |-> down] ELSE prev
      BY <1>0, <2>5 DEF RecordOffline, GoTo, settled
    <3>2. copy[p].prev = prev /\ copy[p].offline = offline
      BY <3>1 DEF Accounted
    <3>3. prev' # None /\ prev'.offline = before.offline
      <4>1. CASE prev = None
        <5>1. prev' = [offline |-> offline, down |-> down] /\ offline = before.offline
          BY <3>1, <3>2, <4>1 DEF Accounted
        <5>2. prev' \in Previous
          BY <1>0, <5>1, Zenon DEF Previous
        <5> QED
          BY <1>0, <5>1, <5>2
      <4>2. CASE prev # None
        BY <3>1, <3>2, <4>2 DEF Accounted
      <4> QED
        BY <4>1, <4>2
    <3> QED
      BY <2>0, <3>1, <3>3 DEF Accounted, StepPcs
  <2>6. CASE SwitchOffline(p)
    <3>1. /\ pc[p] = "recorded" /\ pc'[p] = "switched" /\ UNCHANGED <<prev, before>>
      BY <1>0, <2>6 DEF SwitchOffline, GoTo, settled
    <3> QED
      BY <2>0, <3>1 DEF Accounted, StepPcs
  <2>7. CASE PutBack(p)
    <3>1. /\ pc[p] = "running" /\ pc'[p] = "putback" /\ UNCHANGED <<prev, before>>
          /\ offline' = copy[p].prev.offline /\ copy[p].prev # None
      BY <1>0, <2>7 DEF PutBack, GoTo, settled
    <3> QED
      BY <2>0, <3>1 DEF Accounted, StepPcs
  <2>8. CASE ForgetPrevious(p)
    <3>1. /\ pc[p] = "putback" /\ pc'[p] = "restored" /\ UNCHANGED <<offline, before>>
          /\ prev' = None
      BY <1>0, <2>8 DEF ForgetPrevious, GoTo, settled
    <3> QED
      BY <2>0, <3>1 DEF Accounted, StepPcs
  <2> QED
    BY <1>1, <2>1, <2>3, <2>4, <2>5, <2>6, <2>7, <2>8 DEF Work
<1>2. CASE GoSilent \/ Expire \/ UNCHANGED vars
  BY <1>2 DEF GoSilent, Expire, vars, runnerVars, siteVars, Accounted, settled
<1>3. ASSUME NEW g \in Pages, Button(g), OnCurrent
      PROVE  Accounted'
  <2>0. UNCHANGED <<pc, copy, before>>
    BY <1>3 DEF Button, Refresh, Retry, Abandon, AbandonDies, Start, runnerVars, settled
  <2>1. CASE UNCHANGED <<prev, offline>>
    BY <2>0, <2>1 DEF Accounted
  <2>2. CASE (Abandon(g) \/ AbandonDies(g)) /\ prev # None
    <3>1. page[g] = "failed" /\ page[g] = Shown(state)
      BY <1>3, <2>2 DEF Abandon, AbandonDies, OnCurrent, PressedOnCurrent
    <3>2. \A p \in Runners : pc[p] \notin StepPcs
      BY <3>1, NobodyInStep DEF Shown
    <3>3. prev.offline = before.offline /\ prev' \in {prev, None} /\ offline' = before.offline
      BY <2>2 DEF Abandon, AbandonDies, Accounted
    <3> QED
      BY <2>0, <3>2, <3>3 DEF Accounted, StepPcs
  <2> QED
    BY <1>3, <2>1, <2>2 DEF Button, Refresh, Retry, Abandon, AbandonDies, Start, siteVars
<1> QED
  BY <1>1, <1>2, <1>3 DEF Next, vars

(* However many ask for steps and whatever requests are killed between the  *)
(* writes of enterMaintenance(), restoreOfflineMode() and giving up, what   *)
(* app_offline was before the update is in force or on record, as long as   *)
(* steps begin on settings still current with no other running and buttons  *)
(* fit what they are pressed on.                                            *)
THEOREM OfflineNeverLost == Spec /\ ActsOnCurrent => []OfflineAccountedFor
<1>1. Init => Accounted /\ InStepWithState
  BY DEF Init, Accounted, InStepWithState, StepPcs
<1>2. /\ Typed /\ Typed' /\ InStepWithState /\ [Next]_vars /\ [OnCurrent]_vars
      => InStepWithState'
  BY StepInStep
<1>3. /\ Typed /\ InStepWithState /\ Accounted /\ [Next]_vars /\ [OnCurrent]_vars
      => Accounted'
  BY StepAccounted
<1>4. Spec => []Typed
  BY InitTyped, StepTyped, PTL DEF Spec
<1>5. Accounted => OfflineAccountedFor
  BY DEF Accounted, OfflineAccountedFor
<1> QED
  BY <1>1, <1>2, <1>3, <1>4, <1>5, PTL DEF Spec, ActsOnCurrent
=============================================================================
