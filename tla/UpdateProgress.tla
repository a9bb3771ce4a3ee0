---------------------------- MODULE UpdateProgress ----------------------------
(* What the system updater promises whoever watches an update: it begins at *)
(* its first step, takes its steps one by one and in order, stops at a      *)
(* failure until somebody retries or gives it up, and is over only when     *)
(* every step is done or it was given up after a failure.                   *)
EXTENDS Integers

CONSTANTS Updates,  \* the updates that may be started
          Last,     \* the number of steps
          None      \* no update

VARIABLE progress

UnderWay == progress # None /\ ~progress.failed
Stopped  == progress # None /\ progress.failed

Init == progress = None

Begin ==
    /\ progress = None
    /\ \E u \in Updates : progress' = [update |-> u, done |-> 0, failed |-> FALSE]

Advance ==
    /\ UnderWay /\ progress.done < Last
    /\ progress' = [progress EXCEPT !.done = @ + 1]

Stop ==
    /\ UnderWay /\ progress.done < Last
    /\ progress' = [progress EXCEPT !.failed = TRUE]

Resume ==
    /\ Stopped
    /\ progress' = [progress EXCEPT !.failed = FALSE]

End ==
    /\ \/ UnderWay /\ progress.done = Last
       \/ Stopped
    /\ progress' = None

Next == Begin \/ Advance \/ Stop \/ Resume \/ End

Spec == Init /\ [][Next]_progress
=============================================================================
