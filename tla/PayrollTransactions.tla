-------------------------- MODULE PayrollTransactions --------------------------
(***************************************************************************)
(* Payroll when the transactions of two requests overlap.  A generation    *)
(* reads everything its payslips are computed from first - in MySQL, from  *)
(* a snapshot that other transactions do not change - and writes them at   *)
(* the end; its updates and deletes go by key and see what was committed   *)
(* meanwhile.  Nothing is read for update, so two generations of different *)
(* runs can compute with the same rows.  The other requests write what     *)
(* they write in a single step, as in Payroll; those on tickets are left   *)
(* out.                                                                    *)
(***************************************************************************)
EXTENDS Payroll

VARIABLES
    building,  \* each request's generation: the run, and the payslips it will write
    crossed    \* whether one was written that no longer followed from what is stored

txVars == <<vars, building, crossed>>

(* gone are the loans whose instalments were deleted since they were read:  *)
(* a schedule built again has new rows, and marking the old ones marks none.*)
Buildings == [run : Runs, new : [Employees -> Payslip \cup {None}],
              replaces : BOOLEAN, gone : SUBSET Loans]

ASSUME NoBuildingAssumption == None \notin Buildings

InitTx == Init /\ building = [q \in Requests |-> None] /\ crossed = FALSE

Free(q) == building[q] = None

(* The transaction has taken its snapshot and computed the new payslips.   *)
(* clear() has looked for old payslips; it deletes none if it saw none.    *)
ReadForRun(q, r) ==
    /\ ReadRun(q, r, "draft") /\ Exists(r) /\ Free(q)
    /\ building' = [building EXCEPT ![q] =
            [run |-> r, new |-> Built(r, ticketRun), replaces |-> HasPayslips(r),
             gone |-> {}]]
    /\ UNCHANGED <<vars, crossed>>

(* One payslip per run and employee: the unique index refuses a second.    *)
Unique(b) ==
    \/ b.replaces
    \/ \A e \in Employees : b.new[e] = None \/ slips[b.run][e] = None

Deducted(b) == {i \in Instalments : \E e \in Employees : b.new[e] # None /\ i \in b.new[e].insts}
Flown(b)    == {t \in Tickets : \E e \in Employees : b.new[e] # None /\ t \in b.new[e].tickets}

(* What is written is not what would be computed now: it was read before   *)
(* another transaction changed it, and is written after.                   *)
Late(b) ==
    \/ b.new # Built(b.run, ticketRun)
    \/ ~b.replaces /\ HasPayslips(b.run)
    \/ \E i \in Deducted(b) : i[1] \in b.gone

(* Mutant: clear() leaves the instalments of the old payslips as they are. *)
WriteUnreleased(b) ==
    /\ slips' = [slips EXCEPT ![b.run] = b.new]
    /\ taken' = [i \in Instalments |-> IF i \in Deducted(b) THEN b.run ELSE taken[i]]
    /\ crossed' = (crossed \/ Late(b))
    /\ UNCHANGED ticketSlip

(* clear() deletes the payslips, if it saw any, and the foreign keys to    *)
(* them are nulled; the new ones are added, and what they took is marked.  *)
WriteBuilding(b) ==
    /\ slips' = [slips EXCEPT ![b.run] =
            [e \in Employees |-> IF b.new[e] = None /\ ~b.replaces THEN slips[b.run][e]
                                 ELSE b.new[e]]]
    /\ taken' = [i \in Instalments |->
            IF i \in Deducted(b) /\ i[1] \notin b.gone THEN b.run
            ELSE IF b.replaces /\ taken[i] = b.run THEN None ELSE taken[i]]
    /\ ticketSlip' = [t \in Tickets |->
            IF t \in Flown(b) THEN b.run
            ELSE IF b.replaces /\ ticketSlip[t] = b.run THEN None ELSE ticketSlip[t]]
    /\ crossed' = (crossed \/ Late(b))

Commit(q) ==
    /\ ~Free(q) /\ Exists(building[q].run) /\ Unique(building[q])
    /\ WriteBuilding(building[q])
    /\ IF building[q].replaces THEN AnswerAndDiscard(q, building[q].run) ELSE Answer(q)
    /\ building' = [building EXCEPT ![q] = None]
    /\ UNCHANGED <<ladderVars, loan, ticketRun, paid, company, accrued>>

(* Refused, chosen as the victim of a deadlock, or its process died.       *)
RollBack(q) ==
    /\ ~Free(q)
    /\ building' = [building EXCEPT ![q] = None]
    /\ Answer(q)
    /\ UNCHANGED <<ladderVars, slips, loanVars, ticketVars, company, accrued, crossed>>

(* The instalments of l are deleted; those of a schedule are made anew.     *)
DropInstalments(q, l) ==
    /\ Free(q) /\ (RebuildSchedule(q, l) \/ DeleteLoan(q, l))
    /\ building' = [p \in Requests |->
            IF Free(p) THEN None ELSE [building[p] EXCEPT !.gone = @ \cup {l}]]
    /\ UNCHANGED crossed

OtherRunRequest(q, r) ==
    \/ OpenRun(q, r)
    \/ \E e \in Employees : OpenPayslip(q, r, e)
    \/ \E e \in Employees, fine \in Fines : AdjustPayslip(q, r, e, fine)
    \/ DeleteRun(q, r) \/ SubmitForReview(q, r) \/ HrApprove(q, r)
    \/ FinanceApprove(q, r) \/ Disburse(q, r) \/ ReturnToDraft(q, r)

(* A run is created here by a user who may not generate.                   *)
Other ==
    \/ \E q \in Requests, r \in Runs : Free(q) /\ OtherRunRequest(q, r)
    \/ \E q \in Requests : Free(q) /\ Refuse(q)
    \/ \E r \in Runs : CreateRun(r) /\ UNCHANGED <<slips, taken, ticketSlip>>
    \/ \E q \in Requests, l \in Loans : Free(q) /\ OpenLoan(q, l)
    \/ \E l \in Loans : CreateLoan(l)
    \/ \E e \in Employees, c \in Companies : MoveEmployee(e, c)

NextTx ==
    \/ \E q \in Requests, r \in Runs : ReadForRun(q, r)
    \/ \E q \in Requests : Commit(q) \/ RollBack(q)
    \/ \E q \in Requests, l \in Loans : DropInstalments(q, l)
    \/ Other /\ UNCHANGED <<building, crossed>>

SpecTx == InitTx /\ [][NextTx]_txVars

-----------------------------------------------------------------------------
(* Properties *)

TypeOKTx ==
    /\ TypeOK
    /\ building \in [Requests -> Buildings \cup {None}]
    /\ crossed \in BOOLEAN

(* However generations overlap, an instalment that reads as recovered is   *)
(* in the figures of the payslip it points at: none is written off without *)
(* being deducted (PayrollService::clear, "never be deducted again").      *)
TakenIsDeducted ==
    \A i \in Instalments : taken[i] # None =>
        LET p == slips[taken[i]][LoanOwner[i[1]]]
        IN  p # None /\ i \in p.insts

(* Until a generation writes what no longer follows from what is stored,   *)
(* overlapping transactions and stale copies give no employee payslips in  *)
(* two runs of a month (PayrollService::generate, "never one already paid  *)
(* this month by another company's run").                                  *)
PaidOnceUnlessCrossed == ~crossed => PaidOncePerPeriod

(* Until then the instalments in a payslip's figures are exactly those     *)
(* marked as taken by it, whatever schedules are built again and loans     *)
(* deleted in between (PayrollService::clear, LoanScheduleService).        *)
DeductedOnceUnlessCrossed == ~crossed => DeductedOnce
=============================================================================
