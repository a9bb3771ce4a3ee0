------------------------------- MODULE Payroll -------------------------------
(***************************************************************************)
(* Monthly payroll: the approval ladder of a run, the payslips a draft     *)
(* generates, and what rides on them - the instalments of salary advances  *)
(* and the yearly flight tickets.                                          *)
(*                                                                         *)
(*   app/Services/MMS/PayrollRunService.php    the ladder                  *)
(*   app/Services/MMS/PayrollService.php       generate, clear             *)
(*   app/Services/MMS/FlightTicketService.php  tickets                     *)
(*   app/Services/MMS/LoanScheduleService.php  a loan's schedule           *)
(*   app/Filament/Mms/Resources/PayrollRuns    the buttons that call them  *)
(*                                                                         *)
(* Every button is one web request.  The request reads the record it acts  *)
(* on when it starts (OpenRun, OpenPayslip, OpenLoan, OpenTicket) and the  *)
(* service decides on that copy; the write is a later step, one database   *)
(* transaction, and only of the columns that differ from the copy (that is *)
(* what Eloquent's save() does).  Nothing locks the record in between, so  *)
(* with two elements in Requests a request may act on a status that is no  *)
(* longer the one stored.  With one element requests are served one at a   *)
(* time.  That two transactions may themselves overlap is the subject of   *)
(* module PayrollTransactions.                                             *)
(***************************************************************************)
EXTENDS Integers, FiniteSets

CONSTANTS
    Runs,         \* payroll runs (rows of payroll_runs; an id is never reused)
    Employees,    \* parties with the employee role, employed throughout
    Companies,    \* sponsoring companies, "no company" being one of them
    Loans,        \* salary advances
    Tickets,      \* yearly flight tickets, one per employee and year
    Requests,     \* web requests that can be in progress at the same time
    None,         \* a null foreign key, and an idle request
    RunPeriod,    \* the month a run pays, as a number
    RunCompany,   \* the company a run pays the employees of
    LoanOwner,    \* whose loan it is
    Term,         \* the number of instalments of a loan
    FirstDue,     \* the month its first instalment falls due
    TicketOwner,  \* whose ticket it is
    Joined,       \* the employees with a date of joining on their profile
    Salary,       \* gross salary, in units of one instalment or ticket
    Fines         \* the figures an accountant may type as "Other Deduction"

ASSUME RunsAssumption ==
    /\ RunPeriod \in [Runs -> Nat]
    /\ RunCompany \in [Runs -> Companies]

ASSUME JoinedAssumption == Joined \subseteq Employees

ASSUME LoansAssumption ==
    /\ LoanOwner \in [Loans -> Employees]
    /\ FirstDue \in [Loans -> Nat]
    /\ Term \in Nat \ {0}

ASSUME PayAssumption ==
    /\ TicketOwner \in [Tickets -> Employees]
    /\ Salary \in Nat
    /\ Fines \subseteq Nat
    /\ 0 \in Fines

VARIABLES
    status,           \* where each run stands on the ladder
    hrApproved,       \* runs with hr_approved_by set
    financeApproved,  \* runs with finance_approved_by set
    slips,            \* the payslip of each run and employee, or None
    taken,            \* loan_installments.payslip_id: the run whose payslip took it
    loan,             \* each loan's status
    ticketRun,        \* flight_tickets.payroll_run_id
    ticketSlip,       \* flight_tickets.payslip_id: the run whose payslip carries it
    paid,             \* how a ticket was paid, if it was
    company,          \* employee_profiles.company_id
    accrued,          \* the (employee, period) rows of eosg_accruals
    seen              \* what each request in progress read when it started

ladderVars == <<status, hrApproved, financeApproved>>
loanVars   == <<taken, loan>>
ticketVars == <<ticketRun, ticketSlip, paid>>
vars == <<ladderVars, slips, loanVars, ticketVars, company, accrued, seen>>

Ladder   == {"draft", "hr_review", "finance_approval", "approved", "disbursed"}
Statuses == Ladder \cup {"none", "deleted"}

Instalments == Loans \X (1..Term)
Due(i) == FirstDue[i[1]] + i[2] - 1

(* What a payslip is computed from: the instalments and tickets summed into *)
(* its figures, and the deduction entered by hand.                         *)
Payslip == [insts : SUBSET Instalments, tickets : SUBSET Tickets, manual : Fines]

Net(p) == Salary + Cardinality(p.tickets) - Cardinality(p.insts) - p.manual

Approvers == {"hr", "finance"}

Handles == [kind : {"run"}, id : Runs, saw : Ladder, by : SUBSET Approvers]
           \cup [kind : {"payslip"}, id : Runs, of : Employees, manual : Fines]
           \cup [kind : {"loan"}, id : Loans]
           \cup [kind : {"ticket"}, id : Tickets]

RunSeen(r, s, by)    == [kind |-> "run", id |-> r, saw |-> s, by |-> by]
PayslipSeen(r, e, m) == [kind |-> "payslip", id |-> r, of |-> e, manual |-> m]
LoanSeen(l)          == [kind |-> "loan", id |-> l]
TicketSeen(t)        == [kind |-> "ticket", id |-> t]

ASSUME NoneAssumption == None \notin Runs /\ None \notin Payslip /\ None \notin Handles

Init ==
    /\ status = [r \in Runs |-> "none"]
    /\ hrApproved = {} /\ financeApproved = {}
    /\ slips = [r \in Runs |-> [e \in Employees |-> None]]
    /\ taken = [i \in Instalments |-> None]
    /\ loan = [l \in Loans |-> "none"]
    /\ ticketRun = [t \in Tickets |-> None]
    /\ ticketSlip = [t \in Tickets |-> None]
    /\ paid = [t \in Tickets |-> "absent"]
    /\ company \in [Employees -> Companies]
    /\ accrued = {}
    /\ seen = [q \in Requests |-> None]

-----------------------------------------------------------------------------
(* Requests *)

Exists(r) == status[r] \in Ladder
HasPayslips(r) == \E e \in Employees : slips[r][e] # None
Untouched(l) == \A i \in Instalments : i[1] = l => taken[i] = None

(* Who has approved r, and what q's copy of it says. *)
ApprovedBy(r) == {a \in Approvers : IF a = "hr" THEN r \in hrApproved ELSE r \in financeApproved}

ReadRun(q, r, s) == \E by \in SUBSET Approvers : seen[q] = RunSeen(r, s, by)

ReadPayslip(q, r, e) == \E m \in Fines : seen[q] = PayslipSeen(r, e, m)

OpenRun(q, r) ==
    /\ seen[q] = None /\ Exists(r)
    /\ seen' = [seen EXCEPT ![q] = RunSeen(r, status[r], ApprovedBy(r))]
    /\ UNCHANGED <<ladderVars, slips, loanVars, ticketVars, company, accrued>>

(* A payslip's Adjust button is offered while its run is a draft.          *)
OpenPayslip(q, r, e) ==
    /\ seen[q] = None /\ status[r] = "draft" /\ slips[r][e] # None
    /\ seen' = [seen EXCEPT ![q] = PayslipSeen(r, e, slips[r][e].manual)]
    /\ UNCHANGED <<ladderVars, slips, loanVars, ticketVars, company, accrued>>

(* Editing, rebuilding and deleting a loan are offered while none of its   *)
(* instalments is on a payslip.                                            *)
OpenLoan(q, l) ==
    /\ seen[q] = None /\ loan[l] \in {"active", "settled"} /\ Untouched(l)
    /\ seen' = [seen EXCEPT ![q] = LoanSeen(l)]
    /\ UNCHANGED <<ladderVars, slips, loanVars, ticketVars, company, accrued>>

(* Marking a ticket paid, or paying it with the salary, is offered for a   *)
(* due ticket, and the service checks the same copy again.                 *)
OpenTicket(q, t) ==
    /\ seen[q] = None /\ paid[t] = "no" /\ ticketRun[t] = None
    /\ seen' = [seen EXCEPT ![q] = TicketSeen(t)]
    /\ UNCHANGED <<ladderVars, slips, loanVars, ticketVars, company, accrued>>

(* A request whose reads and writes are one transaction is a single step,  *)
(* for which there is a request to spare.                                  *)
Idle == \E q \in Requests : seen[q] = None

Answer(q) == seen' = [seen EXCEPT ![q] = None]

(* The payslips of r are deleted, and others made: a request that holds an *)
(* old one has no row left to write to.                                    *)
AnswerAndDiscard(q, r) ==
    seen' = [p \in Requests |->
                IF p = q \/ \E e \in Employees : ReadPayslip(p, r, e)
                THEN None ELSE seen[p]]

(* The service refuses, or the request dies: its transaction is undone.    *)
Refuse(q) ==
    /\ seen[q] # None
    /\ Answer(q)
    /\ UNCHANGED <<ladderVars, slips, loanVars, ticketVars, company, accrued>>

-----------------------------------------------------------------------------
(* Payslips *)

(* Mutant: the other runs of the month are not looked at. *)
OnRunOfCompany(r, e) == company[e] = RunCompany[r]

(* Its company's employees, never one on another run of the same month.    *)
OnRun(r, e) ==
    /\ company[e] = RunCompany[r]
    /\ \A o \in Runs \ {r} : RunPeriod[o] = RunPeriod[r] => slips[o][e] = None

InstalmentsDue(r, e) ==
    {i \in Instalments : /\ LoanOwner[i[1]] = e
                         /\ loan[i[1]] = "active"
                         /\ Due(i) <= RunPeriod[r]
                         /\ taken[i] \in {None, r}}   \* r's own were just released

(* Mutant: any unpaid ticket of the employee, whichever run it is in. *)
TicketsUnpaid(r, e, inRun) == {t \in Tickets : TicketOwner[t] = e /\ paid[t] = "no"}

(* inRun is payroll_run_id once the request has changed it.                *)
TicketsIn(r, e, inRun) ==
    {t \in Tickets : TicketOwner[t] = e /\ inRun[t] = r /\ paid[t] = "no"}

(* Mutant: hand-entered figures start again from nothing. *)
BuiltAfresh(r, inRun) ==
    [e \in Employees |->
        IF OnRun(r, e)
        THEN [insts   |-> InstalmentsDue(r, e),
              tickets |-> TicketsIn(r, e, inRun),
              manual  |-> 0]
        ELSE None]

(* A payslip for each employee of the run: figures read from the database, *)
(* and the one entered by hand carried over.                               *)
Built(r, inRun) ==
    [e \in Employees |->
        IF OnRun(r, e)
        THEN [insts   |-> InstalmentsDue(r, e),
              tickets |-> TicketsIn(r, e, inRun),
              manual  |-> IF slips[r][e] = None THEN 0 ELSE slips[r][e].manual]
        ELSE None]

(* clear() and then one payslip per employee: the instalments and tickets  *)
(* of the old payslips are released, those of the new ones marked.         *)
Written(r, new) ==
    /\ slips' = [slips EXCEPT ![r] = new]
    /\ taken' = [i \in Instalments |->
                    IF \E e \in Employees : new[e] # None /\ i \in new[e].insts
                    THEN r
                    ELSE IF taken[i] = r THEN None ELSE taken[i]]
    /\ ticketSlip' = [t \in Tickets |->
                    IF \E e \in Employees : new[e] # None /\ t \in new[e].tickets
                    THEN r
                    ELSE IF ticketSlip[t] = r THEN None ELSE ticketSlip[t]]

Generated(r, inRun) == Written(r, Built(r, inRun))

(* A run is created as a draft; its payslips are generated at once when    *)
(* the user may generate.                                                  *)
CreateRun(r) ==
    /\ Idle /\ status[r] = "none"
    /\ \A o \in Runs : Exists(o) =>
            <<RunPeriod[o], RunCompany[o]>> # <<RunPeriod[r], RunCompany[r]>>
    /\ status' = [status EXCEPT ![r] = "draft"]
    /\ \/ Generated(r, ticketRun)
       \/ UNCHANGED <<slips, taken, ticketSlip>>
    /\ UNCHANGED <<hrApproved, financeApproved, loan, ticketRun, paid, company,
                   accrued, seen>>

(* Mutant: generation on any rung. *)
GenerateAnyRung(q, r) ==
    /\ \E s \in Ladder : ReadRun(q, r, s)
    /\ Exists(r)
    /\ Generated(r, ticketRun)
    /\ AnswerAndDiscard(q, r)
    /\ UNCHANGED <<ladderVars, loan, ticketRun, paid, company, accrued>>

Generate(q, r) ==
    /\ ReadRun(q, r, "draft") /\ Exists(r)
    /\ Generated(r, ticketRun)
    /\ AnswerAndDiscard(q, r)
    /\ UNCHANGED <<ladderVars, loan, ticketRun, paid, company, accrued>>

(* A figure typed on a draft's payslip; its totals are derived again.      *)
(* Left as the copy has it, nothing is written.                            *)
AdjustPayslip(q, r, e, fine) ==
    /\ ReadPayslip(q, r, e) /\ slips[r][e] # None
    /\ slips' = IF seen[q].manual = fine THEN slips
                ELSE [slips EXCEPT ![r][e].manual = fine]
    /\ Answer(q)
    /\ UNCHANGED <<ladderVars, loanVars, ticketVars, company, accrued>>

(* The payslips go with the run, and the foreign keys to both are nulled.  *)
DeleteRun(q, r) ==
    /\ ReadRun(q, r, "draft") /\ Exists(r)
    /\ status' = [status EXCEPT ![r] = "deleted"]
    /\ hrApproved' = hrApproved \ {r} /\ financeApproved' = financeApproved \ {r}
    /\ slips' = [slips EXCEPT ![r] = [e \in Employees |-> None]]
    /\ taken' = [i \in Instalments |-> IF taken[i] = r THEN None ELSE taken[i]]
    /\ ticketRun' = [t \in Tickets |-> IF ticketRun[t] = r THEN None ELSE ticketRun[t]]
    /\ ticketSlip' = [t \in Tickets |-> IF ticketSlip[t] = r THEN None ELSE ticketSlip[t]]
    /\ AnswerAndDiscard(q, r)
    /\ UNCHANGED <<loan, paid, company, accrued>>

-----------------------------------------------------------------------------
(* The ladder *)

(* assertStatus() on the copy, then one UPDATE of the row.                 *)
MoveTo(r, s) == status' = [status EXCEPT ![r] = s]

SubmitForReview(q, r) ==
    /\ ReadRun(q, r, "draft") /\ Exists(r)
    /\ HasPayslips(r)
    /\ MoveTo(r, "hr_review")
    /\ Answer(q)
    /\ UNCHANGED <<hrApproved, financeApproved, slips, loanVars, ticketVars,
                   company, accrued>>

HrApprove(q, r) ==
    /\ ReadRun(q, r, "hr_review") /\ Exists(r)
    /\ \A e \in Employees : slips[r][e] # None => Net(slips[r][e]) >= 0
    /\ MoveTo(r, "finance_approval")
    /\ hrApproved' = hrApproved \cup {r}
    /\ Answer(q)
    /\ UNCHANGED <<financeApproved, slips, loanVars, ticketVars, company, accrued>>

FinanceApprove(q, r) ==
    /\ ReadRun(q, r, "finance_approval") /\ Exists(r)
    /\ MoveTo(r, "approved")
    /\ financeApproved' = financeApproved \cup {r}
    /\ Answer(q)
    /\ UNCHANGED <<hrApproved, slips, loanVars, ticketVars, company, accrued>>

(* A loan of the run's employees with no instalment left to take is closed. *)
Recovered(r, l) ==
    /\ loan[l] = "active"
    /\ slips[r][LoanOwner[l]] # None
    /\ \A i \in Instalments : i[1] = l => taken[i] # None

(* The run's tickets on a payslip are paid, the others are due again.      *)
SettleRun(r) ==
    /\ paid' = [t \in Tickets |->
                    IF ticketRun[t] = r /\ ticketSlip[t] # None /\ paid[t] = "no"
                    THEN "payroll" ELSE paid[t]]
    /\ ticketRun' = [t \in Tickets |->
                    IF ticketRun[t] = r /\ ticketSlip[t] = None
                    THEN None ELSE ticketRun[t]]

(* One row per employee and month, for those whose service can be counted;  *)
(* written again, it is the same row.                                      *)
BookGratuityAccruals(r) ==
    accrued' = accrued \cup
        {<<e, RunPeriod[r]>> : e \in {x \in Joined : slips[r][x] # None}}

Disburse(q, r) ==
    /\ ReadRun(q, r, "approved") /\ Exists(r)
    /\ BookGratuityAccruals(r)
    /\ loan' = [l \in Loans |-> IF Recovered(r, l) THEN "settled" ELSE loan[l]]
    /\ SettleRun(r)
    /\ MoveTo(r, "disbursed")
    /\ Answer(q)
    /\ UNCHANGED <<hrApproved, financeApproved, slips, taken, ticketSlip, company>>

(* Mutant: a disbursed run is reopened. *)
Reopen(q, r) ==
    /\ \E s \in Ladder \ {"draft"} : ReadRun(q, r, s)
    /\ Exists(r)
    /\ MoveTo(r, "draft")
    /\ hrApproved' = hrApproved \ {r} /\ financeApproved' = financeApproved \ {r}
    /\ Answer(q)
    /\ UNCHANGED <<slips, loanVars, ticketVars, company, accrued>>

(* The approvals are nulled; one the copy does not have is not written.    *)
ReturnToDraft(q, r) ==
    \E s \in Ladder \ {"draft", "disbursed"}, by \in SUBSET Approvers :
        /\ seen[q] = RunSeen(r, s, by) /\ Exists(r)
        /\ MoveTo(r, "draft")
        /\ hrApproved' = IF "hr" \in by THEN hrApproved \ {r} ELSE hrApproved
        /\ financeApproved' = IF "finance" \in by THEN financeApproved \ {r}
                               ELSE financeApproved
        /\ Answer(q)
        /\ UNCHANGED <<slips, loanVars, ticketVars, company, accrued>>

-----------------------------------------------------------------------------
(* Flight tickets *)

EmployeeOf(r, t) == company[TicketOwner[t]] = RunCompany[r]

AvailableFor(r) ==
    {t \in Tickets : paid[t] = "no" /\ EmployeeOf(r, t) /\ ticketRun[t] \in {None, r}}

CreateTicket(t) ==
    /\ paid[t] = "absent"
    /\ paid' = [paid EXCEPT ![t] = "no"]
    /\ UNCHANGED <<ladderVars, slips, loanVars, ticketRun, ticketSlip, company,
                   accrued, seen>>

(* Exactly the chosen tickets are in the run; then the payslips, if there  *)
(* are any, are rebuilt in the same transaction.                           *)
SetTickets(q, r, chosen) ==
    LET inRun == [t \in Tickets |->
                    IF ticketRun[t] = r /\ t \notin chosen THEN None
                    ELSE IF t \in chosen /\ ticketRun[t] = None THEN r
                    ELSE ticketRun[t]]
        freed == {t \in Tickets : ticketRun[t] = r /\ t \notin chosen}
    IN  /\ ReadRun(q, r, "draft") /\ Exists(r)
        /\ AvailableFor(r) # {} /\ chosen \subseteq AvailableFor(r)
        /\ ticketRun' = inRun
        /\ IF HasPayslips(r)
           THEN Generated(r, inRun)
           ELSE /\ ticketSlip' = [t \in Tickets |->
                                    IF t \in freed THEN None ELSE ticketSlip[t]]
                /\ UNCHANGED <<slips, taken>>
        /\ AnswerAndDiscard(q, r)
        /\ UNCHANGED <<ladderVars, loan, paid, company, accrued>>

(* The run is chosen in the form and read in the same request.             *)
AddToRun(q, t, r) ==
    /\ seen[q] = TicketSeen(t)
    /\ status[r] = "draft" /\ EmployeeOf(r, t)
    /\ ticketRun' = [ticketRun EXCEPT ![t] = r]
    /\ IF HasPayslips(r)
       THEN Generated(r, ticketRun')
       ELSE UNCHANGED <<slips, taken, ticketSlip>>
    /\ AnswerAndDiscard(q, r)
    /\ UNCHANGED <<ladderVars, loan, paid, company, accrued>>

MarkPaid(q, t) ==
    /\ seen[q] = TicketSeen(t)
    /\ paid' = [paid EXCEPT ![t] = "direct"]
    /\ Answer(q)
    /\ UNCHANGED <<ladderVars, slips, loanVars, ticketRun, ticketSlip, company, accrued>>

(* An employee's ticket advance: the ticket made if it is not, and paid.   *)
PayInAdvance(t) ==
    /\ Idle /\ paid[t] \in {"absent", "no"} /\ ticketRun[t] = None
    /\ paid' = [paid EXCEPT ![t] = "direct"]
    /\ UNCHANGED <<ladderVars, slips, loanVars, ticketRun, ticketSlip, company,
                   accrued, seen>>

-----------------------------------------------------------------------------
(* Loans and employees *)

(* The advance and its schedule are written in one transaction.            *)
CreateLoan(l) ==
    /\ Idle /\ loan[l] = "none"
    /\ loan' = [loan EXCEPT ![l] = "active"]
    /\ UNCHANGED <<ladderVars, slips, taken, ticketVars, company, accrued, seen>>

(* Mutant: the schedule service relies on the button being hidden. *)
RebuildAnyway(q, l) ==
    /\ seen[q] = LoanSeen(l)
    /\ taken' = [i \in Instalments |-> IF i[1] = l THEN None ELSE taken[i]]
    /\ Answer(q)
    /\ UNCHANGED <<ladderVars, slips, loan, ticketVars, company, accrued>>

(* Every instalment row is deleted and planned again, none of them taken:  *)
(* the service counts the taken ones itself, in the transaction.           *)
RebuildSchedule(q, l) ==
    /\ seen[q] = LoanSeen(l) /\ Untouched(l)
    /\ taken' = [i \in Instalments |-> IF i[1] = l THEN None ELSE taken[i]]
    /\ Answer(q)
    /\ UNCHANGED <<ladderVars, slips, loan, ticketVars, company, accrued>>

DeleteLoan(q, l) ==
    /\ seen[q] = LoanSeen(l)
    /\ loan' = [loan EXCEPT ![l] = "deleted"]
    /\ Answer(q)
    /\ UNCHANGED <<ladderVars, slips, taken, ticketVars, company, accrued>>

MoveEmployee(e, c) ==
    /\ Idle /\ company[e] # c
    /\ company' = [company EXCEPT ![e] = c]
    /\ UNCHANGED <<ladderVars, slips, loanVars, ticketVars, accrued, seen>>

RunRequest(q, r) ==
    \/ OpenRun(q, r)
    \/ Generate(q, r)
    \/ \E e \in Employees : OpenPayslip(q, r, e)
    \/ \E e \in Employees, fine \in Fines : AdjustPayslip(q, r, e, fine)
    \/ DeleteRun(q, r)
    \/ SubmitForReview(q, r)
    \/ HrApprove(q, r)
    \/ FinanceApprove(q, r)
    \/ Disburse(q, r)
    \/ ReturnToDraft(q, r)
    \/ \E chosen \in SUBSET Tickets : SetTickets(q, r, chosen)
    \/ \E t \in Tickets : AddToRun(q, t, r)

Next ==
    \/ \E q \in Requests, r \in Runs : RunRequest(q, r)
    \/ \E q \in Requests, t \in Tickets : OpenTicket(q, t) \/ MarkPaid(q, t)
    \/ \E q \in Requests, l \in Loans :
            OpenLoan(q, l) \/ RebuildSchedule(q, l) \/ DeleteLoan(q, l)
    \/ \E q \in Requests : Refuse(q)
    \/ \E r \in Runs : CreateRun(r)
    \/ \E t \in Tickets : CreateTicket(t) \/ PayInAdvance(t)
    \/ \E l \in Loans : CreateLoan(l)
    \/ \E e \in Employees, c \in Companies : MoveEmployee(e, c)

Spec == Init /\ [][Next]_vars

-----------------------------------------------------------------------------
(* Requests that write only on copies still current *)

(* What q read when it started is still so: the run's rung and approvals,   *)
(* its payslip's run a draft, its ticket unpaid and in no run.              *)
Current(q) ==
    /\ \A r \in Runs, s \in Ladder, by \in SUBSET Approvers :
            seen[q] = RunSeen(r, s, by) => status[r] = s /\ ApprovedBy(r) = by
    /\ \A r \in Runs, e \in Employees : ReadPayslip(q, r, e) => status[r] = "draft"
    /\ \A t \in Tickets : seen[q] = TicketSeen(t) => paid[t] = "no" /\ ticketRun[t] = None

dbVars == <<ladderVars, slips, loanVars, ticketVars, company, accrued>>

(* Requests overlap in any way, but none writes anything once its copy is   *)
(* stale: what a version column or a lock for update would see to.          *)
OnCurrent ==
    \A q \in Requests :
        (seen[q] # None /\ seen'[q] = None) => Current(q) \/ UNCHANGED dbVars

ActsOnCurrent == [][OnCurrent]_vars

-----------------------------------------------------------------------------
(* Properties *)

(* Each variable holds the values its column may hold.                     *)
TypeOK ==
    /\ status \in [Runs -> Statuses]
    /\ hrApproved \subseteq Runs /\ financeApproved \subseteq Runs
    /\ slips \in [Runs -> [Employees -> Payslip \cup {None}]]
    /\ taken \in [Instalments -> Runs \cup {None}]
    /\ loan \in [Loans -> {"none", "active", "settled", "deleted"}]
    /\ ticketRun \in [Tickets -> Runs \cup {None}]
    /\ ticketSlip \in [Tickets -> Runs \cup {None}]
    /\ paid \in [Tickets -> {"absent", "no", "payroll", "direct"}]
    /\ company \in [Employees -> Companies]
    /\ accrued \subseteq Employees \X Nat
    /\ seen \in [Requests -> Handles \cup {None}]

(* No employee has payslips in two runs of the same month, also when they  *)
(* move from a company whose run was generated to one whose run is not     *)
(* (PayrollService::generate, "never one already paid this month by        *)
(* another company's run").                                                *)
PaidOncePerPeriod ==
    \A r, o \in Runs, e \in Employees :
        (r # o /\ RunPeriod[r] = RunPeriod[o]) => slips[r][e] = None \/ slips[o][e] = None

(* The instalments summed into the loan deduction of a payslip are exactly *)
(* those marked as taken by it, so the sum is never taken twice and never  *)
(* forgotten (PayrollService::clear, buildPayslip).                        *)
DeductedOnce ==
    \A i \in Instalments, r \in Runs :
        taken[i] = r <=> /\ slips[r][LoanOwner[i[1]]] # None
                         /\ i \in slips[r][LoanOwner[i[1]]].insts

(* A ticket is paid once: by payroll when it is a figure of the payslip of *)
(* exactly one disbursed run, directly when it is on no payslip at all     *)
(* (FlightTicketService: setForRun, addToRun, settleRun, markPaid).        *)
TicketPaidOnce ==
    \A t \in Tickets :
        LET carriers == {r \in Runs : /\ slips[r][TicketOwner[t]] # None
                                      /\ t \in slips[r][TicketOwner[t]].tickets}
        IN  /\ \A r, o \in carriers : r = o
            /\ paid[t] = "payroll" <=> \E r \in carriers : status[r] = "disbursed"
            /\ paid[t] = "direct" => carriers = {}

(* An approval on a run is that of somebody who saw these figures: HR's    *)
(* from Finance's rung up, Finance's from Approved up, and never a name    *)
(* left on a draft (PayrollRunService::returnToDraft).                     *)
ApprovalsMatchRung ==
    \A r \in Runs :
        /\ r \in hrApproved <=> status[r] \in {"finance_approval", "approved", "disbursed"}
        /\ r \in financeApproved <=> status[r] \in {"approved", "disbursed"}

(* No payslip that asks money of its employee gets past HR                 *)
(* (PayrollRunService::hrApprove, "Resolve them before approving").        *)
NoNegativeNetReleased ==
    \A r \in Runs, e \in Employees :
        (status[r] \in {"finance_approval", "approved", "disbursed"} /\ slips[r][e] # None)
            => Net(slips[r][e]) >= 0

(* The gratuity ledger has a row for an employee and month exactly when a  *)
(* disbursed run paid them that month, their date of joining being known   *)
(* (bookGratuityAccruals).                                                 *)
AccruedWhenDisbursed ==
    accrued = UNION {{<<e, RunPeriod[r]>> : e \in {x \in Joined : slips[r][x] # None}}
                        : r \in {x \in Runs : status[x] = "disbursed"}}

(* A closed loan was recovered: each of its instalments is on a payslip of *)
(* a disbursed run ("any loan whose last instalment has now been taken is  *)
(* closed", PayrollRunService::disburse).  It holds in an office that      *)
(* works its months in order; see SettledLoansOweNothing for one that      *)
(* does not.                                                               *)
SettledLoansAreRepaid ==
    \A i \in Instalments :
        loan[i[1]] = "settled" => taken[i] \in {r \in Runs : status[r] = "disbursed"}

(* A closed loan owes nothing: no instalment of it is outstanding, i.e.    *)
(* null in payslip_id ("Close any loan whose instalments have all been     *)
(* taken", PayrollRunService::settleFullyRecoveredLoans).                  *)
SettledLoansOweNothing ==
    \A i \in Instalments : loan[i[1]] = "settled" => taken[i] # None

(* Figures move only in draft: a payslip of a run on a higher rung is      *)
(* never rebuilt, adjusted or lost (PayrollRunStatus, "Figures are only    *)
(* editable in DRAFT").                                                    *)
FiguresMoveOnlyInDraft ==
    [][\A r \in Runs : status[r] \notin {"none", "draft"} => slips'[r] = slips[r]]_vars

(* A figure entered by hand stays until somebody adjusts it: "Hand-entered *)
(* figures are the one thing generation must not discard"                  *)
(* (PayrollService::generate).                                             *)
HandEnteredKept ==
    [][\A r \in Runs, e \in Employees :
            (slips[r][e] # None /\ slips'[r][e] # None)
                => \/ slips'[r][e].manual = slips[r][e].manual
                   \/ \E q \in Requests : ReadPayslip(q, r, e) /\ seen'[q] = None]_vars

Rungs == {<<"none", "draft">>, <<"draft", "hr_review">>, <<"hr_review", "finance_approval">>,
          <<"finance_approval", "approved">>, <<"approved", "disbursed">>,
          <<"draft", "deleted">>}
         \cup {<<s, "draft">> : s \in {"hr_review", "finance_approval", "approved"}}

(* A run climbs one rung at a time, falls only to draft, and is never      *)
(* reopened or removed once disbursed (PayrollRunService::assertStatus).   *)
OneRungAtATime ==
    [][\A r \in Runs : status'[r] # status[r] => <<status[r], status'[r]>> \in Rungs]_vars

(* "A disbursed run cannot be reopened." (PayrollRunService::returnToDraft) *)
DisbursedIsFinal ==
    [][\A r \in Runs : status[r] = "disbursed" => status'[r] = "disbursed"]_vars
=============================================================================
