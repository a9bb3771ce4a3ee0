---------------------------- MODULE PayrollProofs ----------------------------
(***************************************************************************)
(* What Payroll and PayrollTransactions promise, for any runs, employees,  *)
(* loans and tickets: first with any number of requests in progress, then  *)
(* for those that write only on copies still current, then with            *)
(* generations that read in one step and write in another.                 *)
(***************************************************************************)
EXTENDS PayrollTransactions, TLAPS

LEMMA BuiltType ==
    ASSUME TypeOK, NEW r \in Runs, NEW inRun
    PROVE  Built(r, inRun) \in [Employees -> Payslip \cup {None}]
<1>1. ASSUME NEW e \in Employees
      PROVE  [insts   |-> InstalmentsDue(r, e),
              tickets |-> TicketsIn(r, e, inRun),
              manual  |-> IF slips[r][e] = None THEN 0 ELSE slips[r][e].manual]
                  \in Payslip
  <2>1. InstalmentsDue(r, e) \in SUBSET Instalments
    BY DEF InstalmentsDue
  <2>2. TicketsIn(r, e, inRun) \in SUBSET Tickets
    BY DEF TicketsIn
  <2>3. slips[r][e] \in Payslip \cup {None}
    BY DEF TypeOK
  <2>4. (IF slips[r][e] = None THEN 0 ELSE slips[r][e].manual) \in Fines
    BY <2>3, PayAssumption DEF Payslip
  <2> QED
    BY <2>1, <2>2, <2>4 DEF Payslip
<1> QED
  BY <1>1 DEF Built

LEMMA WrittenType ==
    ASSUME TypeOK, NEW r \in Runs, NEW new \in [Employees -> Payslip \cup {None}],
           Written(r, new)
    PROVE  /\ slips' \in [Runs -> [Employees -> Payslip \cup {None}]]
           /\ taken' \in [Instalments -> Runs \cup {None}]
           /\ ticketSlip' \in [Tickets -> Runs \cup {None}]
<1>1. slips' \in [Runs -> [Employees -> Payslip \cup {None}]]
  BY DEF Written, TypeOK
<1>2. taken' \in [Instalments -> Runs \cup {None}]
  BY DEF Written, TypeOK
<1>3. ticketSlip' \in [Tickets -> Runs \cup {None}]
  BY DEF Written, TypeOK
<1> QED
  BY <1>1, <1>2, <1>3

LEMMA GeneratedType ==
    ASSUME TypeOK, NEW r \in Runs, NEW inRun, Generated(r, inRun)
    PROVE  /\ slips' \in [Runs -> [Employees -> Payslip \cup {None}]]
           /\ taken' \in [Instalments -> Runs \cup {None}]
           /\ ticketSlip' \in [Tickets -> Runs \cup {None}]
BY BuiltType, WrittenType DEF Generated

LEMMA AnswerType ==
    ASSUME TypeOK, NEW q \in Requests,
           Answer(q) \/ \E r \in Runs : AnswerAndDiscard(q, r)
    PROVE  seen' \in [Requests -> Handles \cup {None}]
BY DEF TypeOK, Answer, AnswerAndDiscard

LEMMA HandleTypes ==
    /\ \A r \in Runs, s \in Ladder, by \in SUBSET Approvers : RunSeen(r, s, by) \in Handles
    /\ \A r \in Runs, e \in Employees, m \in Fines : PayslipSeen(r, e, m) \in Handles
    /\ \A l \in Loans : LoanSeen(l) \in Handles
    /\ \A t \in Tickets : TicketSeen(t) \in Handles
BY DEF RunSeen, PayslipSeen, LoanSeen, TicketSeen, Handles

LEMMA InitType == Init => TypeOK
BY PayAssumption DEF Init, TypeOK, Statuses

(* A request on a run keeps the types. *)
LEMMA RunRequestType ==
    ASSUME TypeOK, NEW q \in Requests, NEW r \in Runs, RunRequest(q, r)
    PROVE  TypeOK'
<1>1. CASE OpenRun(q, r)
  <2>1. status[r] \in Ladder /\ ApprovedBy(r) \in SUBSET Approvers
    BY <1>1 DEF OpenRun, Exists, ApprovedBy
  <2>2. RunSeen(r, status[r], ApprovedBy(r)) \in Handles
    BY <2>1, HandleTypes
  <2> QED
    BY <1>1, <2>2 DEF OpenRun, TypeOK, ladderVars, loanVars, ticketVars
<1>2. CASE Generate(q, r)
  BY <1>2, GeneratedType, AnswerType DEF Generate, TypeOK, ladderVars
<1>3. ASSUME NEW e \in Employees, NEW fine \in Fines, AdjustPayslip(q, r, e, fine)
      PROVE  TypeOK'
  <2>1. slips[r][e] \in Payslip
    BY <1>3 DEF AdjustPayslip, TypeOK
  <2>2. slips' \in [Runs -> [Employees -> Payslip \cup {None}]]
    <3>1. [slips[r][e] EXCEPT !.manual = fine] \in Payslip
      BY <2>1 DEF Payslip
    <3>2. \/ slips' = slips
          \/ slips' = [slips EXCEPT ![r] =
                         [slips[r] EXCEPT ![e] = [slips[r][e] EXCEPT !.manual = fine]]]
      BY <1>3 DEF AdjustPayslip
    <3>3. CASE slips' = slips
      BY <3>3 DEF TypeOK
    <3>4. CASE slips' = [slips EXCEPT ![r] =
                           [slips[r] EXCEPT ![e] = [slips[r][e] EXCEPT !.manual = fine]]]
      BY <3>1, <3>4 DEF TypeOK
    <3> QED
      BY <3>2, <3>3, <3>4
  <2> QED
    BY <1>3, <2>2, AnswerType DEF AdjustPayslip, TypeOK, ladderVars, loanVars, ticketVars
<1>4. CASE DeleteRun(q, r)
  BY <1>4, AnswerType DEF DeleteRun, TypeOK, Statuses
<1>5. CASE SubmitForReview(q, r)
  BY <1>5, AnswerType DEF SubmitForReview, MoveTo, TypeOK, Statuses, Ladder, loanVars, ticketVars
<1>6. CASE HrApprove(q, r)
  BY <1>6, AnswerType DEF HrApprove, MoveTo, TypeOK, Statuses, Ladder, loanVars, ticketVars
<1>7. CASE FinanceApprove(q, r)
  BY <1>7, AnswerType DEF FinanceApprove, MoveTo, TypeOK, Statuses, Ladder, loanVars, ticketVars
<1>8. CASE Disburse(q, r)
  <2>1. accrued' \subseteq Employees \X Nat
    BY <1>8, RunsAssumption, JoinedAssumption DEF Disburse, BookGratuityAccruals, TypeOK
  <2>2. loan' \in [Loans -> {"none", "active", "settled", "deleted"}]
    BY <1>8 DEF Disburse, TypeOK
  <2>3. /\ paid' \in [Tickets -> {"absent", "no", "payroll", "direct"}]
        /\ ticketRun' \in [Tickets -> Runs \cup {None}]
    BY <1>8 DEF Disburse, SettleRun, TypeOK
  <2>4. status' \in [Runs -> Statuses]
    BY <1>8 DEF Disburse, MoveTo, TypeOK, Statuses, Ladder
  <2> QED
    BY <1>8, <2>1, <2>2, <2>3, <2>4, AnswerType DEF Disburse, TypeOK
<1>9. CASE ReturnToDraft(q, r)
  BY <1>9, AnswerType DEF ReturnToDraft, MoveTo, TypeOK, Statuses, Ladder, loanVars, ticketVars
<1>10. ASSUME NEW chosen \in SUBSET Tickets, SetTickets(q, r, chosen)
       PROVE  TypeOK'
  <2> DEFINE inRun == [t \in Tickets |->
                        IF ticketRun[t] = r /\ t \notin chosen THEN None
                        ELSE IF t \in chosen /\ ticketRun[t] = None THEN r
                        ELSE ticketRun[t]]
  <2>1. inRun \in [Tickets -> Runs \cup {None}]
    BY DEF TypeOK
  <2>2. /\ slips' \in [Runs -> [Employees -> Payslip \cup {None}]]
        /\ taken' \in [Instalments -> Runs \cup {None}]
        /\ ticketSlip' \in [Tickets -> Runs \cup {None}]
    <3>1. CASE HasPayslips(r)
      BY <1>10, <2>1, <3>1, GeneratedType DEF SetTickets
    <3>2. CASE ~HasPayslips(r)
      BY <1>10, <3>2 DEF SetTickets, TypeOK
    <3> QED
      BY <3>1, <3>2
  <2> QED
    BY <1>10, <2>1, <2>2, AnswerType DEF SetTickets, TypeOK, ladderVars
<1>11. ASSUME NEW t \in Tickets, AddToRun(q, t, r)
       PROVE  TypeOK'
  <2>1. ticketRun' \in [Tickets -> Runs \cup {None}]
    BY <1>11 DEF AddToRun, TypeOK
  <2>2. /\ slips' \in [Runs -> [Employees -> Payslip \cup {None}]]
        /\ taken' \in [Instalments -> Runs \cup {None}]
        /\ ticketSlip' \in [Tickets -> Runs \cup {None}]
    <3>1. CASE HasPayslips(r)
      BY <1>11, <2>1, <3>1, GeneratedType DEF AddToRun
    <3>2. CASE ~HasPayslips(r)
      BY <1>11, <3>2 DEF AddToRun, TypeOK
    <3> QED
      BY <3>1, <3>2
  <2> QED
    BY <1>11, <2>1, <2>2, AnswerType DEF AddToRun, TypeOK, ladderVars
<1>12. ASSUME NEW e \in Employees, OpenPayslip(q, r, e)
       PROVE  TypeOK'
  <2>1. slips[r][e].manual \in Fines
    BY <1>12 DEF OpenPayslip, TypeOK, Payslip
  <2>2. PayslipSeen(r, e, slips[r][e].manual) \in Handles
    BY <2>1, HandleTypes
  <2> QED
    BY <1>12, <2>2 DEF OpenPayslip, TypeOK, ladderVars, loanVars, ticketVars
<1> QED
  BY <1>1, <1>2, <1>3, <1>4, <1>5, <1>6, <1>7, <1>8, <1>9, <1>10, <1>11, <1>12
     DEF RunRequest

LEMMA StepType == TypeOK /\ [Next]_vars => TypeOK'
<1> SUFFICES ASSUME TypeOK, [Next]_vars
             PROVE  TypeOK'
  OBVIOUS
<1>1. ASSUME NEW q \in Requests, NEW r \in Runs, RunRequest(q, r)
      PROVE  TypeOK'
  BY <1>1, RunRequestType
<1>2. ASSUME NEW q \in Requests, NEW t \in Tickets, OpenTicket(q, t) \/ MarkPaid(q, t)
      PROVE  TypeOK'
  BY <1>2, HandleTypes, AnswerType
     DEF OpenTicket, MarkPaid, TypeOK, ladderVars, loanVars, ticketVars
<1>3. ASSUME NEW q \in Requests, NEW l \in Loans,
             OpenLoan(q, l) \/ RebuildSchedule(q, l) \/ DeleteLoan(q, l)
      PROVE  TypeOK'
  <2>1. CASE OpenLoan(q, l)
    BY <2>1, HandleTypes DEF OpenLoan, TypeOK, ladderVars, loanVars, ticketVars
  <2>2. CASE RebuildSchedule(q, l)
    BY <2>2, AnswerType DEF RebuildSchedule, TypeOK, ladderVars, ticketVars
  <2>3. CASE DeleteLoan(q, l)
    BY <2>3, AnswerType DEF DeleteLoan, TypeOK, ladderVars, ticketVars
  <2> QED
    BY <1>3, <2>1, <2>2, <2>3
<1>4. ASSUME NEW q \in Requests, Refuse(q)
      PROVE  TypeOK'
  BY <1>4, AnswerType DEF Refuse, TypeOK, ladderVars, loanVars, ticketVars
<1>5. ASSUME NEW r \in Runs, CreateRun(r)
      PROVE  TypeOK'
  <2>1. /\ slips' \in [Runs -> [Employees -> Payslip \cup {None}]]
        /\ taken' \in [Instalments -> Runs \cup {None}]
        /\ ticketSlip' \in [Tickets -> Runs \cup {None}]
    BY <1>5, GeneratedType DEF CreateRun, TypeOK
  <2> QED
    BY <1>5, <2>1 DEF CreateRun, TypeOK, Statuses, Ladder
<1>6. ASSUME NEW t \in Tickets, CreateTicket(t) \/ PayInAdvance(t)
      PROVE  TypeOK'
  BY <1>6 DEF CreateTicket, PayInAdvance, TypeOK, ladderVars, loanVars
<1>7. ASSUME NEW l \in Loans, CreateLoan(l)
      PROVE  TypeOK'
  BY <1>7 DEF CreateLoan, TypeOK, ladderVars, ticketVars
<1>8. ASSUME NEW e \in Employees, NEW c \in Companies, MoveEmployee(e, c)
      PROVE  TypeOK'
  BY <1>8 DEF MoveEmployee, TypeOK, ladderVars, loanVars, ticketVars
<1>9. CASE UNCHANGED vars
  BY <1>9 DEF vars, ladderVars, loanVars, ticketVars, TypeOK
<1> QED
  BY <1>1, <1>2, <1>3, <1>4, <1>5, <1>6, <1>7, <1>8, <1>9 DEF Next

(* Every variable keeps the values of its column, whichever requests        *)
(* overlap and however often they are refused.                              *)
THEOREM TypeCorrect == Spec => []TypeOK
<1> QED
  BY InitType, StepType, PTL DEF Spec

-----------------------------------------------------------------------------

(* A generation as far as payslips and instalments go. *)
GeneratesPayslips(r, inRun) ==
    LET new == Built(r, inRun)
    IN  /\ slips' = [slips EXCEPT ![r] = new]
        /\ taken' = [i \in Instalments |->
                        IF \E e \in Employees : new[e] # None /\ i \in new[e].insts
                        THEN r
                        ELSE IF taken[i] = r THEN None ELSE taken[i]]

LEMMA GeneratedSome ==
    ASSUME NEW r \in Runs, NEW inRun, Generated(r, inRun)
    PROVE  GeneratesPayslips(r, inRun)
BY DEF Generated, Written, GeneratesPayslips

(* The others' payslips of the same month stand, and r's new ones are for   *)
(* employees who have none of them.                                         *)
LEMMA GeneratedOnce ==
    ASSUME TypeOK, PaidOncePerPeriod, NEW r \in Runs, NEW inRun, GeneratesPayslips(r, inRun)
    PROVE  PaidOncePerPeriod'
<1>1. \A o \in Runs \ {r} : slips'[o] = slips[o]
  BY DEF GeneratesPayslips, TypeOK
<1>2. ASSUME NEW e \in Employees, slips'[r][e] # None, NEW o \in Runs \ {r},
             RunPeriod[o] = RunPeriod[r]
      PROVE  slips'[o][e] = None
  <2>1. slips'[r][e] = Built(r, inRun)[e]
    BY DEF GeneratesPayslips, TypeOK
  <2>2. OnRun(r, e)
    BY <1>2, <2>1 DEF Built
  <2> QED
    BY <1>1, <1>2, <2>2 DEF OnRun
<1> QED
  BY <1>1, <1>2 DEF PaidOncePerPeriod

(* A step that gives no employee a payslip they had not cannot break it.    *)
LEMMA FewerPayslips ==
    ASSUME PaidOncePerPeriod,
           \A r \in Runs, e \in Employees : slips[r][e] = None => slips'[r][e] = None
    PROVE  PaidOncePerPeriod'
BY DEF PaidOncePerPeriod

LEMMA StepOnce == TypeOK /\ PaidOncePerPeriod /\ [Next]_vars => PaidOncePerPeriod'
<1> SUFFICES ASSUME TypeOK, PaidOncePerPeriod, [Next]_vars
             PROVE  PaidOncePerPeriod'
  OBVIOUS
<1> DEFINE Same == slips' = slips
<1>0. ASSUME Same PROVE PaidOncePerPeriod'
  BY <1>0, FewerPayslips
<1>1. ASSUME NEW q \in Requests, NEW r \in Runs, RunRequest(q, r)
      PROVE  PaidOncePerPeriod'
  <2>1. CASE OpenRun(q, r) \/ SubmitForReview(q, r) \/ HrApprove(q, r)
             \/ FinanceApprove(q, r) \/ Disburse(q, r) \/ ReturnToDraft(q, r)
    BY <1>0, <2>1
       DEF OpenRun, SubmitForReview, HrApprove, FinanceApprove, Disburse, ReturnToDraft
  <2>7. ASSUME NEW e \in Employees, OpenPayslip(q, r, e)
        PROVE  PaidOncePerPeriod'
    BY <1>0, <2>7 DEF OpenPayslip
  <2>2. CASE Generate(q, r)
    BY <2>2, GeneratedOnce, GeneratedSome DEF Generate
  <2>3. ASSUME NEW e \in Employees, NEW fine \in Fines, AdjustPayslip(q, r, e, fine)
        PROVE  PaidOncePerPeriod'
    <3>1. /\ \A o \in Runs \ {r} : slips'[o] = slips[o]
          /\ \A x \in Employees \ {e} : slips'[r][x] = slips[r][x]
          /\ slips[r][e] # None
      BY <2>3 DEF AdjustPayslip, TypeOK
    <3> QED
      BY <3>1, FewerPayslips
  <2>4. CASE DeleteRun(q, r)
    BY <2>4, FewerPayslips DEF DeleteRun, TypeOK
  <2>5. ASSUME NEW chosen \in SUBSET Tickets, SetTickets(q, r, chosen)
        PROVE  PaidOncePerPeriod'
    BY <1>0, <2>5, GeneratedOnce, GeneratedSome DEF SetTickets
  <2>6. ASSUME NEW t \in Tickets, AddToRun(q, t, r)
        PROVE  PaidOncePerPeriod'
    BY <1>0, <2>6, GeneratedOnce, GeneratedSome DEF AddToRun
  <2> QED
    BY <1>1, <2>1, <2>2, <2>3, <2>4, <2>5, <2>6, <2>7 DEF RunRequest
<1>2. ASSUME NEW r \in Runs, CreateRun(r)
      PROVE  PaidOncePerPeriod'
  BY <1>0, <1>2, GeneratedOnce, GeneratedSome DEF CreateRun
<1>3. CASE \/ \E q \in Requests, t \in Tickets : OpenTicket(q, t) \/ MarkPaid(q, t)
           \/ \E q \in Requests, l \in Loans :
                    OpenLoan(q, l) \/ RebuildSchedule(q, l) \/ DeleteLoan(q, l)
           \/ \E q \in Requests : Refuse(q)
           \/ \E t \in Tickets : CreateTicket(t) \/ PayInAdvance(t)
           \/ \E l \in Loans : CreateLoan(l)
           \/ \E e \in Employees, c \in Companies : MoveEmployee(e, c)
           \/ UNCHANGED vars
  <2>1. Same
    BY <1>3 DEF OpenTicket, MarkPaid, OpenLoan, RebuildSchedule, DeleteLoan, Refuse,
                CreateTicket, PayInAdvance, CreateLoan, MoveEmployee, vars
  <2> QED
    BY <1>0, <2>1
<1> QED
  BY <1>1, <1>2, <1>3 DEF Next

(* No employee is paid twice for a month, by any number of runs of any      *)
(* companies, whatever the requests on them read before and however         *)
(* employees move, as long as each writes in a transaction of its own turn. *)
THEOREM PaidOnce == Spec => []PaidOncePerPeriod
<1>1. Init => PaidOncePerPeriod
  BY DEF Init, PaidOncePerPeriod
<1> QED
  BY <1>1, TypeCorrect, StepOnce, PTL DEF Spec

-----------------------------------------------------------------------------
(* Instalments *)

(* A payslip built for r takes instalments of its employee that are free,   *)
(* and only r's pointers move.                                              *)
LEMMA GeneratedDeducts ==
    ASSUME TypeOK, DeductedOnce, NEW r \in Runs, NEW inRun,
           GeneratesPayslips(r, inRun)
    PROVE  DeductedOnce'
<1> DEFINE new == Built(r, inRun)
           own(i) == LoanOwner[i[1]]
<1>1. \A i \in Instalments : own(i) \in Employees
  BY LoansAssumption DEF Instalments
<1>2. \A e \in Employees : new[e] # None =>
          new[e].insts = InstalmentsDue(r, e)
  BY DEF Built
<1>3. \A i \in Instalments, e \in Employees :
          new[e] # None /\ i \in new[e].insts => e = own(i) /\ taken[i] \in {None, r}
  BY <1>2 DEF InstalmentsDue
<1>4. slips'[r] = new /\ \A o \in Runs \ {r} : slips'[o] = slips[o]
  BY DEF GeneratesPayslips, TypeOK
<1> SUFFICES ASSUME NEW i \in Instalments, NEW o \in Runs
             PROVE  taken'[i] = o <=> /\ slips'[o][own(i)] # None
                                      /\ i \in slips'[o][own(i)].insts
  BY DEF DeductedOnce
<1>5. taken'[i] = IF \E e \in Employees : new[e] # None /\ i \in new[e].insts
                  THEN r ELSE IF taken[i] = r THEN None ELSE taken[i]
  BY DEF GeneratesPayslips
<1>6. CASE o = r
  BY <1>1, <1>3, <1>4, <1>5, <1>6, NoneAssumption
<1>7. CASE o # r
  <2>1. taken[i] = o <=> slips[o][own(i)] # None /\ i \in slips[o][own(i)].insts
    BY DEF DeductedOnce
  <2>2. taken'[i] = o <=> taken[i] = o
    BY <1>3, <1>5, <1>7, NoneAssumption
  <2> QED
    BY <2>1, <2>2, <1>4, <1>7
<1> QED
  BY <1>6, <1>7

LEMMA StepDeducts ==
    ASSUME TypeOK, DeductedOnce, [Next]_vars
    PROVE  DeductedOnce'
<1> DEFINE Same == UNCHANGED <<slips, taken>>
<1>0. ASSUME Same PROVE DeductedOnce'
  BY <1>0 DEF DeductedOnce
<1>1. ASSUME NEW q \in Requests, NEW r \in Runs, RunRequest(q, r)
      PROVE  DeductedOnce'
  <2>1. CASE OpenRun(q, r) \/ SubmitForReview(q, r) \/ HrApprove(q, r)
             \/ FinanceApprove(q, r) \/ Disburse(q, r) \/ ReturnToDraft(q, r)
    BY <1>0, <2>1 DEF OpenRun, SubmitForReview, HrApprove, FinanceApprove, Disburse,
                      ReturnToDraft, loanVars
  <2>7. ASSUME NEW e \in Employees, OpenPayslip(q, r, e)
        PROVE  DeductedOnce'
    BY <1>0, <2>7 DEF OpenPayslip, loanVars
  <2>2. CASE Generate(q, r)
    BY <2>2, GeneratedDeducts, GeneratedSome DEF Generate
  <2>3. ASSUME NEW e \in Employees, NEW fine \in Fines, AdjustPayslip(q, r, e, fine)
        PROVE  DeductedOnce'
    <3>1. slips[r][e] \in Payslip
      BY <2>3 DEF AdjustPayslip, TypeOK
    <3>2. /\ slips'[r][e] \in {slips[r][e], [slips[r][e] EXCEPT !.manual = fine]}
          /\ \A o \in Runs \ {r} : slips'[o] = slips[o]
          /\ \A x \in Employees \ {e} : slips'[r][x] = slips[r][x]
          /\ taken' = taken
      BY <2>3 DEF AdjustPayslip, TypeOK, loanVars
    <3>3. slips'[r][e] # None /\ slips'[r][e].insts = slips[r][e].insts
      BY <3>1, <3>2, NoneAssumption DEF Payslip
    <3>4. \A i \in Instalments : LoanOwner[i[1]] \in Employees
      BY LoansAssumption DEF Instalments
    <3>5. slips[r][e] # None
      BY <2>3 DEF AdjustPayslip
    <3>6. \A o \in Runs, x \in Employees :
              /\ slips'[o][x] = None <=> slips[o][x] = None
              /\ slips[o][x] # None => slips'[o][x].insts = slips[o][x].insts
      BY <3>2, <3>3, <3>5
    <3> QED
      BY <3>2, <3>4, <3>6 DEF DeductedOnce
  <2>4. CASE DeleteRun(q, r)
    <3>1. /\ \A e \in Employees : slips'[r][e] = None
          /\ \A o \in Runs \ {r} : slips'[o] = slips[o]
          /\ \A i \in Instalments : taken'[i] = IF taken[i] = r THEN None ELSE taken[i]
      BY <2>4 DEF DeleteRun, TypeOK
    <3>2. \A i \in Instalments : LoanOwner[i[1]] \in Employees
      BY LoansAssumption DEF Instalments
    <3> QED
      BY <3>1, <3>2, NoneAssumption DEF DeductedOnce
  <2>5. ASSUME NEW chosen \in SUBSET Tickets, SetTickets(q, r, chosen)
        PROVE  DeductedOnce'
    BY <1>0, <2>5, GeneratedDeducts, GeneratedSome DEF SetTickets
  <2>6. ASSUME NEW t \in Tickets, AddToRun(q, t, r)
        PROVE  DeductedOnce'
    BY <1>0, <2>6, GeneratedDeducts, GeneratedSome DEF AddToRun
  <2> QED
    BY <1>1, <2>1, <2>2, <2>3, <2>4, <2>5, <2>6, <2>7 DEF RunRequest
<1>2. ASSUME NEW r \in Runs, CreateRun(r)
      PROVE  DeductedOnce'
  BY <1>0, <1>2, GeneratedDeducts, GeneratedSome DEF CreateRun
<1>3. ASSUME NEW q \in Requests, NEW l \in Loans, RebuildSchedule(q, l)
      PROVE  DeductedOnce'
  <2>1. Untouched(l)
    BY <1>3 DEF RebuildSchedule
  <2>2. taken' = taken
    BY <1>3, <2>1 DEF RebuildSchedule, Untouched, TypeOK
  <2> QED
    BY <1>0, <1>3, <2>2 DEF RebuildSchedule
<1>4. CASE \/ \E q \in Requests, t \in Tickets : OpenTicket(q, t) \/ MarkPaid(q, t)
           \/ \E q \in Requests, l \in Loans : OpenLoan(q, l) \/ DeleteLoan(q, l)
           \/ \E q \in Requests : Refuse(q)
           \/ \E t \in Tickets : CreateTicket(t) \/ PayInAdvance(t)
           \/ \E l \in Loans : CreateLoan(l)
           \/ \E e \in Employees, c \in Companies : MoveEmployee(e, c)
           \/ UNCHANGED vars
  BY <1>0, <1>4 DEF OpenTicket, MarkPaid, OpenLoan, DeleteLoan, Refuse, CreateTicket,
                    PayInAdvance, CreateLoan, MoveEmployee, vars, loanVars
<1> QED
  BY <1>1, <1>2, <1>3, <1>4 DEF Next

(* No instalment is deducted by two payslips and none is lost: a payslip's   *)
(* loan deduction is the sum of exactly the instalments marked as taken by   *)
(* it, whatever the requests read before their transactions.                 *)
THEOREM DeductedExactly == Spec => []DeductedOnce
<1>1. Init => DeductedOnce
  <2>1. \A i \in Instalments : LoanOwner[i[1]] \in Employees
    BY LoansAssumption DEF Instalments
  <2> QED
    BY <2>1, NoneAssumption DEF Init, DeductedOnce
<1>2. TypeOK /\ DeductedOnce /\ [Next]_vars => DeductedOnce'
  BY StepDeducts
<1> QED
  BY <1>1, <1>2, TypeCorrect, PTL DEF Spec

-----------------------------------------------------------------------------
(* Figures entered by hand *)

(* A rebuilt payslip carries over what was typed on the one it replaces.    *)
LEMMA GeneratedKeeps ==
    ASSUME TypeOK, NEW r \in Runs, NEW inRun, Generated(r, inRun),
           NEW o \in Runs, NEW e \in Employees,
           slips[o][e] # None, slips'[o][e] # None
    PROVE  slips'[o][e].manual = slips[o][e].manual
<1>1. CASE o = r
  <2>1. slips'[r][e] = Built(r, inRun)[e]
    BY DEF Generated, Written, TypeOK
  <2> QED
    BY <1>1, <2>1 DEF Built
<1>2. CASE o # r
  BY <1>2 DEF Generated, Written, TypeOK
<1> QED
  BY <1>1, <1>2

(* Whatever overlaps, a rebuild keeps the figures typed on a draft: only    *)
(* somebody's Adjust changes them.                                          *)
THEOREM FiguresOfHandKept == Spec => HandEnteredKept
<1> DEFINE Keeps(r, e) ==
        (slips[r][e] # None /\ slips'[r][e] # None)
            => \/ slips'[r][e].manual = slips[r][e].manual
               \/ \E q \in Requests : ReadPayslip(q, r, e) /\ seen'[q] = None
<1>1. ASSUME TypeOK, [Next]_vars, NEW o \in Runs, NEW x \in Employees
      PROVE  Keeps(o, x)
  <2>0. ASSUME slips' = slips PROVE Keeps(o, x)
    BY <2>0
  <2>1. ASSUME NEW r \in Runs, NEW inRun, Generated(r, inRun)
        PROVE  Keeps(o, x)
    BY <1>1, <2>1, GeneratedKeeps
  <2>2. ASSUME NEW q \in Requests, NEW r \in Runs, RunRequest(q, r)
        PROVE  Keeps(o, x)
    <3>1. CASE OpenRun(q, r) \/ SubmitForReview(q, r) \/ HrApprove(q, r)
               \/ FinanceApprove(q, r) \/ Disburse(q, r) \/ ReturnToDraft(q, r)
               \/ \E e \in Employees : OpenPayslip(q, r, e)
      BY <2>0, <3>1 DEF OpenRun, OpenPayslip, SubmitForReview, HrApprove,
                        FinanceApprove, Disburse, ReturnToDraft
    <3>2. CASE Generate(q, r)
      BY <2>1, <3>2 DEF Generate
    <3>3. ASSUME NEW e \in Employees, NEW fine \in Fines, AdjustPayslip(q, r, e, fine)
          PROVE  Keeps(o, x)
      <4>1. CASE o = r /\ x = e
        BY <1>1, <3>3, <4>1 DEF AdjustPayslip, Answer, TypeOK
      <4>2. CASE ~(o = r /\ x = e)
        <5>1. slips'[o][x] = slips[o][x]
          BY <1>1, <3>3, <4>2 DEF AdjustPayslip, TypeOK
        <5> QED
          BY <5>1
      <4> QED
        BY <4>1, <4>2
    <3>4. CASE DeleteRun(q, r)
      <4>1. slips'[o][x] = None \/ slips'[o][x] = slips[o][x]
        BY <1>1, <3>4 DEF DeleteRun, TypeOK
      <4> QED
        BY <4>1
    <3>5. ASSUME NEW chosen \in SUBSET Tickets, SetTickets(q, r, chosen)
          PROVE  Keeps(o, x)
      BY <2>0, <2>1, <3>5 DEF SetTickets
    <3>6. ASSUME NEW t \in Tickets, AddToRun(q, t, r)
          PROVE  Keeps(o, x)
      BY <2>0, <2>1, <3>6 DEF AddToRun
    <3> QED
      BY <2>2, <3>1, <3>2, <3>3, <3>4, <3>5, <3>6 DEF RunRequest
  <2>3. ASSUME NEW r \in Runs, CreateRun(r)
        PROVE  Keeps(o, x)
    BY <2>0, <2>1, <2>3 DEF CreateRun
  <2>4. CASE \/ \E q \in Requests, t \in Tickets : OpenTicket(q, t) \/ MarkPaid(q, t)
             \/ \E q \in Requests, l \in Loans :
                    OpenLoan(q, l) \/ RebuildSchedule(q, l) \/ DeleteLoan(q, l)
             \/ \E q \in Requests : Refuse(q)
             \/ \E t \in Tickets : CreateTicket(t) \/ PayInAdvance(t)
             \/ \E l \in Loans : CreateLoan(l)
             \/ \E e \in Employees, c \in Companies : MoveEmployee(e, c)
             \/ UNCHANGED vars
    <3>1. slips' = slips
      BY <2>4 DEF OpenTicket, MarkPaid, OpenLoan, RebuildSchedule, DeleteLoan, Refuse,
                  CreateTicket, PayInAdvance, CreateLoan, MoveEmployee, vars
    <3> QED
      BY <2>0, <3>1
  <2> QED
    BY <1>1, <2>2, <2>3, <2>4 DEF Next
<1>2. TypeOK /\ [Next]_vars => \A r \in Runs, e \in Employees : Keeps(r, e)
  BY <1>1
<1> QED
  BY <1>2, TypeCorrect, PTL DEF Spec, HandEnteredKept
-----------------------------------------------------------------------------
(* Requests that write only on copies still current.                        *)

LEMMA ActsOrStays == [OnCurrent]_vars => OnCurrent
BY DEF OnCurrent, vars, dbVars

LEMMA NothingRead ==
    ASSUME NEW q \in Requests, seen[q] = None
    PROVE  Current(q)
BY HandleTypes, NoneAssumption DEF Current, ReadPayslip

(* Whoever writes does so on a current copy.                                *)
LEMMA Acting ==
    ASSUME TypeOK, OnCurrent, ~UNCHANGED dbVars, NEW q \in Requests,
           (\E r \in Runs : RunRequest(q, r)) \/ \E t \in Tickets : MarkPaid(q, t)
    PROVE  Current(q)
<1>1. CASE seen[q] = None
  BY <1>1, NothingRead
<1>2. CASE seen[q] # None /\ seen'[q] = None
  BY <1>2 DEF OnCurrent
<1>3. CASE Answer(q) \/ \E r \in Runs : AnswerAndDiscard(q, r)
  <2>1. seen'[q] = None
    BY <1>3 DEF Answer, AnswerAndDiscard, TypeOK
  <2> QED
    BY <2>1, <1>1, <1>2
<1>4. \/ \E t \in Tickets : MarkPaid(q, t)
      \/ \E r \in Runs : RunRequest(q, r)
  OBVIOUS
<1> QED
  BY <1>1, <1>3, <1>4
     DEF RunRequest, OpenRun, OpenPayslip, Generate, AdjustPayslip, DeleteRun, SubmitForReview,
         HrApprove, FinanceApprove, Disburse, ReturnToDraft, SetTickets, AddToRun, MarkPaid

-----------------------------------------------------------------------------
(* The ladder *)

(* What a step may do to a run: its rung, its approvals, its figures.       *)
Stays(r)    == status'[r] = status[r] /\ (slips'[r] = slips[r] \/ status[r] = "draft")
Opens(r)    == status[r] = "none" /\ status'[r] = "draft"
Kept(r)     == slips'[r] = slips[r]
SameHr(r)   == r \in hrApproved' <=> r \in hrApproved
SameFin(r)  == r \in financeApproved' <=> r \in financeApproved
Cleared(r)  == r \notin hrApproved' /\ r \notin financeApproved'
Payable(r)  == \A e \in Employees : slips[r][e] # None => Net(slips[r][e]) >= 0

LadderStep(r) ==
    \/ (Stays(r) \/ Opens(r)) /\ SameHr(r) /\ SameFin(r)
    \/ status[r] = "draft" /\ status'[r] = "deleted" /\ Cleared(r)
    \/ /\ status[r] = "draft" /\ status'[r] = "hr_review"
       /\ Kept(r) /\ SameHr(r) /\ SameFin(r)
    \/ /\ status[r] = "hr_review" /\ status'[r] = "finance_approval"
       /\ Kept(r) /\ Payable(r) /\ r \in hrApproved' /\ SameFin(r)
    \/ /\ status[r] = "finance_approval" /\ status'[r] = "approved"
       /\ Kept(r) /\ SameHr(r) /\ r \in financeApproved'
    \/ /\ status[r] = "approved" /\ status'[r] = "disbursed"
       /\ Kept(r) /\ SameHr(r) /\ SameFin(r)
    \/ /\ status[r] \in {"hr_review", "finance_approval", "approved"} /\ status'[r] = "draft"
       /\ Kept(r) /\ Cleared(r)

LEMMA Untroubled ==
    ASSUME UNCHANGED <<ladderVars, slips>>, NEW r \in Runs
    PROVE  LadderStep(r)
BY DEF LadderStep, Stays, SameHr, SameFin, ladderVars

(* Writing the payslips of a draft, and nothing of the ladder.              *)
LEMMA WritesDraft ==
    ASSUME TypeOK, NEW r \in Runs, NEW inRun, Generated(r, inRun),
           status[r] = "draft", UNCHANGED ladderVars, NEW o \in Runs
    PROVE  LadderStep(o)
<1>1. o # r => slips'[o] = slips[o]
  BY DEF Generated, Written, TypeOK
<1> QED
  BY <1>1 DEF LadderStep, Stays, SameHr, SameFin, ladderVars

LEMMA RunRequestLadder ==
    ASSUME TypeOK, NEW q \in Requests, Current(q), NEW r \in Runs, RunRequest(q, r),
           NEW o \in Runs
    PROVE  LadderStep(o)
<1> USE DEF LadderStep, Stays, Kept, SameHr, SameFin, Cleared
<1>1. \A s \in Ladder : ReadRun(q, r, s) => status[r] = s
  BY DEF Current, ReadRun
<1>2. CASE OpenRun(q, r) \/ \E e \in Employees : OpenPayslip(q, r, e)
  BY <1>2, Untroubled DEF OpenRun, OpenPayslip
<1>3. CASE Generate(q, r)
  BY <1>1, <1>3, WritesDraft DEF Generate, Ladder
<1>4. ASSUME NEW e \in Employees, NEW fine \in Fines, AdjustPayslip(q, r, e, fine)
      PROVE  LadderStep(o)
  <2>1. status[r] = "draft"
    BY <1>4 DEF AdjustPayslip, Current
  <2>2. o # r => slips'[o] = slips[o]
    BY <1>4 DEF AdjustPayslip, TypeOK
  <2> QED
    BY <1>4, <2>1, <2>2 DEF AdjustPayslip, ladderVars
<1>5. CASE DeleteRun(q, r)
  BY <1>1, <1>5 DEF DeleteRun, Ladder, TypeOK
<1>6. CASE SubmitForReview(q, r)
  BY <1>1, <1>6 DEF SubmitForReview, MoveTo, Ladder, TypeOK
<1>7. CASE HrApprove(q, r)
  BY <1>1, <1>7 DEF HrApprove, MoveTo, Ladder, TypeOK, Payable
<1>8. CASE FinanceApprove(q, r)
  BY <1>1, <1>8 DEF FinanceApprove, MoveTo, Ladder, TypeOK
<1>9. CASE Disburse(q, r)
  BY <1>1, <1>9 DEF Disburse, MoveTo, Ladder, TypeOK
<1>10. CASE ReturnToDraft(q, r)
  <2>1. PICK s \in Ladder \ {"draft", "disbursed"}, by \in SUBSET Approvers :
            /\ seen[q] = RunSeen(r, s, by)
            /\ MoveTo(r, "draft")
            /\ hrApproved' = IF "hr" \in by THEN hrApproved \ {r} ELSE hrApproved
            /\ financeApproved' = IF "finance" \in by THEN financeApproved \ {r}
                                   ELSE financeApproved
            /\ slips' = slips
    BY <1>10 DEF ReturnToDraft
  <2>2. status[r] = s /\ ApprovedBy(r) = by
    BY <2>1 DEF Current
  <2>3. /\ "hr" \in by <=> r \in hrApproved
        /\ "finance" \in by <=> r \in financeApproved
    BY <2>2 DEF ApprovedBy, Approvers
  <2>4. Cleared(r)
    BY <2>1, <2>3
  <2> QED
    BY <2>1, <2>2, <2>4 DEF MoveTo, Ladder, TypeOK
<1>11. ASSUME NEW chosen \in SUBSET Tickets, SetTickets(q, r, chosen)
       PROVE  LadderStep(o)
  BY <1>1, <1>11, Untroubled, WritesDraft DEF SetTickets, Ladder
<1>12. ASSUME NEW t \in Tickets, AddToRun(q, t, r)
       PROVE  LadderStep(o)
  BY <1>12, Untroubled, WritesDraft DEF AddToRun
<1> QED
  BY <1>2, <1>3, <1>4, <1>5, <1>6, <1>7, <1>8, <1>9, <1>10, <1>11, <1>12,
     RunRequest(q, r) DEF RunRequest

LEMMA StepLadder ==
    ASSUME TypeOK, [Next]_vars, [OnCurrent]_vars, NEW o \in Runs
    PROVE  LadderStep(o)
<1>0. CASE UNCHANGED dbVars
  BY <1>0, Untroubled DEF dbVars
<1>1. ASSUME NEW q \in Requests, NEW r \in Runs, RunRequest(q, r), ~UNCHANGED dbVars
      PROVE  LadderStep(o)
  BY <1>1, ActsOrStays, Acting, RunRequestLadder
<1>2. ASSUME NEW r \in Runs, CreateRun(r)
      PROVE  LadderStep(o)
  BY <1>2 DEF CreateRun, Generated, Written, TypeOK, LadderStep, Stays, Opens, SameHr, SameFin
<1>3. CASE \/ \E q \in Requests, t \in Tickets : OpenTicket(q, t) \/ MarkPaid(q, t)
           \/ \E q \in Requests, l \in Loans :
                    OpenLoan(q, l) \/ RebuildSchedule(q, l) \/ DeleteLoan(q, l)
           \/ \E q \in Requests : Refuse(q)
           \/ \E t \in Tickets : CreateTicket(t) \/ PayInAdvance(t)
           \/ \E l \in Loans : CreateLoan(l)
           \/ \E e \in Employees, c \in Companies : MoveEmployee(e, c)
           \/ UNCHANGED vars
  <2>1. UNCHANGED <<ladderVars, slips>>
    BY <1>3 DEF OpenTicket, MarkPaid, OpenLoan, RebuildSchedule, DeleteLoan, Refuse,
                CreateTicket, PayInAdvance, CreateLoan, MoveEmployee, vars
  <2> QED
    BY <2>1, Untroubled
<1> QED
  BY <1>0, <1>1, <1>2, <1>3 DEF Next

(* However requests overlap, none moves the figures of a run that has left  *)
(* draft, climbs two rungs or reopens a disbursed run, as long as none      *)
(* writes on a stale copy.                                                  *)
THEOREM CurrentLadder ==
    Spec /\ ActsOnCurrent => FiguresMoveOnlyInDraft /\ OneRungAtATime
<1> DEFINE Figures == \A r \in Runs :
                        status[r] \notin {"none", "draft"} => slips'[r] = slips[r]
           Rung    == \A r \in Runs :
                        status'[r] # status[r] => <<status[r], status'[r]>> \in Rungs
<1>1. TypeOK /\ [Next]_vars /\ [OnCurrent]_vars => Figures
  BY StepLadder DEF LadderStep, Stays, Opens, Kept
<1>2. TypeOK /\ [Next]_vars /\ [OnCurrent]_vars => Rung
  BY StepLadder DEF LadderStep, Stays, Opens, Rungs
<1>3. Spec /\ ActsOnCurrent => [][Figures]_vars
  BY <1>1, TypeCorrect, PTL DEF Spec, ActsOnCurrent
<1>4. Spec /\ ActsOnCurrent => [][Rung]_vars
  BY <1>2, TypeCorrect, PTL DEF Spec, ActsOnCurrent
<1> QED
  BY <1>3, <1>4 DEF FiguresMoveOnlyInDraft, OneRungAtATime

(* However requests overlap, a run carries exactly the approvals its rung   *)
(* stands for, and no payslip with a negative net gets past HR, as long as  *)
(* none writes on a stale copy.                                             *)
THEOREM CurrentApprovals ==
    Spec /\ ActsOnCurrent => [](ApprovalsMatchRung /\ NoNegativeNetReleased)
<1>1. Init => ApprovalsMatchRung /\ NoNegativeNetReleased
  BY DEF Init, ApprovalsMatchRung, NoNegativeNetReleased
<1>2. /\ TypeOK /\ ApprovalsMatchRung /\ [Next]_vars /\ [OnCurrent]_vars
      => ApprovalsMatchRung'
  BY StepLadder
     DEF ApprovalsMatchRung, LadderStep, Stays, Opens, SameHr, SameFin, Cleared
<1>3. /\ TypeOK /\ NoNegativeNetReleased /\ [Next]_vars /\ [OnCurrent]_vars
      => NoNegativeNetReleased'
  BY StepLadder DEF NoNegativeNetReleased, LadderStep, Stays, Opens, Kept, Payable
<1> QED
  BY <1>1, <1>2, <1>3, TypeCorrect, PTL DEF Spec, ActsOnCurrent
-----------------------------------------------------------------------------
(* Gratuity *)

(* A step that disburses no run and books nothing.                          *)
BooksNothing ==
    /\ accrued' = accrued
    /\ \A r \in Runs : status'[r] = "disbursed" <=> status[r] = "disbursed"

LEMMA StepBooks ==
    ASSUME TypeOK, [Next]_vars, [OnCurrent]_vars,
           \A q \in Requests, r \in Runs : ~Disburse(q, r)
    PROVE  BooksNothing
<1>0. CASE UNCHANGED dbVars
  BY <1>0 DEF dbVars, ladderVars, BooksNothing
<1>1. ASSUME NEW q \in Requests, NEW r \in Runs, RunRequest(q, r), ~UNCHANGED dbVars
      PROVE  BooksNothing
  <2>0. Current(q)
    BY <1>1, ActsOrStays, Acting
  <2>1. CASE status' = status
    BY <1>1, <2>1 DEF RunRequest, OpenRun, Generate, OpenPayslip, AdjustPayslip, DeleteRun,
                      SubmitForReview, HrApprove, FinanceApprove, ReturnToDraft, SetTickets,
                      AddToRun, BooksNothing
  <2>2. \A s \in Ladder : ReadRun(q, r, s) => status[r] = s
    BY <2>0 DEF Current, ReadRun
  <2>3. CASE DeleteRun(q, r)
    BY <2>2, <2>3 DEF DeleteRun, BooksNothing, TypeOK, Ladder
  <2>4. CASE SubmitForReview(q, r) \/ HrApprove(q, r) \/ FinanceApprove(q, r)
    BY <2>2, <2>4
       DEF SubmitForReview, HrApprove, FinanceApprove, MoveTo, BooksNothing, TypeOK, Ladder
  <2>5. CASE ReturnToDraft(q, r)
    <3>1. status[r] # "disbursed" /\ status' = [status EXCEPT ![r] = "draft"] /\ accrued' = accrued
      BY <2>0, <2>5 DEF ReturnToDraft, MoveTo, Current
    <3> QED
      BY <3>1 DEF BooksNothing, TypeOK
  <2> QED
    BY <1>1, <2>1, <2>3, <2>4, <2>5
       DEF RunRequest, OpenRun, Generate, OpenPayslip, AdjustPayslip, SetTickets, AddToRun,
           ladderVars
<1>2. ASSUME NEW r \in Runs, CreateRun(r)
      PROVE  BooksNothing
  BY <1>2 DEF CreateRun, BooksNothing, TypeOK
<1>3. CASE \/ \E q \in Requests, t \in Tickets : OpenTicket(q, t) \/ MarkPaid(q, t)
           \/ \E q \in Requests, l \in Loans :
                    OpenLoan(q, l) \/ RebuildSchedule(q, l) \/ DeleteLoan(q, l)
           \/ \E q \in Requests : Refuse(q)
           \/ \E t \in Tickets : CreateTicket(t) \/ PayInAdvance(t)
           \/ \E l \in Loans : CreateLoan(l)
           \/ \E e \in Employees, c \in Companies : MoveEmployee(e, c)
           \/ UNCHANGED vars
  BY <1>3 DEF OpenTicket, MarkPaid, OpenLoan, RebuildSchedule, DeleteLoan, Refuse, CreateTicket,
              PayInAdvance, CreateLoan, MoveEmployee, vars, ladderVars, BooksNothing
<1> QED
  BY <1>0, <1>1, <1>2, <1>3 DEF Next

(* The rows of the ledger a run accounts for.                               *)
RowsOf(r) == {<<e, RunPeriod[r]>> : e \in {x \in Joined : slips[r][x] # None}}

LEMMA StepAccrued ==
    ASSUME TypeOK, AccruedWhenDisbursed, [Next]_vars, [OnCurrent]_vars
    PROVE  AccruedWhenDisbursed'
<1>0. accrued = UNION {RowsOf(r) : r \in {x \in Runs : status[x] = "disbursed"}}
  BY DEF AccruedWhenDisbursed, RowsOf
<1>1. \A r \in Runs : status[r] = "disbursed" => RowsOf(r)' = RowsOf(r)
  BY StepLadder DEF LadderStep, Stays, Opens, RowsOf
<1>2. CASE \A q \in Requests, r \in Runs : ~Disburse(q, r)
  <2>1. BooksNothing
    BY <1>2, StepBooks
  <2>2. accrued' = UNION {RowsOf(r)' : r \in {x \in Runs : status'[x] = "disbursed"}}
    BY <1>0, <1>1, <2>1 DEF BooksNothing
  <2> QED
    BY <2>2 DEF AccruedWhenDisbursed, RowsOf
<1>3. ASSUME NEW q \in Requests, NEW r \in Runs, Disburse(q, r)
      PROVE  AccruedWhenDisbursed'
  <2>1. /\ accrued' = accrued \cup RowsOf(r)
        /\ status' = [status EXCEPT ![r] = "disbursed"]
        /\ slips' = slips
    BY <1>3 DEF Disburse, BookGratuityAccruals, MoveTo, RowsOf
  <2>2. {x \in Runs : status'[x] = "disbursed"} = {x \in Runs : status[x] = "disbursed"} \cup {r}
    BY <2>1 DEF TypeOK
  <2>3. \A x \in Runs : RowsOf(x)' = RowsOf(x)
    BY <2>1 DEF RowsOf
  <2>4. accrued' = UNION {RowsOf(x)' : x \in {y \in Runs : status'[y] = "disbursed"}}
    BY <1>0, <2>1, <2>2, <2>3
  <2> QED
    BY <2>4 DEF AccruedWhenDisbursed, RowsOf
<1> QED
  BY <1>2, <1>3

(* However requests overlap, the gratuity ledger has exactly the rows of    *)
(* the employees that disbursed runs paid, however many runs share a month, *)
(* as long as none writes on a stale copy.                                  *)
THEOREM CurrentAccruals == Spec /\ ActsOnCurrent => []AccruedWhenDisbursed
<1>1. Init => AccruedWhenDisbursed
  BY DEF Init, AccruedWhenDisbursed
<1>2. /\ TypeOK /\ AccruedWhenDisbursed /\ [Next]_vars /\ [OnCurrent]_vars
      => AccruedWhenDisbursed'
  BY StepAccrued
<1> QED
  BY <1>1, <1>2, TypeCorrect, PTL DEF Spec, ActsOnCurrent

-----------------------------------------------------------------------------
(* Flight tickets *)

Carries(r, t) == /\ slips[r][TicketOwner[t]] # None
                 /\ t \in slips[r][TicketOwner[t]].tickets

(* A ticket's pointer to a payslip is that of the one payslip with it in    *)
(* its figures, of the run the ticket was put in; and it is paid once that  *)
(* run is, and not before.                                                  *)
TicketInv(t) ==
    /\ \A r \in Runs : Carries(r, t) <=> ticketSlip[t] = r
    /\ ticketSlip[t] # None =>
           /\ ticketRun[t] = ticketSlip[t]
           /\ paid[t] = IF status[ticketSlip[t]] = "disbursed" THEN "payroll" ELSE "no"
    /\ paid[t] = "payroll" => ticketSlip[t] # None

TicketsInv == \A t \in Tickets : TicketInv(t)

LEMMA OwnersAreEmployees == \A t \in Tickets : TicketOwner[t] \in Employees
BY PayAssumption

(* A step that leaves a ticket's columns, the payslips' figures and which   *)
(* runs are disbursed as they are.                                          *)
LEMMA TicketStays ==
    ASSUME TypeOK, TicketsInv, NEW t \in Tickets,
           \A r \in Runs : Carries(r, t)' = Carries(r, t),
           ticketRun'[t] = ticketRun[t], ticketSlip'[t] = ticketSlip[t], paid'[t] = paid[t],
           \A r \in Runs : status'[r] = "disbursed" <=> status[r] = "disbursed"
    PROVE  TicketInv(t)'
<1>1. ticketSlip[t] \in Runs \cup {None}
  BY DEF TypeOK
<1> QED
  BY <1>1 DEF TicketsInv, TicketInv

(* The payslips of r are built again, and tickets are put in r or out of it.*)
LEMMA GeneratedCarries ==
    ASSUME TypeOK, TicketsInv, NEW r \in Runs, NEW inRun, Generated(r, inRun),
           status'[r] # "disbursed", ticketRun' = inRun, paid' = paid,
           \A t \in Tickets : inRun[t] = ticketRun[t] \/ ticketRun[t] \in {None, r},
           \A o \in Runs : status'[o] = "disbursed" <=> status[o] = "disbursed"
    PROVE  TicketsInv'
<1> DEFINE new == Built(r, inRun)
<1> SUFFICES ASSUME NEW t \in Tickets PROVE TicketInv(t)'
  BY DEF TicketsInv
<1> DEFINE e == TicketOwner[t]
           in == new[e] # None /\ t \in new[e].tickets
<1>0. /\ e \in Employees /\ ticketSlip[t] \in Runs \cup {None}
      /\ None \notin Runs /\ TicketInv(t)
  BY OwnersAreEmployees, NoneAssumption DEF TypeOK, TicketsInv
<1>1. \A x \in Employees : new[x] # None => new[x].tickets = TicketsIn(r, x, inRun)
  BY DEF Built
<1>2. /\ in => inRun[t] = r /\ paid[t] = "no"
      /\ (\E x \in Employees : new[x] # None /\ t \in new[x].tickets) <=> in
  BY <1>0, <1>1 DEF TicketsIn
<1>3. /\ ticketSlip'[t] = IF in THEN r ELSE IF ticketSlip[t] = r THEN None ELSE ticketSlip[t]
      /\ Carries(r, t)' <=> in
      /\ \A o \in Runs \ {r} : Carries(o, t)' <=> Carries(o, t)
  <2>1. slips'[r] = new /\ \A o \in Runs \ {r} : slips'[o] = slips[o]
    BY DEF Generated, Written, TypeOK
  <2>2. ticketSlip'[t] = IF \E x \in Employees : new[x] # None /\ t \in new[x].tickets
                         THEN r ELSE IF ticketSlip[t] = r THEN None ELSE ticketSlip[t]
    BY DEF Generated, Written
  <2>3. ticketSlip'[t] = IF in THEN r ELSE IF ticketSlip[t] = r THEN None ELSE ticketSlip[t]
    BY <1>2, <2>2
  <2> HIDE DEF new
  <2> QED
    BY <2>1, <2>3 DEF Carries
<1> HIDE DEF in
<1>4. ticketSlip[t] \notin {None, r} => ~in /\ ticketRun'[t] = ticketRun[t]
  BY <1>0, <1>2 DEF TicketInv
<1>5. \A o \in Runs : Carries(o, t)' <=> ticketSlip'[t] = o
  BY <1>0, <1>3, <1>4 DEF TicketInv
<1>6. ticketSlip'[t] # None =>
          /\ ticketRun'[t] = ticketSlip'[t]
          /\ paid'[t] = IF status'[ticketSlip'[t]] = "disbursed" THEN "payroll" ELSE "no"
  <2>1. CASE in
    BY <1>2, <1>3, <2>1
  <2>2. CASE ~in
    BY <1>0, <1>3, <1>4, <2>2 DEF TicketInv
  <2> QED
    BY <2>1, <2>2
<1>7. paid'[t] = "payroll" => ticketSlip'[t] # None
  <2>1. CASE ticketSlip[t] = r
    BY <1>0, <2>1 DEF TicketInv
  <2>2. CASE ticketSlip[t] # r
    BY <1>0, <1>3, <2>2 DEF TicketInv
  <2> QED
    BY <2>1, <2>2
<1> QED
  BY <1>5, <1>6, <1>7 DEF TicketInv

LEMMA DisburseTickets ==
    ASSUME TypeOK, TicketsInv, NEW q \in Requests, Current(q), NEW r \in Runs, Disburse(q, r)
    PROVE  TicketsInv'
<1> SUFFICES ASSUME NEW t \in Tickets PROVE TicketInv(t)'
  BY DEF TicketsInv
<1>1. status[r] = "approved"
  BY DEF Disburse, Current, ReadRun, Ladder
<1>2. /\ slips' = slips /\ ticketSlip' = ticketSlip
      /\ status'[r] = "disbursed" /\ \A o \in Runs \ {r} : status'[o] = status[o]
      /\ paid'[t] = IF ticketRun[t] = r /\ ticketSlip[t] # None /\ paid[t] = "no"
                    THEN "payroll" ELSE paid[t]
      /\ ticketRun'[t] = IF ticketRun[t] = r /\ ticketSlip[t] = None THEN None ELSE ticketRun[t]
  BY DEF Disburse, SettleRun, MoveTo, TypeOK
<1>3. /\ \A o \in Runs : Carries(o, t)' <=> Carries(o, t)
      /\ TicketInv(t) /\ ticketSlip[t] \in Runs \cup {None}
  BY <1>2 DEF Carries, TicketsInv, TypeOK
<1> QED
  BY <1>1, <1>2, <1>3 DEF TicketInv

LEMMA DeleteTickets ==
    ASSUME TypeOK, TicketsInv, NEW q \in Requests, Current(q), NEW r \in Runs, DeleteRun(q, r)
    PROVE  TicketsInv'
<1> SUFFICES ASSUME NEW t \in Tickets PROVE TicketInv(t)'
  BY DEF TicketsInv
<1>1. status[r] = "draft"
  BY DEF DeleteRun, Current, ReadRun, Ladder
<1>2. /\ slips'[r] = [e \in Employees |-> None] /\ \A o \in Runs \ {r} : slips'[o] = slips[o]
      /\ status'[r] = "deleted" /\ \A o \in Runs \ {r} : status'[o] = status[o]
      /\ paid' = paid
      /\ ticketRun'[t] = IF ticketRun[t] = r THEN None ELSE ticketRun[t]
      /\ ticketSlip'[t] = IF ticketSlip[t] = r THEN None ELSE ticketSlip[t]
  BY DEF DeleteRun, TypeOK
<1>3. /\ ~Carries(r, t)'
      /\ \A o \in Runs \ {r} : Carries(o, t)' <=> Carries(o, t)
  BY <1>2, OwnersAreEmployees DEF Carries
<1>4. TicketInv(t) /\ ticketSlip[t] \in Runs \cup {None} /\ None \notin Runs
  BY NoneAssumption DEF TicketsInv, TypeOK
<1> QED
  BY <1>1, <1>2, <1>3, <1>4 DEF TicketInv

LEMMA ChosenTickets ==
    ASSUME TypeOK, TicketsInv, NEW q \in Requests, Current(q), NEW r \in Runs,
           NEW chosen \in SUBSET Tickets, SetTickets(q, r, chosen)
    PROVE  TicketsInv'
<1> DEFINE inRun == [t \in Tickets |->
                        IF ticketRun[t] = r /\ t \notin chosen THEN None
                        ELSE IF t \in chosen /\ ticketRun[t] = None THEN r
                        ELSE ticketRun[t]]
           freed == {t \in Tickets : ticketRun[t] = r /\ t \notin chosen}
<1>1. /\ status[r] = "draft" /\ UNCHANGED <<status, paid>> /\ ticketRun' = inRun
      /\ IF HasPayslips(r) THEN Generated(r, inRun)
         ELSE /\ ticketSlip' = [t \in Tickets |-> IF t \in freed THEN None ELSE ticketSlip[t]]
              /\ slips' = slips
  BY DEF SetTickets, ladderVars, Current, ReadRun, Ladder
<1>2. CASE HasPayslips(r)
  BY <1>1, <1>2, GeneratedCarries
<1>3. CASE ~HasPayslips(r)
  <2> SUFFICES ASSUME NEW t \in Tickets PROVE TicketInv(t)'
    BY DEF TicketsInv
  <2>1. TicketInv(t) /\ ticketSlip[t] \in Runs \cup {None}
    BY DEF TicketsInv, TypeOK
  <2>2. ~Carries(r, t) /\ ticketSlip[t] # r
    BY <1>3, <2>1, OwnersAreEmployees DEF HasPayslips, Carries, TicketInv
  <2>3. ticketSlip'[t] = ticketSlip[t]
    BY <1>1, <1>3, <2>1, <2>2 DEF TicketInv
  <2>4. ticketSlip[t] # None => ticketRun'[t] = ticketRun[t]
    BY <1>1, <2>1, <2>2, NoneAssumption DEF TicketInv
  <2>5. \A o \in Runs : Carries(o, t)' <=> Carries(o, t)
    BY <1>1, <1>3 DEF Carries
  <2> QED
    BY <1>1, <2>1, <2>3, <2>4, <2>5 DEF TicketInv
<1> QED
  BY <1>2, <1>3

LEMMA AddedTicket ==
    ASSUME TypeOK, TicketsInv, NEW q \in Requests, Current(q), NEW r \in Runs,
           NEW x \in Tickets, AddToRun(q, x, r)
    PROVE  TicketsInv'
<1>1. /\ status[r] = "draft" /\ UNCHANGED <<status, paid>>
      /\ ticketRun' = [ticketRun EXCEPT ![x] = r]
      /\ ticketRun[x] = None
      /\ IF HasPayslips(r) THEN Generated(r, ticketRun') ELSE UNCHANGED <<slips, ticketSlip>>
  BY DEF AddToRun, ladderVars, Current
<1>2. CASE HasPayslips(r)
  <2>1. \A t \in Tickets : ticketRun'[t] = ticketRun[t] \/ ticketRun[t] \in {None, r}
    BY <1>1 DEF TypeOK
  <2> QED
    BY <1>1, <1>2, <2>1, GeneratedCarries
<1>3. CASE ~HasPayslips(r)
  <2> SUFFICES ASSUME NEW t \in Tickets PROVE TicketInv(t)'
    BY DEF TicketsInv
  <2>1. TicketInv(t) /\ ticketSlip[t] \in Runs \cup {None}
    BY DEF TicketsInv, TypeOK
  <2>2. ticketSlip[t] # None => ticketRun'[t] = ticketRun[t]
    BY <1>1, <2>1, NoneAssumption DEF TicketInv, TypeOK
  <2>3. \A o \in Runs : Carries(o, t)' <=> Carries(o, t)
    BY <1>1, <1>3 DEF Carries
  <2> QED
    BY <1>1, <1>3, <2>1, <2>2, <2>3 DEF TicketInv
<1> QED
  BY <1>2, <1>3

LEMMA StepTickets ==
    ASSUME TypeOK, TicketsInv, [Next]_vars, [OnCurrent]_vars
    PROVE  TicketsInv'
<1>0. CASE UNCHANGED dbVars
  BY <1>0 DEF dbVars, ladderVars, ticketVars, TicketsInv, TicketInv, Carries
<1>1. ASSUME NEW q \in Requests, NEW r \in Runs, Disburse(q, r), ~UNCHANGED dbVars
      PROVE  TicketsInv'
  <2>1. Current(q)
    BY <1>1, ActsOrStays, Acting DEF RunRequest
  <2> QED
    BY <1>1, <2>1, DisburseTickets
<1>2. CASE ~UNCHANGED dbVars /\ \A q \in Requests, r \in Runs : ~Disburse(q, r)
  <2> DEFINE SameDisbursed == \A r \in Runs : status'[r] = "disbursed" <=> status[r] = "disbursed"
  <2>0. SameDisbursed
    BY <1>2, StepBooks DEF BooksNothing
  <2>1. ASSUME UNCHANGED <<slips, ticketVars>>
        PROVE  TicketsInv'
    <3>1. \A r \in Runs, t \in Tickets : Carries(r, t)' = Carries(r, t)
      BY <2>1 DEF Carries
    <3> QED
      BY <2>0, <2>1, <3>1, TicketStays DEF ticketVars, TicketsInv
  <2>2. ASSUME NEW q \in Requests, NEW r \in Runs, RunRequest(q, r)
        PROVE  TicketsInv'
    <3>0. Current(q)
      BY <1>2, <2>2, ActsOrStays, Acting
    <3>1. CASE OpenRun(q, r) \/ SubmitForReview(q, r) \/ HrApprove(q, r)
               \/ FinanceApprove(q, r) \/ ReturnToDraft(q, r)
               \/ \E e \in Employees : OpenPayslip(q, r, e)
      BY <2>1, <3>1
         DEF OpenRun, SubmitForReview, HrApprove, FinanceApprove, ReturnToDraft, OpenPayslip
    <3>2. CASE Generate(q, r)
      <4>1. status[r] = "draft" /\ status'[r] = "draft"
        BY <3>0, <3>2 DEF Generate, Current, ReadRun, Ladder, ladderVars
      <4> QED
        BY <2>0, <3>2, <4>1, GeneratedCarries DEF Generate
    <3>3. ASSUME NEW e \in Employees, NEW fine \in Fines, AdjustPayslip(q, r, e, fine)
          PROVE  TicketsInv'
      <4>1. slips[r][e] \in Payslip /\ slips[r][e] # None
        BY <3>3 DEF AdjustPayslip, TypeOK
      <4>2. /\ slips'[r][e] \in {slips[r][e], [slips[r][e] EXCEPT !.manual = fine]}
            /\ \A o \in Runs \ {r} : slips'[o] = slips[o]
            /\ \A x \in Employees \ {e} : slips'[r][x] = slips[r][x]
            /\ UNCHANGED ticketVars
        BY <3>3 DEF AdjustPayslip, TypeOK
      <4>3. slips'[r][e] # None /\ slips'[r][e].tickets = slips[r][e].tickets
        BY <4>1, <4>2, NoneAssumption DEF Payslip
      <4>4. \A o \in Runs, t \in Tickets : Carries(o, t)' = Carries(o, t)
        BY <4>1, <4>2, <4>3, OwnersAreEmployees DEF Carries
      <4> QED
        BY <2>0, <4>2, <4>4, TicketStays DEF ticketVars, TicketsInv
    <3>4. CASE DeleteRun(q, r)
      BY <3>0, <3>4, DeleteTickets
    <3>5. ASSUME NEW chosen \in SUBSET Tickets, SetTickets(q, r, chosen)
          PROVE  TicketsInv'
      BY <3>0, <3>5, ChosenTickets
    <3>6. ASSUME NEW t \in Tickets, AddToRun(q, t, r)
          PROVE  TicketsInv'
      BY <3>0, <3>6, AddedTicket
    <3> QED
      BY <1>2, <2>2, <3>1, <3>2, <3>3, <3>4, <3>5, <3>6 DEF RunRequest
  <2>3. ASSUME NEW r \in Runs, CreateRun(r)
        PROVE  TicketsInv'
    <3>1. CASE Generated(r, ticketRun)
      <4>1. status'[r] = "draft" /\ UNCHANGED <<ticketRun, paid>>
        BY <2>3 DEF CreateRun, TypeOK
      <4> QED
        BY <2>0, <3>1, <4>1, GeneratedCarries
    <3>2. CASE UNCHANGED <<slips, taken, ticketSlip>>
      BY <2>1, <2>3, <3>2 DEF CreateRun, ticketVars
    <3> QED
      BY <2>3, <3>1, <3>2 DEF CreateRun
  <2>4. ASSUME NEW x \in Tickets,
               CreateTicket(x) \/ PayInAdvance(x) \/ \E q \in Requests : MarkPaid(q, x)
        PROVE  TicketsInv'
    <3> SUFFICES ASSUME NEW t \in Tickets PROVE TicketInv(t)'
      BY DEF TicketsInv
    <3>1. TicketInv(t) /\ ticketSlip[t] \in Runs \cup {None}
      BY DEF TicketsInv, TypeOK
    <3>c. \A q \in Requests : MarkPaid(q, x) => Current(q)
      BY <1>2, ActsOrStays, Acting
    <3>2. /\ UNCHANGED <<slips, ticketRun, ticketSlip>>
          /\ t # x => paid'[t] = paid[t]
          /\ paid'[x] # "payroll"
          /\ paid[x] = "absent" \/ ticketRun[x] = None
      BY <2>4, <3>c DEF CreateTicket, PayInAdvance, MarkPaid, Current, TypeOK
    <3>3. CASE t = x
      <4>1. ticketSlip[t] = None
        BY <3>1, <3>2, <3>3, NoneAssumption DEF TicketInv
      <4>2. \A r \in Runs : Carries(r, t)' = Carries(r, t)
        BY <3>2 DEF Carries
      <4> QED
        BY <3>1, <3>2, <3>3, <4>1, <4>2 DEF TicketInv
    <3>4. CASE t # x
      <4>1. \A r \in Runs : Carries(r, t)' = Carries(r, t)
        BY <3>2 DEF Carries
      <4> QED
        BY <2>0, <3>2, <3>4, <4>1, TicketStays
    <3> QED
      BY <3>3, <3>4
  <2>5. CASE \/ \E q \in Requests, t \in Tickets : OpenTicket(q, t)
             \/ \E q \in Requests, l \in Loans :
                    OpenLoan(q, l) \/ RebuildSchedule(q, l) \/ DeleteLoan(q, l)
             \/ \E q \in Requests : Refuse(q)
             \/ \E l \in Loans : CreateLoan(l)
             \/ \E e \in Employees, c \in Companies : MoveEmployee(e, c)
             \/ UNCHANGED vars
    BY <2>1, <2>5 DEF OpenTicket, OpenLoan, RebuildSchedule, DeleteLoan, Refuse,
                      CreateLoan, MoveEmployee, vars
  <2> QED
    BY <2>2, <2>3, <2>4, <2>5 DEF Next
<1> QED
  BY <1>0, <1>1, <1>2

(* However requests overlap, no ticket is paid twice or forgotten: payroll  *)
(* pays exactly those in the figures of one disbursed run, and one paid     *)
(* directly is on no payslip, as long as none writes on a stale copy.       *)
THEOREM CurrentTickets == Spec /\ ActsOnCurrent => []TicketPaidOnce
<1>1. Init => TicketsInv
  BY OwnersAreEmployees, NoneAssumption DEF Init, TicketsInv, TicketInv, Carries
<1>2. TypeOK /\ TicketsInv /\ [Next]_vars /\ [OnCurrent]_vars => TicketsInv'
  BY StepTickets
<1>3. TypeOK /\ TicketsInv => TicketPaidOnce
  <2> SUFFICES ASSUME TypeOK, TicketsInv, NEW t \in Tickets
               PROVE  LET carriers == {r \in Runs : Carries(r, t)}
                      IN  /\ \A r, o \in carriers : r = o
                          /\ paid[t] = "payroll" <=> \E r \in carriers : status[r] = "disbursed"
                          /\ paid[t] = "direct" => carriers = {}
    BY DEF TicketPaidOnce, Carries
  <2>1. TicketInv(t) /\ ticketSlip[t] \in Runs \cup {None}
    BY DEF TicketsInv, TypeOK
  <2> QED
    BY <2>1, NoneAssumption DEF TicketInv
<1> QED
  BY <1>1, <1>2, <1>3, TypeCorrect, PTL DEF Spec, ActsOnCurrent
-----------------------------------------------------------------------------
(* Generations in several transactions.                                     *)
LEMMA BuildingTypes ==
    ASSUME TypeOKTx, NEW q \in Requests, ~Free(q)
    PROVE  /\ building[q].run \in Runs
           /\ building[q].new \in [Employees -> Payslip \cup {None}]
           /\ building[q].replaces \in BOOLEAN
           /\ building[q].gone \in SUBSET Loans
BY DEF TypeOKTx, Free, Buildings

LEMMA InitTypeTx == InitTx => TypeOKTx
BY InitType DEF InitTx, TypeOKTx

LEMMA OtherIsNext == Other => Next
BY DEF Other, OtherRunRequest, Next, RunRequest

LEMMA DropIsNext ==
    ASSUME NEW q \in Requests, NEW l \in Loans, DropInstalments(q, l)
    PROVE  Next
BY DEF DropInstalments, Next

LEMMA StepTypeTx == TypeOKTx /\ [NextTx]_txVars => TypeOKTx'
<1> SUFFICES ASSUME TypeOKTx, [NextTx]_txVars
             PROVE  TypeOKTx'
  OBVIOUS
<1>0. TypeOK
  BY DEF TypeOKTx
<1>1. ASSUME NEW q \in Requests, NEW r \in Runs, ReadForRun(q, r)
      PROVE  TypeOKTx'
  <2>1. TypeOK'
    BY <1>0, <1>1, StepType DEF ReadForRun
  <2>2. [run |-> r, new |-> Built(r, ticketRun), replaces |-> HasPayslips(r), gone |-> {}]
            \in Buildings
    <3>1. HasPayslips(r) \in BOOLEAN
      BY DEF HasPayslips
    <3> QED
      BY <1>0, <3>1, BuiltType DEF Buildings
  <2> QED
    BY <1>1, <2>1, <2>2 DEF ReadForRun, TypeOKTx
<1>2. ASSUME NEW q \in Requests, Commit(q)
      PROVE  TypeOKTx'
  <2>1. /\ slips' \in [Runs -> [Employees -> Payslip \cup {None}]]
        /\ taken' \in [Instalments -> Runs \cup {None}]
        /\ ticketSlip' \in [Tickets -> Runs \cup {None}]
    <3>1. building[q].run \in Runs /\ building[q].new \in [Employees -> Payslip \cup {None}]
      BY <1>2, BuildingTypes DEF Commit
    <3> QED
      BY <1>0, <1>2, <3>1 DEF Commit, WriteBuilding, TypeOK
  <2>2. seen' \in [Requests -> Handles \cup {None}]
    BY <1>0, <1>2, BuildingTypes, AnswerType DEF Commit
  <2>3. crossed' \in BOOLEAN
    BY <1>2 DEF Commit, WriteBuilding, TypeOKTx
  <2>4. building' \in [Requests -> Buildings \cup {None}]
    BY <1>2 DEF Commit, TypeOKTx
  <2> QED
    BY <1>2, <2>1, <2>2, <2>3, <2>4 DEF Commit, TypeOKTx, TypeOK, ladderVars
<1>3. ASSUME NEW q \in Requests, RollBack(q)
      PROVE  TypeOKTx'
  BY <1>0, <1>3, AnswerType
     DEF RollBack, TypeOKTx, TypeOK, ladderVars, loanVars, ticketVars
<1>4. CASE Other /\ UNCHANGED <<building, crossed>>
  BY <1>0, <1>4, OtherIsNext, StepType DEF TypeOKTx
<1>6. ASSUME NEW q \in Requests, NEW l \in Loans, DropInstalments(q, l)
      PROVE  TypeOKTx'
  <2>1. TypeOK'
    BY <1>0, <1>6, DropIsNext, StepType
  <2>2. ASSUME NEW p \in Requests PROVE building'[p] \in Buildings \cup {None}
    <3>1. CASE Free(p)
      BY <1>6, <3>1 DEF DropInstalments
    <3>2. CASE ~Free(p)
      <4>1. building[p] \in Buildings
        BY <3>2 DEF Free, TypeOKTx
      <4>2. building'[p] = [building[p] EXCEPT !.gone = building[p].gone \cup {l}]
        BY <1>6, <3>2 DEF DropInstalments
      <4> QED
        BY <4>1, <4>2 DEF Buildings
    <3> QED
      BY <3>1, <3>2
  <2>3. building' \in [Requests -> Buildings \cup {None}]
    BY <1>6, <2>2 DEF DropInstalments
  <2> QED
    BY <1>6, <2>1, <2>3 DEF DropInstalments, TypeOKTx
<1>5. CASE UNCHANGED txVars
  BY <1>0, <1>5, StepType DEF txVars, TypeOKTx
<1> QED
  BY <1>1, <1>2, <1>3, <1>4, <1>5, <1>6 DEF NextTx

(* Every variable keeps the values of its column while transactions         *)
(* overlap, and a generation only ever writes payslips.                     *)
THEOREM TypeCorrectTx == SpecTx => []TypeOKTx
<1> QED
  BY InitTypeTx, StepTypeTx, PTL DEF SpecTx

-----------------------------------------------------------------------------

LEMMA Owners == \A i \in Instalments : LoanOwner[i[1]] \in Employees
BY LoansAssumption DEF Instalments

(* What a commit takes is in the payslips it writes, which are payslips of  *)
(* the instalments' own employees; what it releases points nowhere.         *)
LEMMA CommitDeducts ==
    ASSUME TypeOKTx, TakenIsDeducted, NEW q \in Requests, Commit(q),
           \A e \in Employees : building[q].new[e] # None =>
                \A i \in building[q].new[e].insts : LoanOwner[i[1]] = e
    PROVE  TakenIsDeducted'
<1> DEFINE b == building[q]
<1> SUFFICES ASSUME NEW i \in Instalments, taken'[i] # None
             PROVE  /\ slips'[taken'[i]][LoanOwner[i[1]]] # None
                    /\ i \in slips'[taken'[i]][LoanOwner[i[1]]].insts
  BY DEF TakenIsDeducted
<1>0. TypeOK /\ b.run \in Runs /\ LoanOwner[i[1]] \in Employees
  BY BuildingTypes, Owners DEF Commit, TypeOKTx
<1>1. /\ \A e \in Employees : slips'[b.run][e] =
                IF b.new[e] = None /\ ~b.replaces THEN slips[b.run][e] ELSE b.new[e]
      /\ \A o \in Runs \ {b.run} : slips'[o] = slips[o]
  BY <1>0 DEF Commit, WriteBuilding, TypeOK
<1>2. taken'[i] = IF i \in Deducted(b) /\ i[1] \notin b.gone THEN b.run
                  ELSE IF b.replaces /\ taken[i] = b.run THEN None ELSE taken[i]
  BY DEF Commit, WriteBuilding
<1>3. CASE i \in Deducted(b) /\ i[1] \notin b.gone
  <2>1. b.new[LoanOwner[i[1]]] # None /\ i \in b.new[LoanOwner[i[1]]].insts
    BY <1>3 DEF Deducted
  <2> QED
    BY <1>0, <1>1, <1>2, <1>3, <2>1
<1>4. CASE ~(i \in Deducted(b) /\ i[1] \notin b.gone)
  <2>1. taken'[i] = taken[i] /\ taken[i] \in Runs /\ ~(b.replaces /\ taken[i] = b.run)
    BY <1>0, <1>2, <1>4 DEF TypeOK
  <2>2. slips[taken[i]][LoanOwner[i[1]]] # None /\ i \in slips[taken[i]][LoanOwner[i[1]]].insts
    BY <2>1 DEF TakenIsDeducted
  <2>3. CASE taken[i] # b.run
    BY <1>1, <2>1, <2>2, <2>3
  <2>4. CASE taken[i] = b.run
    <3>1. ~b.replaces
      BY <2>1, <2>4
    <3>2. b.new[LoanOwner[i[1]]] = None
      BY <1>0, <2>2, <2>4, <3>1 DEF Commit, Unique
    <3> QED
      BY <1>0, <1>1, <2>1, <2>2, <2>4, <3>1, <3>2
  <2> QED
    BY <2>3, <2>4
<1> QED
  BY <1>3, <1>4

(* Each generation in progress deducts instalments of its own employees.    *)
OwnInstalments ==
    \A q \in Requests : ~Free(q) =>
        \A e \in Employees : building[q].new[e] # None =>
            \A i \in building[q].new[e].insts : LoanOwner[i[1]] = e

LEMMA StepOwn ==
    ASSUME TypeOKTx, OwnInstalments, [NextTx]_txVars
    PROVE  OwnInstalments'
<1>1. ASSUME NEW q \in Requests, NEW r \in Runs, ReadForRun(q, r)
      PROVE  OwnInstalments'
  <2>1. building'[q] = [run |-> r, new |-> Built(r, ticketRun), replaces |-> HasPayslips(r), gone |-> {}]
    BY <1>1 DEF ReadForRun, TypeOKTx
  <2>2. \A p \in Requests \ {q} : building'[p] = building[p]
    BY <1>1 DEF ReadForRun, TypeOKTx
  <2>3. \A e \in Employees : Built(r, ticketRun)[e] # None =>
            \A i \in Built(r, ticketRun)[e].insts : LoanOwner[i[1]] = e
    BY DEF Built, InstalmentsDue
  <2> QED
    BY <2>1, <2>2, <2>3 DEF OwnInstalments, Free
<1>2. ASSUME NEW q \in Requests, Commit(q) \/ RollBack(q)
      PROVE  OwnInstalments'
  <2>1. \A p \in Requests : building'[p] \in {building[p], None}
    BY <1>2 DEF Commit, RollBack, TypeOKTx
  <2> QED
    BY <2>1 DEF OwnInstalments, Free
<1>3. CASE UNCHANGED building
  BY <1>3 DEF OwnInstalments, Free
<1>4. ASSUME NEW q \in Requests, NEW l \in Loans, DropInstalments(q, l)
      PROVE  OwnInstalments'
  <2>1. \A p \in Requests : ~Free(p) => building'[p].new = building[p].new
    BY <1>4 DEF DropInstalments, TypeOKTx, Free, Buildings
  <2>2. \A p \in Requests : Free(p) => building'[p] = None
    BY <1>4 DEF DropInstalments
  <2> QED
    BY <2>1, <2>2 DEF OwnInstalments, Free
<1> QED
  BY <1>1, <1>2, <1>3, <1>4 DEF NextTx, txVars

LEMMA StepTaken ==
    ASSUME TypeOKTx, OwnInstalments, TakenIsDeducted, [NextTx]_txVars
    PROVE  TakenIsDeducted'
<1> DEFINE Same == UNCHANGED <<slips, taken>>
<1>a. TypeOK
  BY DEF TypeOKTx
<1>0. ASSUME Same PROVE TakenIsDeducted'
  BY <1>0 DEF TakenIsDeducted
<1>1. ASSUME NEW q \in Requests, Commit(q)
      PROVE  TakenIsDeducted'
  BY <1>1, CommitDeducts DEF Commit, OwnInstalments
<1>2. ASSUME NEW q \in Requests, NEW r \in Runs, OtherRunRequest(q, r)
      PROVE  TakenIsDeducted'
  <2>1. CASE OpenRun(q, r) \/ SubmitForReview(q, r) \/ HrApprove(q, r)
             \/ FinanceApprove(q, r) \/ Disburse(q, r) \/ ReturnToDraft(q, r)
             \/ \E e \in Employees : OpenPayslip(q, r, e)
    BY <1>0, <2>1 DEF OpenRun, OpenPayslip, SubmitForReview, HrApprove, FinanceApprove,
                      Disburse, ReturnToDraft, loanVars
  <2>2. ASSUME NEW e \in Employees, NEW fine \in Fines, AdjustPayslip(q, r, e, fine)
        PROVE  TakenIsDeducted'
    <3>1. slips[r][e] \in Payslip
      BY <1>a, <2>2 DEF AdjustPayslip, TypeOK
    <3>2. /\ slips'[r][e] \in {slips[r][e], [slips[r][e] EXCEPT !.manual = fine]}
          /\ \A o \in Runs \ {r} : slips'[o] = slips[o]
          /\ \A x \in Employees \ {e} : slips'[r][x] = slips[r][x]
          /\ taken' = taken
      BY <1>a, <2>2 DEF AdjustPayslip, TypeOK, loanVars
    <3>3. slips'[r][e] # None /\ slips'[r][e].insts = slips[r][e].insts
      BY <3>1, <3>2, NoneAssumption DEF Payslip
    <3>4. \A o \in Runs, x \in Employees : slips[o][x] # None =>
              slips'[o][x] # None /\ slips'[o][x].insts = slips[o][x].insts
      BY <3>2, <3>3
    <3>5. \A i \in Instalments : taken[i] # None => taken[i] \in Runs
      BY <1>a DEF TypeOK
    <3> QED
      BY <3>2, <3>4, <3>5, Owners DEF TakenIsDeducted
  <2>3. CASE DeleteRun(q, r)
    <3>1. /\ \A o \in Runs \ {r} : slips'[o] = slips[o]
          /\ \A i \in Instalments : taken'[i] = IF taken[i] = r THEN None ELSE taken[i]
      BY <1>a, <2>3 DEF DeleteRun, TypeOK
    <3>2. \A i \in Instalments : taken[i] # None => taken[i] \in Runs
      BY <1>a DEF TypeOK
    <3> QED
      BY <3>1, <3>2 DEF TakenIsDeducted
  <2> QED
    BY <1>2, <2>1, <2>2, <2>3 DEF OtherRunRequest
<1>3. CASE \/ \E q \in Requests, r \in Runs : ReadForRun(q, r)
           \/ \E q \in Requests : RollBack(q) \/ Refuse(q)
           \/ \E r \in Runs : CreateRun(r) /\ UNCHANGED <<slips, taken, ticketSlip>>
           \/ \E q \in Requests, l \in Loans : OpenLoan(q, l) \/ DeleteLoan(q, l)
           \/ \E l \in Loans : CreateLoan(l)
           \/ \E e \in Employees, c \in Companies : MoveEmployee(e, c)
           \/ UNCHANGED txVars
  BY <1>0, <1>3 DEF ReadForRun, RollBack, Refuse, OpenLoan, DeleteLoan, CreateLoan,
                    MoveEmployee, txVars, vars, loanVars
<1>4. ASSUME NEW q \in Requests, NEW l \in Loans, RebuildSchedule(q, l)
      PROVE  TakenIsDeducted'
  <2>1. taken' = taken /\ slips' = slips
    BY <1>a, <1>4 DEF RebuildSchedule, Untouched, TypeOK
  <2> QED
    BY <1>0, <2>1
<1> QED
  BY <1>1, <1>2, <1>3, <1>4 DEF NextTx, Other, DropInstalments

(* However many generations overlap, an instalment that reads as recovered  *)
(* was deducted: no loan writes itself off.                                 *)
THEOREM NothingWrittenOff == SpecTx => []TakenIsDeducted
<1>1. InitTx => TakenIsDeducted /\ OwnInstalments
  BY DEF InitTx, Init, TakenIsDeducted, OwnInstalments, Free
<1>2. TypeOKTx /\ OwnInstalments /\ [NextTx]_txVars => OwnInstalments'
  BY StepOwn
<1>3. TypeOKTx /\ OwnInstalments /\ TakenIsDeducted /\ [NextTx]_txVars => TakenIsDeducted'
  BY StepTaken
<1> QED
  BY <1>1, <1>2, <1>3, TypeCorrectTx, PTL DEF SpecTx

-----------------------------------------------------------------------------

(* A commit that is not late writes what a generation of its own turn       *)
(* would write.                                                             *)
LEMMA CommitGenerates ==
    ASSUME TypeOKTx, TakenIsDeducted, NEW q \in Requests, Commit(q), ~crossed'
    PROVE  GeneratesPayslips(building[q].run, ticketRun)
<1> DEFINE b   == building[q]
           new == Built(b.run, ticketRun)
<1>0. TypeOK /\ b.run \in Runs
  BY BuildingTypes DEF Commit, TypeOKTx
<1>1. ~Late(b)
  BY DEF Commit, WriteBuilding
<1>2. b.new = new /\ (b.replaces \/ ~HasPayslips(b.run)) /\ \A i \in Deducted(b) : i[1] \notin b.gone
  BY <1>1 DEF Late
<1>3. slips' = [slips EXCEPT ![b.run] = new]
  <2>1. [e \in Employees |-> IF b.new[e] = None /\ ~b.replaces THEN slips[b.run][e]
                             ELSE b.new[e]] = new
    <3>1. \A e \in Employees : b.new[e] = None /\ ~b.replaces => slips[b.run][e] = None
      BY <1>2 DEF HasPayslips
    <3> QED
      BY <1>2, <3>1 DEF Built
  <2> QED
    BY <2>1 DEF Commit, WriteBuilding
<1>4. ASSUME NEW i \in Instalments
      PROVE  taken'[i] = IF \E e \in Employees : new[e] # None /\ i \in new[e].insts
                         THEN b.run ELSE IF taken[i] = b.run THEN None ELSE taken[i]
  <2>1. i \in Deducted(b) <=> \E e \in Employees : new[e] # None /\ i \in new[e].insts
    BY <1>2 DEF Deducted
  <2>2. taken[i] = b.run => b.replaces
    <3>1. taken[i] = b.run => HasPayslips(b.run)
      BY <1>0, Owners, NoneAssumption DEF TakenIsDeducted, HasPayslips
    <3> QED
      BY <1>2, <3>1
  <2>3. taken'[i] = IF i \in Deducted(b) /\ i[1] \notin b.gone THEN b.run
                    ELSE IF b.replaces /\ taken[i] = b.run THEN None ELSE taken[i]
    BY DEF Commit, WriteBuilding
  <2> QED
    BY <1>2, <2>1, <2>2, <2>3
<1>5. DOMAIN taken' = Instalments /\ taken' = [i \in Instalments |-> taken'[i]]
  BY DEF Commit, WriteBuilding
<1> QED
  BY <1>3, <1>4, <1>5 DEF GeneratesPayslips

LEMMA StepUncrossed == [NextTx]_txVars /\ TypeOKTx => (~crossed' => ~crossed)
BY DEF NextTx, txVars, ReadForRun, Commit, WriteBuilding, RollBack, DropInstalments, TypeOKTx

(* The other steps are steps of requests that take turns, or move nothing.  *)
LEMMA StepsInTurn ==
    ASSUME [NextTx]_txVars, \A q \in Requests : ~Commit(q)
    PROVE  [Next]_vars \/ UNCHANGED <<slips, taken>>
<1>1. ASSUME NEW q \in Requests, RollBack(q)
      PROVE  UNCHANGED <<slips, taken>>
  BY <1>1 DEF RollBack, loanVars
<1> QED
  BY <1>1, OtherIsNext, DropIsNext DEF NextTx, txVars, ReadForRun

(* Overlapping transactions and stale copies give no employee two payslips  *)
(* for a month until a generation writes what no longer follows from what   *)
(* is stored, for any number of runs and requests.                          *)
THEOREM PaidOnceTx == SpecTx => []PaidOnceUnlessCrossed
<1>1. InitTx => PaidOnceUnlessCrossed
  BY DEF InitTx, Init, PaidOnceUnlessCrossed, PaidOncePerPeriod
<1>2. ASSUME TypeOKTx, TakenIsDeducted, PaidOnceUnlessCrossed, [NextTx]_txVars
      PROVE  PaidOnceUnlessCrossed'
  <2> SUFFICES ASSUME ~crossed' PROVE PaidOncePerPeriod'
    BY DEF PaidOnceUnlessCrossed
  <2>1. TypeOK /\ PaidOncePerPeriod
    BY <1>2, StepUncrossed DEF TypeOKTx, PaidOnceUnlessCrossed
  <2>2. ASSUME NEW q \in Requests, Commit(q)
        PROVE  PaidOncePerPeriod'
    <3>1. building[q].run \in Runs
      BY <1>2, <2>2, BuildingTypes DEF Commit
    <3>2. GeneratesPayslips(building[q].run, ticketRun)
      BY <1>2, <2>2, CommitGenerates
    <3> QED
      BY <2>1, <3>1, <3>2, GeneratedOnce
  <2>3. CASE \A q \in Requests : ~Commit(q)
    <3>1. CASE [Next]_vars
      BY <2>1, <3>1, StepOnce
    <3>2. CASE UNCHANGED <<slips, taken>>
      BY <2>1, <3>2 DEF PaidOncePerPeriod
    <3> QED
      BY <1>2, <2>3, <3>1, <3>2, StepsInTurn
  <2> QED
    BY <2>2, <2>3
<1> QED
  BY <1>1, <1>2, TypeCorrectTx, NothingWrittenOff, PTL DEF SpecTx

(* Until then each payslip deducts exactly the instalments that point at    *)
(* it, whatever loans are built again or deleted in between.                *)
THEOREM DeductedOnceTx == SpecTx => []DeductedOnceUnlessCrossed
<1>1. InitTx => DeductedOnceUnlessCrossed
  BY Owners, NoneAssumption DEF InitTx, Init, DeductedOnceUnlessCrossed, DeductedOnce
<1>2. ASSUME TypeOKTx, TakenIsDeducted, DeductedOnceUnlessCrossed, [NextTx]_txVars
      PROVE  DeductedOnceUnlessCrossed'
  <2> SUFFICES ASSUME ~crossed' PROVE DeductedOnce'
    BY DEF DeductedOnceUnlessCrossed
  <2>1. TypeOK /\ DeductedOnce
    BY <1>2, StepUncrossed DEF TypeOKTx, DeductedOnceUnlessCrossed
  <2>2. ASSUME NEW q \in Requests, Commit(q)
        PROVE  DeductedOnce'
    <3>1. building[q].run \in Runs
      BY <1>2, <2>2, BuildingTypes DEF Commit
    <3>2. GeneratesPayslips(building[q].run, ticketRun)
      BY <1>2, <2>2, CommitGenerates
    <3> QED
      BY <2>1, <3>1, <3>2, GeneratedDeducts
  <2>3. CASE \A q \in Requests : ~Commit(q)
    <3>1. CASE [Next]_vars
      BY <2>1, <3>1, StepDeducts
    <3>2. CASE UNCHANGED <<slips, taken>>
      BY <2>1, <3>2 DEF DeductedOnce
    <3> QED
      BY <1>2, <2>3, <3>1, <3>2, StepsInTurn
  <2> QED
    BY <2>2, <2>3
<1> QED
  BY <1>1, <1>2, TypeCorrectTx, NothingWrittenOff, PTL DEF SpecTx
=============================================================================
