\* Two months of one company, whose employee may move to another company and
\* back; two requests at a time, which write only on copies still current.
SPECIFICATION SpecCurrent
CHECK_DEADLOCK FALSE
SYMMETRY RequestSymmetry
CONSTANTS
    r1 = r1   r2 = r2   acme = acme   office = office   e1 = e1
    Runs = {r1, r2}
    Employees = {e1}
    Companies = {acme, office}
    Loans = {l1}
    Tickets = {t1}
    Requests = {q1, q2}
    None = None
    RunPeriod <- MonthsPeriod
    RunCompany <- MonthsCompany
    LoanOwner <- OwnerOfLoan
    Term = 2
    FirstDue <- DueFromFirst
    TicketOwner <- OwnerOfTicket
    Joined = {e1}
    Salary = 1
    Fines = {0, 2}
INVARIANTS
    TicketPaidOnce
    AccruedWhenDisbursed
PROPERTIES
    FiguresMoveOnlyInDraft
    HandEnteredKept
