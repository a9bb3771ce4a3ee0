\* The next month is generated before this one is disbursed.
SPECIFICATION Spec
CHECK_DEADLOCK FALSE
CONSTANTS
    r1 = r1   r2 = r2   acme = acme   office = office   e1 = e1
    Runs = {r1, r2}
    Employees = {e1}
    Companies = {acme}
    Loans = {l1}
    Tickets = {}
    Requests = {q1}
    None = None
    RunPeriod <- MonthsPeriod
    RunCompany <- MonthsCompany
    LoanOwner <- OwnerOfLoan
    Term = 2
    FirstDue <- DueFromFirst
    TicketOwner <- OwnerOfTicket
    Joined = {e1}
    Salary = 1
    Fines = {0}
INVARIANTS SettledLoansOweNothing
