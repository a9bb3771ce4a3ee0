\* One month of two companies, generated at the same time, whose employee may
\* move meanwhile, and whose loan may be built again or deleted.
\* Bound: one of the two runs climbs past HR (OneRunClimbs).
SPECIFICATION SpecTx
CHECK_DEADLOCK FALSE
SYMMETRY RequestSymmetry
CONSTANTS
    r1 = r1   r2 = r2   acme = acme   office = office   e1 = e1
    Runs = {r1, r2}
    Employees = {e1}
    Companies = {acme, office}
    Loans = {l1}
    Tickets = {}
    Requests = {q1, q2}
    None = None
    RunPeriod <- CompaniesPeriod
    RunCompany <- CompaniesCompany
    LoanOwner <- OwnerOfLoan
    Term = 1
    FirstDue <- DueFromFirst
    TicketOwner <- OwnerOfTicket
    Joined = {e1}
    Salary = 1
    Fines = {0}
CONSTRAINT OneRunClimbs
INVARIANTS TakenIsDeducted PaidOnceUnlessCrossed DeductedOnceUnlessCrossed
