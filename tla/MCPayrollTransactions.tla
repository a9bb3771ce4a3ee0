------------------------- MODULE MCPayrollTransactions -------------------------
(* Small instances of PayrollTransactions for TLC.                          *)
EXTENDS PayrollTransactions, TLC

CONSTANTS r1, r2, acme, office, e1

(* One month of two companies. *)
CompaniesPeriod  == [r \in Runs |-> 1]
CompaniesCompany == [r \in Runs |-> IF r = r1 THEN acme ELSE office]

OwnerOfLoan   == [l \in Loans |-> e1]
OwnerOfTicket == [t \in Tickets |-> e1]
DueFromFirst  == [l \in Loans |-> 1]

(* A bound: the ladder is climbed by one of the runs, the others are        *)
(* generated and sent to HR at most.                                        *)
OneRunClimbs ==
    \A r \in Runs \ {r1} : status[r] \in {"none", "draft", "hr_review"}

(* Requests differ in nothing but what they are doing. *)
RequestSymmetry == Permutations(Requests)
=============================================================================
