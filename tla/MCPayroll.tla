------------------------------ MODULE MCPayroll ------------------------------
(* Small instances of Payroll for TLC: the values of its function constants *)
(* and the order in which a cautious office works its months.               *)
EXTENDS Payroll, TLC

CONSTANTS r1, r2, acme, office, e1

(* Two consecutive months of one company. *)
MonthsPeriod  == [r \in Runs |-> IF r = r1 THEN 1 ELSE 2]
MonthsCompany == [r \in Runs |-> acme]

OwnerOfLoan   == [l \in Loans |-> e1]
OwnerOfTicket == [t \in Tickets |-> e1]
DueFromFirst  == [l \in Loans |-> 1]

(* Requests overlap, and write only on copies still current. *)
SpecCurrent == Init /\ [][Next /\ OnCurrent]_vars

(* Requests differ in nothing but what they are doing. *)
RequestSymmetry == Permutations(Requests)

(* No month is opened before the ones before it are disbursed, nor an       *)
(* earlier one after it.                                                    *)
MonthsInOrder ==
    \A r, o \in Runs : (Exists(r) /\ Exists(o) /\ RunPeriod[o] < RunPeriod[r])
                            => status[o] = "disbursed"

SpecInOrder == Init /\ [][Next /\ MonthsInOrder']_vars
=============================================================================
