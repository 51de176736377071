---------------------------- MODULE SalesRecords ----------------------------
(***************************************************************************)
(* The sales records beside each other, for one run: a lead with its tasks *)
(* (LeadWorkflow), a customer with its pool, deals, tasks and inquiry      *)
(* (CustomerPool), and the accounts and teams of those who work on them    *)
(* (SystemAccess).  The first two meet in the inquiry that CustomerPool    *)
(* keeps of a lead and in EditInquiry, TrashInquiry and RestoreInquiry     *)
(* there, the third in the team that has open work, so a behaviour follows *)
(* one and leaves the others as they began.                                *)
(***************************************************************************)
EXTENDS LeadWorkflow, CustomerPool, SystemAccess, TLC

VARIABLE record   \* what a behaviour follows

recordVars == <<vars, poolVars, accessVars, record>>

RecordsInit ==
    /\ record \in {"lead", "customer", "account"}
    /\ Init /\ PoolInit /\ AccessInit

RecordsNext ==
    /\ record' = record
    /\ \/ record = "lead" /\ Next /\ UNCHANGED <<poolVars, accessVars>>
       \/ record = "customer" /\ PoolNext /\ UNCHANGED <<vars, accessVars>>
       \/ record = "account" /\ AccessNext /\ UNCHANGED <<vars, poolVars>>

RecordsSpec == RecordsInit /\ [][RecordsNext]_recordVars

\* People, tasks and tokens are only compared.
Interchangeable ==
    Permutations(User) \cup Permutations(Task) \cup Permutations(Work) \cup Permutations(Form)
=============================================================================
