------------------------------ MODULE SalesTeam ------------------------------
(***************************************************************************)
(* The people of the sales records: who leads, customers, deals and tasks  *)
(* may be assigned to.                                                     *)
(***************************************************************************)
CONSTANTS
    User,   \* active members of the sales team of the records
    None    \* nobody

ASSUME NoneAssumption == None \notin User

Owner == User \cup {None}
=============================================================================
