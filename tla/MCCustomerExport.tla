--------------------------- MODULE MCCustomerExport ---------------------------
(***************************************************************************)
(* Instances of CustomerExport for TLC, and the fairness of its liveness   *)
(* run: the worker process is always there (a crashed one is restarted),   *)
(* a claim that nobody finishes becomes late, crashes are bounded by the   *)
(* claims.  Nothing is assumed of the owner's requests.                    *)
(***************************************************************************)
EXTENDS CustomerExport, TLC

\* Processes are interchangeable.
Symmetry == Permutations(Worker) \cup Permutations(Reader)

ExportFairness ==
    /\ \A w \in Worker :
          WF_vars(Claim(w) \/ ClaimRefused(w)) /\ WF_vars(Proceeds(w))
    /\ WF_vars(TurnsLate)
=============================================================================
