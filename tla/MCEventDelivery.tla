--------------------------- MODULE MCEventDelivery ---------------------------
(* Safety instances of EventDelivery for TLC. *)
EXTENDS EventDelivery, TLC

\* Processes are interchangeable.
Workers == Permutations(Worker)
=============================================================================
