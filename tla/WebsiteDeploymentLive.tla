------------------------ MODULE WebsiteDeploymentLive ------------------------
(***************************************************************************)
(* WebsiteDeployment with fairness: failures and crashes are bounded by    *)
(* MaxFaults, the operator reopens a prepared operation with its token     *)
(* until it ends, and a request that is running takes its next step.       *)
(* Nothing is assumed of selections, new operations or reconciliations.    *)
(***************************************************************************)
EXTENDS WebsiteDeployment

CONSTANT MaxFaults   \* bound: failures at any step of a request
ASSUME FaultsAssumption == MaxFaults \in Nat

VARIABLE faults
liveVars == <<vars, faults>>

\* A refusal that the ledger or the pointer asks for is no failure.
GoesOn(r) ==
    \/ Replay(r) \/ Observe(r) \/ Lock(r) \/ LockRefused(r) \/ Switch(r)
    \/ Finalize(r) \/ FinalizedBefore(r)
    \/ FinalizeFails(r) /\ ~MayFinalize(r)
    \/ KeepPrepared(r) \/ GiveUp(r) \/ MarkFailed(r)

Fault(r) ==
    \/ StoreFails(r) \/ CopyFails(r) \/ PointerUnreadable(r) \/ Crash(r)
    \/ FinalizeFails(r) /\ MayFinalize(r)

Regular ==
    \/ \E v \in Version : Select(v)
    \/ \E r \in Request : Prepare(r) \/ GoesOn(r)
    \/ LoseCache
    \/ Reconcile

LiveInit == Init /\ faults = 0
LiveNext ==
    \/ Regular /\ UNCHANGED faults
    \/ /\ faults < MaxFaults /\ faults' = faults + 1
       /\ \E r \in Request : Fault(r)

LiveFairness == \A r \in Request : WF_liveVars(GoesOn(r) /\ UNCHANGED faults)

LiveSpec == LiveInit /\ [][LiveNext]_liveVars /\ LiveFairness
=============================================================================
