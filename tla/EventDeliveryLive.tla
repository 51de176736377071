-------------------------- MODULE EventDeliveryLive --------------------------
(***************************************************************************)
(* EventDelivery with fairness, for an event of any provider: crashes,     *)
(* failed preparations and failed projections are bounded by MaxFaults, a  *)
(* process that is up takes its next step, the scheduler's round (recover, *)
(* then dispatch) runs again and again, and leases, backoffs and requests  *)
(* in flight end.  Nothing is assumed of people: Review, ManualRetry,      *)
(* restores and edits may never happen.                                    *)
(***************************************************************************)
EXTENDS Naturals

CONSTANTS Worker, MaxAttempts, MaxGeneration,
          MaxFaults   \* bound: failures at any step

VARIABLES
    lead, outbox, latest, attempt, worker, flight, verdict,
    provider,   \* the platform of the event
    faults
vars == <<lead, outbox, latest, attempt, worker, flight, verdict>>
liveVars == <<vars, provider, faults>>

Event(Provider) == INSTANCE EventDelivery
Providers == {"meta", "google", "validation"}
-----------------------------------------------------------------------------
FaultOf(p) == \E w \in Worker :
    Event(p)!Crash(w) \/ Event(p)!RepairFails(w) \/ Event(p)!PrepareFails(w)
RegularOf(p) ==
    \/ \E w \in Worker :
          \/ Event(p)!Dispatch(w) \/ Event(p)!ManualRetry(w) \/ Event(p)!Dispatches(w)
          \/ Event(p)!RecoverResult(w) \/ Event(p)!RecoverReceipt(w)
    \/ Event(p)!RecoverClaim
    \/ Event(p)!Environment

LiveInit == faults = 0 /\ \E p \in Providers : provider = p /\ Event(p)!Init
LiveNext ==
    /\ provider' = provider
    /\ \E p \in Providers :
          /\ provider = p
          /\ \/ RegularOf(p) /\ faults' = faults
             \/ faults < MaxFaults /\ FaultOf(p) /\ faults' = faults + 1

\* Steps of p's event that leave the rest alone.
Step(p, A) == provider = p /\ A /\ UNCHANGED <<provider, faults>>

LiveSpec ==
    /\ LiveInit /\ [][LiveNext]_liveVars
    /\ \A p \in Providers :
          /\ \A w \in Worker :
                /\ WF_liveVars(Step(p, Event(p)!Dispatches(w)))
                /\ SF_liveVars(Step(p, Event(p)!PollDecided(w)))
                /\ SF_liveVars(Step(p, Event(p)!Dispatch(w)))
                /\ SF_liveVars(Step(p, Event(p)!RecoverReceipt(w)
                                         \/ Event(p)!RecoverResult(w)))
          /\ WF_liveVars(Step(p, Event(p)!RecoverClaim))
          /\ WF_liveVars(Step(p, Event(p)!Age \/ Event(p)!BackoffEnds))
          /\ WF_liveVars(Step(p, Event(p)!ProviderTakes \/ Event(p)!ProviderDecides))
-----------------------------------------------------------------------------
\* EventDelivery!ReceiptReachesSummary: a receipt whose projection was lost still
\* reaches the summary row without another upload, at any provider.
ReceiptReachesSummary ==
    \A p \in Providers : provider = p => Event(p)!ReceiptReachesSummary

\* EventDelivery!NoEventForgotten: an event waiting to be sent does not wait
\* forever, at any provider.
NoEventForgotten ==
    \A p \in Providers : provider = p => Event(p)!NoEventForgotten
=============================================================================
