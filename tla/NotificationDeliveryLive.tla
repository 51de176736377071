----------------------- MODULE NotificationDeliveryLive -----------------------
(***************************************************************************)
(* NotificationDelivery with fairness: failures and reconfigurations are   *)
(* bounded by MaxFaults; while processes are at work some of them goes on, *)
(* so that one may hang for ever, with what it has claimed, while the      *)
(* other works; send_lead_reminders runs again and again in one process or *)
(* another; and while a waiting time or a mail is under way, one ends or   *)
(* arrives.  Nothing is assumed of people: reviews, edits, restores and    *)
(* reconfigurations may never happen.                                      *)
(***************************************************************************)
EXTENDS NotificationDelivery

CONSTANT MaxFaults   \* bound: failures and reconfigurations at any step
VARIABLE faults
liveVars == <<vars, faults>>

\* The sender goes on; a policy that keeps the mail back is no failure.
GoesOn(w) == Proceeds(w) \/ (channel \in PolicyDisabled /\ PrepareFails(w))

Regular ==
    \/ \E w \in Worker :
          (\E k \in Kind : Sweep(w, k)) \/ NotifyInbound(w) \/ GoesOn(w)
    \/ Environment

LiveInit == Init /\ faults = 0
LiveNext ==
    \/ Regular /\ UNCHANGED faults
    \/ /\ faults < MaxFaults /\ faults' = faults + 1
       /\ Reconfigure \/ \E w \in Worker : Fault(w)

LiveSpec ==
    /\ LiveInit /\ [][LiveNext]_liveVars
    /\ WF_liveVars((\E w \in Worker : GoesOn(w)) /\ UNCHANGED faults)
    /\ SF_liveVars((\E w \in Worker : Sweep(w, "initial")) /\ UNCHANGED faults)
    /\ WF_liveVars((Age \/ ServerTakes) /\ UNCHANGED faults)
=============================================================================
