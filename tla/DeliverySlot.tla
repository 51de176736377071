----------------------------- MODULE DeliverySlot -----------------------------
(***************************************************************************)
(* What durable delivery attempts promise a sender that can crash at any   *)
(* step: one slot, held by at most one message at a time, that becomes     *)
(* free again after a handoff only when the outcome is on record.  Both    *)
(* EventDelivery and NotificationDelivery implement it.                    *)
(***************************************************************************)
CONSTANT Message

VARIABLES
    slot,        \* free, or the message that holds it and how far it went
    delivered,   \* messages the receiving system has taken
    receipts     \* messages recorded as accepted

vars == <<slot, delivered, receipts>>

Free == [at |-> "free"]
Held(m, at) == [at |-> at, message |-> m]
Stage == {"claimed", "unsent", "travelling", "over"}

TypeOK ==
    /\ slot \in {Free} \cup [at : Stage, message : Message]
    /\ delivered \subseteq Message
    /\ receipts \subseteq Message

Init == slot = Free /\ delivered = {} /\ receipts = {}

Moves(from, to) ==
    /\ slot.at = from
    /\ slot' = Held(slot.message, to)

\* A new claim takes a free slot or replaces an expired claim.
Claim ==
    /\ slot.at \in {"free", "claimed"}
    /\ \E m \in Message \ delivered : slot' = Held(m, "claimed")
    /\ UNCHANGED <<delivered, receipts>>

Release ==
    /\ slot.at = "claimed"
    /\ slot' = Free
    /\ UNCHANGED <<delivered, receipts>>

HandOff == Moves("claimed", "unsent") /\ UNCHANGED <<delivered, receipts>>
Post == Moves("unsent", "travelling") /\ UNCHANGED <<delivered, receipts>>
SenderDies == Moves("unsent", "over") /\ UNCHANGED <<delivered, receipts>>

\* The receiving system takes the message, or the network loses it.
Arrive ==
    /\ Moves("travelling", "over")
    /\ delivered' \in {delivered, delivered \cup {slot.message}}
    /\ UNCHANGED receipts

\* The only way to a free slot after a handoff: record what happened.
Settle ==
    /\ slot.at = "over"
    /\ slot' = Free
    /\ receipts' = receipts \cup (delivered \cap {slot.message})
    /\ UNCHANGED delivered

Next == Claim \/ Release \/ HandOff \/ Post \/ SenderDies \/ Arrive \/ Settle

Spec == Init /\ [][Next]_vars
-----------------------------------------------------------------------------
\* A free slot leaves nothing behind: all that was delivered is on record, so
\* the sender may go on without asking the receiving system.
NothingUnrecorded ==
    delivered # receipts =>
        slot.at = "over" /\ delivered = receipts \cup {slot.message}
=============================================================================
