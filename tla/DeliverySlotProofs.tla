-------------------------- MODULE DeliverySlotProofs --------------------------
(***************************************************************************)
(* The promise of the delivery slot for every set of messages.             *)
(***************************************************************************)
EXTENDS DeliverySlot, TLAPS

\* Until an attempt is over nothing is delivered but what is on record; then
\* its own message may be.
IInv ==
    /\ TypeOK
    /\ slot.at # "over" => delivered = receipts
    /\ slot.at = "over" =>
         delivered = receipts \/ delivered = receipts \cup {slot.message}

LEMMA SlotForms ==
    TypeOK => /\ slot.at = "free" <=> slot = Free
              /\ slot # Free => slot.at \in Stage /\ slot.message \in Message
BY DEF TypeOK, Free, Stage

LEMMA InitIInv == Init => IInv
BY DEF Init, IInv, TypeOK, Free

LEMMA NextIInv == IInv /\ [Next]_vars => IInv'
<1> SUFFICES ASSUME IInv, [Next]_vars PROVE IInv'
    OBVIOUS
<1> USE DEF IInv
<1>1. CASE Claim
    <2>1. PICK m \in Message \ delivered :
            /\ slot.at \in {"free", "claimed"}
            /\ slot' = Held(m, "claimed")
            /\ UNCHANGED <<delivered, receipts>>
          BY <1>1 DEF Claim
    <2> QED BY <2>1 DEF TypeOK, Held, Stage
<1>2. CASE Release
    BY <1>2 DEF Release, TypeOK, Free
<1>3. CASE HandOff
    BY <1>3, SlotForms DEF HandOff, Moves, Held, TypeOK, Stage, Free
<1>4. CASE Post
    BY <1>4, SlotForms DEF Post, Moves, Held, TypeOK, Stage, Free
<1>5. CASE SenderDies
    BY <1>5, SlotForms DEF SenderDies, Moves, Held, TypeOK, Stage, Free
<1>6. CASE Arrive
    <2>1. slot.at = "travelling" /\ slot' = Held(slot.message, "over")
          BY <1>6 DEF Arrive, Moves
    <2>2. slot.message \in Message
          BY <2>1, SlotForms DEF Free
    <2>3. slot'.at = "over" /\ slot'.message = slot.message
          BY <2>1 DEF Held
    <2>4. delivered = receipts /\ receipts' = receipts
          BY <1>6, <2>1 DEF Arrive
    <2>5. delivered' = delivered \/ delivered' = delivered \cup {slot.message}
          BY <1>6 DEF Arrive
    <2>6. TypeOK'
          BY <2>1, <2>2, <2>4, <2>5 DEF TypeOK, Held, Stage
    <2> QED BY <2>3, <2>4, <2>5, <2>6
<1>7. CASE Settle
    BY <1>7 DEF Settle, TypeOK, Free
<1>8. CASE UNCHANGED vars
    BY <1>8 DEF vars, TypeOK
<1> QED
    BY <1>1, <1>2, <1>3, <1>4, <1>5, <1>6, <1>7, <1>8 DEF Next

\* A free slot leaves nothing behind, for any messages: everything the receiving
\* system took is on record, so finish_notification_attempt and finish_attempt,
\* the only ways out of a handoff, never lose a delivery that was answered.
THEOREM NothingIsUnrecorded == Spec => []NothingUnrecorded
<1>1. IInv => NothingUnrecorded
    BY DEF IInv, NothingUnrecorded
<1> QED
    BY InitIInv, NextIInv, <1>1, PTL DEF Spec
=============================================================================
