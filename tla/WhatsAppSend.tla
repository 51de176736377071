----------------------------- MODULE WhatsAppSend -----------------------------
(***************************************************************************)
(* One outbound WhatsApp message: the row a user queues, the dispatchers   *)
(* that post it to the platform, and the status receipts that come back    *)
(* (leads/whatsapp_cloud.py, process_whatsapp_status_receipt of            *)
(* leads/inbound.py, whatsapp_retry_v2).                                   *)
(*                                                                         *)
(* Every action is one database transaction, which locks the message, or   *)
(* one interaction with the platform.  Each POST makes a copy of its own   *)
(* at the platform: the n-th attempt makes copy n, and its number stands   *)
(* for the platform's message id.  The platform is taken at its word: an   *)
(* HTTP error status means that it made no copy, a copy it reports as      *)
(* failed is never delivered, and a copy it delivers it does not fail.     *)
(* Status receipts may be lost, repeated, delayed and reordered.           *)
(***************************************************************************)
EXTENDS Integers, FiniteSets

CONSTANTS
    Sender,   \* processes that may dispatch: cron, command line, inline
    MaxSends  \* max_send_attempts of the integration

ASSUME MaxSendsAssumption == MaxSends \in Nat \ {0}

VARIABLES
    row,      \* the message row
    copy,     \* what the platform knows of each attempt
    events,   \* recorded delivery events: fingerprints of receipts
    allowed,  \* whether _assert_send_policy lets the message out now
    sender    \* what each dispatcher is doing

messageVars == <<row, copy, events, allowed, sender>>
-----------------------------------------------------------------------------
Attempt == 1..MaxSends
CopyState == {"none", "travelling", "refused", "lost", "taken", "failed", "delivered", "read"}
Receipt == Attempt \X {"sent", "delivered", "read", "failed"}

Rank(status) ==
    CASE status = "sent" -> 1 [] status = "delivered" -> 2 [] status = "read" -> 3
      [] OTHER -> 0
Shown == {"sent", "delivered", "read"}

\* Classes of error_code.  "open": a transport error, an unreadable answer or a
\* dead sender, which leave the outcome open; the others are definite.
Code == {"", "refused", "reported", "policy", "limit", "open"}

Row == [status : {"none", "queued", "sending", "failed"} \cup Shown, retryable : BOOLEAN,
        due : BOOLEAN, attempts : 0..MaxSends, id : 0..MaxSends, code : Code]
SenderRecord == [phase : {"idle", "claimed", "posted"}, attempt : 0..MaxSends]

MessageTypeOK ==
    /\ row \in Row
    /\ copy \in [Attempt -> CopyState]
    /\ events \subseteq Receipt
    /\ allowed \in BOOLEAN
    /\ sender \in [Sender -> SenderRecord]

Idle == [phase |-> "idle", attempt |-> 0]
NoRow == [status |-> "none", retryable |-> FALSE, due |-> TRUE, attempts |-> 0,
          id |-> 0, code |-> ""]

MessageInit ==
    /\ row = NoRow
    /\ copy = [n \in Attempt |-> "none"]
    /\ events = {}
    /\ allowed \in BOOLEAN
    /\ sender = [w \in Sender |-> Idle]

SenderStops(w) == sender' = [sender EXCEPT ![w] = Idle]

\* A retry waits for its next_attempt_at.
FailedRow(code, retryable) ==
    [row EXCEPT !.status = "failed", !.code = code, !.retryable = retryable, !.due = ~retryable]
-----------------------------------------------------------------------------
\* queue_whatsapp_message: the token creates the row once.
Queue ==
    /\ row.status = "none" /\ allowed
    /\ row' = [NoRow EXCEPT !.status = "queued"]
    /\ UNCHANGED <<copy, events, allowed, sender>>

Dispatchable == row.status = "queued" \/ (row.status = "failed" /\ row.retryable)

\* dispatch_whatsapp_message, the transaction before the POST, one action per
\* way out of it.  Any other status or a future next_attempt_at changes nothing.
Limited == row.attempts >= MaxSends

AttemptLimit(w) ==
    /\ sender[w].phase = "idle" /\ Dispatchable /\ row.due
    /\ Limited
    /\ row' = FailedRow("limit", FALSE)
    /\ UNCHANGED <<copy, events, allowed, sender>>

PolicyRefuses(w) ==
    /\ sender[w].phase = "idle" /\ Dispatchable /\ row.due
    /\ ~Limited /\ ~allowed
    /\ row' = FailedRow("policy", FALSE)
    /\ UNCHANGED <<copy, events, allowed, sender>>

\* _rate_limit_delay saves "queued" and leaves retryable alone: of a retryable
\* failure whatsapp_message_retry_check rejects that, the transaction is rolled
\* back and the batch ends.
RateLimited(w) ==
    /\ sender[w].phase = "idle" /\ row.status = "queued" /\ row.due
    /\ ~Limited /\ allowed
    /\ row' = [row EXCEPT !.due = FALSE]
    /\ UNCHANGED <<copy, events, allowed, sender>>

Claimed == [row EXCEPT !.status = "sending", !.retryable = FALSE, !.attempts = @ + 1]

Claim(w) ==
    /\ sender[w].phase = "idle" /\ Dispatchable /\ row.due
    /\ ~Limited /\ allowed
    /\ row' = Claimed
    /\ sender' = [sender EXCEPT ![w] = [phase |-> "claimed", attempt |-> row.attempts + 1]]
    /\ UNCHANGED <<copy, events, allowed>>
-----------------------------------------------------------------------------
\* The rest of dispatch_whatsapp_message runs without a lock.

\* The attachment cannot be read or uploaded, the upload's answer stays open,
\* or the client or the payload is refused by policy.
CanRetry == row.attempts < MaxSends

PrepareFails(w) ==
    /\ sender[w].phase = "claimed"
    /\ row' \in {FailedRow("refused", FALSE), FailedRow("refused", CanRetry),
                 FailedRow("open", FALSE), FailedRow("policy", FALSE)}
    /\ SenderStops(w)
    /\ UNCHANGED <<copy, events, allowed>>

Post(w) ==
    /\ sender[w].phase = "claimed"
    /\ copy' = [copy EXCEPT ![sender[w].attempt] = "travelling"]
    /\ sender' = [sender EXCEPT ![w].phase = "posted"]
    /\ UNCHANGED <<row, events, allowed>>

\* HTTP 429 and 5xx may be tried again, the other error statuses may not.
AnsweredRefusal(w) ==
    /\ sender[w].phase = "posted"
    /\ copy[sender[w].attempt] = "refused"
    /\ row' \in {FailedRow("refused", FALSE), FailedRow("refused", CanRetry)}
    /\ SenderStops(w)
    /\ UNCHANGED <<copy, events, allowed>>

\* Mutant of AfterOpenAnswer: a transport error is tried again.
AfterOpenAnswerMutant == FailedRow("open", CanRetry)

\* ambiguous_transport, invalid_json, missing_message_id.
AfterOpenAnswer == FailedRow("open", FALSE)

AnswerLost(w) ==
    /\ sender[w].phase = "posted"
    /\ row' = AfterOpenAnswer
    /\ SenderStops(w)
    /\ UNCHANGED <<copy, events, allowed>>

Answered(n) == copy[n] \in {"taken", "failed", "delivered", "read"}

AnsweredSuccess(w) ==
    /\ sender[w].phase = "posted"
    /\ Answered(sender[w].attempt)
    /\ row.id \in {0, sender[w].attempt}
    /\ row' = [row EXCEPT !.status = "sent", !.id = sender[w].attempt, !.code = "",
                          !.retryable = FALSE, !.due = TRUE]
    /\ SenderStops(w)
    /\ UNCHANGED <<copy, events, allowed>>

\* WhatsAppIdempotencyConflict ends the batch and leaves the row as it is.
IdConflict(w) ==
    /\ sender[w].phase = "posted"
    /\ Answered(sender[w].attempt)
    /\ row.id \notin {0, sender[w].attempt}
    /\ SenderStops(w)
    /\ UNCHANGED <<row, copy, events, allowed>>

SenderCrash(w) ==
    /\ sender[w].phase # "idle"
    /\ SenderStops(w)
    /\ UNCHANGED <<row, copy, events, allowed>>

\* Mutant of StaleClaim: a claim nobody finished is queued again.
StaleClaimMutant == [row EXCEPT !.status = "queued"]

StaleClaim == FailedRow("open", FALSE)

\* Mutant of RecoverStale: a message without attempts left is not looked at.
RecoverStaleMutant ==
    /\ row.status = "sending" /\ row.attempts < MaxSends
    /\ row' = StaleClaim
    /\ UNCHANGED <<copy, events, allowed, sender>>

\* recover_stale_whatsapp_sends, at the start of every batch: the claim is five
\* minutes old, whether its sender is dead or slow.
RecoverStale ==
    /\ row.status = "sending"
    /\ row' = StaleClaim
    /\ UNCHANGED <<copy, events, allowed, sender>>

\* whatsapp_retry_v2
ManualRetry ==
    /\ row.status = "failed" /\ row.retryable
    /\ row' = [row EXCEPT !.status = "queued", !.code = "", !.retryable = FALSE, !.due = TRUE]
    /\ UNCHANGED <<copy, events, allowed, sender>>
-----------------------------------------------------------------------------
\* The receipts the platform has issued of a copy; any of them may come, again
\* and in any order, as long as the id matches the row's.
Issued(n) ==
    CASE copy[n] = "taken" -> {"sent"}
      [] copy[n] = "failed" -> {"sent", "failed"}
      [] copy[n] = "delivered" -> {"sent", "delivered"}
      [] copy[n] = "read" -> {"sent", "delivered", "read"}
      [] OTHER -> {}

\* Mutant of Applies: an older status is written over a newer one.
AppliesMutant(status) == status \in Shown

\* What a receipt does to the row, unless it is out of order.  The order is
\* told from the times of two clocks in whole seconds: either is possible.
Applies(status) == status \in Shown /\ Rank(status) >= Rank(row.status)

AfterReceipt(status) ==
    IF Applies(status)
    THEN {[row EXCEPT !.status = status, !.code = "", !.retryable = FALSE, !.due = TRUE]}
    ELSE IF status = "failed" /\ row.status \notin {"delivered", "read"}
    THEN {FailedRow("reported", retryable) : retryable \in BOOLEAN}
    ELSE {row}

\* Mutant of IsNew: a repeated receipt is processed again.
IsNewMutant(n, status) == TRUE

IsNew(n, status) == <<n, status>> \notin events

\* process_whatsapp_status_receipt: events of an unknown id are refused.
ReceiptComes ==
    /\ row.id # 0
    /\ \E status \in Issued(row.id) :
          /\ IsNew(row.id, status)
          /\ events' = events \cup {<<row.id, status>>}
          /\ row' \in AfterReceipt(status) \cup {row}
    /\ UNCHANGED <<copy, allowed, sender>>
-----------------------------------------------------------------------------
\* The platform and the network.
Arrives == \E n \in Attempt :
    /\ copy[n] = "travelling"
    /\ \E state \in {"lost", "refused", "taken"} : copy' = [copy EXCEPT ![n] = state]
    /\ UNCHANGED <<row, events, allowed, sender>>

Moves == {<<"taken", "failed">>, <<"taken", "delivered">>, <<"delivered", "read">>}
Delivers == \E n \in Attempt, state \in CopyState :
    /\ <<copy[n], state>> \in Moves
    /\ copy' = [copy EXCEPT ![n] = state]
    /\ UNCHANGED <<row, events, allowed, sender>>

TimePasses ==
    /\ ~row.due
    /\ row' = [row EXCEPT !.due = TRUE]
    /\ UNCHANGED <<copy, events, allowed, sender>>

\* The service window closes or opens, consent, contact, conversation, lead or
\* template change.
PolicyChanges ==
    /\ allowed' = ~allowed
    /\ UNCHANGED <<row, copy, events, sender>>
-----------------------------------------------------------------------------
Dispatch(w) == AttemptLimit(w) \/ PolicyRefuses(w) \/ Claim(w)
Sends(w) ==
    \/ PrepareFails(w) \/ Post(w) \/ AnsweredRefusal(w)
    \/ AnsweredSuccess(w) \/ AnswerLost(w) \/ IdConflict(w)

MessageNext ==
    \/ Queue
    \/ \E w \in Sender : Dispatch(w) \/ RateLimited(w) \/ Sends(w) \/ SenderCrash(w)
    \/ RecoverStale
    \/ ManualRetry
    \/ ReceiptComes
    \/ Arrives \/ Delivers
    \/ TimePasses \/ PolicyChanges

MessageSpec == MessageInit /\ [][MessageNext]_messageVars

\* dispatch_whatsapp_messages runs again and again, and the rate limit and the
\* policy do not keep every run from the message: its state is reached now and
\* then.  A dispatcher that does not die goes on.  Nothing is assumed of the
\* platform, of users or of crashes.
MessageFairness ==
    /\ \A w \in Sender : SF_messageVars(Dispatch(w)) /\ WF_messageVars(Sends(w))
    /\ WF_messageVars(RecoverStale)
    /\ WF_messageVars(TimePasses)
-----------------------------------------------------------------------------
(***************************************************************************)
(* Safety.                                                                 *)
(***************************************************************************)
\* A copy that may still reach the customer.
Live(n) == copy[n] \in {"travelling", "taken", "delivered", "read"}

\* The customer never gets a message twice: whatever answers are lost or late,
\* dispatchers die or are taken for dead, and receipts are repeated, a second
\* copy is only posted once the platform is known to have refused or failed
\* every earlier one.
OneCopy == Cardinality({n \in Attempt : Live(n)}) <= 1

\* A message that is shown as failed for a definite reason, or that will be
\* sent again, has no live copy and no dispatcher that may still make one: only
\* open outcomes, which ask for a manual check, hide what the platform has.
FailureIsTrue ==
    Dispatchable \/ (row.status = "failed" /\ row.code # "open") =>
        /\ \A n \in Attempt : ~Live(n)
        /\ \A w \in Sender : sender[w].phase # "claimed"

\* A message shown as delivered stays so, or becomes read, whatever late
\* answers, retries and older receipts follow.
DeliveryIsFinal ==
    [][/\ row.status = "delivered" => row'.status \in {"delivered", "read"}
       /\ row.status = "read" => row'.status = "read"]_messageVars
-----------------------------------------------------------------------------
(***************************************************************************)
(* Liveness, under MessageFairness.                                        *)
(***************************************************************************)
Settled == row.status \in Shown \/ (row.status = "failed" /\ ~row.retryable)

\* A queued message does not stay queued, half sent or waiting for a retry: it
\* is sent, or fails for good.
MessageSettles == row.status = "queued" ~> Settled
=============================================================================
