---------------------------- MODULE InboundReceipt ----------------------------
(***************************************************************************)
(* One event that a provider pushed to the webhook: its durable receipt,   *)
(* the processes that claim the receipt and turn it into a lead, and the   *)
(* recovery of abandoned claims (leads/inbound.py, leads/webhooks.py,      *)
(* retry_inbound_leads).                                                   *)
(*                                                                         *)
(* A Meta receipt is recorded by the webhook and processed by the          *)
(* scheduler: the lead is fetched over the network between two             *)
(* transactions, each of which checks that the claim is still the          *)
(* receipt's.  A WhatsApp receipt is processed by the webhook itself and   *)
(* nobody checks the claim again.                                          *)
(***************************************************************************)
EXTENDS Integers

CONSTANTS
    Worker,       \* processes: the scheduler's command, webhooks, the console
    Family,       \* providers explored, of "meta" and "whatsapp"
    MaxAttempts,  \* max_attempts of the retries
    MaxClaims     \* bound: claims explored

ASSUME FamilyAssumption == Family \subseteq {"meta", "whatsapp"}
ASSUME BoundsAssumption ==
    MaxAttempts \in Nat \ {0} /\ MaxClaims \in Nat /\ MaxAttempts <= MaxClaims

VARIABLES
    receipt,   \* the row; late: a processing row is older than the claim timeout
    leads,     \* leads stored for the event
    claims,    \* history: claims taken, in order
    worker     \* what each process is doing, with what it read when it claimed

vars == <<receipt, leads, claims, worker>>
-----------------------------------------------------------------------------
Status == {"absent", "pending", "processing", "processed", "failed"}

ReceiptRecord == [family : Family, status : Status, attempts : 0..MaxClaims, linked : BOOLEAN,
                  late : BOOLEAN]
WorkerRecord == [phase : {"idle", "fetching", "fetched", "stored", "failing"},
                 attempts : 0..MaxClaims, claim : 0..MaxClaims]

NoClaim == [phase |-> "idle", attempts |-> 0, claim |-> 0]

\* A processed receipt is linked to its lead, and only a claimed one is late.
TypeOK ==
    /\ receipt \in ReceiptRecord
    /\ leads \in 0..MaxClaims
    /\ claims \in 0..MaxClaims
    /\ worker \in [Worker -> WorkerRecord]
    /\ receipt.late => receipt.status = "processing"
    /\ receipt.status = "processed" => receipt.linked /\ leads > 0

Init ==
    /\ \E family \in Family :
          receipt = [family |-> family, status |-> "absent", attempts |-> 0,
                     linked |-> FALSE, late |-> FALSE]
    /\ leads = 0
    /\ claims = 0
    /\ worker = [w \in Worker |-> NoClaim]

Goes(w, phase) == worker' = [worker EXCEPT ![w].phase = phase]
Stops(w) == worker' = [worker EXCEPT ![w] = NoClaim]

Becomes(status) == receipt' = [receipt EXCEPT !.status = status, !.late = FALSE]
-----------------------------------------------------------------------------
\* record_inbound_event: a redelivery finds the receipt and changes nothing.
Record ==
    /\ receipt.status = "absent"
    /\ Becomes("pending")
    /\ UNCHANGED <<leads, claims, worker>>

Claims(w) ==
    /\ worker[w].phase = "idle"
    /\ claims < MaxClaims
    /\ receipt' = [receipt EXCEPT !.status = "processing", !.late = FALSE,
                                  !.attempts = @ + 1]
    /\ claims' = claims + 1
    /\ worker' = [worker EXCEPT ![w] =
         [phase |-> "fetching", attempts |-> receipt.attempts + 1, claim |-> claims + 1]]
    /\ UNCHANGED leads

\* process_inbound_receipt, called by the scheduler for a pending receipt and
\* by the WhatsApp webhook also for a failed one that is delivered again.
ClaimFirst(w) ==
    /\ \/ receipt.status = "pending" /\ receipt.attempts < MaxAttempts
       \/ receipt.family = "whatsapp" /\ receipt.status \in {"pending", "failed"}
    /\ Claims(w)

\* retry_inbound_receipt_by_id
MayRetry ==
    /\ receipt.status = "failed" \/ (receipt.status = "processing" /\ receipt.late)
    /\ receipt.attempts < MaxAttempts

Retry(w) == MayRetry /\ Claims(w)

\* Mutant of Recover: a claim abandoned at the last attempt is not recovered.
RecoverMutant ==
    /\ receipt.status = "processing" /\ receipt.late
    /\ receipt.attempts < MaxAttempts
    /\ Becomes("failed")
    /\ UNCHANGED <<leads, claims, worker>>

\* recover_stale_inbound_claims
Recover ==
    /\ receipt.status = "processing" /\ receipt.late
    /\ Becomes("failed")
    /\ UNCHANGED <<leads, claims, worker>>

\* inbound_claim_timeout_minutes pass.
TurnsLate ==
    /\ receipt.status = "processing" /\ ~receipt.late
    /\ receipt' = [receipt EXCEPT !.late = TRUE]
    /\ UNCHANGED <<leads, claims, worker>>
-----------------------------------------------------------------------------
\* Mutant of Owns: the number of the claim is not compared.
OwnsMutant(w) == receipt.family = "whatsapp" \/ receipt.status = "processing"

\* _owns_meta_inbound_claim; the WhatsApp path has no such check.
Owns(w) ==
    \/ receipt.family = "whatsapp"
    \/ receipt.status = "processing" /\ receipt.attempts = worker[w].attempts

\* fetch_meta_lead answers, or anything before the transaction fails.
Fetch(w) ==
    /\ worker[w].phase = "fetching"
    /\ \E phase \in {"fetched", "failing"} : Goes(w, phase)
    /\ UNCHANGED <<receipt, leads, claims>>

\* Mutant of Found: an earlier lead of the event is not looked up.
FoundMutant == FALSE

\* process_meta_lead_receipt, process_whatsapp_receipt: the lead of the event
\* is found under its lock, or created.
Found == leads > 0

Store(w) ==
    /\ worker[w].phase = "fetched"
    /\ Owns(w)
    /\ leads' = IF Found THEN leads ELSE leads + 1
    /\ Goes(w, "stored")
    /\ UNCHANGED <<receipt, claims>>

StoreFails(w) ==
    /\ worker[w].phase = "fetched"
    /\ Goes(w, "failing")
    /\ UNCHANGED <<receipt, leads, claims>>

\* The second transaction of _process_claimed_meta_inbound and of
\* process_claimed_inbound_receipt.
Finish(w) ==
    /\ worker[w].phase = "stored"
    /\ IF Owns(w)
       THEN receipt' = [receipt EXCEPT !.status = "processed", !.linked = TRUE,
                                       !.late = FALSE]
       ELSE UNCHANGED receipt
    /\ Stops(w)
    /\ UNCHANGED <<leads, claims>>

\* Their exception handlers.  The one of WhatsApp saves the number of attempts
\* that the process read when it claimed.
Fail(w) ==
    /\ worker[w].phase = "failing"
    /\ IF Owns(w)
       THEN receipt' = [receipt EXCEPT !.status = "failed", !.late = FALSE,
                                       !.attempts = worker[w].attempts]
       ELSE UNCHANGED receipt
    /\ Stops(w)
    /\ UNCHANGED <<leads, claims>>

Crash(w) ==
    /\ worker[w].phase # "idle"
    /\ Stops(w)
    /\ UNCHANGED <<receipt, leads, claims>>
-----------------------------------------------------------------------------
Works(w) == Fetch(w) \/ Store(w) \/ StoreFails(w) \/ Finish(w) \/ Fail(w)

Next ==
    \/ Record \/ Recover \/ TurnsLate
    \/ \E w \in Worker :
         \/ ClaimFirst(w) \/ Retry(w)
         \/ Fetch(w) \/ Store(w) \/ StoreFails(w) \/ Finish(w) \/ Fail(w)
         \/ Crash(w)

Spec == Init /\ [][Next]_vars

\* run_scheduled_tasks calls retry_inbound_leads every 300 seconds: abandoned
\* claims are recovered, then pending and failed receipts are claimed.  A
\* process at work goes on unless it dies.
ReceiptFairness ==
    /\ WF_vars(Recover)
    /\ WF_vars(TurnsLate)
    /\ WF_vars(\E w \in Worker : ClaimFirst(w) \/ (receipt.status = "failed" /\ Retry(w)))
    /\ \A w \in Worker : WF_vars(Works(w))
-----------------------------------------------------------------------------
\* However often the event is delivered, claimed, abandoned and retried, it is
\* stored as one lead.
OneLead == leads <= 1

\* Only the newest claim decides what becomes of a Meta receipt that is being
\* processed, and nothing is decided again once it is processed: the late
\* answer or failure of a replaced process changes nothing.
OwnerDecides ==
    [][receipt.family = "meta" /\ receipt' # receipt =>
         \A w \in Worker :
            worker[w].phase \in {"stored", "failing"} /\ worker'[w].phase = "idle"
              => worker[w].claim = claims /\ receipt.status = "processing"]_vars

\* The attempts recorded are the claims taken, so max_attempts bounds the work
\* spent on a Meta event that keeps failing.
AttemptsAreCounted == receipt.family = "meta" => receipt.attempts = claims

\* A recorded Meta event becomes a lead or uses up its attempts, although processes
\* die with its claim.
EventEnds ==
    receipt.family = "meta" /\ receipt.status = "pending" ~>
        \/ receipt.status = "processed"
        \/ receipt.status = "failed" /\ receipt.attempts >= MaxAttempts
=============================================================================
