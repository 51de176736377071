---------------------------- MODULE EventDelivery ----------------------------
(***************************************************************************)
(* Delivery of one marketing event (a row of lead_event_outbox) to an      *)
(* advertising provider: durable attempts, the handoff boundary, receipts, *)
(* asynchronous results, crash recovery and manual review                  *)
(* (leads/marketing_delivery.py, leads/google_data_manager.py,             *)
(* leads/marketing_review.py).                                             *)
(*                                                                         *)
(* Every action is one database transaction (they lock lead, then outbox)  *)
(* or one interaction with the provider; what a process remembers between  *)
(* two of them is in worker[w].  Time appears only as the facts the code   *)
(* tests: an attempt is "aged" once its claim lease, or after the handoff  *)
(* the review window, is over; a row is "due" once its backoff is over.    *)
(* An updated_at comparison is "w is in fresh": the row has not been saved *)
(* since w read it.                                                        *)
(***************************************************************************)
EXTENDS Integers, FiniteSets

CONSTANTS
    Worker,         \* processes that may dispatch: web requests, scheduler, cron
    Provider,       \* "meta", "google" or "validation" (Google validateOnly)
    MaxAttempts,    \* SITEOS_MARKETING_RETRY_MAX_ATTEMPTS
    MaxGeneration   \* bound: generations of attempts explored

ASSUME ProviderAssumption == Provider \in {"meta", "google", "validation"}
ASSUME MaxAttemptsAssumption == MaxAttempts \in Nat
ASSUME MaxGenerationAssumption == MaxGeneration \in Nat \ {0}

VARIABLES
    lead,      \* trashed; sendable = site, consent, route and integration allow it
    outbox,    \* the summary row
    latest,    \* highest generation created so far
    attempt,   \* lead_event_attempt by generation, with its lead_event_result
    worker,    \* what each process is doing and what it remembers
    flight,    \* generations whose POST may still reach the provider
    verdict    \* what the provider did with each generation

vars == <<lead, outbox, latest, attempt, worker, flight, verdict>>
-----------------------------------------------------------------------------
Generation == 1..MaxGeneration

Active == {"claimed", "handoff", "unknown"}
Final == {"sent", "failed", "partial"}
CancelResult == {"pending", "skipped"}
Result == Final \cup CancelResult \cup {"unknown", "processing", "validated", ""}
Status == (Result \ {""}) \cup {"sending"}
AttemptState == Active \cup {"none", "accepted", "failed", "cancelled"}
Phase == {"idle", "entry", "claiming", "claimed", "sending", "awaiting",
          "repair", "repairThenRead", "repairThenPoll", "reading", "rereading",
          "polling", "repairResult"}

AttemptRecord == [state : AttemptState, result : Result, final : Final \cup {""},
                  number : Nat, aged : BOOLEAN, stale : BOOLEAN]
WorkerRecord == [phase : Phase, gen : 0..MaxGeneration, number : Nat,
                 seen : Result, retry : BOOLEAN]
OutboxRecord == [status : Status, attempts : Nat, request : 0..MaxGeneration,
                 due : BOOLEAN, fresh : SUBSET Worker]

NoAttempt == [state |-> "none", result |-> "", final |-> "", number |-> 0,
              aged |-> FALSE, stale |-> FALSE]
Idle == [phase |-> "idle", gen |-> 0, number |-> 0, seen |-> "", retry |-> FALSE]

IsGoogle == Provider # "meta"
AcceptedResult == CASE Provider = "meta" -> "sent"
                    [] Provider = "google" -> "processing"
                    [] OTHER -> "validated"

Larger(m, n) == IF m > n THEN m ELSE n
ActiveGenerations == {g \in Generation : attempt[g].state \in Active}

TypeOK ==
    /\ lead \in [trashed : BOOLEAN, sendable : BOOLEAN]
    /\ outbox \in OutboxRecord
    /\ latest \in 0..MaxGeneration
    /\ attempt \in [Generation -> AttemptRecord]
    /\ worker \in [Worker -> WorkerRecord]
    /\ flight \subseteq Generation
    /\ verdict \in [Generation -> Final \cup {"none", "taken"}]

Init ==
    /\ lead \in [trashed : {FALSE}, sendable : BOOLEAN]
    /\ outbox = [status |-> "pending", attempts |-> 0, request |-> 0,
                 due |-> TRUE, fresh |-> {}]
    /\ latest = 0
    /\ attempt = [g \in Generation |-> NoAttempt]
    /\ worker = [w \in Worker |-> Idle]
    /\ flight = {}
    /\ verdict = [g \in Generation |-> "none"]
-----------------------------------------------------------------------------
\* The summary row after the saves below; each writes updated_at.
Saved(row) == [row EXCEPT !.fresh = {}]
WithStatus(s) == Saved([outbox EXCEPT !.status = s, !.due = TRUE])

\* apply_google_result: the durable result of request g becomes the summary.
WithResult(row, final) ==
    Saved([row EXCEPT !.status = final, !.due = (final # "failed")])

\* repair_event_projection(attempt): seen is the result_status of the caller's
\* copy of attempt g, which another process may have finished since.
Projected(g, seen, final) ==
    LET counted == Larger(outbox.attempts, attempt[g].number) IN
    IF latest > g
    THEN outbox
    ELSE IF seen = "processing" /\ final # ""
    THEN WithResult([outbox EXCEPT !.attempts = counted, !.request = g], final)
    ELSE IF /\ seen = "processing" /\ outbox.status = "processing"
            /\ outbox.request = g /\ outbox.attempts = attempt[g].number
    THEN outbox
    ELSE [status |-> seen,
          attempts |-> IF seen \in CancelResult THEN outbox.attempts ELSE counted,
          request |-> IF seen = AcceptedResult THEN g
                      ELSE IF seen = "failed" /\ IsGoogle THEN 0
                      ELSE outbox.request,
          due |-> (seen # "failed"),
          fresh |-> {}]

\* worker[w] goes on to a phase, keeping what it remembers.
Goes(w, phase) == worker' = [worker EXCEPT ![w].phase = phase]
Stops(w) == worker' = [worker EXCEPT ![w] = Idle]
Remembers(w, phase, g, seen) ==
    worker' = [worker EXCEPT ![w].phase = phase, ![w].gen = g, ![w].seen = seen]
-----------------------------------------------------------------------------
\* dispatch_pending_outbox picks the row (attempts, backoff, trash filters), or
\* a request that just queued the event dispatches it.
Dispatch(w) ==
    /\ worker[w].phase = "idle"
    /\ ~lead.trashed
    /\ outbox.due
    /\ \/ outbox.status \in {"pending", "processing"}
       \/ outbox.status = "failed" /\ outbox.attempts < MaxAttempts
    /\ Goes(w, "entry")
    /\ UNCHANGED <<lead, outbox, latest, attempt, flight, verdict>>

\* An operator's exact retry marks the failed row as sending and remembers its
\* updated_at as proof that the claim is still its own.
ManualRetry(w) ==
    /\ worker[w].phase = "idle"
    /\ outbox.status = "failed" /\ outbox.attempts < MaxAttempts /\ outbox.due
    /\ ~lead.trashed
    /\ outbox' = [outbox EXCEPT !.status = "sending", !.fresh = {w}]
    /\ worker' = [worker EXCEPT ![w].phase = "entry", ![w].retry = TRUE]
    /\ UNCHANGED <<lead, latest, attempt, flight, verdict>>

OwnsSending(w) == worker[w].retry /\ outbox.status = "sending" /\ w \in outbox.fresh

\* meta_entry_eligible: no durable handoff may be overwritten by the preflight.
MetaEntry(w) ==
    LET handedOff == \E g \in Generation :
                        attempt[g].state \in {"handoff", "unknown", "accepted"}
        allowed == ~lead.trashed /\ lead.sendable
    IN
    /\ worker[w].phase = "entry" /\ ~IsGoogle
    /\ IF handedOff \/ outbox.status \notin {"pending", "failed", "sending"} \/ allowed
       THEN Goes(w, "claiming") /\ UNCHANGED outbox
       ELSE /\ Stops(w)
            /\ outbox' = IF outbox.status = "sending" /\ ~OwnsSending(w)
                         THEN outbox
                         ELSE WithStatus(IF lead.trashed THEN "pending" ELSE "skipped")
    /\ UNCHANGED <<lead, latest, attempt, flight, verdict>>

\* The accepted receipt that forbids a new upload.
Blocking(g) ==
    /\ attempt[g].state = "accepted"
    /\ IsGoogle => g = latest /\ attempt[g].final # "failed"

\* dispatch_google_now up to its first read: an accepted receipt is projected
\* before the summary is trusted.
GoogleEntry(w) ==
    /\ worker[w].phase = "entry" /\ IsGoogle
    /\ IF lead.trashed
       THEN Stops(w)
       ELSE IF \E g \in Generation : Blocking(g)
       THEN Remembers(w, "repairThenRead", latest, attempt[latest].result)
       ELSE Goes(w, "reading")
    /\ UNCHANGED <<lead, outbox, latest, attempt, flight, verdict>>

\* The result that the summary row points at, if it has been recorded.
ResultOfSummary ==
    {g \in Generation : /\ attempt[g].final # "" /\ outbox.request = g
                        /\ outbox.attempts = attempt[g].number}

\* refresh_google_outbox_status: remember the request, its number and the row's
\* version, then GET without a lock.
StartsPoll(w) ==
    /\ worker' = [worker EXCEPT ![w].phase = "polling", ![w].gen = outbox.request,
                                ![w].number = outbox.attempts]
    /\ outbox' = [outbox EXCEPT !.fresh = @ \cup {w}]

\* dispatch_google_now after that read: poll an accepted upload, or claim.
GoogleRead(w) ==
    /\ worker[w].phase = "reading"
    /\ \/ /\ outbox.status = "processing"
          /\ \E g \in ResultOfSummary : Remembers(w, "repairResult", g, attempt[g].final)
          /\ UNCHANGED outbox
       \/ /\ outbox.status = "processing" /\ ResultOfSummary = {}
          /\ StartsPoll(w)
       \/ /\ outbox.status # "processing"
          /\ Goes(w, "claiming") /\ UNCHANGED outbox
    /\ UNCHANGED <<lead, latest, attempt, flight, verdict>>

\* The same worker, right after its own upload was recorded as accepted.
GoogleReread(w) ==
    /\ worker[w].phase = "rereading"
    /\ IF outbox.status = "processing"
       THEN StartsPoll(w)
       ELSE Stops(w) /\ UNCHANGED outbox
    /\ UNCHANGED <<lead, latest, attempt, flight, verdict>>
-----------------------------------------------------------------------------
\* claim_meta_event, one disjunct per way out of it.
ClaimWhileTrashed(w) ==
    /\ worker[w].phase = "claiming"
    /\ lead.trashed
    /\ outbox' = IF OwnsSending(w) THEN Saved([outbox EXCEPT !.status = "pending"])
                                   ELSE outbox
    /\ Stops(w)
    /\ UNCHANGED <<lead, latest, attempt, flight, verdict>>

ClaimFindsReceipt(w) ==
    /\ worker[w].phase = "claiming"
    /\ ~lead.trashed
    /\ \E g \in Generation :
          /\ Blocking(g)
          /\ outbox' = Projected(g, attempt[g].result, attempt[g].final)
    /\ Stops(w)
    /\ UNCHANGED <<lead, latest, attempt, flight, verdict>>

\* Mutant of Expired: the lease also ends a handoff nobody heard of again.
ExpiredMutant(g) == attempt[g].state \in Active /\ attempt[g].aged

Expired(g) == attempt[g].state = "claimed" /\ attempt[g].aged
Claimable(w) ==
    /\ latest < MaxGeneration
    /\ IF ActiveGenerations # {}
       THEN \A g \in ActiveGenerations : Expired(g)
       ELSE outbox.status \in {"pending", "failed"} \/ OwnsSending(w)

ClaimBlocked(w) ==
    /\ worker[w].phase = "claiming"
    /\ ~lead.trashed
    /\ \A g \in Generation : ~Blocking(g)
    /\ ~Claimable(w)
    /\ Stops(w)
    /\ UNCHANGED <<lead, outbox, latest, attempt, flight, verdict>>

Recorded(a, state, result) == [a EXCEPT !.state = state, !.result = result]

Cancelled(a, result) == Recorded(a, "cancelled", result)
NewAttempt == [NoAttempt EXCEPT !.state = "claimed", !.number = outbox.attempts + 1]

ClaimNew(w) ==
    /\ worker[w].phase = "claiming"
    /\ ~lead.trashed
    /\ \A g \in Generation : ~Blocking(g)
    /\ Claimable(w)
    /\ latest' = latest + 1
    /\ attempt' = [g \in Generation |->
                     IF g = latest + 1 THEN NewAttempt
                     ELSE IF g \in ActiveGenerations THEN Cancelled(attempt[g], "pending")
                     ELSE attempt[g]]
    /\ outbox' = Saved([outbox EXCEPT !.status = "sending"])
    /\ worker' = [worker EXCEPT ![w].phase = "claimed", ![w].gen = latest + 1]
    /\ UNCHANGED <<lead, flight, verdict>>
-----------------------------------------------------------------------------
\* begin_meta_handoff: the last gate before the network, under all the locks.
Handoff(w) ==
    LET g == worker[w].gen
        changed == attempt[g].stale \/ attempt[g].aged \/ outbox.status # "sending"
        cancel(result) == /\ attempt' = [attempt EXCEPT ![g] = Cancelled(@, result)]
                          /\ Remembers(w, "repair", g, result)
    IN
    /\ worker[w].phase = "claimed"
    /\ \/ /\ attempt[g].state # "claimed"
          /\ Stops(w) /\ UNCHANGED attempt
       \/ /\ attempt[g].state = "claimed" /\ lead.trashed
          /\ cancel("pending")
       \/ /\ attempt[g].state = "claimed" /\ ~lead.trashed /\ ~lead.sendable
          /\ cancel("skipped")
       \/ /\ attempt[g].state = "claimed" /\ ~lead.trashed /\ lead.sendable /\ changed
          /\ cancel("pending")
       \/ /\ attempt[g].state = "claimed" /\ ~lead.trashed /\ lead.sendable /\ ~changed
          /\ attempt' = [attempt EXCEPT ![g].state = "handoff", ![g].aged = FALSE]
          /\ Goes(w, "sending")
    /\ UNCHANGED <<lead, outbox, latest, flight, verdict>>

\* The POST leaves.
Send(w) ==
    /\ worker[w].phase = "sending"
    /\ flight' = flight \cup {worker[w].gen}
    /\ Goes(w, "awaiting")
    /\ UNCHANGED <<lead, outbox, latest, attempt, verdict>>

\* Mutant of FinishFrom: no state is checked before an answer is stored.
FinishFromMutant(outcome) == AttemptState

\* finish_meta_attempt: the states in which an outcome may be stored.
FinishFrom(outcome) == CASE outcome = "accepted" -> {"handoff", "unknown"}
                         [] outcome = "failed" -> {"claimed", "handoff"}
                         [] OTHER -> {"handoff"}

\* Mutant of ResultOf: an ambiguous answer is shown as accepted.
ResultOfMutant(outcome) == IF outcome = "failed" THEN "failed" ELSE AcceptedResult

ResultOf(outcome) == IF outcome = "accepted" THEN AcceptedResult ELSE outcome

Finish(w, outcome) ==
    LET g == worker[w].gen IN
    IF attempt[g].state \in FinishFrom(outcome)
    THEN /\ attempt' = [attempt EXCEPT ![g] = Recorded(@, outcome, ResultOf(outcome))]
         /\ Remembers(w, IF Provider = "google" /\ outcome = "accepted"
                         THEN "repairThenPoll" ELSE "repair", g, ResultOf(outcome))
    ELSE Stops(w) /\ UNCHANGED attempt

\* Token or payload preparation failed before any handoff.
PrepareFails(w) ==
    /\ worker[w].phase = "claimed"
    /\ Finish(w, "failed")
    /\ UNCHANGED <<lead, outbox, latest, flight, verdict>>

\* The answer to the POST: a confirmed acceptance, a confirmed rejection
\* (4xx), or anything else, which may come from either.
Answer(w) ==
    LET g == worker[w].gen IN
    /\ worker[w].phase = "awaiting"
    /\ \/ verdict[g] # "none" /\ Finish(w, "accepted")
       \/ verdict[g] = "none" /\ g \notin flight /\ Finish(w, "failed")
       \/ Finish(w, "unknown")
    /\ UNCHANGED <<lead, outbox, latest, flight, verdict>>

\* The process dies, or the transaction it is in fails (DatabaseError): nothing
\* durable changes and what it remembered is gone.
Crash(w) ==
    /\ worker[w].phase # "idle"
    /\ Stops(w)
    /\ UNCHANGED <<lead, outbox, latest, attempt, flight, verdict>>

\* _repair_safely, a transaction of its own after the receipt's.
Repair(w) ==
    LET g == worker[w].gen IN
    /\ worker[w].phase \in {"repair", "repairThenRead", "repairThenPoll"}
    /\ outbox' = Projected(g, worker[w].seen, attempt[g].final)
    /\ CASE worker[w].phase = "repair" -> Stops(w)
         [] worker[w].phase = "repairThenRead" -> Goes(w, "reading")
         [] OTHER -> Goes(w, "rereading")
    /\ UNCHANGED <<lead, latest, attempt, flight, verdict>>

\* It swallows a DatabaseError, and the caller goes on.
RepairFails(w) ==
    /\ \/ worker[w].phase = "repairThenRead" /\ Goes(w, "reading")
       \/ worker[w].phase = "repairThenPoll" /\ Goes(w, "rereading")
    /\ UNCHANGED <<lead, outbox, latest, attempt, flight, verdict>>
-----------------------------------------------------------------------------
\* _commit_google_poll: the answer counts only for the request still on the row.
Bound(w) == /\ outbox.status = "processing"
            /\ outbox.request = worker[w].gen /\ outbox.attempts = worker[w].number

PollUndecided(w) ==
    /\ worker[w].phase = "polling"
    /\ outbox' = IF Bound(w) /\ w \in outbox.fresh
                 THEN Saved([outbox EXCEPT !.due = FALSE]) ELSE outbox
    /\ Stops(w)
    /\ UNCHANGED <<lead, latest, attempt, flight, verdict>>

PollDecided(w) ==
    LET g == worker[w].gen IN
    /\ worker[w].phase = "polling"
    /\ g # 0
    /\ verdict[g] \in Final
    /\ IF Bound(w) /\ latest = g /\ attempt[g].state = "accepted"
       THEN /\ attempt' = [attempt EXCEPT ![g].final = IF @ = "" THEN verdict[g] ELSE @]
            /\ Remembers(w, "repairResult", g, attempt'[g].final)
       ELSE Stops(w) /\ UNCHANGED attempt
    /\ UNCHANGED <<lead, outbox, latest, flight, verdict>>

\* repair_google_result
RepairResult(w) ==
    LET g == worker[w].gen
        row == WithResult(outbox, worker[w].seen)
        matches == /\ latest = g /\ outbox.attempts = attempt[g].number
                   /\ outbox.request = g /\ outbox.status = "processing"
    IN
    /\ worker[w].phase = "repairResult"
    /\ outbox' = IF matches THEN row ELSE outbox
    /\ Stops(w)
    /\ UNCHANGED <<lead, latest, attempt, flight, verdict>>
-----------------------------------------------------------------------------
\* recover_legacy_meta_handoffs, run before every dispatch round: results and
\* receipts the summary does not show yet are queued for repair ...
RecoverResult(w) ==
    /\ worker[w].phase = "idle"
    /\ outbox.status = "processing"
    /\ \E g \in ResultOfSummary :
          g = latest /\ Remembers(w, "repairResult", g, attempt[g].final)
    /\ UNCHANGED <<lead, outbox, latest, attempt, flight, verdict>>

ProjectionStatus(g) == IF attempt[g].final # "" THEN attempt[g].final ELSE attempt[g].result

\* Mutant of RecoverReceipt: accepted receipts are not looked for.
RecoverReceiptMutant(w) ==
    /\ worker[w].phase = "idle"
    /\ latest # 0
    /\ attempt[latest].state \in {"failed", "unknown", "cancelled"}
    /\ ProjectionStatus(latest) \notin {"", outbox.status}
    /\ Remembers(w, "repair", latest, attempt[latest].result)
    /\ UNCHANGED <<lead, outbox, latest, attempt, flight, verdict>>

RecoverReceipt(w) ==
    /\ worker[w].phase = "idle"
    /\ latest # 0
    /\ attempt[latest].state \in {"accepted", "failed", "unknown", "cancelled"}
    /\ ProjectionStatus(latest) \notin {"", outbox.status}
    /\ Remembers(w, "repair", latest, attempt[latest].result)
    /\ UNCHANGED <<lead, outbox, latest, attempt, flight, verdict>>

\* Mutant of RecoverClaim: expired claims are left to the next dispatch.
RecoverClaimMutant == FALSE /\ UNCHANGED vars

\* ... and an expired claim is cancelled.
RecoverClaim ==
    \E g \in Generation :
    /\ Expired(g)
    /\ attempt' = [attempt EXCEPT ![g] = Cancelled(@, "pending")]
    /\ outbox' = WithStatus("pending")
    /\ UNCHANGED <<lead, latest, worker, flight, verdict>>

\* reconcile_marketing_event by a reviewer who read the provider's records and
\* confirmed that sending has stopped (stopped, confirmed and evidence are
\* required inputs; the model takes them to be true).
Reviewable == latest # 0 /\ attempt[latest].state \in {"unknown", "handoff"}

ReviewAs(outcome) ==
    LET g == latest
        result == ResultOf(outcome)
    IN /\ attempt' = [attempt EXCEPT ![g] = Recorded(@, outcome, result)]
       /\ outbox' = Projected(g, result, attempt[g].final)
       /\ UNCHANGED <<lead, latest, worker, flight, verdict>>

Stopped(g) ==
    /\ g \notin flight
    /\ \A w \in Worker : ~(worker[w].phase = "sending" /\ worker[w].gen = g)

Review ==
    /\ Reviewable
    /\ \/ verdict[latest] # "none" /\ ReviewAs("accepted")
       \/ /\ verdict[latest] = "none" /\ Stopped(latest)
          /\ attempt[latest].aged
          /\ ReviewAs("failed")
-----------------------------------------------------------------------------
\* The world around: edits of the lead, the integration or the payload make the
\* versions a claim captured out of date.
Touched == [g \in Generation |->
              IF attempt[g].state = "claimed" THEN [attempt[g] EXCEPT !.stale = TRUE]
              ELSE attempt[g]]

Edit == /\ attempt' = Touched
        /\ attempt' # attempt
        /\ UNCHANGED <<lead, outbox, latest, worker, flight, verdict>>

\* move_lead_to_trash / restore_lead_from_trash touch the lead, never the row.
TrashOrRestore ==
    /\ lead' = [lead EXCEPT !.trashed = ~@]
    /\ attempt' = Touched
    /\ UNCHANGED <<outbox, latest, worker, flight, verdict>>

\* Consent, site, form, route or integration switched; a form switch leaves the
\* captured versions as they were.
ToggleSendable ==
    /\ lead' = [lead EXCEPT !.sendable = ~@]
    /\ attempt' \in {attempt, Touched}
    /\ UNCHANGED <<outbox, latest, worker, flight, verdict>>

Age == \E g \in Generation :
    /\ attempt[g].state \in Active /\ ~attempt[g].aged
    /\ attempt' = [attempt EXCEPT ![g].aged = TRUE]
    /\ UNCHANGED <<lead, outbox, latest, worker, flight, verdict>>

BackoffEnds ==
    /\ ~outbox.due
    /\ outbox' = [outbox EXCEPT !.due = TRUE]
    /\ UNCHANGED <<lead, latest, attempt, worker, flight, verdict>>

\* The provider takes a request that reached it, or the request is rejected or
\* lost; Google later decides what it took.
ProviderTakes == \E g \in flight :
    /\ flight' = flight \ {g}
    /\ verdict' \in {verdict, [verdict EXCEPT ![g] = "taken"]}
    /\ UNCHANGED <<lead, outbox, latest, attempt, worker>>

ProviderDecides == \E g \in Generation, v \in Final :
    /\ Provider = "google"
    /\ verdict[g] = "taken"
    /\ verdict' = [verdict EXCEPT ![g] = v]
    /\ UNCHANGED <<lead, outbox, latest, attempt, worker, flight>>
-----------------------------------------------------------------------------
\* dispatch_outbox_event, the route of the event's platform.
Enters(w) == IF IsGoogle THEN GoogleEntry(w) ELSE MetaEntry(w)

Dispatches(w) ==
    \/ Enters(w) \/ GoogleRead(w) \/ GoogleReread(w)
    \/ ClaimWhileTrashed(w) \/ ClaimFindsReceipt(w) \/ ClaimBlocked(w) \/ ClaimNew(w)
    \/ Handoff(w) \/ Send(w) \/ Answer(w) \/ Repair(w)
    \/ PollUndecided(w) \/ PollDecided(w) \/ RepairResult(w)

Environment ==
    \/ Review \/ Edit \/ TrashOrRestore \/ ToggleSendable
    \/ Age \/ BackoffEnds \/ ProviderTakes \/ ProviderDecides

Next ==
    \/ \E w \in Worker :
          \/ Dispatch(w) \/ ManualRetry(w) \/ Dispatches(w)
          \/ PrepareFails(w) \/ Crash(w) \/ RepairFails(w)
          \/ RecoverResult(w) \/ RecoverReceipt(w)
    \/ RecoverClaim
    \/ Environment

Spec == Init /\ [][Next]_vars
-----------------------------------------------------------------------------
(***************************************************************************)
(* Safety.                                                                 *)
(***************************************************************************)
\* The provider may hold two uploads of one event only when the earlier one is
\* a Google request that the provider itself reported as failed: crashes, lost
\* answers, expired claims, manual retries and reviews never duplicate one
\* (claim_meta_event, begin_meta_handoff, finish_meta_attempt together).
AtMostOneUpload ==
    \A g, h \in Generation :
        g < h /\ verdict[g] # "none" /\ verdict[h] # "none" => verdict[g] = "failed"

\* A process about to POST is the only one, nothing is under way, and the
\* provider holds nothing of this event undecided, accepted or partly accepted:
\* an ambiguous result is never followed by a blind retry (the promise of the
\* module's docstring and of IMPLEMENTATION_STATUS_HISTORY, "ambiguous results
\* do not become blind retries").
NoBlindRetry ==
    \A w \in Worker :
        worker[w].phase = "sending" =>
            /\ flight = {}
            /\ \A g \in Generation : verdict[g] \in {"none", "failed"}
            /\ \A v \in Worker : worker[v].phase = "sending" => v = w

\* A row the operator may retry, or the scheduler will send, hides no upload:
\* nothing is under way and nothing undecided or accepted is at the provider,
\* whatever stale copy of an attempt was projected last.
RetryableRowsAreClear ==
    outbox.status \in {"pending", "failed", "skipped"} =>
        /\ flight = {}
        /\ \A g \in Generation : verdict[g] \in {"none", "failed"}

\* Neither a process about to POST nor a row that may be retried later leads to
\* a second upload of what the provider may already have.
RetriesAreSafe == NoBlindRetry /\ RetryableRowsAreClear

\* What the summary row reports as delivered, the provider has.
SummaryIsTrue ==
    /\ outbox.status \in {"processing", "validated"} =>
          \E g \in Generation : verdict[g] # "none"
    /\ outbox.status = "sent" =>
          \E g \in Generation : verdict[g] = IF IsGoogle THEN "sent" ELSE "taken"
    /\ outbox.status = "partial" => \E g \in Generation : verdict[g] = "partial"

\* Finished attempts and recorded results are facts: no late answer, review,
\* poll or recovery rewrites one (the trigger guard_event_attempt_update).
FactsKept ==
    \A g \in Generation :
        /\ attempt[g].state \in {"accepted", "failed", "cancelled"} =>
              /\ attempt'[g].state = attempt[g].state
              /\ attempt'[g].result = attempt[g].result
        /\ attempt[g].final # "" => attempt'[g].final = attempt[g].final
FactsAreFinal == [][FactsKept]_vars
-----------------------------------------------------------------------------
(***************************************************************************)
(* Refinement: the attempts of an event are a delivery slot.               *)
(***************************************************************************)
SlotStage(g) ==
    IF attempt[g].state = "claimed" THEN "claimed"
    ELSE IF g \in flight THEN "travelling"
    ELSE IF ~Stopped(g) THEN "unsent"
    ELSE "over"

SlotOf ==
    IF ActiveGenerations = {} THEN [at |-> "free"]
    ELSE LET g == CHOOSE g \in ActiveGenerations : TRUE
         IN  [at |-> SlotStage(g), message |-> g]

Slot == INSTANCE DeliverySlot WITH
            Message <- Generation, slot <- SlotOf,
            delivered <- {g \in Generation : verdict[g] # "none"},
            receipts <- {g \in Generation : attempt[g].state = "accepted"}

\* Every step of a sender, a poll, the recovery, a reviewer or the provider is
\* a step of the slot or leaves it alone: after a handoff the event is claimed
\* again only once the outcome is on record, and the record is right.
IsDeliverySlot == Slot!Spec
-----------------------------------------------------------------------------
(***************************************************************************)
(* Liveness, under the fairness of EventDeliveryLive!LiveSpec.               *)
(***************************************************************************)
\* A receipt that could not be projected (crash, database error, stale copy
\* projected over it) still reaches the summary row without another upload.
ReceiptReachesSummary ==
    \A g \in Generation :
        attempt[g].state = "accepted" ~> latest > g \/ outbox.status = ProjectionStatus(g)

\* An event waiting to be sent does not wait forever: it is handed to the
\* provider, stopped for review, refused, or its attempts are used up.
Waiting == \/ outbox.status \in {"pending", "sending"}
           \/ outbox.status = "failed" /\ outbox.attempts < MaxAttempts
NoEventForgotten ==
    Waiting ~> ~Waiting \/ Reviewable \/ lead.trashed \/ ~lead.sendable
               \/ latest = MaxGeneration
=============================================================================
