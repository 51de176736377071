------------------------- MODULE NotificationDelivery -------------------------
(***************************************************************************)
(* E-mail notifications of one lead: the first mail ("initial") and the    *)
(* reminders of leads nobody followed up.  Both kinds share one active     *)
(* attempt per lead (leads/notification_attempts.py, leads/notifications.py*)
(* leads/notification_review.py, send_lead_reminders).                     *)
(*                                                                         *)
(* Every action is one database transaction, which locks the lead, or one  *)
(* interaction with the SMTP server.  Time appears as "aged": the lease of *)
(* a claim or of a handoff under review is over (10 minutes), a failure is *)
(* no longer recent (15 minutes), an accepted reminder may be repeated     *)
(* (SITEOS_LEAD_REMINDER_REPEAT_HOURS).  The lead is taken to be old       *)
(* enough for retries and reminders.                                       *)
(***************************************************************************)
EXTENDS Integers, FiniteSets

CONSTANTS
    Worker,         \* processes that may send: scheduler, cron, web requests
    Channel,        \* what can keep a mail from leaving, see below
    Queued,         \* leads explored: captured on the site (TRUE), inbound (FALSE)
    MaxInitial,     \* bound: attempts at the first mail explored
    MaxReminders    \* bound: attempts at a reminder explored

\* Form or site switched off, no recipients on the form, or no SMTP account.
ASSUME ChannelAssumption == Channel \subseteq {"ready", "closed", "unaddressed", "unconfigured"}
ASSUME QueuedAssumption == Queued \subseteq BOOLEAN
ASSUME BoundsAssumption == MaxInitial \in Nat \ {0} /\ MaxReminders \in Nat

VARIABLES
    lead,      \* the columns of lead_submission that notifications touch
    channel,   \* whether a mail can leave: form, site and SMTP configuration
    latest,    \* highest generation of each kind
    attempt,   \* lead_notification_attempt by kind and generation
    worker,    \* what each process is doing and what it remembers
    flight,    \* mails that may still reach the server
    taken      \* mails the server accepted

vars == <<lead, channel, latest, attempt, worker, flight, taken>>
-----------------------------------------------------------------------------
Kind == {"initial", "reminder"}
MaxGeneration == [initial |-> MaxInitial, reminder |-> MaxReminders]
Message == UNION {{k} \X (1..MaxGeneration[k]) : k \in Kind}

BlockingStates == {"claimed", "handoff", "unknown"}
AttemptState == BlockingStates \cup {"none", "accepted", "failed", "cancelled"}
Phase == {"idle", "claiming", "claimed", "prepared", "sending", "awaiting", "repair"}

PolicyDisabled == {"unaddressed", "unconfigured"}

LeadRecord == [trashed : BOOLEAN, new : BOOLEAN, queued : BOOLEAN,
               status : {"pending", "failed", "disabled", "sent"},
               reminded : 0..MaxReminders]
AttemptRecord == [state : AttemptState, aged : BOOLEAN, stale : BOOLEAN,
                  disabled : BOOLEAN]
WorkerRecord == [phase : Phase, kind : Kind, gen : Nat,
                 seen : {"", "accepted", "failed", "unknown"}]

NoAttempt == [state |-> "none", aged |-> FALSE, stale |-> FALSE, disabled |-> FALSE]
Idle == [phase |-> "idle", kind |-> "initial", gen |-> 0, seen |-> ""]

TypeOK ==
    /\ lead \in LeadRecord
    /\ channel \in Channel
    /\ latest \in [Kind -> Nat]
    /\ attempt \in [Message -> AttemptRecord]
    /\ worker \in [Worker -> WorkerRecord]
    /\ flight \subseteq Message
    /\ taken \subseteq Message

\* A captured website lead is queued; an inbound one notifies right away.
Init ==
    /\ \E queued \in Queued :
          lead = [trashed |-> FALSE, new |-> TRUE, queued |-> queued,
                  status |-> "pending", reminded |-> 0]
    /\ channel \in Channel
    /\ latest = [k \in Kind |-> 0]
    /\ attempt = [m \in Message |-> NoAttempt]
    /\ worker = [w \in Worker |-> Idle]
    /\ flight = {}
    /\ taken = {}

Current(w) == <<worker[w].kind, worker[w].gen>>
Goes(w, phase) == worker' = [worker EXCEPT ![w].phase = phase]
Stops(w) == worker' = [worker EXCEPT ![w] = Idle]
-----------------------------------------------------------------------------
\* Every save of the lead writes updated_at, which outdates a waiting claim.
Outdated(a) == [m \in Message |->
                  IF a[m].state = "claimed" THEN [a[m] EXCEPT !.stale = TRUE] ELSE a[m]]

\* repair_notification_projection(attempt), seen being the state of the
\* caller's copy; attempts are those of the surrounding transaction.
Projects(k, g, seen) ==
    /\ latest[k] <= g
    /\ ~(k = "reminder" /\ seen = "accepted" /\ lead.reminded >= g)
    /\ ~(k = "initial" /\ seen = "failed" /\ lead.status = "sent")

\* Mutant of Shown: an unconfirmed mail is shown as sent.
ShownMutant(k, g, seen, disabled) ==
    CASE k = "initial" /\ seen \in {"accepted", "unknown"} -> [lead EXCEPT !.status = "sent"]
      [] k = "reminder" /\ seen \in {"accepted", "unknown"} -> [lead EXCEPT !.reminded = g]
      [] k = "initial" /\ seen = "failed" ->
            [lead EXCEPT !.status = IF disabled THEN "disabled" ELSE "failed"]
      [] OTHER -> lead

Shown(k, g, seen, disabled) ==
    CASE k = "initial" /\ seen = "accepted" -> [lead EXCEPT !.status = "sent"]
      [] k = "reminder" /\ seen = "accepted" -> [lead EXCEPT !.reminded = g]
      [] k = "initial" /\ seen = "failed" ->
            [lead EXCEPT !.status = IF disabled THEN "disabled" ELSE "failed"]
      [] OTHER -> lead

Project(k, g, seen, attempts) ==
    IF Projects(k, g, seen)
    THEN /\ lead' = Shown(k, g, seen, attempts[k, g].disabled)
         /\ attempt' = Outdated(attempts)
    ELSE lead' = lead /\ attempt' = attempts
-----------------------------------------------------------------------------
\* Mutant of Expired: a handoff nobody heard of again expires too.
ExpiredMutant(m) == attempt[m].state \in {"claimed", "handoff"} /\ attempt[m].aged

\* blocked_notification_ids, and the lease test of claim_notification.
Expired(m) == attempt[m].state = "claimed" /\ attempt[m].aged
Blocked == \E m \in Message : attempt[m].state \in BlockingStates /\ ~Expired(m)

RecentlyReminded == lead.reminded # 0 /\ ~attempt["reminder", lead.reminded].aged
CoolingDown(k) == \E m \in Message :
                     m[1] = k /\ attempt[m].state = "failed" /\ ~attempt[m].aged

\* Mutant of Sweeps: only leads that are still queued are retried.
SweepsMutant(k) ==
    /\ ~lead.trashed /\ ~Blocked /\ ~CoolingDown(k) /\ channel # "unconfigured"
    /\ IF k = "initial" THEN lead.status = "pending" /\ lead.queued
       ELSE lead.new /\ ~RecentlyReminded

\* Mutant of Sweeps: a queued lead is not retried once it has left stage new.
SweepsNewMutant(k) ==
    /\ lead.new /\ ~lead.trashed /\ ~Blocked /\ ~CoolingDown(k) /\ channel # "unconfigured"
    /\ IF k = "initial" THEN lead.status \in {"pending", "failed"} ELSE ~RecentlyReminded

\* Command.handle of send_lead_reminders selects the lead for one kind.
Sweeps(k) ==
    /\ ~lead.trashed /\ ~Blocked /\ ~CoolingDown(k) /\ channel # "unconfigured"
    /\ IF k = "initial"
       THEN \/ lead.status = "pending" /\ lead.queued
            \/ lead.status \in {"pending", "failed"} /\ lead.new
       ELSE lead.new /\ ~RecentlyReminded

StartsSending(w, k) ==
    /\ worker[w].phase = "idle"
    /\ worker' = [worker EXCEPT ![w].phase = "claiming", ![w].kind = k]
    /\ UNCHANGED <<lead, channel, latest, attempt, flight, taken>>

Sweep(w, k) == Sweeps(k) /\ StartsSending(w, k)

\* _send_external_submission_notification_if_pending, after the lead's commit.
NotifyInbound(w) ==
    /\ ~lead.queued /\ lead.status = "pending"
    /\ StartsSending(w, "initial")
-----------------------------------------------------------------------------
\* claim_notification, one action per way out of it.
Unwanted(k) ==
    \/ lead.trashed
    \/ k = "initial" /\ lead.status = "sent"
    \/ k = "reminder" /\ ~lead.new

\* Mutant of Receipts: receipts are not looked for.
ReceiptsMutant(k) == {}

\* The newest accepted attempt, if it rules out another mail of this kind.
Receipts(k) ==
    {g \in 1..MaxGeneration[k] :
        /\ attempt[k, g].state = "accepted"
        /\ \A h \in 1..MaxGeneration[k] : attempt[k, h].state = "accepted" => h <= g
        /\ k = "initial" \/ ~attempt[k, g].aged}

ClaimFindsReceipt(w) ==
    LET k == worker[w].kind IN
    /\ worker[w].phase = "claiming" /\ ~Unwanted(k)
    /\ \E g \in Receipts(k) : Project(k, g, "accepted", attempt)
    /\ Stops(w)
    /\ UNCHANGED <<channel, latest, flight, taken>>

Claimable(k) ==
    /\ ~Unwanted(k) /\ Receipts(k) = {} /\ ~Blocked
    /\ ~(k = "reminder" /\ RecentlyReminded)

ClaimRefused(w) ==
    LET k == worker[w].kind IN
    /\ worker[w].phase = "claiming"
    /\ Unwanted(k) \/ Receipts(k) = {}
    /\ ~Claimable(k) \/ latest[k] = MaxGeneration[k]
    /\ Stops(w)
    /\ UNCHANGED <<lead, channel, latest, attempt, flight, taken>>

Cancelled == [NoAttempt EXCEPT !.state = "cancelled"]

ClaimNew(w) ==
    LET k == worker[w].kind
        g == latest[k] + 1
    IN
    /\ worker[w].phase = "claiming" /\ Claimable(k) /\ latest[k] < MaxGeneration[k]
    /\ latest' = [latest EXCEPT ![k] = g]
    /\ attempt' = [m \in Message |->
                     IF m = <<k, g>> THEN [NoAttempt EXCEPT !.state = "claimed"]
                     ELSE IF Expired(m) THEN Cancelled
                     ELSE attempt[m]]
    /\ worker' = [worker EXCEPT ![w].phase = "claimed", ![w].gen = g]
    /\ UNCHANGED <<lead, channel, flight, taken>>
-----------------------------------------------------------------------------
\* Mutant of FinishFrom: no state is checked before an answer is stored.
FinishFromMutant(outcome) == BlockingStates \cup {"accepted", "failed", "cancelled"}

\* finish_notification_attempt: the states in which an outcome may be stored.
FinishFrom(outcome) ==
    IF outcome = "failed" THEN {"claimed", "handoff"} ELSE {"handoff"}

Ended(state, disabled) == [NoAttempt EXCEPT !.state = state, !.disabled = disabled]

Finish(w, outcome, disabled) ==
    LET m == Current(w) IN
    IF attempt[m].state \in FinishFrom(outcome)
    THEN /\ attempt' = [attempt EXCEPT ![m] = Ended(outcome, disabled)]
         /\ worker' = [worker EXCEPT ![w].phase = "repair", ![w].seen = outcome]
    ELSE Stops(w) /\ UNCHANGED attempt

\* _send_submission_notification_now, after its claim.
Prepare(w) ==
    /\ worker[w].phase = "claimed"
    /\ channel \notin PolicyDisabled
    /\ Goes(w, "prepared")
    /\ UNCHANGED <<lead, channel, latest, attempt, flight, taken>>

\* No recipients or no account (a policy), or the message cannot be built.
PrepareFails(w) ==
    /\ worker[w].phase = "claimed"
    /\ Finish(w, "failed", channel \in PolicyDisabled)
    /\ UNCHANGED <<lead, channel, latest, flight, taken>>

\* begin_notification_handoff: the last gate before the network.
Eligible(m) ==
    /\ ~attempt[m].stale /\ ~attempt[m].aged
    /\ channel = "ready" /\ ~Unwanted(m[1])

Handoff(w) ==
    LET m == Current(w) IN
    /\ worker[w].phase = "prepared"
    /\ \/ attempt[m].state # "claimed" /\ Stops(w) /\ UNCHANGED attempt
       \/ /\ attempt[m].state = "claimed" /\ ~Eligible(m)
          /\ attempt' = [attempt EXCEPT ![m] = Cancelled]
          /\ Stops(w)
       \/ /\ attempt[m].state = "claimed" /\ Eligible(m)
          /\ attempt' = [attempt EXCEPT ![m].state = "handoff", ![m].aged = FALSE]
          /\ Goes(w, "sending")
    /\ UNCHANGED <<lead, channel, latest, flight, taken>>

Send(w) ==
    /\ worker[w].phase = "sending"
    /\ flight' = flight \cup {Current(w)}
    /\ Goes(w, "awaiting")
    /\ UNCHANGED <<lead, channel, latest, attempt, taken>>

\* The server's reply: taken, an explicit refusal, or an exception that leaves
\* the outcome open.
Answer(w) ==
    LET m == Current(w) IN
    /\ worker[w].phase = "awaiting"
    /\ \/ m \in taken /\ Finish(w, "accepted", FALSE)
       \/ m \notin taken \cup flight /\ Finish(w, "failed", FALSE)
       \/ Finish(w, "unknown", FALSE)
    /\ UNCHANGED <<lead, channel, latest, flight, taken>>

\* _repair_safely, a transaction of its own after the receipt's.
Repair(w) ==
    /\ worker[w].phase = "repair"
    /\ Project(worker[w].kind, worker[w].gen, worker[w].seen, attempt)
    /\ Stops(w)
    /\ UNCHANGED <<channel, latest, flight, taken>>

\* The process dies, or the transaction it is in fails and the code gives up
\* (DatabaseError swallowed in finish_notification_attempt and _repair_safely).
Crash(w) ==
    /\ worker[w].phase # "idle"
    /\ Stops(w)
    /\ UNCHANGED <<lead, channel, latest, attempt, flight, taken>>
-----------------------------------------------------------------------------
\* reconcile_notification_attempt by an administrator who read the mail
\* platform's records and confirmed that sending has stopped (both are required
\* inputs; the model takes them to be true).
Reviewable(m) == attempt[m].state \in {"unknown", "handoff"}

Stopped(m) ==
    /\ m \notin flight
    /\ \A w \in Worker : ~(worker[w].phase = "sending" /\ Current(w) = m)

ReviewAs(m, outcome) ==
    /\ Project(m[1], m[2], outcome, [attempt EXCEPT ![m] = Ended(outcome, FALSE)])
    /\ UNCHANGED <<channel, latest, worker, flight, taken>>

Review == \E m \in Message :
    /\ Reviewable(m)
    /\ \/ m \in taken /\ ReviewAs(m, "accepted")
       \/ /\ m \notin taken /\ Stopped(m)
          /\ attempt[m].state = "handoff" => attempt[m].aged
          /\ ReviewAs(m, "failed")
-----------------------------------------------------------------------------
\* The world around.  Any save of the lead outdates a waiting claim.
Edit ==
    /\ attempt' = Outdated(attempt)
    /\ attempt' # attempt
    /\ UNCHANGED <<lead, channel, latest, worker, flight, taken>>

TrashOrRestore ==
    /\ lead' = [lead EXCEPT !.trashed = ~@]
    /\ attempt' = Outdated(attempt)
    /\ UNCHANGED <<channel, latest, worker, flight, taken>>

MoveStage ==
    /\ ~lead.trashed
    /\ lead' = [lead EXCEPT !.new = ~@]
    /\ attempt' = Outdated(attempt)
    /\ UNCHANGED <<channel, latest, worker, flight, taken>>

\* Recipients, delivery settings, form and site; only the first two are
\* compared with what the sender prepared.
Reconfigure ==
    /\ channel' \in Channel
    /\ attempt' \in {attempt, Outdated(attempt)}
    /\ UNCHANGED <<lead, latest, worker, flight, taken>>

Age == \E m \in Message :
    /\ attempt[m].state \in {"claimed", "handoff", "accepted", "failed"}
    /\ ~attempt[m].aged
    /\ m[1] = "initial" => attempt[m].state # "accepted"
    /\ attempt' = [attempt EXCEPT ![m].aged = TRUE]
    /\ UNCHANGED <<lead, channel, latest, worker, flight, taken>>

ServerTakes == \E m \in flight :
    /\ flight' = flight \ {m}
    /\ taken' \in {taken, taken \cup {m}}
    /\ UNCHANGED <<lead, channel, latest, attempt, worker>>
-----------------------------------------------------------------------------
Proceeds(w) ==
    \/ ClaimFindsReceipt(w) \/ ClaimRefused(w) \/ ClaimNew(w)
    \/ Prepare(w)
    \/ Handoff(w) \/ Send(w) \/ Answer(w) \/ Repair(w)

Fault(w) == Crash(w) \/ PrepareFails(w)

Environment == Review \/ Edit \/ TrashOrRestore \/ MoveStage \/ Age \/ ServerTakes

Next ==
    \/ \E w \in Worker :
          \/ \E k \in Kind : Sweep(w, k)
          \/ NotifyInbound(w) \/ Proceeds(w) \/ Fault(w)
    \/ Reconfigure
    \/ Environment

Spec == Init /\ [][Next]_vars
-----------------------------------------------------------------------------
(***************************************************************************)
(* Safety.                                                                 *)
(***************************************************************************)
\* The server takes at most one first mail of a lead, whatever crashes, lost
\* answers, expired claims, retries and reviews happen.
OneInitialMail == Cardinality({m \in taken : m[1] = "initial"}) <= 1

\* A process about to send is alone, nothing is under way, every mail the
\* server took is on record as accepted, the lead had no first mail yet, or no
\* reminder within the repeat window: claim_notification and
\* begin_notification_handoff together never let a blind second mail out.
NoBlindMail ==
    \A w \in Worker : worker[w].phase = "sending" =>
        /\ \A v \in Worker : worker[v].phase = "sending" => v = w
        /\ flight = {}
        /\ \A m \in taken : attempt[m].state = "accepted"
        /\ \A m \in taken : m[1] = worker[w].kind =>
              m[1] = "reminder" /\ attempt[m].aged

\* The two halves of one promise: nobody is mailed twice, neither by what the
\* server has taken nor by what a process is about to send.
NoMailTwice == OneInitialMail /\ NoBlindMail

\* "Sent" and the reminder time are never shown of a mail the server does not
\* have, although they are written from copies that may be older than the row.
SummaryIsTrue ==
    /\ lead.status = "sent" => \E m \in taken : m[1] = "initial"
    /\ lead.reminded # 0 => <<"reminder", lead.reminded>> \in taken

\* The guards of the code keep to what the table enforces: the transitions of
\* guard_notification_attempt_update and one active attempt per lead, so no
\* transaction of a sender or a reviewer is ever rejected halfway.
Transition == {<<"none", "claimed">>, <<"claimed", "handoff">>, <<"claimed", "failed">>,
               <<"claimed", "cancelled">>, <<"handoff", "accepted">>,
               <<"handoff", "failed">>, <<"handoff", "unknown">>,
               <<"unknown", "accepted">>, <<"unknown", "failed">>}
TableAccepts ==
    /\ \A m \in Message :
          attempt[m].state # attempt'[m].state =>
              <<attempt[m].state, attempt'[m].state>> \in Transition
    /\ \A m, n \in Message :
          attempt'[m].state \in BlockingStates /\ attempt'[n].state \in BlockingStates => m = n
TableNeverRejects == [][TableAccepts]_vars
-----------------------------------------------------------------------------
(***************************************************************************)
(* Refinement: the attempts of a lead are a delivery slot.                 *)
(***************************************************************************)
SlotFree == [at |-> "free"]
SlotStage(m) ==
    IF attempt[m].state = "claimed" THEN "claimed"
    ELSE IF m \in flight THEN "travelling"
    ELSE IF ~Stopped(m) THEN "unsent"
    ELSE "over"

SlotOf ==
    IF \A m \in Message : attempt[m].state \notin BlockingStates THEN SlotFree
    ELSE LET m == CHOOSE m \in Message : attempt[m].state \in BlockingStates
         IN  [at |-> SlotStage(m), message |-> m]

Slot == INSTANCE DeliverySlot WITH
            slot <- SlotOf, delivered <- taken,
            receipts <- {m \in Message : attempt[m].state = "accepted"}

\* Every step of a sender, the scheduler, a reviewer or the server is a step of
\* the slot or leaves it alone.
IsDeliverySlot == Slot!Spec
-----------------------------------------------------------------------------
(***************************************************************************)
(* Liveness, under the fairness of NotificationDeliveryLive!LiveSpec.      *)
(***************************************************************************)
NeedsReview == \E m \in Message : Reviewable(m)
Retried == /\ lead.status \in {"pending", "failed"} /\ ~lead.trashed
           /\ lead.new \/ (lead.queued /\ lead.status = "pending")

\* A captured lead is not forgotten: its first mail is sent, refused by policy
\* or left for review, or its attempts (bounded here) are used up.
InitialNotForgotten ==
    Retried ~> \/ ~Retried \/ NeedsReview \/ channel # "ready"
               \/ latest["initial"] = MaxInitial
=============================================================================
