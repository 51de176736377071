----------------------------- MODULE LeadCapture -----------------------------
(***************************************************************************)
(* Inquiries sent with a form of the public website (public_lead_submit    *)
(* and create_submission of leads/services.py).                            *)
(*                                                                         *)
(* A request looks for what it repeats without a lock, then takes three    *)
(* advisory locks in turn: of its address, of its attempt and of its       *)
(* content.  Each is held until the transaction ends.  The time of the     *)
(* inquiry is when the request came in, however long it waited.  Erasure,  *)
(* which would make a repeated attempt a new one, is left out.             *)
(***************************************************************************)
EXTENDS Naturals, Sequences, FiniteSets

CONSTANTS
    Request,     \* requests that may be under way
    EventId,     \* client_event_id: one for each sending of a form
    Content,     \* what the fields say, normalised
    Address,     \* client addresses
    Unknown,     \* no attempt, or no address
    Window,      \* SITEOS_LEAD_DUPLICATE_MINUTES
    RateWindow,  \* SITEOS_LEAD_RATE_LIMIT_MINUTES
    RateLimit,   \* SITEOS_LEAD_RATE_LIMIT_COUNT
    MaxClock,    \* bound: time explored
    MaxInquiries \* bound: inquiries stored

ASSUME TimeAssumption == Window \in Nat /\ RateWindow \in Nat /\ MaxClock \in Nat
ASSUME UnknownAssumption == Unknown \notin EventId \cup Content \cup Address

VARIABLES
    inquiry,   \* rows of lead_submission, in the order they were committed
    request,   \* what each request is doing
    clock

captureVars == <<inquiry, request, clock>>
-----------------------------------------------------------------------------
Inquiry == [attempt : EventId \cup {Unknown}, content : Content,
            address : Address \cup {Unknown}, at : 0..MaxClock]
CaptureStep == {"idle", "arrived", "counted", "attempted", "clear"}

CaptureTypeOK ==
    /\ inquiry \in Seq(Inquiry)
    /\ request \in [Request -> [step : CaptureStep, says : Inquiry \cup {Unknown}]]
    /\ clock \in 0..MaxClock

Quiet == [step |-> "idle", says |-> Unknown]

CaptureInit ==
    /\ inquiry = <<>>
    /\ request = [r \in Request |-> Quiet]
    /\ clock = 0
-----------------------------------------------------------------------------
Stored == {inquiry[n] : n \in DOMAIN inquiry}

\* prior_attempt: it answers the request, or refuses another content.
Repeated(says) == says.attempt # Unknown /\ \E old \in Stored : old.attempt = says.attempt

\* Time is written as old + Window >= new to stay within the naturals.
Duplicate(says) ==
    \E old \in Stored : old.content = says.content /\ old.at + Window >= says.at

\* No other request holds the lock that says asks for.
Free(r, held, asks) ==
    asks # Unknown => \A other \in Request \ {r} :
        request[other].step \in held => asks \notin
            {request[other].says.address, request[other].says.attempt, request[other].says.content}

Advance(r, step) == request' = [request EXCEPT ![r].step = step]

\* The request has neither been answered already nor repeats a recent one.
Arrive(r, says) ==
    /\ request[r].step = "idle" /\ says.at = clock
    /\ ~Repeated(says) /\ ~Duplicate(says)
    /\ request' = [request EXCEPT ![r] = [step |-> "arrived", says |-> says]]
    /\ UNCHANGED <<inquiry, clock>>

LockAddress(r) ==
    /\ request[r].step = "arrived"
    /\ Free(r, {"counted", "attempted", "clear"}, request[r].says.address)
    /\ Advance(r, "counted")
    /\ UNCHANGED <<inquiry, clock>>

\* Mutant of LockAttempt: what was found before the lock still holds.
LockAttemptMutant(r) ==
    /\ request[r].step = "counted"
    /\ Free(r, {"attempted", "clear"}, request[r].says.attempt)
    /\ Advance(r, "attempted")
    /\ UNCHANGED <<inquiry, clock>>

LockAttempt(r) ==
    /\ request[r].step = "counted"
    /\ Free(r, {"attempted", "clear"}, request[r].says.attempt)
    /\ IF Repeated(request[r].says)
       THEN request' = [request EXCEPT ![r] = Quiet]
       ELSE Advance(r, "attempted")
    /\ UNCHANGED <<inquiry, clock>>

Recent(address) ==
    Cardinality({n \in DOMAIN inquiry :
                    inquiry[n].address = address /\ inquiry[n].at + RateWindow >= clock})

WithinRate(says) == says.address # Unknown => Recent(says.address) < RateLimit

\* Mutant of LockContent: the lock of the attempt would do.
LockContentMutant(r) ==
    /\ request[r].step = "attempted"
    /\ IF Duplicate(request[r].says) \/ ~WithinRate(request[r].says)
       THEN request' = [request EXCEPT ![r] = Quiet]
       ELSE Advance(r, "clear")
    /\ UNCHANGED <<inquiry, clock>>

\* Both windows are looked at under the locks; the duplicates' window still
\* ends when the request came in.
LockContent(r) ==
    /\ request[r].step = "attempted"
    /\ Free(r, {"clear"}, request[r].says.content)
    /\ IF Duplicate(request[r].says) \/ ~WithinRate(request[r].says)
       THEN request' = [request EXCEPT ![r] = Quiet]
       ELSE Advance(r, "clear")
    /\ UNCHANGED <<inquiry, clock>>

\* The inquiry commits with its consent, its outbox rows and its pending
\* notification, which other modules follow.
StoreInquiry(r) ==
    /\ request[r].step = "clear" /\ Len(inquiry) < MaxInquiries
    /\ inquiry' = Append(inquiry, request[r].says)
    /\ request' = [request EXCEPT ![r] = Quiet]
    /\ UNCHANGED clock

\* The request fails or its process ends: nothing is committed.
Lose(r) ==
    /\ request[r].step # "idle"
    /\ request' = [request EXCEPT ![r] = Quiet]
    /\ UNCHANGED <<inquiry, clock>>

Tick == clock < MaxClock /\ clock' = clock + 1 /\ UNCHANGED <<inquiry, request>>

CaptureNext ==
    \/ \E r \in Request :
          \/ \E says \in Inquiry : Arrive(r, says)
          \/ LockAddress(r) \/ LockAttempt(r) \/ LockContent(r) \/ StoreInquiry(r) \/ Lose(r)
    \/ Tick

CaptureSpec == CaptureInit /\ [][CaptureNext]_captureVars
-----------------------------------------------------------------------------
\* A form sent again with the attempt it was sent with before never makes a
\* second inquiry, also when both requests run at once (prior_attempt).
OneInquiryPerAttempt ==
    \A m, n \in DOMAIN inquiry :
        m # n /\ inquiry[m].attempt # Unknown => inquiry[m].attempt # inquiry[n].attempt

\* Inquiries of the same content are further apart than the window, in the order
\* in which they were stored, however long the requests waited for their locks
\* (the advisory lock of dedupe_key).
RepeatsAreApart ==
    \A m, n \in DOMAIN inquiry :
        m < n /\ inquiry[m].content = inquiry[n].content
            => inquiry[m].at + Window < inquiry[n].at

\* Both: nothing is captured twice, by its attempt or by its content.
NoInquiryTwice == OneInquiryPerAttempt /\ RepeatsAreApart
=============================================================================
