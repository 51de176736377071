-------------------------- MODULE InquiriesProofs ---------------------------
(***************************************************************************)
(* Proofs about Inquiries, that is about InboundReceipt, WhatsAppSend and  *)
(* LeadCapture, one after the other, and that the composition keeps what   *)
(* is proved of each.                                                      *)
(***************************************************************************)
EXTENDS Inquiries, FiniteSetTheorems, SequenceTheorems, TLAPS
-----------------------------------------------------------------------------
(***************************************************************************)
(* Receipts, for any set of processes and any bounds. A Meta receipt has   *)
(* exactly one valid owner because its attempts count the claims, and      *)
(* every process remembers the number of its own.                          *)
(***************************************************************************)
Busy(w) == worker[w].phase # "idle"

\* The attempts on record and those a process read never exceed the claims; a
\* Meta receipt and its processes number the claims one by one.
CountInv ==
    /\ receipt.attempts <= claims
    /\ \A w \in Worker : worker[w].attempts <= claims /\ worker[w].claim <= claims
    /\ receipt.family = "meta" =>
         /\ receipt.attempts = claims
         /\ \A w \in Worker : Busy(w) => worker[w].attempts = worker[w].claim

\* A process that has stored the lead finds it stored.
StoredInv ==
    /\ leads <= 1
    /\ \A w \in Worker : worker[w].phase = "stored" => leads > 0

ReceiptInv == TypeOK /\ CountInv /\ StoredInv
-----------------------------------------------------------------------------
(***************************************************************************)
(* The effect of a step, field by field.                                   *)
(***************************************************************************)
\* worker[w] goes on to a phase, keeping what it read when it claimed.
Advances(w, phase) ==
    /\ worker' \in [Worker -> WorkerRecord]
    /\ \A v \in Worker : v # w => worker'[v] = worker[v]
    /\ worker'[w].phase = phase
    /\ worker'[w].attempts = worker[w].attempts /\ worker'[w].claim = worker[w].claim

\* worker[w] is idle afterwards.
Leaves(w) ==
    /\ worker' \in [Worker -> WorkerRecord]
    /\ \A v \in Worker : v # w => worker'[v] = worker[v]
    /\ worker'[w] = NoClaim

LEMMA GoesEffect ==
  ASSUME TypeOK, NEW w \in Worker,
         NEW phase \in {"idle", "fetching", "fetched", "stored", "failing"}, Goes(w, phase)
  PROVE  Advances(w, phase)
BY DEF TypeOK, Goes, WorkerRecord, Advances

LEMMA StopsLeaves ==
  ASSUME TypeOK, NEW w \in Worker, Stops(w)
  PROVE  Leaves(w)
BY BoundsAssumption DEF TypeOK, Stops, WorkerRecord, Leaves, NoClaim

LEMMA InitReceiptInv == Init => ReceiptInv
BY BoundsAssumption DEF Init, ReceiptInv, TypeOK, ReceiptRecord, Status, WorkerRecord, NoClaim,
   CountInv, StoredInv, Busy

LEMMA StutterReceiptInv == ReceiptInv /\ UNCHANGED vars => ReceiptInv'
BY DEF ReceiptInv, vars, TypeOK, CountInv, StoredInv, Busy

\* A step that only sets the status, to one that is neither late nor processed.
LEMMA BecomesReceiptInv ==
  ASSUME ReceiptInv, NEW status \in {"pending", "failed"}, Becomes(status),
         UNCHANGED <<leads, claims, worker>>
  PROVE  ReceiptInv'
<1>1. /\ receipt' \in ReceiptRecord
      /\ receipt'.status = status /\ receipt'.late = FALSE
      /\ receipt'.attempts = receipt.attempts /\ receipt'.family = receipt.family
  BY DEF ReceiptInv, TypeOK, Becomes, ReceiptRecord, Status
<1> QED BY <1>1 DEF ReceiptInv, TypeOK, CountInv, StoredInv, Busy

LEMMA RecordReceiptInv == ReceiptInv /\ Record => ReceiptInv'
BY BecomesReceiptInv DEF Record

LEMMA RecoverReceiptInv == ReceiptInv /\ Recover => ReceiptInv'
BY BecomesReceiptInv DEF Recover

LEMMA TurnsLateReceiptInv == ReceiptInv /\ TurnsLate => ReceiptInv'
<1> SUFFICES ASSUME ReceiptInv, TurnsLate PROVE ReceiptInv'
    OBVIOUS
<1>1. /\ receipt' \in ReceiptRecord
      /\ receipt'.status = "processing"
      /\ receipt'.attempts = receipt.attempts /\ receipt'.family = receipt.family
  BY DEF ReceiptInv, TypeOK, TurnsLate, ReceiptRecord
<1> QED BY <1>1 DEF ReceiptInv, TypeOK, CountInv, StoredInv, Busy, TurnsLate

\* A claim counts one attempt, and its process remembers that number.
LEMMA ClaimsReceiptInv ==
  ASSUME ReceiptInv, NEW w \in Worker, Claims(w)
  PROVE  ReceiptInv'
<1>1. /\ receipt.attempts \in Nat /\ claims \in Nat /\ MaxClaims \in Nat
      /\ receipt.attempts + 1 \in 0..MaxClaims /\ claims + 1 \in 0..MaxClaims
  BY BoundsAssumption DEF ReceiptInv, TypeOK, CountInv, Claims, ReceiptRecord
<1>2. /\ receipt' \in ReceiptRecord
      /\ receipt'.status = "processing" /\ receipt'.late = FALSE
      /\ receipt'.attempts = receipt.attempts + 1 /\ receipt'.family = receipt.family
  BY <1>1 DEF ReceiptInv, TypeOK, Claims, ReceiptRecord, Status
<1>3. /\ worker' \in [Worker -> WorkerRecord]
      /\ \A v \in Worker : v # w => worker'[v] = worker[v]
      /\ worker'[w].phase = "fetching"
      /\ worker'[w].attempts = receipt.attempts + 1 /\ worker'[w].claim = claims + 1
  BY <1>1 DEF ReceiptInv, TypeOK, Claims, WorkerRecord
<1>4. leads' = leads /\ claims' = claims + 1
  BY DEF Claims
<1>5. TypeOK'
  BY <1>1, <1>2, <1>3, <1>4 DEF ReceiptInv, TypeOK
<1>6. \A v \in Worker : worker[v].attempts \in Nat /\ worker[v].claim \in Nat
  BY BoundsAssumption DEF ReceiptInv, TypeOK, WorkerRecord
<1>7. CountInv'
  BY <1>1, <1>2, <1>3, <1>4, <1>6 DEF ReceiptInv, CountInv, Busy
<1>8. StoredInv'
  BY <1>3, <1>4 DEF ReceiptInv, StoredInv
<1> QED BY <1>5, <1>7, <1>8 DEF ReceiptInv

\* A step that moves one process on and leaves the rest as it was.
LEMMA AdvanceReceiptInv ==
  ASSUME ReceiptInv, NEW w \in Worker, NEW phase \in {"fetched", "failing"},
         Busy(w), Goes(w, phase), UNCHANGED <<receipt, leads, claims>>
  PROVE  ReceiptInv'
<1>1. Advances(w, phase)
  BY GoesEffect DEF ReceiptInv
<1> QED BY <1>1 DEF Advances, ReceiptInv, TypeOK, CountInv, StoredInv, Busy

LEMMA FetchReceiptInv ==
  ASSUME ReceiptInv, NEW w \in Worker, Fetch(w)
  PROVE  ReceiptInv'
BY AdvanceReceiptInv DEF Fetch, Busy

LEMMA StoreFailsReceiptInv ==
  ASSUME ReceiptInv, NEW w \in Worker, StoreFails(w)
  PROVE  ReceiptInv'
BY AdvanceReceiptInv DEF StoreFails, Busy

LEMMA StoreReceiptInv ==
  ASSUME ReceiptInv, NEW w \in Worker, Store(w)
  PROVE  ReceiptInv'
<1>1. Advances(w, "stored")
  BY GoesEffect DEF ReceiptInv, Store
<1>2. claims \in 0..MaxClaims /\ leads \in 0..MaxClaims /\ leads <= 1
  BY DEF ReceiptInv, TypeOK, StoredInv
<1>3. 1 \in 0..MaxClaims /\ leads' \in 0..MaxClaims /\ leads' <= 1 /\ leads' > 0
  BY <1>2, BoundsAssumption DEF Store, Found
<1>4. receipt' = receipt /\ claims' = claims /\ Busy(w)
  BY DEF Store, Busy
<1> QED BY <1>1, <1>3, <1>4 DEF Advances, ReceiptInv, TypeOK, CountInv, StoredInv, Busy

\* A step that ends the work of one process and may finish the receipt.
LEMMA LeaveReceiptInv ==
  ASSUME ReceiptInv, NEW w \in Worker, Leaves(w), UNCHANGED <<leads, claims>>,
         receipt' \in ReceiptRecord, receipt'.family = receipt.family,
         receipt'.late => receipt'.status = "processing",
         receipt'.status = "processed" => receipt'.linked /\ leads > 0,
         receipt'.attempts <= claims,
         receipt.family = "meta" => receipt'.attempts = claims
  PROVE  ReceiptInv'
<1>1. worker'[w].phase = "idle" /\ worker'[w].attempts = 0 /\ worker'[w].claim = 0
  BY DEF Leaves, NoClaim
<1>2. claims \in Nat
  BY BoundsAssumption DEF ReceiptInv, TypeOK
<1> QED BY <1>1, <1>2 DEF Leaves, ReceiptInv, TypeOK, CountInv, StoredInv, Busy

LEMMA LeaveAloneReceiptInv ==
  ASSUME ReceiptInv, NEW w \in Worker, Stops(w), UNCHANGED <<receipt, leads, claims>>
  PROVE  ReceiptInv'
BY StopsLeaves, LeaveReceiptInv DEF ReceiptInv, TypeOK, CountInv

LEMMA CrashReceiptInv ==
  ASSUME ReceiptInv, NEW w \in Worker, Crash(w)
  PROVE  ReceiptInv'
BY LeaveAloneReceiptInv DEF Crash

LEMMA FinishReceiptInv ==
  ASSUME ReceiptInv, NEW w \in Worker, Finish(w)
  PROVE  ReceiptInv'
<1>1. CASE Owns(w)
  <2>1. /\ receipt' \in ReceiptRecord
        /\ receipt'.status = "processed" /\ receipt'.late = FALSE /\ receipt'.linked
        /\ receipt'.attempts = receipt.attempts /\ receipt'.family = receipt.family
    BY <1>1 DEF Finish, ReceiptInv, TypeOK, ReceiptRecord, Status
  <2>2. leads > 0 /\ Leaves(w) /\ UNCHANGED <<leads, claims>>
    BY StopsLeaves DEF Finish, ReceiptInv, StoredInv
  <2> QED BY <2>1, <2>2, LeaveReceiptInv DEF ReceiptInv, CountInv
<1>2. CASE ~Owns(w)
  BY <1>2, LeaveAloneReceiptInv DEF Finish
<1> QED BY <1>1, <1>2

LEMMA FailReceiptInv ==
  ASSUME ReceiptInv, NEW w \in Worker, Fail(w)
  PROVE  ReceiptInv'
<1>1. CASE Owns(w)
  <2>1. /\ receipt' \in ReceiptRecord
        /\ receipt'.status = "failed" /\ receipt'.late = FALSE
        /\ receipt'.attempts = worker[w].attempts /\ receipt'.family = receipt.family
    BY <1>1 DEF Fail, ReceiptInv, TypeOK, ReceiptRecord, WorkerRecord, Status
  <2>2. receipt.family = "meta" => worker[w].attempts = claims
    BY <1>1 DEF Owns, ReceiptInv, CountInv
  <2>3. Leaves(w) /\ UNCHANGED <<leads, claims>>
    BY StopsLeaves DEF Fail, ReceiptInv
  <2> QED BY <2>1, <2>2, <2>3, LeaveReceiptInv DEF ReceiptInv, CountInv
<1>2. CASE ~Owns(w)
  BY <1>2, LeaveAloneReceiptInv DEF Fail
<1> QED BY <1>1, <1>2

LEMMA NextReceiptInv == ReceiptInv /\ [Next]_vars => ReceiptInv'
<1> SUFFICES ASSUME ReceiptInv, [Next]_vars PROVE ReceiptInv'
    OBVIOUS
<1>1. CASE Record
  BY <1>1, RecordReceiptInv
<1>2. CASE Recover
  BY <1>2, RecoverReceiptInv
<1>3. CASE TurnsLate
  BY <1>3, TurnsLateReceiptInv
<1>4. ASSUME NEW w \in Worker, ClaimFirst(w) \/ Retry(w)
      PROVE  ReceiptInv'
  BY <1>4, ClaimsReceiptInv DEF ClaimFirst, Retry
<1>5. ASSUME NEW w \in Worker, Fetch(w)
      PROVE  ReceiptInv'
  BY <1>5, FetchReceiptInv
<1>6. ASSUME NEW w \in Worker, Store(w)
      PROVE  ReceiptInv'
  BY <1>6, StoreReceiptInv
<1>7. ASSUME NEW w \in Worker, StoreFails(w)
      PROVE  ReceiptInv'
  BY <1>7, StoreFailsReceiptInv
<1>8. ASSUME NEW w \in Worker, Finish(w)
      PROVE  ReceiptInv'
  BY <1>8, FinishReceiptInv
<1>9. ASSUME NEW w \in Worker, Fail(w)
      PROVE  ReceiptInv'
  BY <1>9, FailReceiptInv
<1>10. ASSUME NEW w \in Worker, Crash(w)
       PROVE  ReceiptInv'
  BY <1>10, CrashReceiptInv
<1>11. CASE UNCHANGED vars
  BY <1>11, StutterReceiptInv
<1> QED BY <1>1, <1>2, <1>3, <1>4, <1>5, <1>6, <1>7, <1>8, <1>9, <1>10, <1>11 DEF Next
-----------------------------------------------------------------------------
\* The inductive invariant of a receipt and its processes.
THEOREM ReceiptInvariant == Spec => []ReceiptInv
BY InitReceiptInv, NextReceiptInv, PTL DEF Spec

\* Every reachable state is well typed; a processed receipt is linked to a lead.
THEOREM ReceiptTypesHold == Spec => []TypeOK
<1>1. ReceiptInv => TypeOK
  BY DEF ReceiptInv
<1> QED BY <1>1, ReceiptInvariant, PTL

\* However many processes claim, abandon, retry and store it, an event is one
\* lead (_create_external_submission).
THEOREM EventIsOneLead == Spec => []OneLead
<1>1. ReceiptInv => OneLead
  BY DEF ReceiptInv, StoredInv, OneLead
<1> QED BY <1>1, ReceiptInvariant, PTL

\* The attempts on a Meta receipt are the claims that were taken, whatever late
\* failures arrive.
THEOREM AttemptsCounted == Spec => []AttemptsAreCounted
<1>1. ReceiptInv => AttemptsAreCounted
  BY DEF ReceiptInv, CountInv, AttemptsAreCounted
<1> QED BY <1>1, ReceiptInvariant, PTL

\* What OwnerDecides says of one step.
OwnerStep ==
    receipt.family = "meta" /\ receipt' # receipt =>
      \A w \in Worker :
        worker[w].phase \in {"stored", "failing"} /\ worker'[w].phase = "idle"
          => worker[w].claim = claims /\ receipt.status = "processing"

\* A step by which w ends its work is a step of w.
LEMMA OwnStep ==
  ASSUME ReceiptInv, [Next]_vars, NEW w \in Worker,
         worker[w].phase \in {"stored", "failing"}, worker'[w].phase = "idle"
  PROVE  Finish(w) \/ Fail(w) \/ Crash(w)
<1>1. worker' # worker /\ TypeOK
  BY DEF ReceiptInv
<1>2. ASSUME NEW v \in Worker, Claims(v)
      PROVE  FALSE
  <2>1. worker[v].phase = "idle" /\ \A u \in Worker : u # v => worker'[u] = worker[u]
    BY <1>1, <1>2 DEF Claims, TypeOK
  <2> QED BY <2>1
<1>3. ASSUME NEW v \in Worker, NEW phase \in {"fetched", "stored", "failing"}, Goes(v, phase)
      PROVE  FALSE
  <2>1. Advances(v, phase)
    BY <1>1, <1>3, GoesEffect
  <2> QED BY <2>1 DEF Advances
<1>4. ASSUME NEW v \in Worker, Stops(v)
      PROVE  v = w
  <2>1. Leaves(v)
    BY <1>1, <1>4, StopsLeaves
  <2> QED BY <2>1 DEF Leaves
<1>5. PICK v \in Worker : Claims(v) \/ Fetch(v) \/ Store(v) \/ StoreFails(v)
                          \/ Finish(v) \/ Fail(v) \/ Crash(v)
  BY <1>1 DEF Next, vars, Record, Recover, TurnsLate, ClaimFirst, Retry
<1>6. ~Fetch(v) /\ ~Store(v) /\ ~StoreFails(v)
  BY <1>3 DEF Fetch, Store, StoreFails
<1>7. Finish(v) \/ Fail(v) \/ Crash(v)
  BY <1>2, <1>5, <1>6
<1>8. v = w
  BY <1>4, <1>7 DEF Finish, Fail, Crash
<1> QED BY <1>7, <1>8

LEMMA StepIsOwned == ReceiptInv /\ [Next]_vars => OwnerStep
<1> SUFFICES ASSUME ReceiptInv, [Next]_vars, receipt.family = "meta", receipt' # receipt,
                    NEW w \in Worker,
                    worker[w].phase \in {"stored", "failing"}, worker'[w].phase = "idle"
             PROVE  worker[w].claim = claims /\ receipt.status = "processing"
    BY DEF OwnerStep
<1>1. Finish(w) \/ Fail(w) \/ Crash(w)
  BY OwnStep
<1>2. Owns(w)
  BY <1>1 DEF Finish, Fail, Crash
<1>3. worker[w].attempts = worker[w].claim /\ receipt.attempts = claims
  BY DEF ReceiptInv, CountInv, Busy
<1> QED BY <1>2, <1>3 DEF Owns

\* Only the newest claim decides what becomes of a Meta receipt, and only while
\* the receipt is being processed (_owns_meta_inbound_claim).
THEOREM OnlyOwnerDecides == Spec => OwnerDecides
<1>1. ReceiptInv /\ [Next]_vars => [OwnerStep]_vars
  BY StepIsOwned
<1>2. [][OwnerStep]_vars <=> OwnerDecides
  BY PTL DEF OwnerDecides, OwnerStep
<1> QED BY <1>1, <1>2, ReceiptInvariant, PTL DEF Spec
-----------------------------------------------------------------------------
(***************************************************************************)
(* Messages, for any set of dispatchers and any number of attempts. Only   *)
(* the newest attempt may have a live copy or a dispatcher at work, and    *)
(* the platform's failure of the copy that the row names is used up before *)
(* the next attempt begins: so a repeated or late failure cannot send the  *)
(* message again.                                                          *)
(***************************************************************************)
Active(w) == sender[w].phase # "idle"
NoneActive == \A w \in Sender : ~Active(w)
NoneLive == \A n \in Attempt : ~Live(n)

\* A failure that is definite, or a message to be sent again.
Clear == Dispatchable \/ (row.status = "failed" /\ row.code # "open")

\* One dispatcher at most is at work, on the newest attempt.
WorkerInv ==
    /\ \A w \in Sender : Active(w) => sender[w].attempt \in Attempt /\ sender[w].attempt = row.attempts
    /\ \A v, w \in Sender : Active(v) /\ Active(w) => v = w

\* Copies are made of the newest attempt only, once.
CopyInv ==
    /\ \A n \in Attempt : Live(n) => n = row.attempts
    /\ \A n \in Attempt : n > row.attempts => copy[n] = "none"
    /\ \A w \in Sender : sender[w].phase = "claimed" => copy[sender[w].attempt] = "none"

\* What the row calls clear is.
ClearInv == Clear => NoneActive /\ NoneLive

\* The id on the row, and what must have happened before it is outdated.
IdInv ==
    /\ row.id # 0 => row.id <= row.attempts /\ Answered(row.id)
    /\ row.id # 0 /\ row.id = row.attempts => NoneActive
    /\ row.id # 0 /\ (row.id < row.attempts \/ row.status \in {"queued", "sending", "failed"})
         => <<row.id, "failed">> \in events
    /\ row.status \in {"delivered", "read"} => NoneActive

\* Before it is queued the message was never attempted.
NewInv == row.status = "none" => row.attempts = 0 /\ row.id = 0

MessageInv == MessageTypeOK /\ NewInv /\ WorkerInv /\ CopyInv /\ ClearInv /\ IdInv
-----------------------------------------------------------------------------
(***************************************************************************)
(* What a step does to the row and to the dispatchers, field by field.     *)
(***************************************************************************)
LEMMA NumbersAreNatural ==
  MessageTypeOK => /\ MaxSends \in Nat /\ row.attempts \in Nat /\ row.id \in Nat
            /\ row.attempts <= MaxSends /\ row.id <= MaxSends
            /\ \A w \in Sender : sender[w].attempt \in Nat
BY MaxSendsAssumption DEF MessageTypeOK, Row, SenderRecord

LEMMA FailedRowIs ==
  ASSUME MessageTypeOK, NEW code \in Code, NEW retryable \in BOOLEAN
  PROVE  /\ FailedRow(code, retryable) \in Row
         /\ FailedRow(code, retryable).status = "failed"
         /\ FailedRow(code, retryable).code = code
         /\ FailedRow(code, retryable).retryable = retryable
         /\ FailedRow(code, retryable).attempts = row.attempts
         /\ FailedRow(code, retryable).id = row.id
BY DEF MessageTypeOK, Row, Shown, FailedRow

\* sender[w] is idle afterwards, the others are as they were.
SenderLeaves(w) ==
    /\ sender' \in [Sender -> SenderRecord]
    /\ sender'[w].phase = "idle"
    /\ \A v \in Sender : v # w => sender'[v] = sender[v]

LEMMA SenderStopsIs ==
  ASSUME MessageTypeOK, NEW w \in Sender, SenderStops(w)
  PROVE  SenderLeaves(w)
BY MaxSendsAssumption DEF MessageTypeOK, SenderStops, Idle, SenderRecord, SenderLeaves

LEMMA InitMessageInv == MessageInit => MessageInv
<1> SUFFICES ASSUME MessageInit PROVE MessageInv
    OBVIOUS
<1>1. NoRow \in Row /\ Idle \in SenderRecord
  BY MaxSendsAssumption DEF NoRow, Idle, Row, SenderRecord, Shown, Code
<1>2. /\ row.status = "none" /\ row.attempts = 0 /\ row.id = 0
      /\ \A w \in Sender : sender[w] = Idle
      /\ \A n \in Attempt : copy[n] = "none"
  BY DEF MessageInit, NoRow
<1>3. MessageTypeOK
  BY <1>1 DEF MessageInit, MessageTypeOK, CopyState
<1>4. \A w \in Sender : sender[w].phase = "idle"
  BY <1>2 DEF Idle
<1> QED BY <1>2, <1>3, <1>4 DEF MessageInv, NewInv, WorkerInv, CopyInv, ClearInv, IdInv, Active, Live, Clear,
           Dispatchable, NoneActive, NoneLive

LEMMA StutterMessageInv == MessageInv /\ UNCHANGED messageVars => MessageInv'
BY DEF messageVars, MessageInv, NewInv, MessageTypeOK, WorkerInv, CopyInv, ClearInv, IdInv, Active, Live, Clear, Dispatchable,
   NoneActive, NoneLive, Answered

\* A row that goes on with the same attempt and id, while copies stay:
\* dispatchers may only stop.
LEMMA SameAttemptMessageInv ==
  ASSUME MessageInv, row' \in Row, row'.attempts = row.attempts, row'.id = row.id,
         row'.status = "none" => row.status = "none",
         copy' = copy, events \subseteq events', events' \subseteq Receipt,
         allowed' \in BOOLEAN, sender' \in [Sender -> SenderRecord],
         \A v \in Sender : sender'[v] = sender[v] \/ sender'[v].phase = "idle",
         Clear' => NoneActive' /\ NoneLive,
         row.id # 0 /\ row'.status \in {"queued", "sending", "failed"}
            => <<row.id, "failed">> \in events',
         row'.status \in {"delivered", "read"} => NoneActive'
  PROVE  MessageInv'
<1>1. MessageTypeOK' /\ NewInv'
  BY DEF MessageInv, MessageTypeOK, NewInv
<1>2. \A v \in Sender : Active(v)' => Active(v) /\ sender'[v] = sender[v]
  BY DEF Active
<1>3. WorkerInv' /\ CopyInv'
  BY <1>2 DEF MessageInv, WorkerInv, CopyInv, Active, Live
<1>4. ClearInv'
  BY DEF ClearInv, NoneLive, Live
<1>5. IdInv'
  BY <1>2 DEF MessageInv, IdInv, NoneActive, Answered
<1> QED BY <1>1, <1>3, <1>4, <1>5 DEF MessageInv

LEMMA QueueMessageInv == MessageInv /\ Queue => MessageInv'
<1> SUFFICES ASSUME MessageInv, Queue PROVE MessageInv'
    OBVIOUS
<1>1. /\ row' \in Row /\ row'.status = "queued" /\ row'.attempts = 0 /\ row'.id = 0
      /\ UNCHANGED <<copy, events, allowed, sender>>
  <2>1. NoRow \in Row /\ NoRow.attempts = 0 /\ NoRow.id = 0
    BY MaxSendsAssumption DEF NoRow, Row, Shown, Code
  <2>2. "queued" \in {"none", "queued", "sending", "failed"} \cup Shown
    OBVIOUS
  <2>3. row' = [NoRow EXCEPT !.status = "queued"] /\ UNCHANGED <<copy, events, allowed, sender>>
    BY DEF Queue
  <2> QED BY <2>1, <2>2, <2>3 DEF Row
<1>2. row.attempts = 0 /\ row.id = 0
  BY DEF MessageInv, NewInv, Queue
<1>3. 0 \notin Attempt
  BY MaxSendsAssumption DEF Attempt
<1>4. NoneActive' /\ NoneLive
  BY <1>1, <1>2, <1>3 DEF MessageInv, WorkerInv, CopyInv, NoneActive, NoneLive, Active
<1> QED BY <1>1, <1>2, <1>4, SameAttemptMessageInv DEF MessageInv, MessageTypeOK

\* A message that cannot be sent now fails before it is claimed.
LEMMA NotClaimedMessageInv ==
  ASSUME MessageInv, NEW w \in Sender, AttemptLimit(w) \/ PolicyRefuses(w)
  PROVE  MessageInv'
<1>1. row' \in {FailedRow("limit", FALSE), FailedRow("policy", FALSE)}
  BY DEF AttemptLimit, PolicyRefuses
<1>2. /\ row' \in Row /\ row'.status = "failed"
      /\ row'.attempts = row.attempts /\ row'.id = row.id
  BY <1>1, FailedRowIs DEF MessageInv, Code
<1>3. Dispatchable /\ UNCHANGED <<copy, events, allowed, sender>>
  BY DEF AttemptLimit, PolicyRefuses
<1>4. NoneActive' /\ NoneLive
  BY <1>3 DEF MessageInv, ClearInv, Clear, NoneActive, Active
<1>5. row.id # 0 => <<row.id, "failed">> \in events
  BY <1>3 DEF Dispatchable, MessageInv, IdInv
<1> QED BY <1>2, <1>3, <1>4, <1>5, SameAttemptMessageInv DEF MessageInv, MessageTypeOK

\* Steps that change the row's other fields, or what policy allows.
LEMMA RowWaitsMessageInv ==
  ASSUME MessageInv, row' \in Row, row'.attempts = row.attempts, row'.id = row.id,
         row'.status = row.status, row'.retryable = row.retryable, row'.code = row.code,
         UNCHANGED <<copy, events, sender>>, allowed' \in BOOLEAN
  PROVE  MessageInv'
<1>1. sender' \in [Sender -> SenderRecord] /\ (NoneActive' <=> NoneActive) /\ (Clear' <=> Clear)
  BY DEF MessageInv, MessageTypeOK, NoneActive, Active, Clear, Dispatchable
<1> QED BY <1>1, SameAttemptMessageInv DEF MessageInv, MessageTypeOK, ClearInv, IdInv

LEMMA RateLimitedMessageInv ==
  ASSUME MessageInv, NEW w \in Sender, RateLimited(w)
  PROVE  MessageInv'
<1>1. /\ row' \in Row /\ row'.attempts = row.attempts /\ row'.id = row.id
      /\ row'.status = row.status /\ row'.retryable = row.retryable /\ row'.code = row.code
  BY DEF MessageInv, MessageTypeOK, RateLimited, Row
<1> QED BY <1>1, RowWaitsMessageInv DEF RateLimited, MessageInv, MessageTypeOK

LEMMA TimePassesMessageInv == MessageInv /\ TimePasses => MessageInv'
<1> SUFFICES ASSUME MessageInv, TimePasses PROVE MessageInv'
    OBVIOUS
<1>1. /\ row' \in Row /\ row'.attempts = row.attempts /\ row'.id = row.id
      /\ row'.status = row.status /\ row'.retryable = row.retryable /\ row'.code = row.code
  BY DEF MessageInv, MessageTypeOK, TimePasses, Row
<1> QED BY <1>1, RowWaitsMessageInv DEF TimePasses, MessageInv, MessageTypeOK

LEMMA PolicyChangesMessageInv == MessageInv /\ PolicyChanges => MessageInv'
BY RowWaitsMessageInv DEF PolicyChanges, MessageInv, MessageTypeOK

\* A claim begins an attempt whose copy does not exist, after all before failed.
LEMMA ClaimMessageInv ==
  ASSUME MessageInv, NEW w \in Sender, Claim(w)
  PROVE  MessageInv'
<1>1. /\ row.attempts \in Nat /\ MaxSends \in Nat /\ row.attempts < MaxSends
      /\ row.id \in Nat /\ row.attempts + 1 \in Attempt /\ row.attempts + 1 \in 0..MaxSends
  BY NumbersAreNatural DEF MessageInv, Claim, Limited, Attempt
<1>2. /\ row' \in Row /\ row'.status = "sending" /\ row'.retryable = FALSE
      /\ row'.attempts = row.attempts + 1 /\ row'.id = row.id
  BY <1>1 DEF MessageInv, MessageTypeOK, Claim, Claimed, Row
<1>3. /\ sender' \in [Sender -> SenderRecord]
      /\ \A v \in Sender : v # w => sender'[v] = sender[v]
      /\ sender'[w].phase = "claimed" /\ sender'[w].attempt = row.attempts + 1
  BY <1>1 DEF MessageInv, MessageTypeOK, Claim, SenderRecord
<1>4. Dispatchable /\ UNCHANGED <<copy, events, allowed>>
  BY DEF Claim
<1>5. NoneActive /\ NoneLive
  BY <1>4 DEF MessageInv, ClearInv, Clear
<1>6. MessageTypeOK' /\ NewInv'
  BY <1>2, <1>3, <1>4 DEF MessageInv, MessageTypeOK, NewInv
<1>7. WorkerInv'
  BY <1>1, <1>2, <1>3, <1>5 DEF WorkerInv, NoneActive, Active
<1>8. CopyInv'
  <2>1. \A n \in Attempt : ~Live(n)'
    BY <1>4, <1>5 DEF NoneLive, Live
  <2>2. \A n \in Attempt : n \in Nat /\ (n > row.attempts => copy[n] = "none")
    BY DEF MessageInv, CopyInv, Attempt
  <2>3. copy[row.attempts + 1] = "none"
    BY <1>1, <2>2
  <2> QED BY <1>1, <1>2, <1>3, <1>4, <1>5, <2>1, <2>2, <2>3 DEF CopyInv, NoneActive, Active
<1>9. ClearInv'
  BY <1>2 DEF ClearInv, Clear, Dispatchable
<1>10. IdInv'
  <2>1. row.id # 0 => row.id <= row.attempts /\ Answered(row.id) /\ <<row.id, "failed">> \in events
    BY <1>4 DEF MessageInv, IdInv, Dispatchable
  <2> QED BY <1>1, <1>2, <1>4, <2>1 DEF IdInv, Answered
<1> QED BY <1>6, <1>7, <1>8, <1>9, <1>10 DEF MessageInv
-----------------------------------------------------------------------------
\* A dispatcher gives up on its attempt while nothing else changes.
LEMMA EndsMessageInv ==
  ASSUME MessageInv, NEW w \in Sender, Active(w), SenderStops(w), UNCHANGED <<copy, events, allowed>>,
         \/ row' = row
         \/ \E code \in Code, retryable \in BOOLEAN :
               /\ row' = FailedRow(code, retryable)
               /\ code = "open" => ~retryable
               /\ code # "open" => NoneLive
  PROVE  MessageInv'
<1>1. SenderLeaves(w) /\ NoneActive'
  <2>1. SenderLeaves(w)
    BY SenderStopsIs DEF MessageInv
  <2> QED BY <2>1 DEF SenderLeaves, NoneActive, Active, MessageInv, WorkerInv
<1>2. /\ row' \in Row /\ row'.attempts = row.attempts /\ row'.id = row.id
      /\ row'.status \in {row.status, "failed"}
  BY FailedRowIs DEF MessageInv, MessageTypeOK
<1>3. Clear' => NoneLive
  <2>1. ~Clear
    BY DEF MessageInv, ClearInv, NoneActive, Active
  <2>2. CASE row' = row
    BY <2>1, <2>2 DEF Clear, Dispatchable
  <2>3. CASE row' # row
    BY <2>3, FailedRowIs DEF MessageInv, Clear, Dispatchable
  <2> QED BY <2>2, <2>3
<1>4. row.id # 0 => <<row.id, "failed">> \in events
  <2>1. sender[w].attempt = row.attempts
    BY DEF MessageInv, WorkerInv
  <2>2. row.id # 0 => row.id < row.attempts
    BY NumbersAreNatural DEF MessageInv, IdInv, NoneActive
  <2> QED BY <2>2 DEF MessageInv, IdInv
<1> QED BY <1>1, <1>2, <1>3, <1>4, SameAttemptMessageInv DEF SenderLeaves, MessageInv, MessageTypeOK, IdInv

\* Nothing may be live while a claimed attempt has no copy, or a refused one.
LEMMA DeadAttempt ==
  ASSUME MessageInv, NEW w \in Sender, Active(w), copy[sender[w].attempt] \in {"none", "refused"}
  PROVE  NoneLive
BY DEF MessageInv, WorkerInv, CopyInv, NoneLive, Live

LEMMA PrepareFailsMessageInv ==
  ASSUME MessageInv, NEW w \in Sender, PrepareFails(w)
  PROVE  MessageInv'
<1>1. NoneLive
  BY DeadAttempt DEF PrepareFails, Active, MessageInv, CopyInv
<1>2. CanRetry \in BOOLEAN
  BY DEF CanRetry
<1> QED BY <1>1, <1>2, EndsMessageInv DEF PrepareFails, Active, Code

LEMMA AnsweredRefusalMessageInv ==
  ASSUME MessageInv, NEW w \in Sender, AnsweredRefusal(w)
  PROVE  MessageInv'
<1>1. NoneLive
  BY DeadAttempt DEF AnsweredRefusal, Active
<1>2. CanRetry \in BOOLEAN
  BY DEF CanRetry
<1> QED BY <1>1, <1>2, EndsMessageInv DEF AnsweredRefusal, Active, Code

LEMMA AnswerLostMessageInv ==
  ASSUME MessageInv, NEW w \in Sender, AnswerLost(w)
  PROVE  MessageInv'
BY EndsMessageInv DEF AnswerLost, AfterOpenAnswer, Active, Code

LEMMA NothingAnsweredMessageInv ==
  ASSUME MessageInv, NEW w \in Sender, IdConflict(w) \/ SenderCrash(w)
  PROVE  MessageInv'
BY EndsMessageInv DEF IdConflict, SenderCrash, Active

LEMMA PostMessageInv ==
  ASSUME MessageInv, NEW w \in Sender, Post(w)
  PROVE  MessageInv'
<1>1. /\ sender[w].attempt \in Attempt /\ sender[w].attempt = row.attempts
      /\ copy[sender[w].attempt] = "none" /\ Active(w)
  BY DEF Post, Active, MessageInv, WorkerInv, CopyInv
<1>2. /\ copy' \in [Attempt -> CopyState]
      /\ copy'[sender[w].attempt] = "travelling"
      /\ \A n \in Attempt : n # sender[w].attempt => copy'[n] = copy[n]
  BY <1>1 DEF Post, MessageInv, MessageTypeOK, CopyState
<1>3. /\ sender' \in [Sender -> SenderRecord]
      /\ \A v \in Sender : v # w => sender'[v] = sender[v]
      /\ sender'[w].phase = "posted" /\ sender'[w].attempt = sender[w].attempt
  BY DEF Post, MessageInv, MessageTypeOK, SenderRecord
<1>4. UNCHANGED <<row, events, allowed>>
  BY DEF Post
<1>5. MessageTypeOK' /\ NewInv'
  BY <1>2, <1>3, <1>4 DEF MessageInv, MessageTypeOK, NewInv
<1>6. WorkerInv'
  BY <1>1, <1>3, <1>4 DEF MessageInv, WorkerInv, Active
<1>7. CopyInv'
  <2>1. \A v \in Sender : sender'[v].phase # "claimed"
    BY <1>1, <1>3 DEF MessageInv, WorkerInv, Active
  <2>2. \A n \in Attempt : n > row.attempts => n # sender[w].attempt
    BY <1>1 DEF Attempt
  <2> QED BY <1>1, <1>2, <1>4, <2>1, <2>2 DEF MessageInv, CopyInv, Live
<1>8. ~Clear /\ ~Clear'
  BY <1>1, <1>4 DEF MessageInv, ClearInv, NoneActive, Clear, Dispatchable
<1>9. IdInv'
  <2>1. row.id # 0 => row.id # row.attempts /\ row.id \in Attempt
    BY <1>1, NumbersAreNatural DEF MessageInv, IdInv, NoneActive, Attempt
  <2>2. row.id # 0 => copy'[row.id] = copy[row.id]
    BY <1>1, <1>2, <2>1
  <2> QED BY <1>1, <1>4, <2>1, <2>2 DEF MessageInv, IdInv, Answered, NoneActive
<1> QED BY <1>5, <1>6, <1>7, <1>8, <1>9 DEF MessageInv, ClearInv

\* The answer of the newest attempt gives the row its id.
LEMMA AnsweredSuccessMessageInv ==
  ASSUME MessageInv, NEW w \in Sender, AnsweredSuccess(w)
  PROVE  MessageInv'
<1>1. /\ sender[w].attempt \in Attempt /\ sender[w].attempt = row.attempts /\ Active(w)
      /\ Answered(sender[w].attempt) /\ sender[w].attempt \in 0..MaxSends
  BY MaxSendsAssumption DEF AnsweredSuccess, Active, MessageInv, WorkerInv, Attempt
<1>2. /\ row' \in Row /\ row'.status = "sent" /\ row'.attempts = row.attempts
      /\ row'.id = row.attempts
  BY <1>1 DEF AnsweredSuccess, MessageInv, MessageTypeOK, Row, Shown, Code
<1>3. SenderLeaves(w) /\ NoneActive'
  <2>1. SenderLeaves(w)
    BY SenderStopsIs DEF MessageInv, AnsweredSuccess
  <2> QED BY <1>1, <2>1 DEF SenderLeaves, NoneActive, Active, MessageInv, WorkerInv
<1>4. UNCHANGED <<copy, events, allowed>>
  BY DEF AnsweredSuccess
<1>5. MessageTypeOK' /\ NewInv' /\ ClearInv'
  BY <1>2, <1>3, <1>4 DEF MessageInv, MessageTypeOK, NewInv, ClearInv, Clear, Dispatchable, SenderLeaves
<1>6. WorkerInv' /\ CopyInv'
  BY <1>2, <1>3, <1>4 DEF MessageInv, WorkerInv, CopyInv, NoneActive, Active, Live
<1>7. IdInv'
  BY <1>1, <1>2, <1>3, <1>4, NumbersAreNatural DEF MessageInv, IdInv, Answered
<1> QED BY <1>5, <1>6, <1>7 DEF MessageInv

LEMMA RecoverStaleMessageInv == MessageInv /\ RecoverStale => MessageInv'
<1> SUFFICES ASSUME MessageInv, RecoverStale PROVE MessageInv'
    OBVIOUS
<1>1. /\ row' \in Row /\ row'.status = "failed" /\ row'.code = "open" /\ row'.retryable = FALSE
      /\ row'.attempts = row.attempts /\ row'.id = row.id
      /\ UNCHANGED <<copy, events, allowed, sender>> /\ row.status = "sending"
  BY FailedRowIs DEF RecoverStale, StaleClaim, MessageInv, Code
<1>2. ~Clear'
  BY <1>1 DEF Clear, Dispatchable
<1> QED BY <1>1, <1>2, SameAttemptMessageInv DEF MessageInv, MessageTypeOK, IdInv

LEMMA ManualRetryMessageInv == MessageInv /\ ManualRetry => MessageInv'
<1> SUFFICES ASSUME MessageInv, ManualRetry PROVE MessageInv'
    OBVIOUS
<1>1. /\ row' \in Row /\ row'.status = "queued"
      /\ row'.attempts = row.attempts /\ row'.id = row.id
      /\ UNCHANGED <<copy, events, allowed, sender>> /\ row.status = "failed" /\ row.retryable
  BY DEF ManualRetry, MessageInv, MessageTypeOK, Row, Code
<1>2. NoneActive /\ NoneLive
  BY <1>1 DEF MessageInv, ClearInv, Clear, Dispatchable
<1>3. NoneActive'
  BY <1>1, <1>2 DEF NoneActive, Active
<1> QED BY <1>1, <1>2, <1>3, SameAttemptMessageInv DEF MessageInv, MessageTypeOK, IdInv
-----------------------------------------------------------------------------
\* A receipt names the copy on the row; a failure of it is new, so no attempt
\* has begun since.
LEMMA ReceiptComesMessageInv == MessageInv /\ ReceiptComes => MessageInv'
<1> SUFFICES ASSUME MessageInv, ReceiptComes PROVE MessageInv'
    OBVIOUS
<1>1. PICK status \in Issued(row.id) :
         /\ <<row.id, status>> \notin events
         /\ events' = events \cup {<<row.id, status>>}
         /\ row' \in AfterReceipt(status) \cup {row}
  BY DEF ReceiptComes, IsNew
<1>2. row.id # 0 /\ row.id \in Attempt /\ UNCHANGED <<copy, allowed, sender>>
  BY NumbersAreNatural DEF ReceiptComes, Attempt, MessageInv
<1>3. status \in {"sent", "delivered", "read", "failed"}
  BY <1>1 DEF Issued
<1>4. events \subseteq events' /\ events' \subseteq Receipt /\ <<row.id, status>> \in events'
  BY <1>1, <1>2, <1>3 DEF Receipt, MessageInv, MessageTypeOK
<1>5. row.id < row.attempts => <<row.id, "failed">> \in events
  BY <1>2 DEF MessageInv, IdInv
<1>6. row.status # "none" /\ NoneActive' = NoneActive
  BY <1>2 DEF MessageInv, NewInv, NoneActive, Active
<1>7. CASE row' = row
  <2>1. Clear' => NoneActive' /\ NoneLive
    BY <1>6, <1>7 DEF Clear, Dispatchable, MessageInv, ClearInv
  <2>2. row.id # 0 /\ row'.status \in {"queued", "sending", "failed"}
           => <<row.id, "failed">> \in events'
    BY <1>4, <1>7 DEF MessageInv, IdInv
  <2>3. row'.status \in {"delivered", "read"} => NoneActive'
    BY <1>6, <1>7 DEF MessageInv, IdInv
  <2> QED BY <1>2, <1>4, <1>7, <2>1, <2>2, <2>3, SameAttemptMessageInv DEF MessageInv, MessageTypeOK
<1>8. CASE Applies(status) /\ row' # row
  <2>1. /\ row' \in Row /\ row'.status = status /\ status \in Shown
        /\ row'.attempts = row.attempts /\ row'.id = row.id
    BY <1>1, <1>8 DEF AfterReceipt, Applies, Shown, Row, Code, MessageInv, MessageTypeOK
  <2>2. ~Clear'
    BY <2>1 DEF Clear, Dispatchable, Shown
  <2>3. status \in {"delivered", "read"} => NoneActive
    <3>1. status \in {"delivered", "read"} => Live(row.id)
      BY <1>1 DEF Issued, Live
    <3> QED BY <1>2, <3>1 DEF MessageInv, CopyInv, IdInv
  <2> QED BY <1>2, <1>4, <1>6, <2>1, <2>2, <2>3, SameAttemptMessageInv DEF MessageInv, MessageTypeOK, Shown
<1>9. CASE ~Applies(status) /\ row' # row
  <2>1. PICK retryable \in BOOLEAN : row' = FailedRow("reported", retryable) /\ status = "failed"
    BY <1>1, <1>9 DEF AfterReceipt
  <2>2. /\ row' \in Row /\ row'.status = "failed"
        /\ row'.attempts = row.attempts /\ row'.id = row.id
    BY <2>1, FailedRowIs DEF MessageInv, Code
  <2>3. row.id = row.attempts
    BY <1>1, <1>2, <1>5, <2>1, NumbersAreNatural DEF MessageInv, IdInv
  <2>4. NoneActive /\ NoneLive
    BY <1>1, <1>2, <2>1, <2>3 DEF MessageInv, IdInv, CopyInv, NoneLive, Live, Issued
  <2> QED BY <1>2, <1>4, <1>6, <2>1, <2>2, <2>4, SameAttemptMessageInv DEF MessageInv, MessageTypeOK
<1> QED BY <1>7, <1>8, <1>9

\* A copy that goes on at the platform: it only comes alive while it travels,
\* when it was alive already, and a copy with an answer keeps one.
LEMMA CopyMovesMessageInv ==
  ASSUME MessageInv, NEW n \in Attempt, NEW state \in CopyState \ {"none"}, copy[n] # "none",
         copy' = [copy EXCEPT ![n] = state], UNCHANGED <<row, events, allowed, sender>>,
         Live(n)' => Live(n), Answered(n) => Answered(n)'
  PROVE  MessageInv'
<1>1. /\ copy' \in [Attempt -> CopyState]
      /\ \A m \in Attempt : m # n => copy'[m] = copy[m]
      /\ \A m \in Attempt : Live(m)' => Live(m)
      /\ \A m \in Attempt : copy'[m] = "none" <=> copy[m] = "none"
      /\ \A m \in Attempt : Answered(m) => Answered(m)'
  BY DEF MessageInv, MessageTypeOK, Live, Answered
<1>2. MessageTypeOK' /\ NewInv' /\ WorkerInv'
  BY <1>1 DEF MessageInv, MessageTypeOK, NewInv, WorkerInv, Active
<1>3. CopyInv'
  BY <1>1 DEF MessageInv, CopyInv, WorkerInv, Active
<1>4. ClearInv'
  BY <1>1 DEF MessageInv, ClearInv, NoneLive, NoneActive, Active, Clear, Dispatchable
<1>5. IdInv'
  <2>1. row.id # 0 => row.id \in Attempt
    BY NumbersAreNatural DEF MessageInv, Attempt
  <2> QED BY <1>1, <2>1 DEF MessageInv, IdInv, NoneActive, Active
<1> QED BY <1>2, <1>3, <1>4, <1>5 DEF MessageInv

LEMMA ArrivesMessageInv == MessageInv /\ Arrives => MessageInv'
<1> SUFFICES ASSUME MessageInv, NEW n \in Attempt, copy[n] = "travelling",
                    NEW state \in {"lost", "refused", "taken"},
                    copy' = [copy EXCEPT ![n] = state], UNCHANGED <<row, events, allowed, sender>>
             PROVE  MessageInv'
    BY DEF Arrives
<1>1. Live(n) /\ ~Answered(n) /\ state \in CopyState \ {"none"}
  BY DEF Live, Answered, CopyState
<1> QED BY <1>1, CopyMovesMessageInv

LEMMA DeliversMessageInv == MessageInv /\ Delivers => MessageInv'
<1> SUFFICES ASSUME MessageInv, NEW n \in Attempt, NEW state \in CopyState, <<copy[n], state>> \in Moves,
                    copy' = [copy EXCEPT ![n] = state], UNCHANGED <<row, events, allowed, sender>>
             PROVE  MessageInv'
    BY DEF Delivers
<1>1. /\ copy[n] \in {"taken", "delivered"} /\ state \in {"failed", "delivered", "read"}
      /\ copy'[n] = state
  BY DEF Moves, MessageInv, MessageTypeOK
<1>2. Live(n) /\ Answered(n)' /\ copy[n] # "none" /\ state \in CopyState \ {"none"}
  BY <1>1 DEF Live, Answered, CopyState
<1> QED BY <1>2, CopyMovesMessageInv

LEMMA NextMessageInv == MessageInv /\ [MessageNext]_messageVars => MessageInv'
<1> SUFFICES ASSUME MessageInv, [MessageNext]_messageVars PROVE MessageInv'
    OBVIOUS
<1>1. CASE Queue
  BY <1>1, QueueMessageInv
<1>2. ASSUME NEW w \in Sender, Dispatch(w)
      PROVE  MessageInv'
  BY <1>2, NotClaimedMessageInv, ClaimMessageInv DEF Dispatch
<1>3. ASSUME NEW w \in Sender, RateLimited(w)
      PROVE  MessageInv'
  BY <1>3, RateLimitedMessageInv
<1>4. ASSUME NEW w \in Sender, Sends(w)
      PROVE  MessageInv'
  BY <1>4, PrepareFailsMessageInv, PostMessageInv, AnsweredRefusalMessageInv, AnsweredSuccessMessageInv, AnswerLostMessageInv,
     NothingAnsweredMessageInv DEF Sends
<1>5. ASSUME NEW w \in Sender, SenderCrash(w)
      PROVE  MessageInv'
  BY <1>5, NothingAnsweredMessageInv
<1>6. CASE RecoverStale
  BY <1>6, RecoverStaleMessageInv
<1>7. CASE ManualRetry
  BY <1>7, ManualRetryMessageInv
<1>8. CASE ReceiptComes
  BY <1>8, ReceiptComesMessageInv
<1>9. CASE Arrives \/ Delivers
  BY <1>9, ArrivesMessageInv, DeliversMessageInv
<1>10. CASE TimePasses \/ PolicyChanges
  BY <1>10, TimePassesMessageInv, PolicyChangesMessageInv
<1>11. CASE UNCHANGED messageVars
  BY <1>11, StutterMessageInv
<1> QED BY <1>1, <1>2, <1>3, <1>4, <1>5, <1>6, <1>7, <1>8, <1>9, <1>10, <1>11 DEF MessageNext
-----------------------------------------------------------------------------
\* The inductive invariant of a message and its dispatchers.
THEOREM MessageInvariant == MessageSpec => []MessageInv
BY InitMessageInv, NextMessageInv, PTL DEF MessageSpec

\* Every reachable state is well typed: an attempt is never counted beyond
\* max_send_attempts.
THEOREM MessageTypesHold == MessageSpec => []MessageTypeOK
<1>1. MessageInv => MessageTypeOK
  BY DEF MessageInv
<1> QED BY <1>1, MessageInvariant, PTL

\* Whatever dispatch_whatsapp_messages, crashes and receipts do, at most one
\* copy of the message may still reach the customer.
THEOREM MessageIsSentOnce == MessageSpec => []OneCopy
<1>1. ASSUME MessageInv
      PROVE  OneCopy
  <2> DEFINE copies == {n \in Attempt : Live(n)}
  <2>1. copies \subseteq {row.attempts}
    BY <1>1 DEF MessageInv, CopyInv
  <2>2. IsFiniteSet({row.attempts}) /\ Cardinality({row.attempts}) = 1
    BY FS_Singleton
  <2>3. copies \in SUBSET {row.attempts}
    BY <2>1
  <2>4. IsFiniteSet(copies) /\ Cardinality(copies) <= 1
    BY <2>2, <2>3, FS_Subset
  <2> QED BY <2>4 DEF OneCopy
<1> QED BY <1>1, MessageInvariant, PTL

\* A message that failed for a definite reason, or waits to be sent again, has
\* no copy and no dispatcher that could still deliver it.
THEOREM FailureCanBeTrusted == MessageSpec => []FailureIsTrue
<1>1. MessageInv => FailureIsTrue
  BY DEF MessageInv, ClearInv, Clear, NoneActive, NoneLive, Active, FailureIsTrue
<1> QED BY <1>1, MessageInvariant, PTL

\* What DeliveryIsFinal says of one step.
FinalStep ==
    /\ row.status = "delivered" => row'.status \in {"delivered", "read"}
    /\ row.status = "read" => row'.status = "read"

LEMMA StepIsFinal == MessageInv /\ [MessageNext]_messageVars => FinalStep
<1> SUFFICES ASSUME MessageInv, [MessageNext]_messageVars, row.status \in {"delivered", "read"}
             PROVE  FinalStep
    BY DEF FinalStep
<1>1. NoneActive /\ ~Clear /\ row.status \notin {"none", "queued", "sending", "failed"}
  BY DEF MessageInv, IdInv, Clear, Dispatchable
<1>2. ASSUME NEW w \in Sender, Dispatch(w) \/ RateLimited(w) \/ Sends(w) \/ SenderCrash(w)
      PROVE  FALSE
  BY <1>1, <1>2 DEF NoneActive, Active, Clear, Dispatchable, Dispatch, AttemptLimit, PolicyRefuses,
     Claim, RateLimited, Sends, PrepareFails, Post, AnsweredRefusal, AnsweredSuccess, AnswerLost,
     IdConflict, SenderCrash
<1>3. ~Queue /\ ~RecoverStale /\ ~ManualRetry
  BY <1>1 DEF Queue, RecoverStale, ManualRetry
<1>4. CASE ReceiptComes
  <2>1. PICK status \in Issued(row.id) : row' \in AfterReceipt(status) \cup {row}
    BY <1>4 DEF ReceiptComes
  <2>2. CASE Applies(status)
    <3>1. row'.status \in {status, row.status}
      BY <2>1, <2>2 DEF AfterReceipt, MessageInv, MessageTypeOK, Row
    <3>2. status \in Shown /\ Rank(status) >= Rank(row.status)
      BY <2>2 DEF Applies
    <3> QED BY <3>1, <3>2 DEF FinalStep, Shown, Rank
  <2>3. CASE ~Applies(status)
    BY <1>1, <2>1, <2>3 DEF AfterReceipt, FinalStep
  <2> QED BY <2>2, <2>3
<1>5. CASE Arrives \/ Delivers \/ TimePasses \/ PolicyChanges \/ UNCHANGED messageVars
  <2>1. row'.status = row.status
    BY <1>5 DEF Arrives, Delivers, TimePasses, PolicyChanges, messageVars, MessageInv, MessageTypeOK, Row
  <2> QED BY <2>1 DEF FinalStep
<1> QED BY <1>2, <1>3, <1>4, <1>5 DEF MessageNext

\* Once delivered, a message is not shown as anything less, whatever order the
\* receipts and the late answers come in (process_whatsapp_status_receipt).
THEOREM DeliveredForGood == MessageSpec => DeliveryIsFinal
<1>1. MessageInv /\ [MessageNext]_messageVars => [FinalStep]_messageVars
  BY StepIsFinal
<1>2. [][FinalStep]_messageVars <=> DeliveryIsFinal
  BY PTL DEF DeliveryIsFinal, FinalStep
<1> QED BY <1>1, <1>2, MessageInvariant, PTL DEF MessageSpec
-----------------------------------------------------------------------------
(***************************************************************************)
(* Inquiries of the public form, for any attempts, contents, addresses and *)
(* requests. A request that holds the advisory lock of its attempt, or of  *)
(* its content, is alone with it (LocksInv), so what it looked for under   *)
(* the lock is still so when it stores the inquiry (FoundInv).             *)
(***************************************************************************)
\* The request holds the lock of its attempt; it holds that of its content.
HoldsAttempt(r) == request[r].step \in {"attempted", "clear"}
HoldsContent(r) == request[r].step = "clear"

LocksInv ==
    \A r, s \in Request : r # s =>
        /\ HoldsAttempt(r) /\ HoldsAttempt(s) /\ request[r].says.attempt # Unknown
              => request[r].says.attempt # request[s].says.attempt
        /\ HoldsContent(r) /\ HoldsContent(s)
              => request[r].says.content # request[s].says.content

\* What was looked at under a lock is still so.
FoundInv ==
    \A r \in Request :
        /\ request[r].step # "idle" => request[r].says \in Inquiry
        /\ HoldsAttempt(r) => ~Repeated(request[r].says)
        /\ HoldsContent(r) => ~Duplicate(request[r].says)

CaptureInv == CaptureTypeOK /\ LocksInv /\ FoundInv /\ NoInquiryTwice

RequestRecord == [step : CaptureStep, says : Inquiry \cup {Unknown}]

LEMMA QuietIs == Quiet \in RequestRecord /\ Quiet.step = "idle"
BY DEF Quiet, RequestRecord, CaptureStep

LEMMA InitCaptureInv == CaptureInit => CaptureInv
<1> SUFFICES ASSUME CaptureInit PROVE CaptureInv
    OBVIOUS
<1>1. CaptureTypeOK
  BY QuietIs, TimeAssumption DEF CaptureInit, CaptureTypeOK, RequestRecord
<1>2. \A r \in Request : request[r].step = "idle"
  BY QuietIs DEF CaptureInit
<1>3. NoInquiryTwice
  BY DEF CaptureInit, NoInquiryTwice, OneInquiryPerAttempt, RepeatsAreApart
<1> QED BY <1>1, <1>2, <1>3 DEF CaptureInv, LocksInv, FoundInv, HoldsAttempt, HoldsContent

\* One request takes a step and nothing is stored: what it may now rely on is
\* all there is to show.
LEMMA RequestMoves ==
  ASSUME CaptureInv, UNCHANGED <<inquiry, clock>>, NEW r \in Request,
         request' \in [Request -> RequestRecord],
         \A s \in Request : s # r => request'[s] = request[s],
         request'[r].step # "idle" => request'[r].says \in Inquiry,
         HoldsAttempt(r)' =>
             /\ ~Repeated(request'[r].says)
             /\ \A s \in Request \ {r} : HoldsAttempt(s) /\ request'[r].says.attempt # Unknown =>
                   request[s].says.attempt # request'[r].says.attempt,
         HoldsContent(r)' =>
             /\ ~Duplicate(request'[r].says)
             /\ \A s \in Request \ {r} : HoldsContent(s) =>
                   request[s].says.content # request'[r].says.content
  PROVE  CaptureInv'
<1>1. CaptureTypeOK' /\ NoInquiryTwice'
  BY DEF CaptureInv, CaptureTypeOK, RequestRecord, NoInquiryTwice, OneInquiryPerAttempt, RepeatsAreApart
<1>2. Stored' = Stored
  BY DEF Stored
<1>3. FoundInv'
  <2>1. SUFFICES ASSUME NEW s \in Request
                 PROVE /\ request'[s].step # "idle" => request'[s].says \in Inquiry
                       /\ HoldsAttempt(s)' => ~Repeated(request[s].says)'
                       /\ HoldsContent(s)' => ~Duplicate(request[s].says)'
    BY DEF FoundInv
  <2>2. CASE s = r
    BY <1>2, <2>2 DEF Repeated, Duplicate
  <2>3. CASE s # r
    <3>1. request'[s] = request[s]
      BY <2>3
    <3> QED BY <1>2, <3>1 DEF CaptureInv, FoundInv, HoldsAttempt, HoldsContent, Repeated, Duplicate
  <2> QED BY <2>2, <2>3
<1>4. LocksInv'
  BY DEF CaptureInv, LocksInv, HoldsAttempt, HoldsContent
<1> QED BY <1>1, <1>3, <1>4 DEF CaptureInv

\* The request ends, its transaction with it.
LEMMA EndsCaptureInv ==
  ASSUME CaptureInv, UNCHANGED <<inquiry, clock>>, NEW r \in Request,
         request' = [request EXCEPT ![r] = Quiet]
  PROVE  CaptureInv'
<1>1. /\ request' \in [Request -> RequestRecord] /\ request'[r].step = "idle"
      /\ \A s \in Request : s # r => request'[s] = request[s]
  BY QuietIs DEF CaptureInv, CaptureTypeOK, RequestRecord
<1> QED BY <1>1, RequestMoves DEF HoldsAttempt, HoldsContent

LEMMA AdvanceIs ==
  ASSUME CaptureInv, NEW r \in Request, NEW step \in CaptureStep, Advance(r, step)
  PROVE  /\ request' \in [Request -> RequestRecord]
         /\ request'[r].step = step /\ request'[r].says = request[r].says
         /\ \A s \in Request : s # r => request'[s] = request[s]
BY DEF CaptureInv, CaptureTypeOK, RequestRecord, Advance

LEMMA ArriveCaptureInv ==
  ASSUME CaptureInv, NEW r \in Request, NEW says \in Inquiry, Arrive(r, says) PROVE CaptureInv'
<1>1. /\ UNCHANGED <<inquiry, clock>>
      /\ request' = [request EXCEPT ![r] = [step |-> "arrived", says |-> says]]
  BY DEF Arrive
<1>2. /\ request' \in [Request -> RequestRecord]
      /\ request'[r] = [step |-> "arrived", says |-> says]
      /\ \A s \in Request : s # r => request'[s] = request[s]
  BY <1>1 DEF CaptureInv, CaptureTypeOK, RequestRecord, CaptureStep
<1> QED BY <1>1, <1>2, RequestMoves DEF HoldsAttempt, HoldsContent

LEMMA LockAddressCaptureInv ==
  ASSUME CaptureInv, NEW r \in Request, LockAddress(r) PROVE CaptureInv'
<1>1. /\ request[r].step = "arrived" /\ Advance(r, "counted") /\ UNCHANGED <<inquiry, clock>>
      /\ "counted" \in CaptureStep
  BY DEF LockAddress, CaptureStep
<1>2. request[r].says \in Inquiry
  BY <1>1 DEF CaptureInv, FoundInv
<1> QED BY <1>1, <1>2, AdvanceIs, RequestMoves DEF HoldsAttempt, HoldsContent

LEMMA LockAttemptCaptureInv ==
  ASSUME CaptureInv, NEW r \in Request, LockAttempt(r) PROVE CaptureInv'
<1>1. /\ request[r].step = "counted" /\ UNCHANGED <<inquiry, clock>>
      /\ Free(r, {"attempted", "clear"}, request[r].says.attempt)
  BY DEF LockAttempt
<1>2. CASE Repeated(request[r].says)
  BY <1>1, <1>2, EndsCaptureInv DEF LockAttempt
<1>3. CASE ~Repeated(request[r].says)
  <2>1. Advance(r, "attempted") /\ "attempted" \in CaptureStep
    BY <1>3 DEF LockAttempt, CaptureStep
  <2>2. request[r].says \in Inquiry
    BY <1>1 DEF CaptureInv, FoundInv
  <2>3. \A s \in Request \ {r} : HoldsAttempt(s) /\ request[r].says.attempt # Unknown =>
            request[s].says.attempt # request[r].says.attempt
    BY <1>1 DEF Free, HoldsAttempt
  <2> QED BY <1>1, <1>3, <2>1, <2>2, <2>3, AdvanceIs, RequestMoves DEF HoldsContent
<1> QED BY <1>2, <1>3

LEMMA LockContentCaptureInv ==
  ASSUME CaptureInv, NEW r \in Request, LockContent(r) PROVE CaptureInv'
<1>1. /\ request[r].step = "attempted" /\ UNCHANGED <<inquiry, clock>>
      /\ Free(r, {"clear"}, request[r].says.content)
  BY DEF LockContent
<1>2. CASE Duplicate(request[r].says) \/ ~WithinRate(request[r].says)
  BY <1>1, <1>2, EndsCaptureInv DEF LockContent
<1>3. CASE ~(Duplicate(request[r].says) \/ ~WithinRate(request[r].says))
  <2>1. Advance(r, "clear") /\ "clear" \in CaptureStep
    BY <1>3 DEF LockContent, CaptureStep
  <2>2. request[r].says \in Inquiry /\ ~Repeated(request[r].says)
    BY <1>1 DEF CaptureInv, FoundInv, HoldsAttempt
  <2>3. request[r].says.content # Unknown
    BY <2>2, UnknownAssumption DEF Inquiry
  <2>4. \A s \in Request \ {r} : HoldsContent(s) =>
            request[s].says.content # request[r].says.content
    BY <1>1, <2>3 DEF Free, HoldsContent
  <2>5. \A s \in Request \ {r} : HoldsAttempt(s) /\ request[r].says.attempt # Unknown =>
            request[s].says.attempt # request[r].says.attempt
    BY <1>1 DEF CaptureInv, LocksInv, HoldsAttempt
  <2> QED BY <1>1, <1>3, <2>1, <2>2, <2>4, <2>5, AdvanceIs, RequestMoves
<1> QED BY <1>2, <1>3

\* The request that stores is the only one with its attempt and its content, so
\* nobody else's look is made false.
LEMMA StoreInquiryCaptureInv ==
  ASSUME CaptureInv, NEW r \in Request, StoreInquiry(r) PROVE CaptureInv'
<1> DEFINE new == request[r].says
<1>1. /\ request[r].step = "clear" /\ clock' = clock
      /\ inquiry' = Append(inquiry, new) /\ request' = [request EXCEPT ![r] = Quiet]
  BY DEF StoreInquiry
<1>2. new \in Inquiry /\ ~Repeated(new) /\ ~Duplicate(new)
  BY <1>1 DEF CaptureInv, FoundInv, HoldsAttempt, HoldsContent
<1>3. inquiry \in Seq(Inquiry)
  BY DEF CaptureInv, CaptureTypeOK
<1> HIDE DEF new
<1>4. /\ inquiry' \in Seq(Inquiry) /\ Len(inquiry') = Len(inquiry) + 1
      /\ Len(inquiry) \in Nat /\ DOMAIN inquiry = 1..Len(inquiry)
      /\ DOMAIN inquiry' = 1..(Len(inquiry) + 1)
      /\ \A n \in DOMAIN inquiry : inquiry'[n] = inquiry[n]
      /\ inquiry'[Len(inquiry) + 1] = new
  BY <1>1, <1>2, <1>3
<1>5. Stored' = Stored \cup {new}
  BY <1>4 DEF Stored
<1>6. /\ request' \in [Request -> RequestRecord] /\ request'[r].step = "idle"
      /\ \A s \in Request : s # r => request'[s] = request[s]
  BY <1>1, QuietIs DEF CaptureInv, CaptureTypeOK, RequestRecord
<1>7. CaptureTypeOK'
  BY <1>1, <1>4, <1>6 DEF CaptureInv, CaptureTypeOK, RequestRecord
<1>8. LocksInv'
  BY <1>6 DEF CaptureInv, LocksInv, HoldsAttempt, HoldsContent
<1>9. FoundInv'
  <2>1. SUFFICES ASSUME NEW s \in Request, s # r
                 PROVE /\ request[s].step # "idle" => request[s].says \in Inquiry
                       /\ HoldsAttempt(s) => ~Repeated(request[s].says)'
                       /\ HoldsContent(s) => ~Duplicate(request[s].says)'
    BY <1>6 DEF FoundInv, HoldsAttempt, HoldsContent
  <2>2. request'[s].says = request[s].says
    BY <1>6, <2>1
  <2>3. ASSUME HoldsAttempt(s), request[s].says.attempt # Unknown
        PROVE  request[s].says.attempt # new.attempt
    BY <1>1, <2>1, <2>3 DEF CaptureInv, LocksInv, HoldsAttempt, new
  <2>4. ASSUME HoldsContent(s)
        PROVE  request[s].says.content # new.content
    BY <1>1, <2>1, <2>4 DEF CaptureInv, LocksInv, HoldsContent, new
  <2> QED BY <1>5, <2>2, <2>3, <2>4 DEF CaptureInv, FoundInv, Repeated, Duplicate
<1>10. OneInquiryPerAttempt'
  <2>1. \A n \in DOMAIN inquiry : new.attempt # Unknown => inquiry[n].attempt # new.attempt
    BY <1>2 DEF Repeated, Stored
  <2> QED BY <1>4, <2>1 DEF CaptureInv, NoInquiryTwice, OneInquiryPerAttempt
<1>11. RepeatsAreApart'
  <2>1. \A n \in DOMAIN inquiry :
            inquiry[n].content = new.content => inquiry[n].at + Window < new.at
    <3>1. SUFFICES ASSUME NEW n \in DOMAIN inquiry, inquiry[n].content = new.content
                   PROVE  inquiry[n].at + Window < new.at
      OBVIOUS
    <3>2. ~(inquiry[n].at + Window >= new.at)
      BY <1>2, <3>1 DEF Duplicate, Stored
    <3>3. inquiry[n] \in Inquiry
      BY <1>3, <1>4
    <3>4. inquiry[n].at \in Nat /\ new.at \in Nat
      BY <1>2, <3>3, TimeAssumption DEF Inquiry
    <3> QED BY <3>2, <3>4, TimeAssumption
  <2>2. SUFFICES ASSUME NEW m \in DOMAIN inquiry', NEW n \in DOMAIN inquiry',
                        m < n, inquiry'[m].content = inquiry'[n].content
                 PROVE  inquiry'[m].at + Window < inquiry'[n].at
    BY DEF RepeatsAreApart
  <2>3. m \in DOMAIN inquiry
    BY <1>4, <2>2
  <2>4. CASE n \in DOMAIN inquiry
    BY <1>4, <2>2, <2>3, <2>4 DEF CaptureInv, NoInquiryTwice, RepeatsAreApart
  <2>5. CASE n \notin DOMAIN inquiry
    <3>1. n = Len(inquiry) + 1
      BY <1>4, <2>5
    <3> QED BY <1>4, <2>1, <2>2, <2>3, <3>1
  <2> QED BY <2>4, <2>5
<1> QED BY <1>7, <1>8, <1>9, <1>10, <1>11 DEF CaptureInv, NoInquiryTwice

LEMMA QuietCaptureInv ==
  ASSUME CaptureInv, UNCHANGED <<inquiry, request>>, clock' \in 0..MaxClock PROVE CaptureInv'
BY DEF CaptureInv, CaptureTypeOK, LocksInv, FoundInv, NoInquiryTwice, OneInquiryPerAttempt, RepeatsAreApart,
   HoldsAttempt, HoldsContent, Repeated, Duplicate, Stored

LEMMA NextCaptureInv == CaptureInv /\ [CaptureNext]_captureVars => CaptureInv'
<1> SUFFICES ASSUME CaptureInv, [CaptureNext]_captureVars PROVE CaptureInv'
    OBVIOUS
<1>1. CASE UNCHANGED captureVars
  BY <1>1, QuietCaptureInv DEF captureVars, CaptureInv, CaptureTypeOK
<1>2. CASE Tick
  BY <1>2, QuietCaptureInv, TimeAssumption DEF Tick, CaptureInv, CaptureTypeOK
<1>3. ASSUME NEW r \in Request,
             \/ \E says \in Inquiry : Arrive(r, says)
             \/ LockAddress(r) \/ LockAttempt(r) \/ LockContent(r) \/ StoreInquiry(r)
      PROVE  CaptureInv'
  BY <1>3, ArriveCaptureInv, LockAddressCaptureInv, LockAttemptCaptureInv,
     LockContentCaptureInv, StoreInquiryCaptureInv
<1>4. ASSUME NEW r \in Request, Lose(r) PROVE CaptureInv'
  BY <1>4, EndsCaptureInv DEF Lose
<1> QED BY <1>1, <1>2, <1>3, <1>4 DEF CaptureNext

\* The inductive invariant of the form's requests and what they stored.
LEMMA CaptureInvariantHolds == CaptureSpec => []CaptureInv
BY InitCaptureInv, NextCaptureInv, PTL DEF CaptureSpec

\* A form that is sent again, with the attempt it was sent with or with the same
\* content within the window, makes no second inquiry, also when the requests run
\* at once (create_submission and _acquire_dedupe_lock).
THEOREM InquiryIsCapturedOnce == CaptureSpec => []NoInquiryTwice
<1>1. CaptureInv => NoInquiryTwice
  BY DEF CaptureInv
<1> QED BY CaptureInvariantHolds, <1>1, PTL
-----------------------------------------------------------------------------
\* A run of the three beside each other is a run of each of them, so that what is
\* proved of the parts holds of the composition.
THEOREM InquiriesKeepTheirParts == InquiriesSpec => Spec /\ MessageSpec /\ CaptureSpec
<1>1. InquiriesInit => Init /\ MessageInit /\ CaptureInit
  BY DEF InquiriesInit
<1>2. [InquiriesNext]_inquiryVars =>
          [Next]_vars /\ [MessageNext]_messageVars /\ [CaptureNext]_captureVars
  BY DEF InquiriesNext, inquiryVars
<1> QED BY <1>1, <1>2, PTL DEF InquiriesSpec, Spec, MessageSpec, CaptureSpec
=============================================================================
