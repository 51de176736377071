------------------------- MODULE EventDeliveryProofs -------------------------
(***************************************************************************)
(* Proofs about EventDelivery, for any set of processes and any number of  *)
(* generations.  What makes the safety properties inductive is a table of  *)
(* what each attempt state says of the network and the provider            *)
(* (AttemptsInv), that only the latest generation may be unsettled         *)
(* (OrderInv), what a process may hold on to (WorkersInv, OneOwner), and   *)
(* that a row offered for sending, or stamped by an exact retry, has       *)
(* nothing unsettled behind it (QuietRows). A second invariant says that   *)
(* every status that may be projected is true (TruthInv), and the last     *)
(* part that the attempts of an event are a delivery slot.                 *)
(***************************************************************************)
EXTENDS EventDelivery, TLAPS

Untouched == {"none", "claimed", "failed", "cancelled"}
Settled(g) == \/ attempt[g].state \in {"none", "failed", "cancelled"}
              \/ attempt[g].state = "accepted" /\ attempt[g].final = "failed"

\* What the provider may know of a generation, by the state of its attempt.
AttemptsInv ==
    \A g \in Generation :
        /\ attempt[g].state \in Untouched => g \notin flight /\ verdict[g] = "none"
        /\ attempt[g].state = "accepted" => verdict[g] # "none"
        /\ g \in flight => verdict[g] = "none"
        /\ attempt[g].final # "" =>
              attempt[g].state = "accepted" /\ verdict[g] = attempt[g].final
        /\ attempt[g].state \in {"failed", "cancelled"} => attempt[g].result # ""
        /\ attempt[g].state \in {"accepted", "unknown"} =>
              attempt[g].result \notin {"", "pending", "skipped", "failed"}

OrderInv ==
    \A g \in Generation : /\ g < latest => Settled(g)
                          /\ g > latest => attempt[g].state = "none"

Holding == {"claimed", "sending", "awaiting"}
Repairing == {"repair", "repairThenRead", "repairThenPoll"}

\* What a process in phase p may rely on when it remembers generation g and
\* the result s.
Remembered(p, g, s) ==
    /\ p \in Holding => g \in Generation /\ g <= latest
    /\ p \in Repairing =>
          /\ g \in Generation /\ s # "" /\ attempt[g].state # "none"
          /\ s \in {"pending", "skipped", "failed"} =>
                attempt[g].state \in {"failed", "cancelled"}
    /\ p = "repairResult" => g \in Generation /\ s # "" /\ s = attempt[g].final
    /\ p = "claimed" => attempt[g].state \in {"claimed", "cancelled"}
    /\ p = "sending" => attempt[g].state = "handoff" /\ g \notin flight /\ verdict[g] = "none"

WorkerInv(w) == Remembered(worker[w].phase, worker[w].gen, worker[w].seen)
WorkersInv == \A w \in Worker : WorkerInv(w)

OneOwner ==
    \A v, w \in Worker :
        /\ worker[v].phase \in Holding /\ worker[w].phase \in Holding
        /\ worker[v].gen = worker[w].gen
        => v = w

Offered == \/ outbox.status \in {"pending", "failed", "skipped"}
           \/ outbox.status = "sending" /\ outbox.fresh # {}
QuietRows == Offered => \A g \in Generation : Settled(g)

IInv == TypeOK /\ AttemptsInv /\ OrderInv /\ WorkersInv /\ OneOwner /\ QuietRows
-----------------------------------------------------------------------------
(***************************************************************************)
(* The effect of a step on one record, field by field, so that no later    *)
(* proof needs the record constructors.                                    *)
(***************************************************************************)
WorkerStep(w, p, g, s) ==
    /\ worker' \in [Worker -> WorkerRecord]
    /\ \A v \in Worker : v # w => worker'[v] = worker[v]
    /\ worker'[w].phase = p /\ worker'[w].gen = g /\ worker'[w].seen = s

AttemptStep(g, state, result, final) ==
    /\ attempt' \in [Generation -> AttemptRecord]
    /\ \A h \in Generation : h # g => attempt'[h] = attempt[h]
    /\ attempt'[g].state = state /\ attempt'[g].result = result
    /\ attempt'[g].final = final

LEMMA GenerationBounds ==
  ASSUME NEW g \in Generation, NEW n \in 0..MaxGeneration
  PROVE  g \in 0..MaxGeneration /\ 0 \in 0..MaxGeneration /\ (n > g \/ n <= g)
<1>1. g \in 0..MaxGeneration
  BY MaxGenerationAssumption DEF Generation
<1>2. 0 \in 0..MaxGeneration
  BY MaxGenerationAssumption
<1>3. n > g \/ n <= g
  BY MaxGenerationAssumption DEF Generation
<1> QED BY <1>1, <1>2, <1>3

LEMMA NonzeroGeneration ==
  ASSUME NEW n \in 0..MaxGeneration, n # 0
  PROVE  n \in Generation
  BY MaxGenerationAssumption DEF Generation

LEMMA AcceptedResultCases == AcceptedResult \in {"sent", "processing", "validated"}
  BY ProviderAssumption DEF AcceptedResult

LEMMA IdleType == Idle \in WorkerRecord /\ Idle.phase = "idle" /\ Idle.gen = 0 /\ Idle.seen = ""
  BY MaxGenerationAssumption DEF Idle, WorkerRecord, Phase, Result, Final, CancelResult

LEMMA StopsStep ==
  ASSUME TypeOK, NEW w \in Worker, Stops(w)
  PROVE  WorkerStep(w, "idle", 0, "")
  BY IdleType DEF TypeOK, Stops, WorkerStep

LEMMA GoesStep ==
  ASSUME TypeOK, NEW w \in Worker, NEW p \in Phase, Goes(w, p)
  PROVE  WorkerStep(w, p, worker[w].gen, worker[w].seen)
<1>1. [worker[w] EXCEPT !.phase = p] \in WorkerRecord
  BY DEF TypeOK, WorkerRecord
<1>2. worker' = [worker EXCEPT ![w] = [worker[w] EXCEPT !.phase = p]]
  BY DEF Goes
<1> QED BY <1>1, <1>2 DEF TypeOK, WorkerStep, WorkerRecord

LEMMA RemembersStep ==
  ASSUME TypeOK, NEW w \in Worker, NEW p \in Phase, NEW g \in 0..MaxGeneration,
         NEW s \in Result, Remembers(w, p, g, s)
  PROVE  WorkerStep(w, p, g, s)
<1> DEFINE r == [worker[w] EXCEPT !.phase = p, !.gen = g, !.seen = s]
<1>1. r \in WorkerRecord /\ r.phase = p /\ r.gen = g /\ r.seen = s
  BY DEF TypeOK, WorkerRecord
<1>2. worker' = [worker EXCEPT ![w] = r]
  BY DEF TypeOK, Remembers, WorkerRecord
<1> HIDE DEF r
<1> QED BY <1>1, <1>2 DEF TypeOK, WorkerStep

LEMMA RecordedAttempt ==
  ASSUME NEW a \in AttemptRecord, NEW state \in AttemptState, NEW result \in Result
  PROVE  /\ Recorded(a, state, result) \in AttemptRecord
         /\ Recorded(a, state, result).state = state
         /\ Recorded(a, state, result).result = result
         /\ Recorded(a, state, result).final = a.final
<1>1. Recorded(a, state, result) \in AttemptRecord
  BY DEF AttemptRecord, Recorded
<1>2. Recorded(a, state, result).state = state
  BY DEF AttemptRecord, Recorded
<1>3. Recorded(a, state, result).result = result
  BY DEF AttemptRecord, Recorded
<1>4. Recorded(a, state, result).final = a.final
  BY DEF AttemptRecord, Recorded
<1> QED BY <1>1, <1>2, <1>3, <1>4

LEMMA RecordedStep ==
  ASSUME TypeOK, NEW g \in Generation, NEW state \in AttemptState, NEW result \in Result,
         attempt' = [attempt EXCEPT ![g] = Recorded(@, state, result)]
  PROVE  AttemptStep(g, state, result, attempt[g].final)
<1>1. attempt \in [Generation -> AttemptRecord] /\ attempt[g] \in AttemptRecord
  BY DEF TypeOK
<1>2. /\ Recorded(attempt[g], state, result) \in AttemptRecord
      /\ Recorded(attempt[g], state, result).state = state
      /\ Recorded(attempt[g], state, result).result = result
      /\ Recorded(attempt[g], state, result).final = attempt[g].final
  BY <1>1, RecordedAttempt
<1> QED BY <1>1, <1>2 DEF AttemptStep

LEMMA CancelledStep ==
  ASSUME TypeOK, NEW g \in Generation, NEW result \in CancelResult,
         attempt' = [attempt EXCEPT ![g] = Cancelled(@, result)]
  PROVE  AttemptStep(g, "cancelled", result, attempt[g].final)
<1>1. "cancelled" \in AttemptState /\ result \in Result
  BY DEF AttemptState, Result
<1>2. attempt' = [attempt EXCEPT ![g] = Recorded(@, "cancelled", result)]
  BY DEF Cancelled
<1> QED BY <1>1, <1>2, RecordedStep

LEMMA HandoffStep ==
  ASSUME TypeOK, NEW g \in Generation,
         attempt' = [attempt EXCEPT ![g].state = "handoff", ![g].aged = FALSE]
  PROVE  AttemptStep(g, "handoff", attempt[g].result, attempt[g].final)
<1>1. "handoff" \in AttemptState
  BY DEF AttemptState, Active
<1>2. ASSUME NEW a \in AttemptRecord
      PROVE  LET b == [a EXCEPT !.state = "handoff", !.aged = FALSE]
             IN b \in AttemptRecord /\ b.state = "handoff" /\ b.result = a.result
                /\ b.final = a.final
  <2> DEFINE b == [a EXCEPT !.state = "handoff", !.aged = FALSE]
  <2>1. b \in AttemptRecord
    BY <1>1 DEF AttemptRecord
  <2>2. b.state = "handoff" /\ b.result = a.result
    BY DEF AttemptRecord
  <2>3. b.final = a.final
    BY DEF AttemptRecord
  <2> QED BY <2>1, <2>2, <2>3
<1> DEFINE b == [attempt[g] EXCEPT !.state = "handoff", !.aged = FALSE]
<1>3. attempt[g] \in AttemptRecord
  BY DEF TypeOK
<1>4. b \in AttemptRecord /\ b.state = "handoff" /\ b.result = attempt[g].result
      /\ b.final = attempt[g].final
  BY <1>2, <1>3
<1>5. attempt' = [attempt EXCEPT ![g] = b]
  OBVIOUS
<1> HIDE DEF b
<1>6. attempt' \in [Generation -> AttemptRecord] /\ attempt'[g] = b
  BY <1>4, <1>5 DEF TypeOK
<1>7. \A h \in Generation : h # g => attempt'[h] = attempt[h]
  BY <1>5 DEF TypeOK
<1> QED BY <1>4, <1>6, <1>7 DEF AttemptStep

LEMMA FinalStep ==
  ASSUME TypeOK, NEW g \in Generation, NEW f \in Final,
         attempt' = [attempt EXCEPT ![g].final = IF @ = "" THEN f ELSE @]
  PROVE  AttemptStep(g, attempt[g].state, attempt[g].result,
                     IF attempt[g].final = "" THEN f ELSE attempt[g].final)
<1> DEFINE v == IF attempt[g].final = "" THEN f ELSE attempt[g].final
           a == [attempt[g] EXCEPT !.final = v]
<1>1. v \in Final \cup {""}
  BY DEF TypeOK, AttemptRecord
<1>2. attempt' = [attempt EXCEPT ![g] = a]
  BY DEF TypeOK, AttemptRecord
<1> HIDE DEF v
<1>3. a \in AttemptRecord /\ a.state = attempt[g].state /\ a.result = attempt[g].result
      /\ a.final = v
  BY <1>1 DEF TypeOK, AttemptRecord
<1> HIDE DEF a
<1>4. attempt'[g].final = v
  BY <1>2, <1>3 DEF TypeOK
<1> QED BY <1>2, <1>3, <1>4 DEF TypeOK, AttemptStep, v

\* Steps that leave every state, result and final as they were.
Unread == /\ attempt' \in [Generation -> AttemptRecord]
          /\ \A g \in Generation : /\ attempt'[g].state = attempt[g].state
                                   /\ attempt'[g].result = attempt[g].result
                                   /\ attempt'[g].final = attempt[g].final

LEMMA TouchedStep ==
  ASSUME TypeOK, attempt' \in {attempt, Touched}
  PROVE  Unread
<1>1. ASSUME NEW g \in Generation
      PROVE  LET a == [attempt[g] EXCEPT !.stale = TRUE]
             IN a \in AttemptRecord /\ a.state = attempt[g].state
                /\ a.result = attempt[g].result /\ a.final = attempt[g].final
  <2> DEFINE a == [attempt[g] EXCEPT !.stale = TRUE]
  <2>1. attempt[g] \in AttemptRecord
    BY DEF TypeOK
  <2>2. a \in AttemptRecord
    BY <2>1 DEF AttemptRecord
  <2>3. a.state = attempt[g].state
    BY <2>1 DEF AttemptRecord
  <2>4. a.result = attempt[g].result
    BY <2>1 DEF AttemptRecord
  <2>5. a.final = attempt[g].final
    BY <2>1 DEF AttemptRecord
  <2> QED BY <2>2, <2>3, <2>4, <2>5
<1>2. CASE attempt' = attempt
  BY <1>2 DEF TypeOK, Unread
<1>3. CASE attempt' = Touched
  BY <1>1, <1>3, Zenon DEF TypeOK, Unread, Touched
<1> QED BY <1>2, <1>3

LEMMA AgedStep ==
  ASSUME TypeOK, NEW g \in Generation, attempt' = [attempt EXCEPT ![g].aged = TRUE]
  PROVE  Unread
<1> DEFINE a == [attempt[g] EXCEPT !.aged = TRUE]
<1>1. a \in AttemptRecord /\ a.state = attempt[g].state /\ a.result = attempt[g].result
      /\ a.final = attempt[g].final
  <2>1. attempt[g] \in AttemptRecord
    BY DEF TypeOK
  <2> QED BY <2>1 DEF AttemptRecord
<1>2. attempt' = [attempt EXCEPT ![g] = a]
  OBVIOUS
<1> HIDE DEF a
<1> QED BY <1>1, <1>2 DEF TypeOK, Unread
-----------------------------------------------------------------------------
\* The summary row.
LEMMA SavedRow ==
  ASSUME NEW row \in OutboxRecord
  PROVE  Saved(row) \in OutboxRecord /\ Saved(row).status = row.status /\ Saved(row).fresh = {}
  BY DEF Saved, OutboxRecord

LEMMA StatusRow ==
  ASSUME TypeOK, NEW s \in Status
  PROVE  /\ WithStatus(s) \in OutboxRecord /\ WithStatus(s).status = s
         /\ WithStatus(s).fresh = {}
  BY DEF TypeOK, WithStatus, Saved, OutboxRecord

LEMMA ResultRow ==
  ASSUME NEW row \in OutboxRecord, NEW f \in Final
  PROVE  /\ WithResult(row, f) \in OutboxRecord /\ WithResult(row, f).status = f
         /\ WithResult(row, f).fresh = {}
<1>1. f \in Status
  BY DEF Final, Status, Result
<1> QED BY <1>1 DEF WithResult, Saved, OutboxRecord

LEMMA ProjectedRow ==
  ASSUME TypeOK, NEW g \in Generation, NEW seen \in Result \ {""}, NEW f \in Final \cup {""},
         outbox' = Projected(g, seen, f)
  PROVE  /\ outbox' \in OutboxRecord
         /\ \/ outbox' = outbox
            \/ /\ latest <= g /\ outbox'.fresh = {}
               /\ outbox'.status = seen \/ (f # "" /\ outbox'.status = f)
<1> DEFINE counted == Larger(outbox.attempts, attempt[g].number)
           base == [outbox EXCEPT !.attempts = counted, !.request = g]
           row == [status |-> seen,
                   attempts |-> IF seen \in CancelResult THEN outbox.attempts ELSE counted,
                   request |-> IF seen = AcceptedResult THEN g
                               ELSE IF seen = "failed" /\ IsGoogle THEN 0
                               ELSE outbox.request,
                   due |-> (seen # "failed"),
                   fresh |-> {}]
<1>1. attempt[g] \in AttemptRecord /\ outbox \in OutboxRecord /\ latest \in 0..MaxGeneration
  BY DEF TypeOK
<1>2. attempt[g].number \in Nat
  BY <1>1 DEF AttemptRecord
<1>3. outbox.attempts \in Nat /\ outbox.request \in 0..MaxGeneration
  BY <1>1 DEF OutboxRecord
<1>4. counted \in Nat
  BY <1>2, <1>3 DEF Larger
<1>5. g \in 0..MaxGeneration /\ 0 \in 0..MaxGeneration /\ (latest > g \/ latest <= g)
  BY <1>1, GenerationBounds, Zenon
<1>6. seen \in Status
  BY DEF Status
<1> HIDE DEF counted
<1>7. base \in OutboxRecord
  BY <1>1, <1>4, <1>5 DEF OutboxRecord
<1>8. row \in OutboxRecord
  <2>1. row.attempts \in Nat /\ row.request \in 0..MaxGeneration /\ row.due \in BOOLEAN
    BY <1>3, <1>4, <1>5
  <2> QED BY <1>6, <2>1 DEF OutboxRecord
<1>9. row.status = seen /\ row.fresh = {}
  OBVIOUS
<1>10. f # "" => /\ WithResult(base, f) \in OutboxRecord /\ WithResult(base, f).status = f
                 /\ WithResult(base, f).fresh = {}
  <2> HIDE DEF base
  <2> QED BY <1>7, ResultRow
<1>11. CASE latest > g
  <2>1. outbox' = outbox
    BY <1>11 DEF Projected
  <2> QED BY <1>1, <2>1
<1>12. CASE ~(latest > g) /\ seen = "processing" /\ f # ""
  <2>1. outbox' = WithResult(base, f)
    BY <1>12 DEF Projected, counted
  <2> HIDE DEF base, row
  <2> QED BY <1>5, <1>10, <1>12, <2>1
<1>13. CASE ~(latest > g) /\ ~(seen = "processing" /\ f # "")
  <2>1. outbox' = outbox \/ outbox' = row
    BY <1>13 DEF Projected, counted
  <2> HIDE DEF base, row
  <2> QED BY <1>1, <1>5, <1>8, <1>9, <1>13, <2>1
<1> QED BY <1>11, <1>12, <1>13
-----------------------------------------------------------------------------
(***************************************************************************)
(* What a step must leave alone for the parts of IInv to survive it.       *)
(***************************************************************************)
LEMMA SameSettled ==
  ASSUME NEW g \in Generation, attempt'[g].state = attempt[g].state,
         attempt'[g].final = attempt[g].final
  PROVE  Settled(g)' <=> Settled(g)
  BY DEF Settled

\* A step that touches no attempt, and neither the network nor the provider.
LEMMA AttemptsStay ==
  ASSUME IInv, Unread, UNCHANGED <<latest, flight, verdict>>
  PROVE  AttemptsInv' /\ OrderInv'
<1>1. AttemptsInv'
  BY DEF IInv, AttemptsInv, Unread
<1>2. OrderInv'
  <2>1. \A g \in Generation : Settled(g)' <=> Settled(g)
    BY SameSettled DEF Unread
  <2> QED BY <2>1 DEF IInv, OrderInv, Unread
<1> QED BY <1>1, <1>2

LEMMA StillBelow ==
  ASSUME NEW m \in Int, NEW n \in Int, n >= m, NEW S, S \subseteq Int
  PROVE  \A k \in S : k <= m => k <= n
  OBVIOUS

LEMMA WorkerStays ==
  ASSUME NEW v \in Worker, WorkerInv(v), worker'[v] = worker[v],
         latest \in Int, latest' \in Int, latest' >= latest, Generation \subseteq Int,
         \A h \in Generation : attempt[h].state # "none" => attempt'[h].state # "none",
         \A h \in Generation : attempt[h].state \in {"failed", "cancelled"} =>
                                  attempt'[h].state \in {"failed", "cancelled"},
         \A h \in Generation : attempt[h].final # "" => attempt'[h].final = attempt[h].final,
         worker[v].phase = "claimed" =>
            attempt'[worker[v].gen].state \in {"claimed", "cancelled"},
         worker[v].phase = "sending" =>
            /\ attempt'[worker[v].gen].state = "handoff"
            /\ worker[v].gen \notin flight' /\ verdict'[worker[v].gen] = "none"
  PROVE  WorkerInv(v)'
<1> DEFINE p == worker[v].phase  g == worker[v].gen  s == worker[v].seen
<1>1. p \in Holding => g \in Generation /\ g <= latest'
  <2>1. p \in Holding => g \in Generation /\ g <= latest
    BY DEF WorkerInv, Remembered
  <2>2. \A n \in Generation : n <= latest => n <= latest'
    BY StillBelow
  <2> QED BY <2>1, <2>2
<1>2. p \in Repairing => /\ g \in Generation /\ s # "" /\ attempt'[g].state # "none"
                         /\ s \in {"pending", "skipped", "failed"} =>
                               attempt'[g].state \in {"failed", "cancelled"}
  BY DEF WorkerInv, Remembered
<1>3. p = "repairResult" => g \in Generation /\ s # "" /\ s = attempt'[g].final
  BY DEF WorkerInv, Remembered
<1> QED BY <1>1, <1>2, <1>3 DEF WorkerInv, Remembered

LEMMA OwnersStay ==
  ASSUME OneOwner,
         \A v \in Worker : worker'[v].phase \in Holding =>
                              worker[v].phase \in Holding /\ worker'[v].gen = worker[v].gen
  PROVE  OneOwner'
  BY DEF OneOwner

LEMMA QuietStays ==
  ASSUME QuietRows, Unread, Offered' => Offered
  PROVE  QuietRows'
<1>1. \A g \in Generation : Settled(g)' <=> Settled(g)
  BY SameSettled DEF Unread
<1> QED BY <1>1 DEF QuietRows

LEMMA SameAttempts ==
  ASSUME TypeOK, UNCHANGED attempt
  PROVE  Unread
  BY DEF TypeOK, Unread

LEMMA LatestInt ==
  ASSUME TypeOK
  PROVE  /\ latest \in Int /\ Generation \subseteq Int /\ latest <= MaxGeneration
         /\ latest >= latest /\ ~(latest > latest) /\ ~(latest < latest)
  BY MaxGenerationAssumption DEF TypeOK, Generation

\* Steps by which process w alone moves on to a phase that holds nothing.
LEMMA StepOfWorker ==
  ASSUME IInv, NEW w \in Worker, NEW p, NEW g, NEW s,
         WorkerStep(w, p, g, s), p \notin Holding, Remembered(p, g, s),
         UNCHANGED <<lead, latest, attempt, flight, verdict>>,
         outbox' \in OutboxRecord,
         Offered' => \A h \in Generation : Settled(h)
  PROVE  IInv'
<1>1. TypeOK'
  BY DEF IInv, TypeOK, WorkerStep
<1>2. Unread
  BY SameAttempts DEF IInv
<1>3. AttemptsInv' /\ OrderInv'
  BY <1>2, AttemptsStay
<1>4. WorkersInv'
  <2>1. ASSUME NEW v \in Worker
        PROVE  WorkerInv(v)'
    <3>1. CASE v = w
      BY <3>1 DEF WorkerStep, WorkerInv, Remembered
    <3>2. CASE v # w
      <4>1. WorkerInv(v) /\ worker'[v] = worker[v]
        BY <3>2 DEF IInv, WorkersInv, WorkerStep
      <4> QED BY <4>1 DEF WorkerInv, Remembered
    <3> QED BY <3>1, <3>2
  <2> QED BY <2>1 DEF WorkersInv
<1>5. OneOwner'
  <2>1. \A v \in Worker : worker'[v].phase \in Holding =>
                             worker[v].phase \in Holding /\ worker'[v].gen = worker[v].gen
    BY DEF WorkerStep
  <2> QED BY <2>1, OwnersStay DEF IInv
<1>6. QuietRows'
  <2>1. \A h \in Generation : Settled(h)' <=> Settled(h)
    BY <1>2, SameSettled DEF Unread
  <2> QED BY <2>1 DEF QuietRows
<1> QED BY <1>1, <1>3, <1>4, <1>5, <1>6 DEF IInv

\* The same with the row unchanged, and the commonest one: w is done.
LEMMA SilentStepOfWorker ==
  ASSUME IInv, NEW w \in Worker, NEW p, NEW g, NEW s,
         WorkerStep(w, p, g, s), p \notin Holding, Remembered(p, g, s),
         UNCHANGED <<lead, outbox, latest, attempt, flight, verdict>>
  PROVE  IInv'
<1>1. outbox' \in OutboxRecord
  BY DEF IInv, TypeOK
<1>2. Offered' => \A h \in Generation : Settled(h)
  BY DEF IInv, QuietRows, Offered
<1> QED BY <1>1, <1>2, StepOfWorker

LEMMA NothingRemembered ==
  ASSUME NEW p \in {"idle", "entry", "claiming", "reading", "rereading", "polling"}, NEW g, NEW s
  PROVE  Remembered(p, g, s) /\ p \notin Holding /\ p \in Phase
  BY DEF Remembered, Holding, Repairing, Phase

LEMMA StopsSilently ==
  ASSUME IInv, NEW w \in Worker, Stops(w),
         UNCHANGED <<lead, outbox, latest, attempt, flight, verdict>>
  PROVE  IInv'
<1>1. WorkerStep(w, "idle", 0, "")
  BY StopsStep DEF IInv
<1>2. Remembered("idle", 0, "") /\ "idle" \notin Holding
  BY NothingRemembered
<1> QED BY <1>1, <1>2, SilentStepOfWorker

LEMMA GoesSilently ==
  ASSUME IInv, NEW w \in Worker, NEW p \in {"entry", "claiming", "reading", "rereading"},
         Goes(w, p), UNCHANGED <<lead, outbox, latest, attempt, flight, verdict>>
  PROVE  IInv'
<1>1. p \in Phase /\ p \notin Holding /\ Remembered(p, worker[w].gen, worker[w].seen)
  BY NothingRemembered
<1>2. WorkerStep(w, p, worker[w].gen, worker[w].seen)
  BY <1>1, GoesStep DEF IInv
<1> QED BY <1>1, <1>2, SilentStepOfWorker
-----------------------------------------------------------------------------
(***************************************************************************)
(* One lemma per action.                                                   *)
(***************************************************************************)
\* An attempt that is not settled is the latest one.
LEMMA UnsettledIsLatest ==
  ASSUME TypeOK, OrderInv, NEW g \in Generation, ~Settled(g)
  PROVE  g = latest
<1>1. ~(g < latest)
  BY DEF OrderInv
<1>2. ~(g > latest)
  BY DEF OrderInv, Settled
<1> QED BY <1>1, <1>2, LatestInt

\* Once the latest attempt is settled, all are.
LEMMA AllSettled ==
  ASSUME TypeOK, OrderInv, NEW g \in Generation, latest <= g, Settled(g),
         attempt[g].state # "none"
  PROVE  \A h \in Generation : Settled(h)
<1>1. ASSUME NEW h \in Generation, ~Settled(h) PROVE FALSE
  <2>1. h = latest
    BY <1>1, UnsettledIsLatest
  <2>2. ~(g > latest)
    BY DEF OrderInv
  <2>3. g = latest
    BY <2>2, LatestInt
  <2> QED BY <1>1, <2>1, <2>3
<1> QED BY <1>1

LEMMA SameRow ==
  ASSUME IInv, UNCHANGED outbox
  PROVE  outbox' \in OutboxRecord /\ (Offered' => \A h \in Generation : Settled(h))
  BY DEF IInv, TypeOK, QuietRows, Offered

LEMMA DispatchInv ==
  ASSUME IInv, NEW w \in Worker, Dispatch(w)
  PROVE  IInv'
  BY GoesSilently DEF Dispatch

LEMMA ManualRetryInv ==
  ASSUME IInv, NEW w \in Worker, ManualRetry(w)
  PROVE  IInv'
<1>1. WorkerStep(w, "entry", worker[w].gen, worker[w].seen)
  <2> DEFINE r == [worker[w] EXCEPT !.phase = "entry", !.retry = TRUE]
  <2>1. ASSUME NEW a \in WorkerRecord
        PROVE  LET b == [a EXCEPT !.phase = "entry", !.retry = TRUE]
               IN b \in WorkerRecord /\ b.phase = "entry" /\ b.gen = a.gen /\ b.seen = a.seen
    BY DEF WorkerRecord, Phase
  <2>2. worker \in [Worker -> WorkerRecord] /\ worker[w] \in WorkerRecord
    BY DEF IInv, TypeOK
  <2>3. r \in WorkerRecord /\ r.phase = "entry" /\ r.gen = worker[w].gen
        /\ r.seen = worker[w].seen
    BY <2>1, <2>2
  <2>4. worker' = [worker EXCEPT ![w] = r]
    BY DEF ManualRetry
  <2> HIDE DEF r
  <2> QED BY <2>2, <2>3, <2>4 DEF WorkerStep
<1>2. outbox' \in OutboxRecord
  <2>1. ASSUME NEW row \in OutboxRecord
        PROVE  [row EXCEPT !.status = "sending", !.fresh = {w}] \in OutboxRecord
    BY DEF OutboxRecord, Status
  <2>2. outbox \in OutboxRecord
    BY DEF IInv, TypeOK
  <2> QED BY <2>1, <2>2 DEF ManualRetry
<1>3. \A h \in Generation : Settled(h)
  BY DEF IInv, QuietRows, Offered, ManualRetry
<1>4. Remembered("entry", worker[w].gen, worker[w].seen) /\ "entry" \notin Holding
  BY NothingRemembered
<1> QED BY <1>1, <1>2, <1>3, <1>4, StepOfWorker DEF ManualRetry

LEMMA MetaEntryInv ==
  ASSUME IInv, NEW w \in Worker, MetaEntry(w)
  PROVE  IInv'
<1>1. CASE Goes(w, "claiming") /\ UNCHANGED outbox
  BY <1>1, GoesSilently DEF MetaEntry
<1>2. CASE Stops(w) /\ UNCHANGED outbox
  BY <1>2, StopsSilently DEF MetaEntry
<1>3. CASE /\ Stops(w)
           /\ outbox.status \in {"pending", "failed"} \/ OwnsSending(w)
           /\ outbox' = WithStatus(IF lead.trashed THEN "pending" ELSE "skipped")
  <2>1. outbox' \in OutboxRecord
    BY <1>3, StatusRow DEF IInv, Status, Result, CancelResult
  <2>2. \A h \in Generation : Settled(h)
    BY <1>3 DEF IInv, QuietRows, Offered, OwnsSending
  <2>3. WorkerStep(w, "idle", 0, "")
    BY <1>3, StopsStep DEF IInv
  <2>4. Remembered("idle", 0, "") /\ "idle" \notin Holding
    BY NothingRemembered
  <2> QED BY <2>1, <2>2, <2>3, <2>4, StepOfWorker DEF MetaEntry
<1> QED BY <1>1, <1>2, <1>3 DEF MetaEntry

LEMMA ReceiptResult ==
  ASSUME IInv, NEW g \in Generation, attempt[g].state \in {"accepted", "failed", "unknown", "cancelled"}
  PROVE  /\ attempt[g].result \in Result \ {""}
         /\ attempt[g].result \in {"pending", "skipped", "failed"} =>
               attempt[g].state \in {"failed", "cancelled"}
<1>1. attempt[g].result \in Result
  BY DEF IInv, TypeOK, AttemptRecord
<1> QED BY <1>1 DEF IInv, AttemptsInv

LEMMA GoesToRepair ==
  ASSUME IInv, NEW w \in Worker, NEW p \in Repairing, NEW g \in Generation,
         attempt[g].state \in {"accepted", "failed", "unknown", "cancelled"},
         Remembers(w, p, g, attempt[g].result),
         UNCHANGED <<lead, outbox, latest, attempt, flight, verdict>>
  PROVE  IInv'
<1>1. p \in Phase /\ p \notin Holding /\ p # "repairResult" /\ p # "claimed" /\ p # "sending"
  BY DEF Repairing, Holding, Phase
<1>2. g \in 0..MaxGeneration
  BY MaxGenerationAssumption DEF Generation
<1>3. attempt[g].result \in Result /\ Remembered(p, g, attempt[g].result)
  BY <1>1, ReceiptResult DEF Remembered
<1>4. WorkerStep(w, p, g, attempt[g].result)
  BY <1>1, <1>2, <1>3, RemembersStep DEF IInv
<1> QED BY <1>1, <1>3, <1>4, SilentStepOfWorker

LEMMA GoesToRepairResult ==
  ASSUME IInv, NEW w \in Worker, NEW g \in Generation, attempt[g].final # "",
         Remembers(w, "repairResult", g, attempt[g].final),
         UNCHANGED <<lead, outbox, latest, attempt, flight, verdict>>
  PROVE  IInv'
<1>1. "repairResult" \in Phase /\ "repairResult" \notin Holding /\ "repairResult" \notin Repairing
  BY DEF Repairing, Holding, Phase
<1>2. g \in 0..MaxGeneration
  BY GenerationBounds, Zenon DEF IInv, TypeOK
<1>3. attempt[g].final \in Result
  BY DEF IInv, TypeOK, AttemptRecord, Result
<1>4. Remembered("repairResult", g, attempt[g].final)
  BY <1>1 DEF Remembered
<1>5. WorkerStep(w, "repairResult", g, attempt[g].final)
  BY <1>1, <1>2, <1>3, RemembersStep DEF IInv
<1> QED BY <1>1, <1>4, <1>5, SilentStepOfWorker

LEMMA GoogleEntryInv ==
  ASSUME IInv, NEW w \in Worker, GoogleEntry(w)
  PROVE  IInv'
<1>1. CASE Stops(w)
  BY <1>1, StopsSilently DEF GoogleEntry
<1>2. CASE Goes(w, "reading")
  BY <1>2, GoesSilently DEF GoogleEntry
<1>3. CASE /\ \E g \in Generation : Blocking(g)
           /\ Remembers(w, "repairThenRead", latest, attempt[latest].result)
  <2>1. latest \in Generation /\ attempt[latest].state = "accepted"
    BY <1>3 DEF GoogleEntry, Blocking
  <2>2. "repairThenRead" \in Repairing
    BY DEF Repairing
  <2> QED BY <1>3, <2>1, <2>2, GoesToRepair DEF GoogleEntry
<1> QED BY <1>1, <1>2, <1>3 DEF GoogleEntry

LEMMA StartsPollInv ==
  ASSUME IInv, NEW w \in Worker, outbox.status = "processing", StartsPoll(w),
         UNCHANGED <<lead, latest, attempt, flight, verdict>>
  PROVE  IInv'
<1>1. WorkerStep(w, "polling", outbox.request, worker[w].seen)
  <2> DEFINE r == [worker[w] EXCEPT !.phase = "polling", !.gen = outbox.request,
                                    !.number = outbox.attempts]
  <2>1. ASSUME NEW a \in WorkerRecord, NEW row \in OutboxRecord
        PROVE  LET b == [a EXCEPT !.phase = "polling", !.gen = row.request,
                                  !.number = row.attempts]
               IN b \in WorkerRecord /\ b.phase = "polling" /\ b.gen = row.request
                  /\ b.seen = a.seen
    BY DEF WorkerRecord, OutboxRecord, Phase
  <2>2. worker \in [Worker -> WorkerRecord] /\ worker[w] \in WorkerRecord
        /\ outbox \in OutboxRecord
    BY DEF IInv, TypeOK
  <2>3. r \in WorkerRecord /\ r.phase = "polling" /\ r.gen = outbox.request
        /\ r.seen = worker[w].seen
    BY <2>1, <2>2
  <2>4. worker' = [worker EXCEPT ![w] = r]
    BY DEF StartsPoll
  <2> HIDE DEF r
  <2> QED BY <2>2, <2>3, <2>4 DEF WorkerStep
<1>2. outbox' \in OutboxRecord /\ outbox'.status = "processing"
  <2>1. ASSUME NEW row \in OutboxRecord
        PROVE  LET r == [row EXCEPT !.fresh = @ \cup {w}]
               IN r \in OutboxRecord /\ r.status = row.status
    BY DEF OutboxRecord
  <2>2. outbox \in OutboxRecord
    BY DEF IInv, TypeOK
  <2> QED BY <2>1, <2>2 DEF StartsPoll
<1>3. ~Offered'
  BY <1>2 DEF Offered
<1>4. Remembered("polling", outbox.request, worker[w].seen) /\ "polling" \notin Holding
  BY NothingRemembered
<1> QED BY <1>1, <1>2, <1>3, <1>4, StepOfWorker

LEMMA GoogleReadInv ==
  ASSUME IInv, NEW w \in Worker, GoogleRead(w)
  PROVE  IInv'
<1>1. ASSUME NEW g \in ResultOfSummary, Remembers(w, "repairResult", g, attempt[g].final),
             UNCHANGED outbox
      PROVE  IInv'
  BY <1>1, GoesToRepairResult DEF GoogleRead, ResultOfSummary
<1>2. CASE outbox.status = "processing" /\ StartsPoll(w)
  BY <1>2, StartsPollInv DEF GoogleRead
<1>3. CASE Goes(w, "claiming") /\ UNCHANGED outbox
  BY <1>3, GoesSilently DEF GoogleRead
<1> QED BY <1>1, <1>2, <1>3 DEF GoogleRead

LEMMA GoogleRereadInv ==
  ASSUME IInv, NEW w \in Worker, GoogleReread(w)
  PROVE  IInv'
<1>1. CASE outbox.status = "processing" /\ StartsPoll(w)
  BY <1>1, StartsPollInv DEF GoogleReread
<1>2. CASE Stops(w) /\ UNCHANGED outbox
  BY <1>2, StopsSilently DEF GoogleReread
<1> QED BY <1>1, <1>2 DEF GoogleReread

LEMMA ClaimWhileTrashedInv ==
  ASSUME IInv, NEW w \in Worker, ClaimWhileTrashed(w)
  PROVE  IInv'
<1>1. CASE ~OwnsSending(w)
  BY <1>1, StopsSilently DEF ClaimWhileTrashed
<1>2. CASE OwnsSending(w)
  <2>1. outbox' \in OutboxRecord
    <3>1. [outbox EXCEPT !.status = "pending"] \in OutboxRecord
      BY DEF IInv, TypeOK, OutboxRecord, Status, Result, CancelResult
    <3> QED BY <1>2, <3>1, SavedRow DEF ClaimWhileTrashed
  <2>2. \A h \in Generation : Settled(h)
    BY <1>2 DEF IInv, QuietRows, Offered, OwnsSending
  <2>3. WorkerStep(w, "idle", 0, "")
    BY StopsStep DEF IInv, ClaimWhileTrashed
  <2>4. Remembered("idle", 0, "") /\ "idle" \notin Holding
    BY NothingRemembered
  <2> QED BY <2>1, <2>2, <2>3, <2>4, StepOfWorker DEF ClaimWhileTrashed
<1> QED BY <1>1, <1>2

\* A receipt projected on the row offers it only when all attempts are settled.
LEMMA ProjectionIsQuiet ==
  ASSUME IInv, NEW g \in Generation, attempt[g].state # "none", NEW seen \in Result \ {""},
         seen \in {"pending", "skipped", "failed"} =>
            attempt[g].state \in {"failed", "cancelled"},
         outbox' = Projected(g, seen, attempt[g].final)
  PROVE  outbox' \in OutboxRecord /\ (Offered' => \A h \in Generation : Settled(h))
<1>1. attempt[g].final \in Final \cup {""}
  BY DEF IInv, TypeOK, AttemptRecord
<1>2. /\ outbox' \in OutboxRecord
      /\ \/ outbox' = outbox
         \/ /\ latest <= g /\ outbox'.fresh = {}
            /\ outbox'.status = seen \/ (attempt[g].final # "" /\ outbox'.status = attempt[g].final)
  BY <1>1, ProjectedRow DEF IInv
<1>3. CASE outbox' = outbox
  BY <1>3, SameRow
<1>4. CASE outbox' # outbox /\ Offered'
  <2>1. latest <= g /\ outbox'.status \in {"pending", "failed", "skipped"}
    BY <1>2, <1>4 DEF Offered
  <2>2. Settled(g)
    <3>1. CASE outbox'.status = seen
      BY <2>1, <3>1 DEF Settled
    <3>2. CASE attempt[g].final # "" /\ outbox'.status = attempt[g].final
      BY <1>1, <2>1, <3>2 DEF IInv, AttemptsInv, Settled, Final
    <3> QED BY <1>2, <1>4, <3>1, <3>2
  <2> QED BY <1>2, <2>1, <2>2, AllSettled DEF IInv
<1> QED BY <1>2, <1>3, <1>4

LEMMA ClaimFindsReceiptInv ==
  ASSUME IInv, NEW w \in Worker, ClaimFindsReceipt(w)
  PROVE  IInv'
<1>1. PICK g \in Generation : Blocking(g) /\ outbox' = Projected(g, attempt[g].result, attempt[g].final)
  BY DEF ClaimFindsReceipt
<1>2. attempt[g].state = "accepted"
  BY <1>1 DEF Blocking
<1>3. /\ attempt[g].result \in Result \ {""}
      /\ attempt[g].result \in {"pending", "skipped", "failed"} =>
            attempt[g].state \in {"failed", "cancelled"}
  BY <1>2, ReceiptResult
<1>4. outbox' \in OutboxRecord /\ (Offered' => \A h \in Generation : Settled(h))
  BY <1>1, <1>2, <1>3, ProjectionIsQuiet
<1>5. WorkerStep(w, "idle", 0, "")
  BY StopsStep DEF IInv, ClaimFindsReceipt
<1>6. Remembered("idle", 0, "") /\ "idle" \notin Holding
  BY NothingRemembered
<1> QED BY <1>4, <1>5, <1>6, StepOfWorker DEF ClaimFindsReceipt

LEMMA RepairInv ==
  ASSUME IInv, NEW w \in Worker, Repair(w)
  PROVE  IInv'
<1> DEFINE g == worker[w].gen
<1>1. worker[w].phase \in Repairing
  BY DEF Repair, Repairing
<1>2. worker[w].seen \in Result
  BY DEF IInv, TypeOK, WorkerRecord
<1>3. /\ g \in Generation /\ worker[w].seen \in Result \ {""} /\ attempt[g].state # "none"
      /\ worker[w].seen \in {"pending", "skipped", "failed"} =>
            attempt[g].state \in {"failed", "cancelled"}
  BY <1>1, <1>2 DEF IInv, WorkersInv, WorkerInv, Remembered
<1>4. outbox' \in OutboxRecord /\ (Offered' => \A h \in Generation : Settled(h))
  BY <1>3, ProjectionIsQuiet DEF Repair
<1>5. CASE Stops(w)
  <2>1. WorkerStep(w, "idle", 0, "")
    BY <1>5, StopsStep DEF IInv
  <2>2. Remembered("idle", 0, "") /\ "idle" \notin Holding
    BY NothingRemembered
  <2> QED BY <1>4, <2>1, <2>2, StepOfWorker DEF Repair
<1>6. ASSUME NEW p \in {"reading", "rereading"}, Goes(w, p) PROVE IInv'
  <2>1. p \in Phase /\ p \notin Holding /\ Remembered(p, worker[w].gen, worker[w].seen)
    BY NothingRemembered
  <2>2. WorkerStep(w, p, worker[w].gen, worker[w].seen)
    BY <1>6, <2>1, GoesStep DEF IInv
  <2> QED BY <1>4, <2>1, <2>2, StepOfWorker DEF Repair
<1> QED BY <1>5, <1>6 DEF Repair

LEMMA ClaimBlockedInv ==
  ASSUME IInv, NEW w \in Worker, ClaimBlocked(w)
  PROVE  IInv'
  BY StopsSilently DEF ClaimBlocked

LEMMA CrashInv ==
  ASSUME IInv, NEW w \in Worker, Crash(w)
  PROVE  IInv'
  BY StopsSilently DEF Crash

LEMMA RepairFailsInv ==
  ASSUME IInv, NEW w \in Worker, RepairFails(w)
  PROVE  IInv'
  BY GoesSilently DEF RepairFails

LEMMA PollUndecidedInv ==
  ASSUME IInv, NEW w \in Worker, PollUndecided(w)
  PROVE  IInv'
<1>1. CASE UNCHANGED outbox
  BY <1>1, StopsSilently DEF PollUndecided
<1>2. CASE Bound(w) /\ outbox' = Saved([outbox EXCEPT !.due = FALSE])
  <2>1. ASSUME NEW row \in OutboxRecord
        PROVE  LET r == [row EXCEPT !.due = FALSE]
               IN r \in OutboxRecord /\ r.status = row.status
    BY DEF OutboxRecord
  <2>2. outbox \in OutboxRecord
    BY DEF IInv, TypeOK
  <2>3. outbox' \in OutboxRecord /\ outbox'.status = "processing"
    BY <1>2, <2>1, <2>2, SavedRow DEF Bound
  <2>4. ~Offered'
    BY <2>3 DEF Offered
  <2>5. WorkerStep(w, "idle", 0, "")
    BY StopsStep DEF IInv, PollUndecided
  <2>6. Remembered("idle", 0, "") /\ "idle" \notin Holding
    BY NothingRemembered
  <2> QED BY <2>3, <2>4, <2>5, <2>6, StepOfWorker DEF PollUndecided
<1> QED BY <1>1, <1>2 DEF PollUndecided

LEMMA RepairResultInv ==
  ASSUME IInv, NEW w \in Worker, RepairResult(w)
  PROVE  IInv'
<1> DEFINE g == worker[w].gen
           seen == worker[w].seen
<1>1. CASE UNCHANGED outbox
  BY <1>1, StopsSilently DEF RepairResult
<1>2. CASE latest = g /\ outbox' = WithResult(outbox, seen)
  <2>1. g \in Generation /\ seen # "" /\ seen = attempt[g].final
    BY DEF IInv, WorkersInv, WorkerInv, Remembered, RepairResult
  <2>2. seen \in Final
    BY <2>1 DEF IInv, TypeOK, AttemptRecord
  <2>3. outbox \in OutboxRecord
    BY DEF IInv, TypeOK
  <2>4. /\ outbox' \in OutboxRecord /\ outbox'.status = seen /\ outbox'.fresh = {}
    BY <1>2, <2>2, <2>3, ResultRow
  <2>5. ASSUME Offered' PROVE \A h \in Generation : Settled(h)
    <3>1. seen = "failed"
      BY <2>2, <2>4, <2>5 DEF Offered, Final
    <3>2. Settled(g) /\ attempt[g].state # "none"
      BY <2>1, <3>1 DEF IInv, AttemptsInv, Settled
    <3>3. latest <= g
      BY <1>2, LatestInt DEF IInv
    <3> QED BY <2>1, <3>2, <3>3, AllSettled DEF IInv
  <2>6. WorkerStep(w, "idle", 0, "")
    BY StopsStep DEF IInv, RepairResult
  <2>7. Remembered("idle", 0, "") /\ "idle" \notin Holding
    BY NothingRemembered
  <2> QED BY <2>4, <2>5, <2>6, <2>7, StepOfWorker DEF RepairResult
<1> QED BY <1>1, <1>2 DEF RepairResult

LEMMA RecoverResultInv ==
  ASSUME IInv, NEW w \in Worker, RecoverResult(w)
  PROVE  IInv'
  BY GoesToRepairResult DEF RecoverResult, ResultOfSummary

LEMMA RecoverReceiptInv ==
  ASSUME IInv, NEW w \in Worker, RecoverReceipt(w)
  PROVE  IInv'
<1>1. latest \in Generation
  <2>1. latest # 0 /\ latest \in 0..MaxGeneration
    BY DEF RecoverReceipt, IInv, TypeOK
  <2> QED BY <2>1, NonzeroGeneration
<1>2. "repair" \in Repairing
  BY DEF Repairing
<1> QED BY <1>1, <1>2, GoesToRepair DEF RecoverReceipt
-----------------------------------------------------------------------------
\* Steps that change one attempt, the latest one.
LEMMA StepOfLatest ==
  ASSUME IInv, NEW g \in Generation, NEW state, NEW result, NEW final,
         AttemptStep(g, state, result, final), UNCHANGED <<latest, flight, verdict>>,
         g = latest, state # "none",
         state \in Untouched => g \notin flight /\ verdict[g] = "none",
         state = "accepted" => verdict[g] # "none",
         final # "" => state = "accepted" /\ verdict[g] = final,
         state \in {"failed", "cancelled"} => result # "",
         state \in {"accepted", "unknown"} => result \notin {"", "pending", "skipped", "failed"}
  PROVE  AttemptsInv' /\ OrderInv'
<1>1. AttemptsInv'
  <2> SUFFICES ASSUME NEW h \in Generation
               PROVE  /\ attempt'[h].state \in Untouched => h \notin flight /\ verdict[h] = "none"
                      /\ attempt'[h].state = "accepted" => verdict[h] # "none"
                      /\ h \in flight => verdict[h] = "none"
                      /\ attempt'[h].final # "" =>
                            attempt'[h].state = "accepted" /\ verdict[h] = attempt'[h].final
                      /\ attempt'[h].state \in {"failed", "cancelled"} => attempt'[h].result # ""
                      /\ attempt'[h].state \in {"accepted", "unknown"} =>
                            attempt'[h].result \notin {"", "pending", "skipped", "failed"}
    BY DEF AttemptsInv
  <2>1. CASE h = g
    BY <2>1 DEF AttemptStep, IInv, AttemptsInv
  <2>2. CASE h # g
    <3>1. attempt'[h] = attempt[h]
      BY <2>2 DEF AttemptStep
    <3> QED BY <3>1 DEF IInv, AttemptsInv
  <2> QED BY <2>1, <2>2
<1>2. OrderInv'
  <2> SUFFICES ASSUME NEW h \in Generation
               PROVE  (h < latest => Settled(h)') /\ (h > latest => attempt'[h].state = "none")
    BY DEF OrderInv
  <2>1. CASE h = g
    <3>1. ~(latest > latest) /\ ~(latest < latest)
      BY LatestInt DEF IInv
    <3> QED BY <2>1, <3>1
  <2>2. CASE h # g
    <3>1. attempt'[h] = attempt[h]
      BY <2>2 DEF AttemptStep
    <3> QED BY <3>1 DEF IInv, OrderInv, Settled
  <2> QED BY <2>1, <2>2
<1> QED BY <1>1, <1>2

LEMMA OthersStay ==
  ASSUME IInv, NEW g \in Generation, NEW state, NEW result, NEW final,
         AttemptStep(g, state, result, final), UNCHANGED <<latest, flight, verdict>>,
         state # "none", attempt[g].state \notin {"failed", "cancelled"},
         attempt[g].final # "" => final = attempt[g].final,
         NEW v \in Worker, worker'[v] = worker[v],
         worker[v].phase = "claimed" /\ worker[v].gen = g => state = "cancelled",
         worker[v].phase = "sending" => worker[v].gen # g
  PROVE  WorkerInv(v)'
<1>1. WorkerInv(v)
  BY DEF IInv, WorkersInv
<1>2. \A h \in Generation :
         /\ attempt[h].state # "none" => attempt'[h].state # "none"
         /\ attempt[h].state \in {"failed", "cancelled"} =>
               attempt'[h].state \in {"failed", "cancelled"}
         /\ attempt[h].final # "" => attempt'[h].final = attempt[h].final
  BY DEF AttemptStep
<1>3. ASSUME worker[v].phase = "claimed"
      PROVE  attempt'[worker[v].gen].state \in {"claimed", "cancelled"}
  <2>1. worker[v].gen \in Generation /\ attempt[worker[v].gen].state \in {"claimed", "cancelled"}
    BY <1>1, <1>3 DEF WorkerInv, Remembered, Holding
  <2> QED BY <1>3, <2>1 DEF AttemptStep
<1>4. ASSUME worker[v].phase = "sending"
      PROVE  /\ attempt'[worker[v].gen].state = "handoff"
             /\ worker[v].gen \notin flight' /\ verdict'[worker[v].gen] = "none"
  <2>1. /\ worker[v].gen \in Generation /\ attempt[worker[v].gen].state = "handoff"
        /\ worker[v].gen \notin flight /\ verdict[worker[v].gen] = "none"
    BY <1>1, <1>4 DEF WorkerInv, Remembered, Holding
  <2> QED BY <1>4, <2>1 DEF AttemptStep
<1>5. latest \in Int /\ Generation \subseteq Int /\ latest >= latest
  BY LatestInt DEF IInv
<1>6. latest' = latest
  OBVIOUS
<1> QED BY <1>1, <1>2, <1>3, <1>4, <1>5, <1>6, WorkerStays

\* The holder w of the latest attempt, unsettled so far, records something of it.
LEMMA StepOfHolder ==
  ASSUME IInv, NEW w \in Worker, worker[w].phase \in Holding,
         NEW g \in Generation, g = worker[w].gen, ~Settled(g),
         NEW state, NEW result, NEW final, AttemptStep(g, state, result, final),
         UNCHANGED <<lead, outbox, latest, flight, verdict>>,
         state # "none", final = attempt[g].final,
         state \in Untouched => g \notin flight /\ verdict[g] = "none",
         state = "accepted" => verdict[g] # "none",
         final # "" => state = "accepted" /\ verdict[g] = final,
         state \in {"failed", "cancelled"} => result # "",
         state \in {"accepted", "unknown"} => result \notin {"", "pending", "skipped", "failed"},
         NEW p, NEW s, WorkerStep(w, p, g, s), WorkerInv(w)'
  PROVE  IInv'
<1>1. TypeOK'
  BY DEF IInv, TypeOK, WorkerStep, AttemptStep
<1>2. g = latest /\ attempt[g].state \notin {"none", "failed", "cancelled"}
  BY UnsettledIsLatest DEF IInv, Settled
<1>3. AttemptsInv' /\ OrderInv'
  BY <1>2, StepOfLatest
<1>4. WorkersInv'
  <2>1. ASSUME NEW v \in Worker, v # w PROVE WorkerInv(v)'
    <3>1. worker'[v] = worker[v]
      BY <2>1 DEF WorkerStep
    <3>2. worker[v].phase \in Holding => worker[v].gen # g
      BY <2>1 DEF IInv, OneOwner
    <3>3. "claimed" \in Holding /\ "sending" \in Holding
      BY DEF Holding
    <3> QED BY <1>2, <3>1, <3>2, <3>3, OthersStay
  <2> QED BY <2>1 DEF WorkersInv
<1>5. OneOwner'
  <2>1. \A v \in Worker : worker'[v].phase \in Holding =>
                             worker[v].phase \in Holding /\ worker'[v].gen = worker[v].gen
    BY DEF WorkerStep
  <2> QED BY <2>1, OwnersStay DEF IInv
<1>6. QuietRows'
  BY DEF IInv, QuietRows, Offered
<1> QED BY <1>1, <1>3, <1>4, <1>5, <1>6 DEF IInv

LEMMA MayRepair ==
  ASSUME NEW w \in Worker, NEW p \in Repairing, NEW g \in Generation, NEW s,
         WorkerStep(w, p, g, s), s # "", attempt'[g].state # "none",
         s \in {"pending", "skipped", "failed"} => attempt'[g].state \in {"failed", "cancelled"}
  PROVE  WorkerInv(w)'
<1>1. p \notin Holding /\ p # "repairResult" /\ p # "claimed" /\ p # "sending"
  BY DEF Repairing, Holding
<1> QED BY <1>1 DEF WorkerStep, WorkerInv, Remembered

LEMMA FinishInv ==
  ASSUME IInv, NEW w \in Worker, worker[w].phase \in Holding,
         NEW outcome \in {"accepted", "failed", "unknown"}, Finish(w, outcome),
         UNCHANGED <<lead, outbox, latest, flight, verdict>>,
         outcome = "accepted" => verdict[worker[w].gen] # "none",
         outcome = "failed" /\ attempt[worker[w].gen].state = "handoff" =>
            worker[w].gen \notin flight /\ verdict[worker[w].gen] = "none"
  PROVE  IInv'
<1> DEFINE g == worker[w].gen
           p == IF Provider = "google" /\ outcome = "accepted" THEN "repairThenPoll" ELSE "repair"
<1>1. g \in Generation
  BY DEF IInv, WorkersInv, WorkerInv, Remembered
<1>2. CASE attempt[g].state \notin FinishFrom(outcome)
  BY <1>2, StopsSilently DEF Finish
<1>3. CASE attempt[g].state \in FinishFrom(outcome)
  <2>1. /\ attempt' = [attempt EXCEPT ![g] = Recorded(@, outcome, ResultOf(outcome))]
        /\ Remembers(w, p, g, ResultOf(outcome))
    BY <1>3 DEF Finish
  <2>2. attempt[g].state \in {"claimed", "handoff", "unknown"} /\ ~Settled(g)
    BY <1>3 DEF FinishFrom, Settled
  <2>3. /\ ResultOf(outcome) \in Result \ {""}
        /\ outcome # "failed" => ResultOf(outcome) \notin {"pending", "skipped", "failed"}
    BY AcceptedResultCases DEF ResultOf, Result, Final
  <2>4. outcome \in AttemptState /\ p \in Repairing /\ p \in Phase
    BY DEF AttemptState, Active, Repairing, Phase
  <2>5. g \in 0..MaxGeneration
    BY <1>1, GenerationBounds DEF IInv, TypeOK
  <2>6. AttemptStep(g, outcome, ResultOf(outcome), attempt[g].final)
    BY <1>1, <2>1, <2>3, <2>4, RecordedStep DEF IInv
  <2>7. attempt[g].final = ""
    BY <1>1, <2>2 DEF IInv, AttemptsInv
  <2> HIDE DEF p, g
  <2>8. WorkerStep(w, p, g, ResultOf(outcome))
    BY <2>1, <2>3, <2>4, <2>5, RemembersStep DEF IInv
  <2>9. attempt'[g].state = outcome
    BY <2>6 DEF AttemptStep
  <2>10. WorkerInv(w)'
    BY <1>1, <2>3, <2>4, <2>8, <2>9, MayRepair
  <2>11. outcome \in Untouched => g \notin flight /\ verdict[g] = "none"
    <3>1. ASSUME outcome = "failed" PROVE attempt[g].state \in {"claimed", "handoff"}
      BY <1>3, <3>1 DEF FinishFrom
    <3>2. attempt[g].state = "claimed" => g \notin flight /\ verdict[g] = "none"
      BY <1>1 DEF IInv, AttemptsInv, Untouched
    <3> QED BY <3>1, <3>2 DEF Untouched, g
  <2>12. outcome = "accepted" => verdict[g] # "none"
    BY DEF g
  <2>13. g = worker[w].gen
    BY DEF g
  <2> QED BY <1>1, <2>2, <2>3, <2>6, <2>7, <2>8, <2>10, <2>11, <2>12, <2>13, StepOfHolder
<1> QED BY <1>2, <1>3

LEMMA PrepareFailsInv ==
  ASSUME IInv, NEW w \in Worker, PrepareFails(w)
  PROVE  IInv'
<1>1. worker[w].phase \in Holding /\ attempt[worker[w].gen].state # "handoff"
  BY DEF PrepareFails, Holding, IInv, WorkersInv, WorkerInv, Remembered
<1> QED BY <1>1, FinishInv DEF PrepareFails

LEMMA AnswerInv ==
  ASSUME IInv, NEW w \in Worker, Answer(w)
  PROVE  IInv'
<1>1. worker[w].phase \in Holding
  BY DEF Answer, Holding
<1>2. CASE verdict[worker[w].gen] # "none" /\ Finish(w, "accepted")
  BY <1>1, <1>2, FinishInv DEF Answer
<1>3. CASE /\ verdict[worker[w].gen] = "none" /\ worker[w].gen \notin flight
           /\ Finish(w, "failed")
  BY <1>1, <1>3, FinishInv DEF Answer
<1>4. CASE Finish(w, "unknown")
  BY <1>1, <1>4, FinishInv DEF Answer
<1> QED BY <1>2, <1>3, <1>4 DEF Answer

LEMMA HandoffInv ==
  ASSUME IInv, NEW w \in Worker, Handoff(w)
  PROVE  IInv'
<1> DEFINE g == worker[w].gen
<1>1. worker[w].phase = "claimed" /\ worker[w].phase \in Holding /\ g \in Generation
  BY DEF Handoff, Holding, IInv, WorkersInv, WorkerInv, Remembered
<1>2. CASE Stops(w) /\ UNCHANGED attempt
  BY <1>2, StopsSilently DEF Handoff
<1>3. attempt[g].state = "claimed" =>
         /\ ~Settled(g) /\ g \notin flight /\ verdict[g] = "none" /\ attempt[g].final = ""
  BY <1>1 DEF IInv, AttemptsInv, Settled, Untouched
<1>4. ASSUME NEW result \in CancelResult, attempt[g].state = "claimed",
             attempt' = [attempt EXCEPT ![g] = Cancelled(@, result)],
             Remembers(w, "repair", g, result)
      PROVE  IInv'
  <2>1. result \in Result /\ result # "" /\ "repair" \in Repairing /\ "repair" \in Phase
    BY DEF Result, CancelResult, Repairing, Phase
  <2>2. AttemptStep(g, "cancelled", result, attempt[g].final)
    BY <1>1, <1>4, CancelledStep DEF IInv
  <2>3. g \in 0..MaxGeneration
    BY <1>1, GenerationBounds DEF IInv, TypeOK
  <2>4. WorkerStep(w, "repair", g, result)
    BY <1>4, <2>1, <2>3, RemembersStep DEF IInv
  <2>5. attempt'[g].state = "cancelled"
    BY <2>2 DEF AttemptStep
  <2>6. WorkerInv(w)'
    BY <1>1, <2>1, <2>4, <2>5, MayRepair
  <2> QED BY <1>1, <1>3, <1>4, <2>1, <2>2, <2>4, <2>6, StepOfHolder DEF Handoff
<1>5. CASE /\ attempt[g].state = "claimed" /\ Goes(w, "sending")
           /\ attempt' = [attempt EXCEPT ![g].state = "handoff", ![g].aged = FALSE]
  <2>1. AttemptStep(g, "handoff", attempt[g].result, attempt[g].final)
    BY <1>1, <1>5, HandoffStep DEF IInv
  <2>2. "sending" \in Phase /\ "sending" \notin Repairing
    BY DEF Phase, Repairing
  <2>3. WorkerStep(w, "sending", g, worker[w].seen)
    BY <1>5, <2>2, GoesStep DEF IInv
  <2>4. g <= latest
    BY <1>1 DEF IInv, WorkersInv, WorkerInv, Remembered
  <2>5. latest' = latest /\ flight' = flight /\ verdict' = verdict
    BY DEF Handoff
  <2>6. WorkerInv(w)'
    <3>1. attempt'[g].state = "handoff"
      BY <2>1 DEF AttemptStep
    <3>2. /\ worker'[w].phase = "sending" /\ worker'[w].gen = g
      BY <2>3 DEF WorkerStep
    <3> QED BY <1>1, <1>3, <1>5, <2>2, <2>4, <2>5, <3>1, <3>2 DEF WorkerInv, Remembered
  <2> QED BY <1>1, <1>3, <1>5, <2>1, <2>3, <2>6, StepOfHolder DEF Handoff, Untouched
<1>6. "pending" \in CancelResult /\ "skipped" \in CancelResult
  BY DEF CancelResult
<1> QED BY <1>2, <1>4, <1>5, <1>6 DEF Handoff

LEMMA SendInv ==
  ASSUME IInv, NEW w \in Worker, Send(w)
  PROVE  IInv'
<1> DEFINE g == worker[w].gen
<1>1. /\ worker[w].phase = "sending" /\ worker[w].phase \in Holding
      /\ g \in Generation /\ g <= latest
      /\ attempt[g].state = "handoff" /\ g \notin flight /\ verdict[g] = "none"
  BY DEF Send, Holding, IInv, WorkersInv, WorkerInv, Remembered
<1>2. /\ flight' = flight \cup {g} /\ verdict' = verdict /\ latest' = latest
      /\ attempt' = attempt /\ outbox' = outbox /\ lead' = lead
  BY DEF Send
<1>3. "awaiting" \in Phase /\ "awaiting" \in Holding /\ "awaiting" \notin Repairing
  BY DEF Phase, Holding, Repairing
<1>4. WorkerStep(w, "awaiting", g, worker[w].seen)
  BY <1>3, GoesStep DEF IInv, Send
<1>5. TypeOK'
  BY <1>1, <1>2, <1>4 DEF IInv, TypeOK, WorkerStep
<1>6. AttemptsInv'
  BY <1>1, <1>2 DEF IInv, AttemptsInv, Untouched
<1>7. Unread
  BY <1>2, SameAttempts DEF IInv
<1>8. OrderInv'
  <2>1. \A h \in Generation : Settled(h)' <=> Settled(h)
    BY <1>7, SameSettled DEF Unread
  <2> QED BY <1>2, <2>1 DEF IInv, OrderInv
<1>9. WorkersInv'
  <2>1. WorkerInv(w)'
    BY <1>1, <1>2, <1>3, <1>4 DEF WorkerStep, WorkerInv, Remembered
  <2>2. ASSUME NEW v \in Worker, v # w PROVE WorkerInv(v)'
    <3>1. WorkerInv(v) /\ worker'[v] = worker[v]
      BY <1>4, <2>2 DEF WorkerStep, IInv, WorkersInv
    <3>2. worker[v].phase = "sending" => worker[v].gen # g
      BY <1>1, <2>2 DEF IInv, OneOwner, Holding
    <3> QED BY <1>2, <3>1, <3>2 DEF WorkerInv, Remembered
  <2> QED BY <2>1, <2>2 DEF WorkersInv
<1>10. OneOwner'
  <2>1. \A v \in Worker : worker'[v].phase \in Holding =>
                             worker[v].phase \in Holding /\ worker'[v].gen = worker[v].gen
    BY <1>1, <1>4 DEF WorkerStep
  <2> QED BY <2>1, OwnersStay DEF IInv
<1>11. QuietRows'
  BY <1>2, <1>7, QuietStays DEF IInv, Offered
<1> QED BY <1>5, <1>6, <1>8, <1>9, <1>10, <1>11 DEF IInv

LEMMA PollDecidedInv ==
  ASSUME IInv, NEW w \in Worker, PollDecided(w)
  PROVE  IInv'
<1> DEFINE g == worker[w].gen
           f == IF attempt[g].final = "" THEN verdict[g] ELSE attempt[g].final
<1>1. CASE Stops(w) /\ UNCHANGED attempt
  BY <1>1, StopsSilently DEF PollDecided
<1>2. CASE /\ Bound(w) /\ latest = g /\ attempt[g].state = "accepted"
           /\ attempt' = [attempt EXCEPT ![g].final = IF @ = "" THEN verdict[g] ELSE @]
           /\ Remembers(w, "repairResult", g, attempt'[g].final)
  <2>1. verdict[g] \in Final /\ worker[w].phase = "polling"
    BY DEF PollDecided
  <2>2. g \in 0..MaxGeneration /\ g \in Generation
    <3>1. g \in 0..MaxGeneration
      BY DEF IInv, TypeOK, WorkerRecord
    <3>2. g # 0
      BY DEF PollDecided
    <3> QED BY <3>1, <3>2, NonzeroGeneration
  <2>3. AttemptStep(g, attempt[g].state, attempt[g].result, f)
    BY <1>2, <2>1, <2>2, FinalStep DEF IInv
  <2>4. attempt'[g].final = f /\ attempt'[g].state = attempt[g].state
    BY <2>3 DEF AttemptStep
  <2>5. f \in Final /\ f # "" /\ f = verdict[g] /\ (attempt[g].final # "" => f = attempt[g].final)
    BY <2>1, <2>2 DEF IInv, AttemptsInv, Final
  <2>6. f \in Result /\ "repairResult" \in Phase /\ "repairResult" \notin Holding
        /\ "repairResult" \notin Repairing
    BY <2>5 DEF Result, Phase, Holding, Repairing
  <2> HIDE DEF f, g
  <2>7. WorkerStep(w, "repairResult", g, f)
    BY <1>2, <2>2, <2>4, <2>6, RemembersStep DEF IInv
  <2>8. /\ lead' = lead /\ outbox' = outbox /\ latest' = latest /\ flight' = flight
        /\ verdict' = verdict
    BY DEF PollDecided
  <2>9. TypeOK'
    BY <2>3, <2>7, <2>8 DEF IInv, TypeOK, WorkerStep, AttemptStep
  <2>10. AttemptsInv' /\ OrderInv'
    <3>1. attempt[g].result \notin {"", "pending", "skipped", "failed"}
      BY <1>2, <2>2 DEF IInv, AttemptsInv
    <3>2. verdict[g] # "none"
      BY <2>1 DEF Final
    <3> QED BY <1>2, <2>2, <2>3, <2>5, <2>8, <3>1, <3>2, StepOfLatest DEF Untouched
  <2>11. WorkersInv'
    <3>1. WorkerInv(w)'
      BY <2>2, <2>4, <2>5, <2>6, <2>7 DEF WorkerStep, WorkerInv, Remembered
    <3>2. ASSUME NEW v \in Worker, v # w PROVE WorkerInv(v)'
      <4>1. worker'[v] = worker[v] /\ WorkerInv(v)
        BY <2>7, <3>2 DEF WorkerStep, IInv, WorkersInv
      <4>2. worker[v].phase = "claimed" => worker[v].gen # g
        BY <1>2, <4>1 DEF WorkerInv, Remembered
      <4>3. worker[v].phase = "sending" => worker[v].gen # g
        BY <1>2, <4>1 DEF WorkerInv, Remembered
      <4> QED BY <1>2, <2>2, <2>3, <2>5, <2>8, <4>1, <4>2, <4>3, OthersStay
    <3> QED BY <3>1, <3>2 DEF WorkersInv
  <2>12. OneOwner'
    <3>1. \A v \in Worker : worker'[v].phase \in Holding =>
                               worker[v].phase \in Holding /\ worker'[v].gen = worker[v].gen
      BY <2>6, <2>7 DEF WorkerStep
    <3> QED BY <3>1, OwnersStay DEF IInv
  <2>13. QuietRows'
    BY <1>2, <2>8 DEF QuietRows, Offered, Bound
  <2> QED BY <2>9, <2>10, <2>11, <2>12, <2>13 DEF IInv
<1> QED BY <1>1, <1>2 DEF PollDecided

\* The latest attempt changes and every process stays where it is.
LEMMA StepOfOperator ==
  ASSUME IInv, NEW g \in Generation, g = latest, ~Settled(g),
         NEW state, NEW result, NEW final, AttemptStep(g, state, result, final),
         UNCHANGED <<lead, latest, worker, flight, verdict>>,
         state # "none", final = attempt[g].final,
         state \in Untouched => g \notin flight /\ verdict[g] = "none",
         state = "accepted" => verdict[g] # "none",
         final # "" => state = "accepted" /\ verdict[g] = final,
         state \in {"failed", "cancelled"} => result # "",
         state \in {"accepted", "unknown"} => result \notin {"", "pending", "skipped", "failed"},
         attempt[g].state = "claimed" => state = "cancelled",
         \A v \in Worker : worker[v].phase = "sending" => worker[v].gen # g,
         outbox' \in OutboxRecord,
         Offered' => Settled(g)'
  PROVE  IInv'
<1>1. TypeOK'
  BY DEF IInv, TypeOK, AttemptStep
<1>2. AttemptsInv' /\ OrderInv'
  BY StepOfLatest
<1>3. WorkersInv'
  <2>1. ASSUME NEW v \in Worker PROVE WorkerInv(v)'
    <3>1. worker[v].phase = "claimed" /\ worker[v].gen = g => attempt[g].state = "claimed"
      BY DEF IInv, WorkersInv, WorkerInv, Remembered, Settled
    <3>2. worker'[v] = worker[v] /\ attempt[g].state \notin {"failed", "cancelled"}
      BY DEF Settled
    <3> QED BY <3>1, <3>2, OthersStay
  <2> QED BY <2>1 DEF WorkersInv
<1>4. OneOwner'
  BY DEF IInv, OneOwner
<1>5. QuietRows'
  <2>1. ASSUME Settled(g)', NEW h \in Generation PROVE Settled(h)'
    <3>1. CASE h = g
      BY <2>1, <3>1
    <3>2. CASE h # g
      <4>1. Settled(h)
        BY <3>2, UnsettledIsLatest DEF IInv
      <4> QED BY <3>2, <4>1 DEF AttemptStep, Settled
    <3> QED BY <3>1, <3>2
  <2> QED BY <2>1 DEF QuietRows
<1> QED BY <1>1, <1>2, <1>3, <1>4, <1>5 DEF IInv

LEMMA RecoverClaimInv ==
  ASSUME IInv, RecoverClaim
  PROVE  IInv'
<1>1. PICK g \in Generation :
         /\ Expired(g) /\ attempt' = [attempt EXCEPT ![g] = Cancelled(@, "pending")]
         /\ outbox' = WithStatus("pending")
  BY DEF RecoverClaim
<1>2. /\ attempt[g].state = "claimed" /\ ~Settled(g) /\ attempt[g].final = ""
      /\ g \notin flight /\ verdict[g] = "none"
  BY <1>1 DEF Expired, Settled, IInv, AttemptsInv, Untouched
<1>3. AttemptStep(g, "cancelled", "pending", attempt[g].final)
  BY <1>1, CancelledStep DEF IInv, CancelResult
<1>4. outbox' \in OutboxRecord
  BY <1>1, StatusRow DEF IInv, Status, Result, CancelResult
<1>5. \A v \in Worker : worker[v].phase = "sending" => worker[v].gen # g
  BY <1>2 DEF IInv, WorkersInv, WorkerInv, Remembered
<1>6. Settled(g)'
  BY <1>3 DEF AttemptStep, Settled
<1>7. g = latest
  BY <1>2, UnsettledIsLatest DEF IInv
<1> QED BY <1>2, <1>3, <1>4, <1>5, <1>6, <1>7, StepOfOperator DEF RecoverClaim

LEMMA ReviewInv ==
  ASSUME IInv, Review
  PROVE  IInv'
<1>1. PICK g \in Generation : g = latest /\ attempt[g].state \in {"unknown", "handoff"}
  <2>1. latest \in 0..MaxGeneration /\ latest # 0
    BY DEF IInv, TypeOK, Review, Reviewable
  <2>2. latest \in Generation
    BY <2>1, NonzeroGeneration
  <2> QED BY <2>2 DEF Review, Reviewable
<1>2. ~Settled(g) /\ attempt[g].final = ""
  BY <1>1 DEF IInv, AttemptsInv, Settled
<1>3. ASSUME NEW outcome \in {"accepted", "failed"}, ReviewAs(outcome),
             outcome = "accepted" => verdict[g] # "none",
             outcome = "failed" => verdict[g] = "none" /\ g \notin flight,
             \A v \in Worker : worker[v].phase = "sending" => worker[v].gen # g
      PROVE  IInv'
  <2> DEFINE result == ResultOf(outcome)
  <2>1. /\ result \in Result \ {""} /\ outcome \in AttemptState
        /\ outcome = "accepted" => result \notin {"", "pending", "skipped", "failed"}
    BY AcceptedResultCases DEF ResultOf, Result, Final, AttemptState
  <2>2. /\ attempt' = [attempt EXCEPT ![g] = Recorded(@, outcome, result)]
        /\ outbox' = Projected(g, result, "")
        /\ lead' = lead /\ latest' = latest /\ worker' = worker /\ flight' = flight
        /\ verdict' = verdict
    BY <1>1, <1>2, <1>3 DEF ReviewAs
  <2> HIDE DEF result
  <2>3. AttemptStep(g, outcome, result, attempt[g].final)
    BY <1>1, <2>1, <2>2, RecordedStep DEF IInv
  <2>4. /\ outbox' \in OutboxRecord
        /\ outbox' = outbox \/ (outbox'.fresh = {} /\ outbox'.status = result)
    BY <1>1, <2>1, <2>2, ProjectedRow DEF IInv
  <2>5. Offered' => Settled(g)'
    <3>1. ~Offered
      BY <1>1, <1>2 DEF IInv, QuietRows
    <3>2. ASSUME Offered' PROVE outcome # "accepted"
      BY <2>1, <2>4, <3>1, <3>2 DEF Offered
    <3> QED BY <2>3, <3>2 DEF AttemptStep, Settled
  <2> QED BY <1>1, <1>2, <1>3, <2>1, <2>2, <2>3, <2>4, <2>5, StepOfOperator DEF Untouched
<1>4. CASE verdict[latest] # "none" /\ ReviewAs("accepted")
  <2>1. \A v \in Worker : worker[v].phase = "sending" => worker[v].gen # g
    BY <1>1, <1>4 DEF IInv, WorkersInv, WorkerInv, Remembered
  <2> QED BY <1>1, <1>3, <1>4, <2>1
<1>5. CASE verdict[latest] = "none" /\ Stopped(latest) /\ ReviewAs("failed")
  <2>1. g \notin flight /\ \A v \in Worker : worker[v].phase = "sending" => worker[v].gen # g
    BY <1>1, <1>5 DEF Stopped
  <2> QED BY <1>1, <1>3, <1>5, <2>1
<1> QED BY <1>4, <1>5 DEF Review

\* The new claim finds everything before it settled, or expired and cancelled.
LEMMA ClaimNewInv ==
  ASSUME IInv, NEW w \in Worker, ClaimNew(w)
  PROVE  IInv'
<1> DEFINE n == latest + 1
<1>1. n \in Generation /\ n \in 0..MaxGeneration /\ latest \in Int /\ latest' \in 0..MaxGeneration
  <2>1. latest \in 0..MaxGeneration /\ latest < MaxGeneration
    BY DEF IInv, TypeOK, ClaimNew, Claimable
  <2>2. n \in Generation /\ n \in 0..MaxGeneration
    BY <2>1, MaxGenerationAssumption DEF Generation
  <2>3. latest \in Int
    BY <2>1, MaxGenerationAssumption
  <2> QED BY <2>2, <2>3 DEF ClaimNew
<1>2. latest' = n /\ flight' = flight /\ verdict' = verdict /\ lead' = lead
  BY DEF ClaimNew
<1>3. NewAttempt \in AttemptRecord /\ NewAttempt.state = "claimed" /\ NewAttempt.final = ""
      /\ NewAttempt.result = ""
  <2>1. outbox.attempts + 1 \in Nat
    BY DEF IInv, TypeOK, OutboxRecord
  <2> QED BY <2>1 DEF NewAttempt, NoAttempt, AttemptRecord, AttemptState, Active, Result
<1>4. \A h \in Generation : attempt[h].state \in Active => attempt[h].state = "claimed"
  BY DEF ClaimNew, Claimable, ActiveGenerations, Expired
<1>5. attempt[n].state = "none"
  <2>1. n > latest
    BY <1>1
  <2> QED BY <1>1, <2>1 DEF IInv, OrderInv
<1> HIDE DEF n
<1>6. /\ attempt' \in [Generation -> AttemptRecord]
      /\ attempt'[n] = NewAttempt
      /\ \A h \in Generation :
           /\ attempt[h].state \notin Active /\ h # n => attempt'[h] = attempt[h]
           /\ attempt[h].state \in Active =>
                 /\ attempt'[h].state = "cancelled" /\ attempt'[h].result = "pending"
                 /\ attempt'[h].final = attempt[h].final
  <2>1. attempt' = [h \in Generation |->
                     IF h = n THEN NewAttempt
                     ELSE IF attempt[h].state \in Active THEN Cancelled(attempt[h], "pending")
                     ELSE attempt[h]]
    BY DEF ClaimNew, ActiveGenerations, n
  <2>2. \A h \in Generation :
           LET c == Cancelled(attempt[h], "pending") IN
           /\ c \in AttemptRecord /\ c.state = "cancelled" /\ c.result = "pending"
           /\ c.final = attempt[h].final
    <3>1. "cancelled" \in AttemptState /\ "pending" \in Result
      BY DEF AttemptState, Result, CancelResult
    <3>2. \A h \in Generation : attempt[h] \in AttemptRecord
      BY DEF IInv, TypeOK
    <3> QED BY <3>1, <3>2, RecordedAttempt DEF Cancelled
  <2>3. \A h \in Generation : attempt[h] \in AttemptRecord
    BY DEF IInv, TypeOK
  <2>4. attempt[n].state \notin Active
    BY <1>5 DEF Active
  <2> QED BY <1>1, <1>3, <2>1, <2>2, <2>3, <2>4
<1>7. WorkerStep(w, "claimed", n, worker[w].seen)
  <2> DEFINE r == [worker[w] EXCEPT !.phase = "claimed", !.gen = n]
  <2>1. ASSUME NEW a \in WorkerRecord
        PROVE  LET b == [a EXCEPT !.phase = "claimed", !.gen = n]
               IN b \in WorkerRecord /\ b.phase = "claimed" /\ b.gen = n /\ b.seen = a.seen
    BY <1>1 DEF WorkerRecord, Phase
  <2>2. worker \in [Worker -> WorkerRecord] /\ worker[w] \in WorkerRecord
    BY DEF IInv, TypeOK
  <2>3. r \in WorkerRecord /\ r.phase = "claimed" /\ r.gen = n /\ r.seen = worker[w].seen
    BY <2>1, <2>2
  <2>4. worker' = [worker EXCEPT ![w] = r]
    BY DEF ClaimNew, n
  <2> HIDE DEF r
  <2> QED BY <2>2, <2>3, <2>4 DEF WorkerStep
<1>8. outbox' \in OutboxRecord /\ ~Offered'
  <2>1. [outbox EXCEPT !.status = "sending"] \in OutboxRecord
        /\ [outbox EXCEPT !.status = "sending"].status = "sending"
    BY DEF IInv, TypeOK, OutboxRecord, Status
  <2>2. outbox' \in OutboxRecord /\ outbox'.status = "sending" /\ outbox'.fresh = {}
    BY <2>1, SavedRow DEF ClaimNew
  <2> QED BY <2>2 DEF Offered
<1>9. TypeOK'
  BY <1>1, <1>2, <1>6, <1>7, <1>8 DEF IInv, TypeOK, WorkerStep
<1>10. AttemptsInv'
  <2> SUFFICES ASSUME NEW h \in Generation
               PROVE  /\ attempt'[h].state \in Untouched => h \notin flight /\ verdict[h] = "none"
                      /\ attempt'[h].state = "accepted" => verdict[h] # "none"
                      /\ h \in flight => verdict[h] = "none"
                      /\ attempt'[h].final # "" =>
                            attempt'[h].state = "accepted" /\ verdict[h] = attempt'[h].final
                      /\ attempt'[h].state \in {"failed", "cancelled"} => attempt'[h].result # ""
                      /\ attempt'[h].state \in {"accepted", "unknown"} =>
                            attempt'[h].result \notin {"", "pending", "skipped", "failed"}
    BY <1>2 DEF AttemptsInv
  <2>1. CASE h = n
    BY <1>1, <1>3, <1>5, <1>6, <2>1 DEF IInv, AttemptsInv, Untouched
  <2>2. CASE h # n /\ attempt[h].state \notin Active
    <3>1. attempt'[h] = attempt[h]
      BY <1>6, <2>2
    <3> QED BY <3>1 DEF IInv, AttemptsInv
  <2>3. CASE h # n /\ attempt[h].state \in Active
    BY <1>4, <1>6, <2>3 DEF IInv, AttemptsInv, Untouched
  <2> QED BY <2>1, <2>2, <2>3
<1>11. OrderInv'
  <2> SUFFICES ASSUME NEW h \in Generation
               PROVE  (h < n => Settled(h)') /\ (h > n => attempt'[h].state = "none")
    BY <1>2 DEF OrderInv
  <2>1. h \in Int /\ n \in Int
    BY <1>1, LatestInt DEF IInv
  <2>2. CASE h = n
    BY <2>1, <2>2
  <2>3. CASE h # n /\ attempt[h].state \in Active
    <3>1. ~(h > latest)
      BY <2>3 DEF IInv, OrderInv, Active
    <3>2. ~(h > n)
      BY <1>1, <2>1, <3>1 DEF n
    <3> QED BY <1>6, <2>3, <3>2 DEF Settled
  <2>4. CASE h # n /\ attempt[h].state \notin Active
    <3>1. attempt'[h] = attempt[h]
      BY <1>6, <2>4
    <3>2. h > n => h > latest
      BY <1>1, <2>1 DEF n
    <3>3. Settled(h)
      <4>1. CASE attempt[h].state # "accepted"
        <5>1. attempt[h].state \in AttemptState
          BY DEF IInv, TypeOK, AttemptRecord
        <5> QED BY <2>4, <4>1, <5>1 DEF Settled, AttemptState
      <4>2. CASE attempt[h].state = "accepted" /\ h # latest
        BY <4>2, UnsettledIsLatest DEF IInv
      <4>3. CASE attempt[h].state = "accepted" /\ h = latest
        BY <4>3 DEF ClaimNew, Blocking, Settled
      <4> QED BY <4>1, <4>2, <4>3
    <3> QED BY <3>1, <3>2, <3>3 DEF IInv, OrderInv, Settled
  <2> QED BY <2>2, <2>3, <2>4
<1>12. WorkersInv'
  <2>1. "claimed" \notin Repairing
    BY DEF Repairing
  <2>2. WorkerInv(w)'
    <3>1. n <= n
      BY <1>1
    <3>2. worker'[w].phase = "claimed" /\ worker'[w].gen = n /\ attempt'[n].state = "claimed"
      BY <1>3, <1>6, <1>7 DEF WorkerStep
    <3> QED BY <1>1, <1>2, <2>1, <3>1, <3>2 DEF WorkerInv, Remembered
  <2>3. ASSUME NEW v \in Worker, v # w PROVE WorkerInv(v)'
    <3>1. worker'[v] = worker[v] /\ WorkerInv(v)
      BY <1>7, <2>3 DEF WorkerStep, IInv, WorkersInv
    <3>2. \A h \in Generation :
             /\ attempt[h].state # "none" => attempt'[h].state # "none"
             /\ attempt[h].state \in {"failed", "cancelled"} =>
                   attempt'[h].state \in {"failed", "cancelled"}
             /\ attempt[h].final # "" => attempt'[h].final = attempt[h].final
      <4> SUFFICES ASSUME NEW h \in Generation
                   PROVE  /\ attempt[h].state # "none" => attempt'[h].state # "none"
                          /\ attempt[h].state \in {"failed", "cancelled"} =>
                                attempt'[h].state \in {"failed", "cancelled"}
                          /\ attempt[h].final # "" => attempt'[h].final = attempt[h].final
        OBVIOUS
      <4>1. CASE h = n
        BY <1>1, <1>5, <4>1 DEF IInv, AttemptsInv
      <4>2. CASE h # n /\ attempt[h].state \notin Active
        BY <1>6, <4>2
      <4>3. CASE h # n /\ attempt[h].state \in Active
        BY <1>6, <4>3
      <4> QED BY <4>1, <4>2, <4>3
    <3>3. worker[v].phase = "claimed" => attempt'[worker[v].gen].state \in {"claimed", "cancelled"}
      <4> SUFFICES ASSUME worker[v].phase = "claimed"
                   PROVE  attempt'[worker[v].gen].state \in {"claimed", "cancelled"}
        OBVIOUS
      <4> DEFINE h == worker[v].gen
      <4>1. h \in Generation /\ attempt[h].state \in {"claimed", "cancelled"}
        BY <3>1 DEF WorkerInv, Remembered, Holding
      <4>2. h # n
        BY <1>5, <4>1
      <4> QED BY <1>6, <4>1, <4>2
    <3>4. worker[v].phase # "sending"
      <4>1. worker[v].phase = "sending" =>
               worker[v].gen \in Generation /\ attempt[worker[v].gen].state = "handoff"
        BY <3>1 DEF WorkerInv, Remembered, Holding
      <4> QED BY <1>4, <4>1 DEF Active
    <3>5. latest \in Int /\ latest' \in Int /\ Generation \subseteq Int /\ latest' >= latest
      <4>1. Generation \subseteq Int
        BY LatestInt DEF IInv
      <4>2. n \in Int /\ n >= latest
        BY <1>1 DEF n
      <4> QED BY <1>1, <1>2, <4>1, <4>2
    <3> QED BY <3>1, <3>2, <3>3, <3>4, <3>5, WorkerStays
  <2> QED BY <2>2, <2>3 DEF WorkersInv
<1>13. OneOwner'
  <2>1. \A v \in Worker : worker[v].phase \in Holding => worker[v].gen # n
    <3>1. ASSUME NEW v \in Worker, worker[v].phase \in Holding PROVE worker[v].gen # n
      <4>1. worker[v].gen <= latest /\ worker[v].gen \in Generation
        BY <3>1 DEF IInv, WorkersInv, WorkerInv, Remembered
      <4>2. ~(n <= latest)
        BY <1>1 DEF n
      <4> QED BY <4>1, <4>2
    <3> QED BY <3>1
  <2> QED BY <1>7, <2>1 DEF WorkerStep, IInv, OneOwner
<1>14. QuietRows'
  BY <1>8 DEF QuietRows
<1> QED BY <1>9, <1>10, <1>11, <1>12, <1>13, <1>14 DEF IInv

\* Steps of the world around that no attempt state, process or receipt notices.
LEMMA UnnoticedStep ==
  ASSUME IInv, Unread, UNCHANGED <<latest, worker, flight, verdict>>,
         lead' \in [trashed : BOOLEAN, sendable : BOOLEAN],
         outbox' \in OutboxRecord, Offered' => Offered
  PROVE  IInv'
<1>1. TypeOK'
  BY DEF IInv, TypeOK, Unread
<1>2. AttemptsInv' /\ OrderInv'
  BY AttemptsStay
<1>3. WorkersInv'
  BY DEF IInv, WorkersInv, WorkerInv, Remembered, Holding, Unread
<1>4. OneOwner'
  BY DEF IInv, OneOwner
<1>5. QuietRows'
  BY QuietStays DEF IInv
<1> QED BY <1>1, <1>2, <1>3, <1>4, <1>5 DEF IInv

LEMMA EditInv ==
  ASSUME IInv, Edit
  PROVE  IInv'
<1>1. Unread
  BY TouchedStep DEF IInv, Edit
<1> QED BY <1>1, UnnoticedStep DEF Edit, IInv, TypeOK, Offered

LEMMA TrashOrRestoreInv ==
  ASSUME IInv, TrashOrRestore
  PROVE  IInv'
<1>1. Unread
  BY TouchedStep DEF IInv, TrashOrRestore
<1>2. lead' \in [trashed : BOOLEAN, sendable : BOOLEAN]
  BY DEF IInv, TypeOK, TrashOrRestore
<1>3. outbox' \in OutboxRecord /\ (Offered' => Offered)
  BY DEF IInv, TypeOK, TrashOrRestore, Offered
<1> QED BY <1>1, <1>2, <1>3, UnnoticedStep DEF TrashOrRestore

LEMMA ToggleSendableInv ==
  ASSUME IInv, ToggleSendable
  PROVE  IInv'
<1>1. Unread
  BY TouchedStep DEF IInv, ToggleSendable
<1>2. lead' \in [trashed : BOOLEAN, sendable : BOOLEAN]
  BY DEF IInv, TypeOK, ToggleSendable
<1>3. outbox' \in OutboxRecord /\ (Offered' => Offered)
  BY DEF IInv, TypeOK, ToggleSendable, Offered
<1> QED BY <1>1, <1>2, <1>3, UnnoticedStep DEF ToggleSendable

LEMMA AgeInv ==
  ASSUME IInv, Age
  PROVE  IInv'
<1>1. Unread
  BY AgedStep DEF IInv, Age
<1>2. lead' \in [trashed : BOOLEAN, sendable : BOOLEAN]
  BY DEF IInv, TypeOK, Age
<1>3. outbox' \in OutboxRecord /\ (Offered' => Offered)
  BY DEF IInv, TypeOK, Age, Offered
<1> QED BY <1>1, <1>2, <1>3, UnnoticedStep DEF Age

LEMMA BackoffEndsInv ==
  ASSUME IInv, BackoffEnds
  PROVE  IInv'
<1>1. Unread
  BY SameAttempts DEF IInv, BackoffEnds
<1>2. ASSUME NEW row \in OutboxRecord
      PROVE  LET r == [row EXCEPT !.due = TRUE]
             IN r \in OutboxRecord /\ r.status = row.status /\ r.fresh = row.fresh
  BY DEF OutboxRecord
<1>3. outbox \in OutboxRecord /\ lead \in [trashed : BOOLEAN, sendable : BOOLEAN]
  BY DEF IInv, TypeOK
<1>4. outbox' \in OutboxRecord /\ outbox'.status = outbox.status /\ outbox'.fresh = outbox.fresh
  BY <1>2, <1>3 DEF BackoffEnds
<1> QED BY <1>1, <1>3, <1>4, UnnoticedStep DEF BackoffEnds, Offered

\* The provider moves one generation; no attempt of ours changes.
LEMMA StepOfProvider ==
  ASSUME IInv, NEW g \in Generation, UNCHANGED <<lead, outbox, latest, attempt, worker>>,
         attempt[g].state \notin Untouched, attempt[g].final = "",
         g \in flight \/ verdict[g] # "none",
         flight' \subseteq flight, verdict' \in [Generation -> Final \cup {"none", "taken"}],
         \A h \in Generation : h # g => verdict'[h] = verdict[h],
         verdict[g] # "none" => verdict'[g] # "none",
         g \in flight' => verdict'[g] = "none"
  PROVE  IInv'
<1>1. TypeOK'
  BY DEF IInv, TypeOK
<1>2. AttemptsInv'
  <2> SUFFICES ASSUME NEW h \in Generation
               PROVE  /\ attempt[h].state \in Untouched => h \notin flight' /\ verdict'[h] = "none"
                      /\ attempt[h].state = "accepted" => verdict'[h] # "none"
                      /\ h \in flight' => verdict'[h] = "none"
                      /\ attempt[h].final # "" =>
                            attempt[h].state = "accepted" /\ verdict'[h] = attempt[h].final
                      /\ attempt[h].state \in {"failed", "cancelled"} => attempt[h].result # ""
                      /\ attempt[h].state \in {"accepted", "unknown"} =>
                            attempt[h].result \notin {"", "pending", "skipped", "failed"}
    BY DEF AttemptsInv
  <2>1. CASE h = g
    BY <2>1 DEF IInv, AttemptsInv
  <2>2. CASE h # g
    BY <2>2 DEF IInv, AttemptsInv
  <2> QED BY <2>1, <2>2
<1>3. OrderInv'
  BY DEF IInv, OrderInv, Settled
<1>4. WorkersInv'
  <2>1. ASSUME NEW v \in Worker PROVE WorkerInv(v)'
    <3>1. WorkerInv(v)
      BY DEF IInv, WorkersInv
    <3>2. worker[v].phase = "sending" => worker[v].gen \in Generation /\ worker[v].gen # g
      BY <3>1 DEF WorkerInv, Remembered, Holding
    <3> QED BY <3>1, <3>2 DEF WorkerInv, Remembered
  <2> QED BY <2>1 DEF WorkersInv
<1>5. OneOwner'
  BY DEF IInv, OneOwner
<1>6. QuietRows'
  BY DEF IInv, QuietRows, Offered, Settled
<1> QED BY <1>1, <1>2, <1>3, <1>4, <1>5, <1>6 DEF IInv

LEMMA ProviderTakesInv ==
  ASSUME IInv, ProviderTakes
  PROVE  IInv'
<1>1. PICK g \in flight : /\ flight' = flight \ {g}
                          /\ verdict' \in {verdict, [verdict EXCEPT ![g] = "taken"]}
  BY DEF ProviderTakes
<1>2. g \in Generation /\ verdict[g] = "none" /\ attempt[g].state \notin Untouched
  BY DEF IInv, TypeOK, AttemptsInv
<1>3. attempt[g].final = ""
  BY <1>2 DEF IInv, TypeOK, AttemptsInv, AttemptRecord, Final
<1>4. verdict' \in [Generation -> Final \cup {"none", "taken"}]
      /\ \A h \in Generation : h # g => verdict'[h] = verdict[h]
  BY <1>1, <1>2 DEF IInv, TypeOK
<1>5. UNCHANGED <<lead, outbox, latest, attempt, worker>>
  BY DEF ProviderTakes
<1> QED BY <1>1, <1>2, <1>3, <1>4, <1>5, StepOfProvider

LEMMA ProviderDecidesInv ==
  ASSUME IInv, ProviderDecides
  PROVE  IInv'
<1>1. PICK g \in Generation, f \in Final :
         verdict[g] = "taken" /\ verdict' = [verdict EXCEPT ![g] = f]
  BY DEF ProviderDecides
<1>2. g \notin flight /\ attempt[g].state \notin Untouched
  BY <1>1 DEF IInv, AttemptsInv
<1>3. attempt[g].final = ""
  BY <1>1 DEF IInv, TypeOK, AttemptsInv, AttemptRecord, Final
<1>4. verdict' \in [Generation -> Final \cup {"none", "taken"}]
      /\ verdict'[g] # "none" /\ \A h \in Generation : h # g => verdict'[h] = verdict[h]
  BY <1>1 DEF IInv, TypeOK, Final
<1>5. UNCHANGED <<lead, outbox, latest, attempt, worker>> /\ flight' = flight
  BY DEF ProviderDecides
<1> QED BY <1>1, <1>2, <1>3, <1>4, <1>5, StepOfProvider
-----------------------------------------------------------------------------
(***************************************************************************)
(* The invariant of the specification and what follows from it.            *)
(***************************************************************************)
LEMMA InitInv == Init => IInv
<1> SUFFICES ASSUME Init PROVE IInv
  OBVIOUS
<1>1. /\ NoAttempt \in AttemptRecord /\ NoAttempt.state = "none" /\ NoAttempt.final = ""
  BY DEF NoAttempt, AttemptRecord, AttemptState, Result
<1>2. \A g \in Generation : attempt[g] = NoAttempt /\ verdict[g] = "none"
  BY DEF Init
<1>3. \A w \in Worker : worker[w] = Idle
  BY DEF Init
<1>4. 0 \in 0..MaxGeneration /\ latest = 0
  BY MaxGenerationAssumption DEF Init
<1>5. TypeOK
  <2>1. outbox \in OutboxRecord
    <3>1. "pending" \in Status
      BY DEF Status, Result, CancelResult
    <3> QED BY <1>4, <3>1 DEF Init, OutboxRecord
  <2>2. lead \in [trashed : BOOLEAN, sendable : BOOLEAN]
    BY DEF Init
  <2>3. attempt \in [Generation -> AttemptRecord]
    BY <1>1 DEF Init
  <2>4. worker \in [Worker -> WorkerRecord]
    BY IdleType DEF Init
  <2>5. flight \subseteq Generation /\ verdict \in [Generation -> Final \cup {"none", "taken"}]
    BY DEF Init
  <2> QED BY <1>4, <2>1, <2>2, <2>3, <2>4, <2>5 DEF TypeOK
<1>6. AttemptsInv
  BY <1>1, <1>2 DEF AttemptsInv, Init
<1>7. OrderInv
  BY <1>1, <1>2 DEF OrderInv, Settled
<1>8. WorkersInv /\ OneOwner
  BY <1>3, IdleType DEF WorkersInv, WorkerInv, Remembered, OneOwner, Holding, Repairing
<1>9. QuietRows
  BY <1>1, <1>2 DEF QuietRows, Settled
<1> QED BY <1>5, <1>6, <1>7, <1>8, <1>9 DEF IInv

LEMMA StutterInv == IInv /\ UNCHANGED vars => IInv'
<1> SUFFICES ASSUME IInv, UNCHANGED vars PROVE IInv'
  OBVIOUS
<1>1. Unread
  BY SameAttempts DEF IInv, vars
<1> QED BY <1>1, UnnoticedStep DEF vars, IInv, TypeOK, Offered

LEMMA NextInv == IInv /\ [Next]_vars => IInv'
<1> SUFFICES ASSUME IInv, [Next]_vars PROVE IInv'
  OBVIOUS
<1>1. ASSUME NEW w \in Worker, Dispatch(w) PROVE IInv'
  BY <1>1, DispatchInv
<1>2. ASSUME NEW w \in Worker, ManualRetry(w) PROVE IInv'
  BY <1>2, ManualRetryInv
<1>3. ASSUME NEW w \in Worker, Dispatches(w) PROVE IInv'
  BY <1>3, MetaEntryInv, GoogleEntryInv, GoogleReadInv, GoogleRereadInv, ClaimWhileTrashedInv,
     ClaimFindsReceiptInv, ClaimBlockedInv, ClaimNewInv, HandoffInv, SendInv, AnswerInv,
     RepairInv, PollUndecidedInv, PollDecidedInv, RepairResultInv DEF Dispatches, Enters
<1>4. ASSUME NEW w \in Worker, PrepareFails(w) PROVE IInv'
  BY <1>4, PrepareFailsInv
<1>5. ASSUME NEW w \in Worker, Crash(w) PROVE IInv'
  BY <1>5, CrashInv
<1>6. ASSUME NEW w \in Worker, RepairFails(w) PROVE IInv'
  BY <1>6, RepairFailsInv
<1>7. ASSUME NEW w \in Worker, RecoverResult(w) PROVE IInv'
  BY <1>7, RecoverResultInv
<1>8. ASSUME NEW w \in Worker, RecoverReceipt(w) PROVE IInv'
  BY <1>8, RecoverReceiptInv
<1>9. CASE RecoverClaim
  BY <1>9, RecoverClaimInv
<1>10. CASE Environment
  BY <1>10, ReviewInv, EditInv, TrashOrRestoreInv, ToggleSendableInv, AgeInv, BackoffEndsInv,
     ProviderTakesInv, ProviderDecidesInv DEF Environment
<1>11. CASE UNCHANGED vars
  BY <1>11, StutterInv
<1> QED BY <1>1, <1>2, <1>3, <1>4, <1>5, <1>6, <1>7, <1>8, <1>9, <1>10, <1>11 DEF Next

\* The invariant holds for any number of processes and generations.
THEOREM InvariantHolds == Spec => []IInv
  BY InitInv, NextInv, PTL DEF Spec

\* Every variable keeps its type, whatever the interleaving.
THEOREM TypesHold == Spec => []TypeOK
<1>1. IInv => TypeOK
  BY DEF IInv
<1> QED BY <1>1, InvariantHolds, PTL

\* What a settled generation means for the provider.
LEMMA SettledIsClear ==
  ASSUME IInv, NEW g \in Generation, Settled(g)
  PROVE  g \notin flight /\ verdict[g] \in {"none", "failed"}
  BY DEF IInv, AttemptsInv, Settled, Untouched

\* Two uploads of one event: only after Google reported the earlier as failed
\* (claim_meta_event, begin_meta_handoff, finish_meta_attempt).
THEOREM NoDuplicateUpload == Spec => []AtMostOneUpload
<1>1. IInv => AtMostOneUpload
  <2> SUFFICES ASSUME IInv, NEW g \in Generation, NEW h \in Generation, g < h,
                      verdict[g] # "none", verdict[h] # "none"
               PROVE  verdict[g] = "failed"
    BY DEF AtMostOneUpload
  <2>1. Settled(g)
    <3>1. CASE g # latest
      BY <3>1, UnsettledIsLatest DEF IInv
    <3>2. CASE g = latest
      <4>1. attempt[h].state = "none"
        BY <3>2 DEF IInv, OrderInv
      <4> QED BY <4>1 DEF IInv, AttemptsInv, Untouched
    <3> QED BY <3>1, <3>2
  <2> QED BY <2>1, SettledIsClear
<1> QED BY <1>1, InvariantHolds, PTL

\* A process about to POST is alone and nothing earlier is undecided or accepted.
THEOREM NeverBlind == Spec => []NoBlindRetry
<1>1. IInv => NoBlindRetry
  <2> SUFFICES ASSUME IInv, NEW w \in Worker, worker[w].phase = "sending"
               PROVE  /\ flight = {}
                      /\ \A g \in Generation : verdict[g] \in {"none", "failed"}
                      /\ \A v \in Worker : worker[v].phase = "sending" => v = w
    BY DEF NoBlindRetry
  <2>1. \A v \in Worker : worker[v].phase = "sending" =>
           /\ worker[v].gen \in Generation /\ attempt[worker[v].gen].state = "handoff"
           /\ worker[v].gen \notin flight /\ verdict[worker[v].gen] = "none"
    BY DEF IInv, WorkersInv, WorkerInv, Remembered, Holding
  <2>2. \A v \in Worker : worker[v].phase = "sending" => worker[v].gen = latest
    BY <2>1, UnsettledIsLatest DEF IInv, Settled
  <2>3. \A g \in Generation : g \notin flight /\ verdict[g] \in {"none", "failed"}
    <3> SUFFICES ASSUME NEW g \in Generation
                 PROVE  g \notin flight /\ verdict[g] \in {"none", "failed"}
      OBVIOUS
    <3>1. CASE Settled(g)
      BY <3>1, SettledIsClear
    <3>2. CASE ~Settled(g)
      <4>1. g = worker[w].gen
        BY <2>2, <3>2, UnsettledIsLatest DEF IInv
      <4> QED BY <2>1, <4>1
    <3> QED BY <3>1, <3>2
  <2>4. flight \subseteq Generation
    BY DEF IInv, TypeOK
  <2>5. \A v \in Worker : worker[v].phase = "sending" => v = w
    BY <2>2 DEF IInv, OneOwner, Holding
  <2> QED BY <2>3, <2>4, <2>5
<1> QED BY <1>1, InvariantHolds, PTL

\* A row offered to the operator or the scheduler hides no upload.
THEOREM RetryIsSafe == Spec => []RetryableRowsAreClear
<1>1. IInv => RetryableRowsAreClear
  <2> SUFFICES ASSUME IInv, outbox.status \in {"pending", "failed", "skipped"}
               PROVE  flight = {} /\ \A g \in Generation : verdict[g] \in {"none", "failed"}
    BY DEF RetryableRowsAreClear
  <2>1. \A g \in Generation : g \notin flight /\ verdict[g] \in {"none", "failed"}
    BY SettledIsClear DEF IInv, QuietRows, Offered
  <2> QED BY <2>1 DEF IInv, TypeOK
<1> QED BY <1>1, InvariantHolds, PTL

\* Neither a process about to POST nor a row that is offered for another attempt
\* leads to a second upload of what the provider may have.
THEOREM RepetitionIsSafe == Spec => []RetriesAreSafe
<1>1. NoBlindRetry /\ RetryableRowsAreClear => RetriesAreSafe
  BY DEF RetriesAreSafe
<1> QED BY <1>1, NeverBlind, RetryIsSafe, PTL

LEMMA UnreadKeepsFacts ==
  ASSUME Unread
  PROVE  FactsKept
  BY DEF Unread, FactsKept

LEMMA AttemptKeepsFacts ==
  ASSUME NEW g \in Generation, NEW state, NEW result, NEW final,
         AttemptStep(g, state, result, final),
         attempt[g].state \in {"claimed", "handoff", "unknown"}, final = attempt[g].final
  PROVE  FactsKept
  BY DEF AttemptStep, FactsKept

LEMMA FinishKeepsFacts ==
  ASSUME IInv, NEW w \in Worker, worker[w].phase \in Holding,
         NEW outcome \in {"accepted", "failed", "unknown"}, Finish(w, outcome)
  PROVE  FactsKept
<1> DEFINE g == worker[w].gen
<1>1. CASE attempt[g].state \notin FinishFrom(outcome)
  BY <1>1, SameAttempts, UnreadKeepsFacts DEF Finish, IInv
<1>2. CASE attempt[g].state \in FinishFrom(outcome)
  <2>1. g \in Generation /\ attempt[g].state \in {"claimed", "handoff", "unknown"}
    BY <1>2 DEF FinishFrom, IInv, WorkersInv, WorkerInv, Remembered
  <2>2. outcome \in AttemptState /\ ResultOf(outcome) \in Result
    BY AcceptedResultCases DEF AttemptState, Active, ResultOf, Result, Final
  <2>3. AttemptStep(g, outcome, ResultOf(outcome), attempt[g].final)
    BY <1>2, <2>1, <2>2, RecordedStep DEF Finish, IInv
  <2> QED BY <2>1, <2>3, AttemptKeepsFacts
<1> QED BY <1>1, <1>2

LEMMA HandoffKeepsFacts ==
  ASSUME IInv, NEW w \in Worker, Handoff(w)
  PROVE  FactsKept
<1> DEFINE g == worker[w].gen
<1>1. g \in Generation
  BY DEF Handoff, Holding, IInv, WorkersInv, WorkerInv, Remembered
<1>2. CASE UNCHANGED attempt
  BY <1>2, SameAttempts, UnreadKeepsFacts DEF IInv
<1>3. ASSUME NEW result \in CancelResult, attempt[g].state = "claimed",
             attempt' = [attempt EXCEPT ![g] = Cancelled(@, result)]
      PROVE  FactsKept
  <2>1. AttemptStep(g, "cancelled", result, attempt[g].final)
    BY <1>1, <1>3, CancelledStep DEF IInv
  <2> QED BY <1>1, <1>3, <2>1, AttemptKeepsFacts
<1>4. CASE /\ attempt[g].state = "claimed"
           /\ attempt' = [attempt EXCEPT ![g].state = "handoff", ![g].aged = FALSE]
  <2>1. AttemptStep(g, "handoff", attempt[g].result, attempt[g].final)
    BY <1>1, <1>4, HandoffStep DEF IInv
  <2> QED BY <1>1, <1>4, <2>1, AttemptKeepsFacts
<1>5. "pending" \in CancelResult /\ "skipped" \in CancelResult
  BY DEF CancelResult
<1> QED BY <1>2, <1>3, <1>4, <1>5 DEF Handoff

LEMMA ClaimNewKeepsFacts ==
  ASSUME IInv, NEW w \in Worker, ClaimNew(w)
  PROVE  FactsKept
<1>1. ASSUME NEW h \in Generation
      PROVE  h # latest + 1 /\ attempt[h].state \notin Active => attempt'[h] = attempt[h]
  BY DEF ClaimNew, ActiveGenerations
<1>2. ASSUME NEW h \in Generation, h = latest + 1
      PROVE  attempt[h].state = "none" /\ attempt[h].final = ""
  <2>1. h > latest
    BY <1>2, LatestInt DEF IInv
  <2>2. attempt[h].state = "none"
    BY <2>1 DEF IInv, OrderInv
  <2> QED BY <2>2 DEF IInv, AttemptsInv
<1>3. ASSUME NEW h \in Generation, attempt[h].state \in Active
      PROVE  attempt[h].final = ""
  BY <1>3 DEF Active, IInv, AttemptsInv
<1> QED BY <1>1, <1>2, <1>3 DEF FactsKept, Active

LEMMA PollDecidedKeepsFacts ==
  ASSUME IInv, NEW w \in Worker, PollDecided(w)
  PROVE  FactsKept
<1> DEFINE g == worker[w].gen
<1>1. CASE UNCHANGED attempt
  BY <1>1, SameAttempts, UnreadKeepsFacts DEF IInv
<1>2. CASE attempt' = [attempt EXCEPT ![g].final = IF @ = "" THEN verdict[g] ELSE @]
  <2>1. g \in Generation /\ verdict[g] \in Final
    <3>1. g \in 0..MaxGeneration
      BY DEF IInv, TypeOK, WorkerRecord
    <3>2. g # 0 /\ verdict[g] \in Final
      BY DEF PollDecided
    <3> QED BY <3>1, <3>2, NonzeroGeneration
  <2>2. AttemptStep(g, attempt[g].state, attempt[g].result,
                    IF attempt[g].final = "" THEN verdict[g] ELSE attempt[g].final)
    BY <1>2, <2>1, FinalStep DEF IInv
  <2> QED BY <2>2 DEF AttemptStep, FactsKept
<1> QED BY <1>1, <1>2 DEF PollDecided

LEMMA OperatorKeepsFacts ==
  ASSUME IInv, RecoverClaim \/ Review
  PROVE  FactsKept
<1>1. CASE RecoverClaim
  <2>1. PICK g \in Generation :
           Expired(g) /\ attempt' = [attempt EXCEPT ![g] = Cancelled(@, "pending")]
    BY <1>1 DEF RecoverClaim
  <2>2. AttemptStep(g, "cancelled", "pending", attempt[g].final)
    BY <2>1, CancelledStep DEF IInv, CancelResult
  <2> QED BY <2>1, <2>2, AttemptKeepsFacts DEF Expired
<1>2. CASE Review
  <2>1. PICK g \in Generation : g = latest /\ attempt[g].state \in {"unknown", "handoff"}
    <3>1. latest \in 0..MaxGeneration /\ latest # 0
      BY <1>2 DEF IInv, TypeOK, Review, Reviewable
    <3>2. latest \in Generation
      BY <3>1, NonzeroGeneration
    <3> QED BY <1>2, <3>2 DEF Review, Reviewable
  <2>2. ASSUME NEW outcome \in {"accepted", "failed"}, ReviewAs(outcome)
        PROVE  FactsKept
    <3>1. outcome \in AttemptState /\ ResultOf(outcome) \in Result
      BY AcceptedResultCases DEF AttemptState, Active, ResultOf, Result, Final
    <3>2. AttemptStep(g, outcome, ResultOf(outcome), attempt[g].final)
      BY <2>1, <2>2, <3>1, RecordedStep DEF ReviewAs, IInv
    <3> QED BY <2>1, <3>2, AttemptKeepsFacts
  <2> QED BY <1>2, <2>2 DEF Review
<1> QED BY <1>1, <1>2

\* Finished attempts and recorded results are never rewritten, whoever comes late
\* (the trigger guard_event_attempt_update).
THEOREM FactsStay == Spec => FactsAreFinal
<1>1. IInv /\ [Next]_vars => [FactsKept]_vars
  <2> SUFFICES ASSUME IInv, Next PROVE FactsKept
    OBVIOUS
  <2>1. CASE UNCHANGED attempt
    BY <2>1, SameAttempts, UnreadKeepsFacts DEF IInv
  <2>2. ASSUME NEW w \in Worker, Dispatches(w) PROVE FactsKept
    <3>1. CASE UNCHANGED attempt
      BY <3>1, <2>1
    <3>2. CASE Answer(w)
      BY <3>2, FinishKeepsFacts DEF Answer, Holding
    <3>3. CASE MetaEntry(w) \/ GoogleEntry(w) \/ GoogleRead(w) \/ GoogleReread(w)
               \/ ClaimWhileTrashed(w) \/ ClaimFindsReceipt(w) \/ ClaimBlocked(w)
      BY <2>1, <3>3 DEF MetaEntry, GoogleEntry, GoogleRead, GoogleReread, ClaimWhileTrashed,
         ClaimFindsReceipt, ClaimBlocked
    <3>4. CASE Send(w) \/ Repair(w) \/ PollUndecided(w) \/ RepairResult(w)
      BY <2>1, <3>4 DEF Send, Repair, PollUndecided, RepairResult
    <3> QED BY <2>2, <3>2, <3>3, <3>4, ClaimNewKeepsFacts, HandoffKeepsFacts,
               PollDecidedKeepsFacts DEF Dispatches, Enters
  <2>3. ASSUME NEW w \in Worker, PrepareFails(w) PROVE FactsKept
    BY <2>3, FinishKeepsFacts DEF PrepareFails, Holding
  <2>4. ASSUME NEW w \in Worker,
               Dispatch(w) \/ ManualRetry(w) \/ Crash(w) \/ RepairFails(w)
               \/ RecoverResult(w) \/ RecoverReceipt(w)
        PROVE  FactsKept
    BY <2>1, <2>4 DEF Dispatch, ManualRetry, Crash, RepairFails, RecoverResult, RecoverReceipt
  <2>5. CASE RecoverClaim \/ Review
    BY <2>5, OperatorKeepsFacts
  <2>6. CASE Edit \/ TrashOrRestore \/ ToggleSendable
    BY <2>6, TouchedStep, UnreadKeepsFacts DEF Edit, TrashOrRestore, ToggleSendable, IInv
  <2>7. CASE Age
    BY <2>7, AgedStep, UnreadKeepsFacts DEF Age, IInv
  <2>8. CASE BackoffEnds \/ ProviderTakes \/ ProviderDecides
    BY <2>1, <2>8 DEF BackoffEnds, ProviderTakes, ProviderDecides
  <2> QED BY <2>2, <2>3, <2>4, <2>5, <2>6, <2>7, <2>8 DEF Next, Environment
<1> QED BY <1>1, InvariantHolds, PTL DEF Spec, FactsAreFinal
-----------------------------------------------------------------------------
(***************************************************************************)
(* What the summary row reports.  A second invariant over the first: every *)
(* status the row can be given, now or by what a process remembers or an   *)
(* attempt has on record, says something of the provider that is true,     *)
(* and what is true of the provider stays true.                            *)
(***************************************************************************)
\* What a status s says, where the provider did v[g] with generation g.
Says(s, v) ==
    /\ s \in {"processing", "validated"} => \E g \in Generation : v[g] # "none"
    /\ s = "sent" => \E g \in Generation : v[g] = IF IsGoogle THEN "sent" ELSE "taken"
    /\ s = "partial" => \E g \in Generation : v[g] = "partial"

GoogleDecides == \A g \in Generation : verdict[g] \in Final => Provider = "google"

TruthInv ==
    /\ GoogleDecides
    /\ Says(outbox.status, verdict)
    /\ \A w \in Worker : Says(worker[w].seen, verdict)
    /\ \A g \in Generation : Says(attempt[g].result, verdict)

Silent == {"pending", "skipped", "failed", "unknown", "sending", ""}

LEMMA SilentSays == ASSUME NEW s \in Silent PROVE Says(s, verdict)
BY DEF Silent, Says

LEMMA FinalSays ==
  ASSUME IInv, GoogleDecides, NEW g \in Generation
  PROVE  Says(attempt[g].final, verdict)
<1>1. attempt[g].final \in Final \cup {""}
  BY DEF IInv, TypeOK, AttemptRecord
<1>2. CASE attempt[g].final = ""
  BY <1>2, SilentSays DEF Silent
<1>3. CASE attempt[g].final \in Final
  <2>1. verdict[g] = attempt[g].final
    BY <1>3 DEF IInv, AttemptsInv, Final
  <2>2. IsGoogle
    BY <1>3, <2>1 DEF GoogleDecides, IsGoogle
  <2> QED BY <1>3, <2>1, <2>2 DEF Says, Final
<1> QED BY <1>1, <1>2, <1>3

\* A confirmed acceptance is on record only with the provider's verdict.
LEMMA OutcomeSays ==
  ASSUME IInv, GoogleDecides, NEW g \in Generation, NEW outcome \in {"accepted", "failed", "unknown"},
         outcome = "accepted" => verdict[g] # "none"
  PROVE  Says(ResultOf(outcome), verdict)
<1>1. CASE outcome # "accepted"
  BY <1>1, SilentSays DEF ResultOf, Silent
<1>2. CASE outcome = "accepted" /\ Provider # "meta"
  <2>1. AcceptedResult \in {"processing", "validated"}
    BY <1>2, ProviderAssumption DEF AcceptedResult
  <2> QED BY <1>2, <2>1 DEF ResultOf, Says
<1>3. CASE outcome = "accepted" /\ Provider = "meta"
  <2>1. verdict[g] = "taken"
    BY <1>3 DEF GoogleDecides, IInv, TypeOK
  <2>2. AcceptedResult = "sent" /\ ~IsGoogle
    BY <1>3 DEF AcceptedResult, IsGoogle
  <2> QED BY <1>3, <2>1, <2>2 DEF ResultOf, Says
<1> QED BY <1>2, <1>1, <1>3

LEMMA ProjectionSays ==
  ASSUME IInv, GoogleDecides, Says(outbox.status, verdict), NEW g \in Generation,
         NEW seen \in Result \ {""}, Says(seen, verdict), outbox' = Projected(g, seen, attempt[g].final)
  PROVE  Says(outbox'.status, verdict)
<1>1. attempt[g].final \in Final \cup {""}
  BY DEF IInv, TypeOK, AttemptRecord
<1>2. outbox' = outbox \/ outbox'.status \in {seen, attempt[g].final}
  BY <1>1, ProjectedRow DEF IInv
<1>3. Says(attempt[g].final, verdict)
  BY FinalSays
<1> QED BY <1>2, <1>3

\* Saving the row with only another date or proof keeps its status.
LEMMA SameStatus ==
  ASSUME NEW row \in OutboxRecord, NEW w \in Worker
  PROVE  /\ Saved([row EXCEPT !.due = FALSE]).status = row.status
         /\ [row EXCEPT !.due = TRUE].status = row.status
         /\ [row EXCEPT !.status = "sending", !.fresh = {w}].status = "sending"
         /\ Saved([row EXCEPT !.status = "sending"]).status = "sending"
         /\ Saved([row EXCEPT !.status = "pending"]).status = "pending"
BY DEF OutboxRecord, Saved

LEMMA ProcessRowSays ==
  ASSUME IInv, TruthInv, NEW w \in Worker, Dispatches(w) \/ ManualRetry(w)
  PROVE  Says(outbox'.status, verdict)
<1>1. outbox \in OutboxRecord /\ Says(outbox.status, verdict) /\ GoogleDecides
  BY DEF IInv, TypeOK, TruthInv
<1>2. CASE UNCHANGED outbox
  BY <1>1, <1>2
<1>3. CASE outbox'.status \in Silent
  BY <1>3, SilentSays
<1>4. CASE ManualRetry(w)
  BY <1>1, <1>3, <1>4, SameStatus DEF ManualRetry, Silent
<1>5. CASE MetaEntry(w)
  <2>1. UNCHANGED outbox \/ outbox' = WithStatus("pending") \/ outbox' = WithStatus("skipped")
    BY <1>5 DEF MetaEntry
  <2>2. "pending" \in Status /\ "skipped" \in Status
    BY DEF Status, Result, CancelResult
  <2> QED BY <1>2, <1>3, <2>1, <2>2, StatusRow DEF IInv, Silent
<1>6. CASE GoogleRead(w) \/ GoogleReread(w)
  <2>1. UNCHANGED outbox \/ outbox' = [outbox EXCEPT !.fresh = @ \cup {w}]
    BY <1>6 DEF GoogleRead, GoogleReread, StartsPoll
  <2>2. [outbox EXCEPT !.fresh = @ \cup {w}].status = outbox.status
    BY <1>1 DEF OutboxRecord
  <2>3. outbox'.status = outbox.status
    BY <2>1, <2>2
  <2> QED BY <1>1, <2>3
<1>7. CASE ClaimWhileTrashed(w) \/ ClaimNew(w)
  <2>1. \/ UNCHANGED outbox
        \/ outbox' = Saved([outbox EXCEPT !.status = "pending"])
        \/ outbox' = Saved([outbox EXCEPT !.status = "sending"])
    BY <1>7 DEF ClaimWhileTrashed, ClaimNew
  <2> QED BY <1>1, <1>2, <1>3, <2>1, SameStatus DEF Silent
<1>8. CASE ClaimFindsReceipt(w)
  <2>1. PICK g \in Generation : Blocking(g) /\ outbox' = Projected(g, attempt[g].result, attempt[g].final)
    BY <1>8 DEF ClaimFindsReceipt
  <2>2. attempt[g].result \in Result \ {""} /\ Says(attempt[g].result, verdict)
    BY <2>1, ReceiptResult DEF Blocking, TruthInv
  <2> QED BY <1>1, <2>1, <2>2, ProjectionSays
<1>9. CASE Repair(w)
  <2>1. worker[w].gen \in Generation /\ worker[w].seen \in Result \ {""}
    BY <1>9 DEF Repair, Repairing, IInv, TypeOK, WorkerRecord, WorkersInv, WorkerInv, Remembered
  <2>2. outbox' = Projected(worker[w].gen, worker[w].seen, attempt[worker[w].gen].final)
    BY <1>9 DEF Repair
  <2> QED BY <1>1, <2>1, <2>2, ProjectionSays DEF TruthInv
<1>10. CASE PollUndecided(w)
  <2>1. UNCHANGED outbox \/ outbox' = Saved([outbox EXCEPT !.due = FALSE])
    BY <1>10 DEF PollUndecided
  <2>2. outbox'.status = outbox.status
    BY <1>1, <2>1, SameStatus
  <2> QED BY <1>1, <2>2
<1>11. CASE RepairResult(w)
  <2>1. worker[w].gen \in Generation /\ worker[w].seen # ""
        /\ worker[w].seen = attempt[worker[w].gen].final
    BY <1>11 DEF IInv, WorkersInv, WorkerInv, Remembered, RepairResult
  <2>2. worker[w].seen \in Final
    BY <2>1 DEF IInv, TypeOK, AttemptRecord
  <2>3. UNCHANGED outbox \/ outbox'.status = worker[w].seen
    BY <1>1, <1>11, <2>2, ResultRow DEF RepairResult
  <2> QED BY <1>2, <2>3 DEF TruthInv
<1>12. CASE GoogleEntry(w) \/ ClaimBlocked(w) \/ Handoff(w) \/ Send(w) \/ Answer(w) \/ PollDecided(w)
  BY <1>2, <1>12 DEF GoogleEntry, ClaimBlocked, Handoff, Send, Answer, PollDecided
<1> QED BY <1>4, <1>5, <1>6, <1>7, <1>8, <1>9, <1>10, <1>11, <1>12 DEF Dispatches, Enters

LEMMA RowSays ==
  ASSUME IInv, TruthInv, [Next]_vars
  PROVE  Says(outbox'.status, verdict)
<1>1. outbox \in OutboxRecord /\ Says(outbox.status, verdict) /\ GoogleDecides
  BY DEF IInv, TypeOK, TruthInv
<1>2. CASE UNCHANGED outbox
  BY <1>1, <1>2
<1>3. ASSUME NEW w \in Worker, Dispatches(w) \/ ManualRetry(w) PROVE Says(outbox'.status, verdict)
  BY <1>3, ProcessRowSays
<1>4. ASSUME NEW w \in Worker, Dispatch(w) \/ PrepareFails(w) \/ Crash(w) \/ RepairFails(w)
                               \/ RecoverResult(w) \/ RecoverReceipt(w)
      PROVE  Says(outbox'.status, verdict)
  BY <1>2, <1>4 DEF Dispatch, PrepareFails, Crash, RepairFails, RecoverResult, RecoverReceipt
<1>5. CASE RecoverClaim
  <2>1. outbox' = WithStatus("pending") /\ "pending" \in Status
    BY <1>5 DEF RecoverClaim, Status, Result, CancelResult
  <2> QED BY <2>1, StatusRow, SilentSays DEF IInv, Silent
<1>6. CASE Review
  <2>1. PICK outcome \in {"accepted", "failed"} :
           ReviewAs(outcome) /\ (outcome = "accepted" => verdict[latest] # "none")
    BY <1>6 DEF Review
  <2>2. latest \in Generation
    BY <1>6, NonzeroGeneration DEF IInv, TypeOK, Review, Reviewable
  <2>3. ResultOf(outcome) \in Result \ {""}
    BY AcceptedResultCases DEF ResultOf, Result, Final
  <2>4. Says(ResultOf(outcome), verdict)
    BY <1>1, <2>1, <2>2, OutcomeSays
  <2>5. outbox' = Projected(latest, ResultOf(outcome), attempt[latest].final)
    BY <2>1 DEF ReviewAs
  <2> QED BY <1>1, <2>2, <2>3, <2>4, <2>5, ProjectionSays
<1>7. CASE BackoffEnds
  BY <1>1, <1>7, SameStatus DEF BackoffEnds
<1>8. CASE Edit \/ TrashOrRestore \/ ToggleSendable \/ Age \/ ProviderTakes \/ ProviderDecides
  BY <1>2, <1>8 DEF Edit, TrashOrRestore, ToggleSendable, Age, ProviderTakes, ProviderDecides
<1>9. CASE UNCHANGED vars
  BY <1>2, <1>9 DEF vars
<1> QED BY <1>3, <1>4, <1>5, <1>6, <1>7, <1>8, <1>9 DEF Next, Environment

\* What a process comes to remember, and what is put on record, is true as well.
LEMMA OneSeen ==
  ASSUME TruthInv, NEW w \in Worker, NEW p, NEW g, NEW s, WorkerStep(w, p, g, s),
         Says(s, verdict)
  PROVE  \A v \in Worker : Says(worker'[v].seen, verdict)
<1> SUFFICES ASSUME NEW v \in Worker PROVE Says(worker'[v].seen, verdict)
    OBVIOUS
<1>1. CASE v = w
  BY <1>1 DEF WorkerStep
<1>2. CASE v # w
  BY <1>2 DEF WorkerStep, TruthInv
<1> QED BY <1>1, <1>2

LEMMA OneResult ==
  ASSUME TruthInv, NEW g \in Generation, NEW state, NEW result, NEW final,
         AttemptStep(g, state, result, final), Says(result, verdict)
  PROVE  \A h \in Generation : Says(attempt'[h].result, verdict)
<1> SUFFICES ASSUME NEW h \in Generation PROVE Says(attempt'[h].result, verdict)
    OBVIOUS
<1>1. CASE h = g
  BY <1>1 DEF AttemptStep
<1>2. CASE h # g
  BY <1>2 DEF AttemptStep, TruthInv
<1> QED BY <1>1, <1>2

SeenTrue == \A v \in Worker : Says(worker'[v].seen, verdict)
ResultsTrue == \A h \in Generation : Says(attempt'[h].result, verdict)

LEMMA PlainSteps ==
  ASSUME IInv, TruthInv, NEW w \in Worker
  PROVE  /\ UNCHANGED worker => SeenTrue
         /\ Stops(w) => SeenTrue
         /\ \A p \in Phase : Goes(w, p) => SeenTrue
         /\ Unread => ResultsTrue
         /\ UNCHANGED attempt => ResultsTrue
<1>1. UNCHANGED worker => SeenTrue
  BY DEF TruthInv, SeenTrue
<1>2. ASSUME Stops(w) PROVE SeenTrue
  <2>1. WorkerStep(w, "idle", 0, "") /\ Says("", verdict)
    BY <1>2, StopsStep, SilentSays DEF IInv, Silent
  <2> QED BY <2>1, OneSeen DEF SeenTrue
<1>3. ASSUME NEW p \in Phase, Goes(w, p) PROVE SeenTrue
  <2>1. WorkerStep(w, p, worker[w].gen, worker[w].seen)
    BY <1>3, GoesStep DEF IInv
  <2> QED BY <2>1, OneSeen DEF SeenTrue, TruthInv
<1>4. Unread => ResultsTrue
  BY DEF Unread, ResultsTrue, TruthInv
<1>5. UNCHANGED attempt => ResultsTrue
  BY DEF ResultsTrue, TruthInv
<1> QED BY <1>1, <1>2, <1>3, <1>4, <1>5

LEMMA RemembersTrue ==
  ASSUME IInv, TruthInv, NEW w \in Worker, NEW p \in Phase, NEW g \in Generation,
         NEW s \in Result, Remembers(w, p, g, s), Says(s, verdict)
  PROVE  SeenTrue
<1>1. g \in 0..MaxGeneration
  BY GenerationBounds DEF IInv, TypeOK
<1>2. WorkerStep(w, p, g, s)
  BY <1>1, RemembersStep DEF IInv
<1> QED BY <1>2, OneSeen DEF SeenTrue

LEMMA FinishTrue ==
  ASSUME IInv, TruthInv, NEW w \in Worker, worker[w].phase \in Holding,
         NEW outcome \in {"accepted", "failed", "unknown"}, Finish(w, outcome),
         outcome = "accepted" => verdict[worker[w].gen] # "none"
  PROVE  SeenTrue /\ ResultsTrue
<1> DEFINE g == worker[w].gen
           p == IF Provider = "google" /\ outcome = "accepted" THEN "repairThenPoll" ELSE "repair"
<1>1. CASE attempt[g].state \notin FinishFrom(outcome)
  BY <1>1, PlainSteps DEF Finish
<1>2. CASE attempt[g].state \in FinishFrom(outcome)
  <2>1. g \in Generation
    BY DEF IInv, WorkersInv, WorkerInv, Remembered
  <2>2. outcome \in AttemptState /\ ResultOf(outcome) \in Result /\ p \in Phase
    BY AcceptedResultCases DEF AttemptState, Active, ResultOf, Result, Final, Phase
  <2>3. Says(ResultOf(outcome), verdict)
    BY <2>1, OutcomeSays DEF TruthInv
  <2>4. /\ attempt' = [attempt EXCEPT ![g] = Recorded(@, outcome, ResultOf(outcome))]
        /\ Remembers(w, p, g, ResultOf(outcome))
    BY <1>2 DEF Finish
  <2>5. AttemptStep(g, outcome, ResultOf(outcome), attempt[g].final)
    BY <2>1, <2>2, <2>4, RecordedStep DEF IInv
  <2> HIDE DEF p, g
  <2>6. ResultsTrue
    BY <2>1, <2>3, <2>5, OneResult DEF ResultsTrue
  <2> QED BY <2>1, <2>2, <2>3, <2>4, <2>6, RemembersTrue
<1> QED BY <1>1, <1>2

LEMMA ReceiptSays ==
  ASSUME IInv, TruthInv, NEW g \in Generation
  PROVE  /\ attempt[g].result \in Result /\ Says(attempt[g].result, verdict)
         /\ attempt[g].final \in Result /\ Says(attempt[g].final, verdict)
<1>1. attempt[g].result \in Result /\ attempt[g].final \in Result
  BY DEF IInv, TypeOK, AttemptRecord, Result
<1> QED BY <1>1, FinalSays DEF TruthInv

LEMMA HandoffTrue ==
  ASSUME IInv, TruthInv, NEW w \in Worker, Handoff(w)
  PROVE  SeenTrue /\ ResultsTrue
<1> DEFINE g == worker[w].gen
<1>1. g \in Generation
  BY DEF Handoff, Holding, IInv, WorkersInv, WorkerInv, Remembered
<1>2. CASE Stops(w) /\ UNCHANGED attempt
  BY <1>2, PlainSteps
<1>3. ASSUME NEW result \in CancelResult, Remembers(w, "repair", g, result),
             attempt' = [attempt EXCEPT ![g] = Cancelled(@, result)]
      PROVE  SeenTrue /\ ResultsTrue
  <2>1. AttemptStep(g, "cancelled", result, attempt[g].final)
    BY <1>1, <1>3, CancelledStep DEF IInv
  <2>2. result \in Result /\ Says(result, verdict) /\ "repair" \in Phase
    BY SilentSays DEF Silent, CancelResult, Result, Phase
  <2>3. SeenTrue
    BY <1>1, <1>3, <2>2, RemembersTrue
  <2>4. ResultsTrue
    BY <1>1, <2>1, <2>2, OneResult DEF ResultsTrue
  <2> QED BY <2>3, <2>4
<1>4. CASE /\ Goes(w, "sending")
           /\ attempt' = [attempt EXCEPT ![g].state = "handoff", ![g].aged = FALSE]
  <2>1. AttemptStep(g, "handoff", attempt[g].result, attempt[g].final)
    BY <1>1, <1>4, HandoffStep DEF IInv
  <2>2. ResultsTrue
    BY <1>1, <2>1, OneResult DEF ResultsTrue, TruthInv
  <2> QED BY <1>4, <2>2, PlainSteps DEF Phase
<1>5. "pending" \in CancelResult /\ "skipped" \in CancelResult
  BY DEF CancelResult
<1> QED BY <1>2, <1>3, <1>4, <1>5 DEF Handoff

LEMMA ClaimNewTrue ==
  ASSUME IInv, TruthInv, NEW w \in Worker, ClaimNew(w)
  PROVE  SeenTrue /\ ResultsTrue
<1>1. ResultsTrue
  <2> SUFFICES ASSUME NEW h \in Generation PROVE Says(attempt'[h].result, verdict)
      BY DEF ResultsTrue
  <2>1. CASE h = latest + 1
    <3>1. attempt'[h].result = ""
      BY <2>1 DEF ClaimNew, NewAttempt, NoAttempt
    <3> QED BY <3>1, SilentSays DEF Silent
  <2>2. CASE h # latest + 1 /\ h \in ActiveGenerations
    <3>1. "cancelled" \in AttemptState /\ "pending" \in Result /\ attempt[h] \in AttemptRecord
      BY DEF AttemptState, Result, CancelResult, IInv, TypeOK
    <3>2. attempt'[h].result = "pending"
      BY <2>2, <3>1, RecordedAttempt DEF ClaimNew, Cancelled
    <3> QED BY <3>2, SilentSays DEF Silent
  <2>3. CASE h # latest + 1 /\ h \notin ActiveGenerations
    BY <2>3 DEF ClaimNew, TruthInv
  <2> QED BY <2>1, <2>2, <2>3
<1>2. ASSUME NEW v \in Worker PROVE worker'[v].seen = worker[v].seen
  BY DEF ClaimNew, IInv, TypeOK, WorkerRecord
<1> QED BY <1>1, <1>2 DEF SeenTrue, TruthInv

LEMMA PollDecidedTrue ==
  ASSUME IInv, TruthInv, NEW w \in Worker, PollDecided(w)
  PROVE  SeenTrue /\ ResultsTrue
<1> DEFINE g == worker[w].gen
           f == IF attempt[g].final = "" THEN verdict[g] ELSE attempt[g].final
<1>1. CASE Stops(w) /\ UNCHANGED attempt
  BY <1>1, PlainSteps
<1>2. CASE /\ attempt' = [attempt EXCEPT ![g].final = IF @ = "" THEN verdict[g] ELSE @]
           /\ Remembers(w, "repairResult", g, attempt'[g].final)
  <2>1. g \in Generation /\ verdict[g] \in Final
    BY NonzeroGeneration DEF IInv, TypeOK, WorkerRecord, PollDecided
  <2>2. AttemptStep(g, attempt[g].state, attempt[g].result, f)
    BY <1>2, <2>1, FinalStep DEF IInv
  <2>3. attempt'[g].final = f /\ f \in Result /\ f = verdict[g]
    BY <2>1, <2>2 DEF AttemptStep, IInv, AttemptsInv, Result
  <2>4. Says(f, verdict)
    <3>1. IsGoogle
      BY <2>1 DEF TruthInv, GoogleDecides, IsGoogle
    <3> QED BY <2>1, <2>3, <3>1 DEF Says, Final
  <2> HIDE DEF f, g
  <2>5. SeenTrue
    BY <1>2, <2>1, <2>3, <2>4, RemembersTrue DEF Phase
  <2>6. ResultsTrue
    BY <2>1, <2>2, OneResult DEF ResultsTrue, TruthInv
  <2> QED BY <2>5, <2>6
<1> QED BY <1>1, <1>2 DEF PollDecided

LEMMA ProcessTells ==
  ASSUME IInv, TruthInv, NEW w \in Worker,
         Dispatches(w) \/ Dispatch(w) \/ ManualRetry(w) \/ PrepareFails(w) \/ Crash(w)
         \/ RepairFails(w) \/ RecoverResult(w) \/ RecoverReceipt(w)
  PROVE  SeenTrue /\ ResultsTrue
<1>1. CASE UNCHANGED attempt /\ (Stops(w) \/ \E p \in Phase : Goes(w, p))
  BY <1>1, PlainSteps
<1>2. ASSUME UNCHANGED attempt, NEW p \in Phase, NEW g \in Generation,
             Remembers(w, p, g, attempt[g].result) \/ Remembers(w, p, g, attempt[g].final)
      PROVE  SeenTrue /\ ResultsTrue
  <2>1. SeenTrue
    BY <1>2, ReceiptSays, RemembersTrue
  <2> QED BY <1>2, <2>1, PlainSteps
<1>3. CASE UNCHANGED attempt /\ StartsPoll(w)
  <2>1. ASSUME NEW v \in Worker PROVE worker'[v].seen = worker[v].seen
    BY <1>3 DEF StartsPoll, IInv, TypeOK, WorkerRecord
  <2> QED BY <1>3, <2>1, PlainSteps DEF SeenTrue, TruthInv
<1>4. CASE ManualRetry(w)
  <2>1. ASSUME NEW v \in Worker PROVE worker'[v].seen = worker[v].seen
    BY <1>4 DEF ManualRetry, IInv, TypeOK, WorkerRecord
  <2> QED BY <1>4, <2>1, PlainSteps DEF SeenTrue, TruthInv, ManualRetry
<1>5. CASE GoogleEntry(w)
  <2>1. CASE \E g \in Generation : Blocking(g)
    <3>1. latest \in Generation
      BY <1>5, <2>1 DEF GoogleEntry, Blocking
    <3>2. \/ Stops(w) \/ Remembers(w, "repairThenRead", latest, attempt[latest].result)
      BY <1>5, <2>1 DEF GoogleEntry
    <3> QED BY <1>1, <1>2, <1>5, <3>1, <3>2 DEF GoogleEntry, Phase
  <2>2. CASE ~\E g \in Generation : Blocking(g)
    BY <1>1, <1>5, <2>2 DEF GoogleEntry, Phase
  <2> QED BY <2>1, <2>2
<1>6. CASE GoogleRead(w) \/ RecoverResult(w)
  <2>1. \/ \E g \in Generation : Remembers(w, "repairResult", g, attempt[g].final)
        \/ StartsPoll(w)
        \/ Goes(w, "claiming")
    BY <1>6 DEF GoogleRead, RecoverResult, ResultOfSummary
  <2> QED BY <1>1, <1>2, <1>3, <1>6, <2>1 DEF GoogleRead, RecoverResult, Phase
<1>7. CASE RecoverReceipt(w)
  <2>1. latest \in Generation
    BY <1>7, NonzeroGeneration DEF RecoverReceipt, IInv, TypeOK
  <2> QED BY <1>2, <1>7, <2>1 DEF RecoverReceipt, Phase
<1>8. CASE GoogleReread(w)
  BY <1>1, <1>3, <1>8 DEF GoogleReread
<1>9. CASE Handoff(w) \/ ClaimNew(w) \/ PollDecided(w)
  BY <1>9, HandoffTrue, ClaimNewTrue, PollDecidedTrue
<1>10. CASE PrepareFails(w) \/ Answer(w)
  <2>1. worker[w].phase \in Holding
    BY <1>10 DEF PrepareFails, Answer, Holding
  <2>2. \/ verdict[worker[w].gen] # "none" /\ Finish(w, "accepted")
        \/ Finish(w, "failed") \/ Finish(w, "unknown")
    BY <1>10 DEF PrepareFails, Answer
  <2> QED BY <2>1, <2>2, FinishTrue
<1>11. CASE MetaEntry(w) \/ Dispatch(w) \/ Send(w)
  BY <1>1, <1>11 DEF MetaEntry, Dispatch, Send, Phase
<1>12. CASE Repair(w) \/ RepairFails(w)
  BY <1>1, <1>12 DEF Repair, RepairFails, Phase
<1>13. CASE \/ ClaimWhileTrashed(w) \/ ClaimFindsReceipt(w) \/ ClaimBlocked(w)
            \/ PollUndecided(w) \/ RepairResult(w) \/ Crash(w)
  BY <1>1, <1>13 DEF ClaimWhileTrashed, ClaimFindsReceipt, ClaimBlocked, PollUndecided,
     RepairResult, Crash
<1> QED BY <1>4, <1>5, <1>6, <1>7, <1>8, <1>9, <1>10, <1>11, <1>12, <1>13 DEF Dispatches, Enters

LEMMA OthersTell ==
  ASSUME IInv, TruthInv, RecoverClaim \/ Environment \/ UNCHANGED vars
  PROVE  SeenTrue /\ ResultsTrue
<1>1. SeenTrue
  <2>1. UNCHANGED worker
    BY DEF RecoverClaim, Environment, Review, ReviewAs, Edit, TrashOrRestore, ToggleSendable, Age,
       BackoffEnds, ProviderTakes, ProviderDecides, vars
  <2> QED BY <2>1 DEF SeenTrue, TruthInv
<1>2. CASE UNCHANGED attempt \/ Unread
  BY <1>1, <1>2 DEF Unread, ResultsTrue, TruthInv
<1>3. CASE RecoverClaim
  <2>1. PICK g \in Generation : attempt' = [attempt EXCEPT ![g] = Cancelled(@, "pending")]
    BY <1>3 DEF RecoverClaim
  <2>2. AttemptStep(g, "cancelled", "pending", attempt[g].final)
    BY <2>1, CancelledStep DEF IInv, CancelResult
  <2>3. Says("pending", verdict)
    BY SilentSays DEF Silent
  <2>4. ResultsTrue
    BY <2>2, <2>3, OneResult DEF ResultsTrue
  <2> QED BY <1>1, <2>4
<1>4. CASE Review
  <2>1. PICK outcome \in {"accepted", "failed"} :
           ReviewAs(outcome) /\ (outcome = "accepted" => verdict[latest] # "none")
    BY <1>4 DEF Review
  <2>2. latest \in Generation
    BY <1>4, NonzeroGeneration DEF IInv, TypeOK, Review, Reviewable
  <2>3. outcome \in AttemptState /\ ResultOf(outcome) \in Result
    BY AcceptedResultCases DEF AttemptState, Active, ResultOf, Result, Final
  <2>4. AttemptStep(latest, outcome, ResultOf(outcome), attempt[latest].final)
    BY <2>1, <2>2, <2>3, RecordedStep DEF ReviewAs, IInv
  <2>5. Says(ResultOf(outcome), verdict)
    BY <2>1, <2>2, OutcomeSays DEF TruthInv
  <2>6. ResultsTrue
    BY <2>2, <2>4, <2>5, OneResult DEF ResultsTrue
  <2> QED BY <1>1, <2>6
<1>5. CASE Edit \/ TrashOrRestore \/ ToggleSendable
  BY <1>1, <1>2, <1>5, TouchedStep DEF Edit, TrashOrRestore, ToggleSendable, IInv
<1>6. CASE Age
  BY <1>1, <1>2, <1>6, AgedStep DEF Age, IInv
<1>7. CASE BackoffEnds \/ ProviderTakes \/ ProviderDecides \/ UNCHANGED vars
  BY <1>1, <1>2, <1>7 DEF BackoffEnds, ProviderTakes, ProviderDecides, vars
<1> QED BY <1>3, <1>4, <1>5, <1>6, <1>7 DEF Environment

\* What the provider did is never undone: it takes what is under way, and only
\* Google decides later on what it took.
LEMMA VerdictsGrow ==
  ASSUME IInv, GoogleDecides, [Next]_vars
  PROVE  /\ GoogleDecides'
         /\ \A s : Says(s, verdict) => Says(s, verdict')
<1>1. CASE UNCHANGED verdict
  BY <1>1 DEF GoogleDecides
<1>2. ASSUME NEW g \in Generation, NEW d, verdict' = [verdict EXCEPT ![g] = d],
             \/ verdict[g] = "none" /\ d = "taken"
             \/ verdict[g] = "taken" /\ d \in Final /\ Provider = "google"
      PROVE  /\ GoogleDecides'
             /\ \A s : Says(s, verdict) => Says(s, verdict')
  <2>1. /\ verdict'[g] = d
        /\ \A h \in Generation : h # g => verdict'[h] = verdict[h]
    BY <1>2 DEF IInv, TypeOK
  <2>2. GoogleDecides'
    BY <1>2, <2>1 DEF GoogleDecides, Final
  <2>3. ASSUME NEW s, Says(s, verdict) PROVE Says(s, verdict')
    <3>1. (\E h \in Generation : verdict[h] # "none") => \E h \in Generation : verdict'[h] # "none"
      BY <1>2, <2>1 DEF Final
    <3>2. ASSUME NEW v \in {"sent", "partial"} \cup (IF IsGoogle THEN {} ELSE {"taken"}),
                 \E h \in Generation : verdict[h] = v
          PROVE  \E h \in Generation : verdict'[h] = v
      <4>1. PICK h \in Generation : verdict[h] = v
        BY <3>2
      <4>2. h # g
        BY <1>2, <4>1 DEF IsGoogle
      <4> QED BY <2>1, <4>1, <4>2
    <3> QED BY <2>3, <3>1, <3>2 DEF Says
  <2> QED BY <2>2, <2>3
<1>3. CASE ProviderTakes
  <2>1. PICK g \in flight : verdict' \in {verdict, [verdict EXCEPT ![g] = "taken"]}
    BY <1>3 DEF ProviderTakes
  <2>2. g \in Generation /\ verdict[g] = "none"
    BY DEF IInv, TypeOK, AttemptsInv
  <2> QED BY <1>1, <1>2, <2>1, <2>2
<1>4. CASE ProviderDecides
  BY <1>2, <1>4 DEF ProviderDecides
<1>5. ASSUME NEW w \in Worker,
             \/ Dispatch(w) \/ ManualRetry(w) \/ Dispatches(w) \/ PrepareFails(w) \/ Crash(w)
             \/ RepairFails(w) \/ RecoverResult(w) \/ RecoverReceipt(w)
      PROVE  UNCHANGED verdict
  <2>1. CASE Dispatches(w)
    BY <2>1 DEF Dispatches, Enters, MetaEntry, GoogleEntry, GoogleRead, GoogleReread,
       ClaimWhileTrashed, ClaimFindsReceipt, ClaimBlocked, ClaimNew, Handoff, Send, Answer,
       Repair, PollUndecided, PollDecided, RepairResult
  <2>2. CASE ~Dispatches(w)
    BY <1>5, <2>2 DEF Dispatch, ManualRetry, PrepareFails, Crash, RepairFails, RecoverResult,
       RecoverReceipt
  <2> QED BY <2>1, <2>2
<1>6. CASE RecoverClaim \/ UNCHANGED vars
  BY <1>1, <1>6 DEF RecoverClaim, vars
<1>7. CASE Review \/ Edit \/ TrashOrRestore \/ ToggleSendable \/ Age \/ BackoffEnds
  BY <1>1, <1>7 DEF Review, ReviewAs, Edit, TrashOrRestore, ToggleSendable, Age, BackoffEnds
<1> QED BY <1>1, <1>3, <1>4, <1>5, <1>6, <1>7 DEF Next, Environment

\* What the summary row reports as taken, sent or partly sent, the provider has
\* taken, sent or partly sent, whatever stale copy was projected last
\* (repair_event_projection, apply_google_result).
THEOREM SummaryHolds == Spec => []SummaryIsTrue
<1>1. Init => TruthInv
  <2> SUFFICES ASSUME Init PROVE TruthInv
      OBVIOUS
  <2>1. GoogleDecides
    BY DEF Init, GoogleDecides, Final
  <2>2. Says("", verdict) /\ Says("pending", verdict)
    BY SilentSays DEF Silent
  <2>3. outbox.status = "pending" /\ (\A w \in Worker : worker[w].seen = "")
        /\ \A g \in Generation : attempt[g].result = ""
    BY DEF Init, Idle, NoAttempt
  <2> QED BY <2>1, <2>2, <2>3 DEF TruthInv
<1>2. IInv /\ TruthInv /\ [Next]_vars => TruthInv'
  <2> SUFFICES ASSUME IInv, TruthInv, [Next]_vars PROVE TruthInv'
      OBVIOUS
  <2>1. SeenTrue /\ ResultsTrue
    BY ProcessTells, OthersTell DEF Next
  <2>2. Says(outbox'.status, verdict)
    BY RowSays
  <2>3. GoogleDecides' /\ \A s : Says(s, verdict) => Says(s, verdict')
    BY VerdictsGrow DEF TruthInv
  <2> QED BY <2>1, <2>2, <2>3 DEF TruthInv, SeenTrue, ResultsTrue
<1>3. TruthInv => SummaryIsTrue
  BY DEF TruthInv, Says, SummaryIsTrue
<1> QED BY <1>1, <1>2, <1>3, InvariantHolds, PTL DEF Spec
-----------------------------------------------------------------------------
(***************************************************************************)
(* The attempts of an event are a delivery slot: the slot is held by the   *)
(* one generation under way, and how far it went is where its upload is.   *)
(***************************************************************************)
Blocks(g) == attempt[g].state \in Active

Delivered == {g \in Generation : verdict[g] # "none"}
Receipts == {g \in Generation : attempt[g].state = "accepted"}

SlotStays == UNCHANGED <<SlotOf, Delivered, Receipts>>

\* Only the latest generation may be under way.
OneUnderWay == \A g, h \in Generation : Blocks(g) /\ Blocks(h) => g = h

LEMMA UnderWay == IInv => OneUnderWay
<1> SUFFICES ASSUME IInv, NEW g \in Generation, NEW h \in Generation, Blocks(g), Blocks(h)
             PROVE  g = h
    BY DEF OneUnderWay
<1>1. ~Settled(g) /\ ~Settled(h)
  BY DEF Blocks, Active, Settled
<1> QED BY <1>1, UnsettledIsLatest DEF IInv

LEMMA UnderWayNext == IInv' => OneUnderWay'
BY UnderWay, PTL

LEMMA HeldSlot ==
  ASSUME OneUnderWay, NEW g \in Generation, Blocks(g)
  PROVE  SlotOf = [at |-> SlotStage(g), message |-> g]
<1>1. ActiveGenerations = {g}
  BY DEF OneUnderWay, Blocks, ActiveGenerations
<1> QED BY <1>1 DEF SlotOf

LEMMA HeldSlotNext ==
  ASSUME OneUnderWay', NEW g \in Generation, Blocks(g)'
  PROVE  SlotOf' = [at |-> SlotStage(g)', message |-> g]
<1>1. ActiveGenerations' = {g}
  BY DEF OneUnderWay, Blocks, ActiveGenerations
<1> QED BY <1>1 DEF SlotOf, SlotStage, Stopped

LEMMA FreeSlot == (\A g \in Generation : ~Blocks(g)) => SlotOf = [at |-> "free"]
<1>1. (\A g \in Generation : ~Blocks(g)) => ActiveGenerations = {}
  BY DEF Blocks, ActiveGenerations
<1> QED BY <1>1 DEF SlotOf

LEMMA FreeSlotNext == (\A g \in Generation : ~Blocks(g)') => SlotOf' = [at |-> "free"]
<1>1. (\A g \in Generation : ~Blocks(g)') => ActiveGenerations' = {}
  BY DEF Blocks, ActiveGenerations
<1> QED BY <1>1 DEF SlotOf

\* What a step does to the states of the attempts and to the processes about to send.
StatesStay == \A g \in Generation : attempt'[g].state = attempt[g].state

Became(g, state) ==
    /\ attempt'[g].state = state
    /\ \A h \in Generation : h # g => attempt'[h].state = attempt[h].state

LEMMA StepBecame ==
  ASSUME NEW g \in Generation, NEW state, NEW result, NEW final,
         AttemptStep(g, state, result, final)
  PROVE  Became(g, state)
BY DEF AttemptStep, Became

QuietSender(w) == worker[w].phase # "sending" /\ worker'[w].phase # "sending"

SendersStay == \A w \in Worker : worker'[w] = worker[w] \/ QuietSender(w)

LEMMA QuietStep ==
  ASSUME NEW w \in Worker, worker[w].phase # "sending", NEW p, NEW g, NEW s,
         WorkerStep(w, p, g, s), p # "sending"
  PROVE  SendersStay
<1> SUFFICES ASSUME NEW v \in Worker PROVE worker'[v] = worker[v] \/ QuietSender(v)
    BY DEF SendersStay
<1>1. CASE v = w
  BY <1>1 DEF WorkerStep, QuietSender
<1>2. CASE v # w
  BY <1>2 DEF WorkerStep
<1> QED BY <1>1, <1>2

\* Nobody is about to send what has been sent or belongs to another process.
LEMMA StoppedIs ==
  ASSUME IInv, NEW g \in Generation,
         \/ g \in flight \/ verdict[g] # "none"
         \/ \E w \in Worker : /\ worker[w].phase \in Holding /\ worker[w].phase # "sending"
                              /\ worker[w].gen = g
  PROVE  \A v \in Worker : ~(worker[v].phase = "sending" /\ worker[v].gen = g)
<1> SUFFICES ASSUME NEW v \in Worker, worker[v].phase = "sending", worker[v].gen = g
             PROVE  FALSE
    OBVIOUS
<1>1. worker[v].phase \in Holding /\ g \notin flight /\ verdict[g] = "none"
  BY DEF IInv, WorkersInv, WorkerInv, Remembered, Holding
<1> QED BY <1>1 DEF IInv, OneOwner

\* A step that leaves uploads, senders and states alone leaves the slot alone; so
\* does one that turns an attempt from one state after the handoff to another.
SameSide(g) ==
    /\ attempt[g].state \in Active <=> attempt'[g].state \in Active
    /\ attempt[g].state = "claimed" <=> attempt'[g].state = "claimed"
    /\ attempt[g].state = "accepted" <=> attempt'[g].state = "accepted"

LEMMA StagesStay ==
  ASSUME UNCHANGED flight, SendersStay, NEW g \in Generation, SameSide(g)
  PROVE  SlotStage(g)' = SlotStage(g)
<1>1. Stopped(g)' <=> Stopped(g)
  BY DEF Stopped, SendersStay, QuietSender
<1> QED BY <1>1 DEF SlotStage, SameSide

LEMMA SlotIsLeftAlone ==
  ASSUME IInv, IInv', UNCHANGED flight, Delivered' = Delivered, SendersStay,
         \A g \in Generation : SameSide(g)
  PROVE  SlotStays
<1>1. Receipts' = Receipts
  BY DEF Receipts, SameSide
<1>2. SlotOf' = SlotOf
  <2>1. CASE \A g \in Generation : ~Blocks(g)
    BY <2>1, FreeSlot, FreeSlotNext DEF SameSide, Blocks
  <2>2. CASE \E g \in Generation : Blocks(g)
    <3>1. PICK g \in Generation : Blocks(g)
      BY <2>2
    <3>2. Blocks(g)'
      BY <3>1 DEF SameSide, Blocks
    <3>3. OneUnderWay /\ OneUnderWay'
      BY UnderWay, UnderWayNext
    <3>4. SlotStage(g)' = SlotStage(g)
      BY StagesStay
    <3> QED BY <3>1, <3>2, <3>3, <3>4, HeldSlot, HeldSlotNext
  <2> QED BY <2>1, <2>2
<1> QED BY <1>1, <1>2 DEF SlotStays

LEMMA StatesStaySlot ==
  ASSUME IInv, IInv', UNCHANGED flight, Delivered' = Delivered, SendersStay, StatesStay
  PROVE  SlotStays
BY SlotIsLeftAlone DEF SameSide, StatesStay

\* The outcome of an attempt that nobody can still send is recorded.
LEMMA SettleSlot ==
  ASSUME IInv, IInv', UNCHANGED <<flight, verdict>>, NEW g \in Generation,
         attempt[g].state \in {"handoff", "unknown"}, Stopped(g),
         \/ verdict[g] # "none" /\ Became(g, "accepted")
         \/ verdict[g] = "none" /\ Became(g, "failed")
  PROVE  Slot!Settle
<1>1. Blocks(g) /\ OneUnderWay
  BY UnderWay DEF Blocks, Active
<1>2. SlotOf = [at |-> "over", message |-> g]
  <2>1. SlotStage(g) = "over"
    BY DEF SlotStage, Stopped
  <2> QED BY <1>1, <2>1, HeldSlot
<1>3. \A h \in Generation : ~Blocks(h)'
  BY <1>1 DEF Became, Blocks, Active, OneUnderWay
<1>4. SlotOf' = [at |-> "free"]
  BY <1>3, FreeSlotNext
<1>5. {h \in Generation : attempt[h].state = "accepted"}'
         = {h \in Generation : attempt[h].state = "accepted"}
           \cup ({h \in Generation : verdict[h] # "none"} \cap {g})
  BY DEF Became
<1> QED BY <1>2, <1>4, <1>5 DEF Slot!Settle, Slot!Free

\* A claim that never got to the handoff is given up.
LEMMA ReleaseSlot ==
  ASSUME IInv, IInv', UNCHANGED <<flight, verdict>>, NEW g \in Generation,
         attempt[g].state = "claimed", Became(g, "failed") \/ Became(g, "cancelled")
  PROVE  Slot!Release
<1>1. Blocks(g) /\ OneUnderWay
  BY UnderWay DEF Blocks, Active
<1>2. SlotOf = [at |-> "claimed", message |-> g]
  <2>1. SlotStage(g) = "claimed"
    BY DEF SlotStage
  <2> QED BY <1>1, <2>1, HeldSlot
<1>3. \A h \in Generation : ~Blocks(h)'
  BY <1>1 DEF Became, Blocks, Active, OneUnderWay
<1>4. SlotOf' = [at |-> "free"]
  BY <1>3, FreeSlotNext
<1>5. {h \in Generation : attempt[h].state = "accepted"}'
         = {h \in Generation : attempt[h].state = "accepted"}
  BY DEF Became
<1> QED BY <1>2, <1>4, <1>5 DEF Slot!Release, Slot!Free

LEMMA FinishSlot ==
  ASSUME IInv, IInv', UNCHANGED <<flight, verdict>>, NEW w \in Worker,
         worker[w].phase \in Holding, worker[w].phase # "sending",
         NEW outcome \in {"accepted", "failed", "unknown"}, Finish(w, outcome),
         outcome = "accepted" => verdict[worker[w].gen] # "none",
         outcome = "failed" => verdict[worker[w].gen] = "none" /\ worker[w].gen \notin flight
  PROVE  Slot!Settle \/ Slot!Release \/ SlotStays
<1>1. PICK g \in Generation : worker[w].gen = g
  BY DEF IInv, WorkersInv, WorkerInv, Remembered
<1>2. Delivered' = Delivered
  BY DEF Delivered
<1>3. CASE attempt[g].state \notin FinishFrom(outcome)
  <2>1. Stops(w) /\ UNCHANGED attempt
    BY <1>1, <1>3 DEF Finish
  <2>2. SendersStay
    BY <2>1, StopsStep, QuietStep DEF IInv
  <2> QED BY <1>2, <2>1, <2>2, StatesStaySlot DEF StatesStay
<1>4. CASE attempt[g].state \in FinishFrom(outcome)
  <2> DEFINE p == IF Provider = "google" /\ outcome = "accepted" THEN "repairThenPoll" ELSE "repair"
  <2>1. /\ attempt' = [attempt EXCEPT ![g] = Recorded(@, outcome, ResultOf(outcome))]
        /\ Remembers(w, p, g, ResultOf(outcome))
    BY <1>1, <1>4 DEF Finish
  <2>2. outcome \in AttemptState /\ ResultOf(outcome) \in Result /\ p \in Phase /\ p # "sending"
    BY AcceptedResultCases DEF AttemptState, Active, ResultOf, Result, Final, Phase
  <2>3. AttemptStep(g, outcome, ResultOf(outcome), attempt[g].final)
    BY <2>1, <2>2, RecordedStep DEF IInv
  <2>4. Became(g, outcome)
    BY <2>3, StepBecame
  <2> HIDE DEF p
  <2>5. SendersStay
    <3>1. g \in 0..MaxGeneration
      BY GenerationBounds DEF IInv, TypeOK
    <3>2. WorkerStep(w, p, g, ResultOf(outcome))
      BY <2>1, <2>2, <3>1, RemembersStep DEF IInv
    <3> QED BY <2>2, <3>2, QuietStep
  <2>6. CASE outcome = "unknown"
    <3>1. \A h \in Generation : SameSide(h)
      BY <1>4, <2>4, <2>6 DEF FinishFrom, SameSide, Became, Active
    <3> QED BY <1>2, <2>5, <3>1, SlotIsLeftAlone
  <2>7. CASE outcome = "failed" /\ attempt[g].state = "claimed"
    BY <2>4, <2>7, ReleaseSlot
  <2>8. CASE outcome # "unknown" /\ attempt[g].state \in {"handoff", "unknown"}
    <3>1. g \notin flight
      BY <1>1, <2>8 DEF IInv, AttemptsInv
    <3>2. Stopped(g)
      BY <1>1, <3>1, StoppedIs DEF Stopped
    <3> QED BY <1>1, <2>4, <2>8, <3>2, SettleSlot
  <2> QED BY <1>4, <2>6, <2>7, <2>8 DEF FinishFrom
<1> QED BY <1>3, <1>4

LEMMA HandoffSlot ==
  ASSUME IInv, IInv', NEW w \in Worker, Handoff(w)
  PROVE  Slot!HandOff \/ Slot!Release \/ SlotStays
<1>1. PICK g \in Generation : worker[w].gen = g
  BY DEF Handoff, Holding, IInv, WorkersInv, WorkerInv, Remembered
<1>2. UNCHANGED <<flight, verdict>> /\ worker[w].phase = "claimed"
  BY DEF Handoff
<1>3. CASE Stops(w) /\ UNCHANGED attempt
  <2>1. SendersStay
    BY <1>2, <1>3, StopsStep, QuietStep DEF IInv
  <2> QED BY <1>2, <1>3, <2>1, StatesStaySlot DEF StatesStay, Delivered
<1>4. ASSUME NEW result \in CancelResult, attempt[g].state = "claimed",
             attempt' = [attempt EXCEPT ![g] = Cancelled(@, result)]
      PROVE  Slot!Release
  <2>1. Became(g, "cancelled")
    BY <1>4, CancelledStep, StepBecame DEF IInv
  <2> QED BY <1>2, <1>4, <2>1, ReleaseSlot
<1>5. CASE /\ attempt[g].state = "claimed" /\ Goes(w, "sending")
           /\ attempt' = [attempt EXCEPT ![g].state = "handoff", ![g].aged = FALSE]
  <2>1. Became(g, "handoff")
    BY <1>5, HandoffStep, StepBecame DEF IInv
  <2>2. worker'[w].phase = "sending" /\ worker'[w].gen = g
    <3>1. WorkerStep(w, "sending", g, worker[w].seen)
      BY <1>1, <1>5, GoesStep DEF IInv, Phase
    <3> QED BY <3>1 DEF WorkerStep
  <2>3. SlotStage(g) = "claimed" /\ Blocks(g) /\ Blocks(g)' /\ OneUnderWay /\ OneUnderWay'
    BY <1>5, <2>1, UnderWay, UnderWayNext DEF SlotStage, Blocks, Active, Became
  <2>4. ~Stopped(g)' /\ g \notin flight'
    BY <1>2, <1>5, <2>2 DEF Stopped, IInv, AttemptsInv, Untouched
  <2>5. SlotStage(g)' = "unsent"
    BY <2>1, <2>4 DEF SlotStage, Became
  <2>6. SlotOf = [at |-> "claimed", message |-> g] /\ SlotOf' = [at |-> "unsent", message |-> g]
    BY <2>3, <2>5, HeldSlot, HeldSlotNext
  <2>7. {h \in Generation : attempt[h].state = "accepted"}'
           = {h \in Generation : attempt[h].state = "accepted"}
    BY <1>5, <2>1 DEF Became
  <2> QED BY <1>2, <2>6, <2>7 DEF Slot!HandOff, Slot!Moves, Slot!Held
<1>6. "pending" \in CancelResult /\ "skipped" \in CancelResult
  BY DEF CancelResult
<1> QED BY <1>1, <1>3, <1>4, <1>5, <1>6 DEF Handoff

LEMMA SenderIs ==
  ASSUME IInv, NEW w \in Worker, worker[w].phase = "sending", NEW g \in Generation,
         worker[w].gen = g
  PROVE  /\ attempt[g].state = "handoff" /\ g \notin flight /\ Blocks(g)
         /\ SlotStage(g) = "unsent"
         /\ \A v \in Worker : worker[v].phase = "sending" /\ worker[v].gen = g => v = w
<1>1. attempt[g].state = "handoff" /\ g \notin flight
  BY DEF IInv, WorkersInv, WorkerInv, Remembered
<1>2. SlotStage(g) = "unsent"
  BY <1>1 DEF SlotStage, Stopped
<1>3. \A v \in Worker : worker[v].phase = "sending" /\ worker[v].gen = g => v = w
  BY DEF IInv, OneOwner, Holding
<1> QED BY <1>1, <1>2, <1>3 DEF Blocks, Active

LEMMA SendSlot == ASSUME IInv, IInv', NEW w \in Worker, Send(w) PROVE Slot!Post
<1>1. PICK g \in Generation : worker[w].gen = g
  BY DEF Send, Holding, IInv, WorkersInv, WorkerInv, Remembered
<1>2. worker[w].phase = "sending" /\ flight' = flight \cup {g} /\ UNCHANGED <<attempt, verdict>>
  BY <1>1 DEF Send
<1>3. attempt[g].state = "handoff" /\ Blocks(g) /\ SlotStage(g) = "unsent"
  BY <1>1, <1>2, SenderIs
<1>4. SlotStage(g)' = "travelling" /\ Blocks(g)'
  BY <1>2, <1>3 DEF SlotStage, Blocks
<1>5. SlotOf = [at |-> "unsent", message |-> g] /\ SlotOf' = [at |-> "travelling", message |-> g]
  BY <1>3, <1>4, HeldSlot, HeldSlotNext, UnderWay, UnderWayNext
<1> QED BY <1>2, <1>5 DEF Slot!Post, Slot!Moves, Slot!Held

LEMMA CrashSlot == ASSUME IInv, IInv', NEW w \in Worker, Crash(w) PROVE Slot!SenderDies \/ SlotStays
<1>1. Stops(w) /\ UNCHANGED <<attempt, flight, verdict>>
  BY DEF Crash
<1>2. WorkerStep(w, "idle", 0, "")
  BY <1>1, StopsStep DEF IInv
<1>3. CASE worker[w].phase # "sending"
  <2>1. SendersStay
    BY <1>2, <1>3, QuietStep
  <2> QED BY <1>1, <2>1, StatesStaySlot DEF StatesStay, Delivered
<1>4. CASE worker[w].phase = "sending"
  <2>1. PICK g \in Generation : worker[w].gen = g
    BY <1>4 DEF Holding, IInv, WorkersInv, WorkerInv, Remembered
  <2>2. /\ attempt[g].state = "handoff" /\ g \notin flight /\ Blocks(g) /\ SlotStage(g) = "unsent"
        /\ \A v \in Worker : worker[v].phase = "sending" /\ worker[v].gen = g => v = w
    BY <1>4, <2>1, SenderIs
  <2>3. ASSUME NEW v \in Worker PROVE ~(worker'[v].phase = "sending" /\ worker'[v].gen = g)
    <3>1. CASE v = w
      BY <1>2, <3>1 DEF WorkerStep
    <3>2. CASE v # w
      BY <1>2, <2>2, <3>2 DEF WorkerStep
    <3> QED BY <3>1, <3>2
  <2>4. Stopped(g)'
    BY <1>1, <2>2, <2>3 DEF Stopped
  <2>5. SlotStage(g)' = "over" /\ Blocks(g)'
    BY <1>1, <2>2, <2>4 DEF SlotStage, Blocks
  <2>6. SlotOf = [at |-> "unsent", message |-> g] /\ SlotOf' = [at |-> "over", message |-> g]
    BY <2>2, <2>5, HeldSlot, HeldSlotNext, UnderWay, UnderWayNext
  <2> QED BY <1>1, <2>6 DEF Slot!SenderDies, Slot!Moves, Slot!Held
<1> QED BY <1>3, <1>4

LEMMA ArriveSlot == ASSUME IInv, IInv', ProviderTakes PROVE Slot!Arrive
<1>1. PICK g \in flight : /\ flight' = flight \ {g}
                          /\ verdict' \in {verdict, [verdict EXCEPT ![g] = "taken"]}
  BY DEF ProviderTakes
<1>2. UNCHANGED <<attempt, worker>>
  BY DEF ProviderTakes
<1>3. g \in Generation /\ attempt[g].state \in AttemptState \ Untouched /\ attempt[g].state # "accepted"
  BY DEF IInv, TypeOK, AttemptRecord, AttemptsInv
<1>4. Blocks(g) /\ attempt[g].state # "claimed"
  BY <1>3 DEF AttemptState, Untouched, Active, Blocks
<1>5. SlotStage(g) = "travelling"
  BY <1>4 DEF SlotStage
<1>6. Stopped(g)' /\ Blocks(g)'
  BY <1>1, <1>2, <1>3, <1>4, StoppedIs DEF Stopped, Blocks
<1>7. SlotStage(g)' = "over"
  BY <1>1, <1>2, <1>4, <1>6 DEF SlotStage
<1>8. SlotOf = [at |-> "travelling", message |-> g] /\ SlotOf' = [at |-> "over", message |-> g]
  BY <1>3, <1>4, <1>5, <1>6, <1>7, HeldSlot, HeldSlotNext, UnderWay, UnderWayNext
<1>9. {h \in Generation : verdict'[h] # "none"} \in
         {{h \in Generation : verdict[h] # "none"}, {h \in Generation : verdict[h] # "none"} \cup {g}}
  <2>1. CASE verdict' = verdict
    BY <2>1
  <2>2. CASE verdict' = [verdict EXCEPT ![g] = "taken"]
    <3>1. verdict'[g] = "taken" /\ \A h \in Generation : h # g => verdict'[h] = verdict[h]
      BY <1>3, <2>2 DEF IInv, TypeOK
    <3>2. {h \in Generation : verdict'[h] # "none"} = {h \in Generation : verdict[h] # "none"} \cup {g}
      BY <1>3, <3>1
    <3> QED BY <3>2
  <2> QED BY <1>1, <2>1, <2>2
<1> QED BY <1>2, <1>8, <1>9 DEF Slot!Arrive, Slot!Moves, Slot!Held

LEMMA ClaimSlot == ASSUME IInv, IInv', NEW w \in Worker, ClaimNew(w) PROVE Slot!Claim
<1>1. PICK n \in Generation : n = latest + 1
  <2>1. latest \in 0..MaxGeneration /\ latest < MaxGeneration
    BY DEF IInv, TypeOK, ClaimNew, Claimable
  <2> QED BY <2>1, MaxGenerationAssumption DEF Generation
<1>2. UNCHANGED <<flight, verdict>> /\ \A h \in Generation : Blocks(h) => attempt[h].state = "claimed"
  BY DEF ClaimNew, Claimable, Blocks, ActiveGenerations, Expired
<1>3. attempt[n].state = "none" /\ verdict[n] = "none"
  <2>1. n > latest
    BY <1>1, LatestInt DEF IInv
  <2> QED BY <2>1 DEF IInv, OrderInv, AttemptsInv, Untouched
<1>4. attempt'[n].state = "claimed"
  BY <1>1 DEF ClaimNew, NewAttempt, NoAttempt
<1>5. ASSUME NEW h \in Generation PROVE attempt'[h].state = "accepted" <=> attempt[h].state = "accepted"
  <2>1. CASE h = n
    BY <1>3, <1>4, <2>1
  <2>2. CASE h # n /\ ~Blocks(h)
    BY <1>1, <2>2 DEF ClaimNew, Blocks, ActiveGenerations
  <2>3. CASE h # n /\ Blocks(h)
    <3>1. "cancelled" \in AttemptState /\ "pending" \in Result /\ attempt[h] \in AttemptRecord
      BY DEF AttemptState, Result, CancelResult, IInv, TypeOK
    <3>2. attempt'[h] = Cancelled(attempt[h], "pending")
      BY <1>1, <2>3 DEF ClaimNew, Blocks, ActiveGenerations
    <3>3. attempt'[h].state = "cancelled"
      BY <3>1, <3>2, RecordedAttempt DEF Cancelled
    <3> QED BY <1>2, <2>3, <3>3
  <2> QED BY <2>1, <2>2, <2>3
<1>6. SlotOf.at \in {"free", "claimed"}
  <2>1. CASE \A h \in Generation : ~Blocks(h)
    BY <2>1, FreeSlot
  <2>2. CASE \E h \in Generation : Blocks(h)
    <3>1. PICK h \in Generation : Blocks(h)
      BY <2>2
    <3>2. SlotStage(h) = "claimed"
      BY <1>2, <3>1 DEF SlotStage
    <3> QED BY <3>1, <3>2, HeldSlot, UnderWay
  <2> QED BY <2>1, <2>2
<1>7. SlotOf' = [at |-> "claimed", message |-> n]
  <2>1. Blocks(n)' /\ SlotStage(n)' = "claimed"
    BY <1>4 DEF Blocks, Active, SlotStage
  <2> QED BY <2>1, HeldSlotNext, UnderWayNext
<1>8. {h \in Generation : attempt[h].state = "accepted"}' = {h \in Generation : attempt[h].state = "accepted"}
  BY <1>5
<1> QED BY <1>2, <1>3, <1>6, <1>7, <1>8 DEF Slot!Claim, Slot!Held

LEMMA ReviewSlot == ASSUME IInv, IInv', Review PROVE Slot!Settle
<1>1. PICK g \in Generation : g = latest /\ attempt[g].state \in {"unknown", "handoff"}
  <2>1. latest \in Generation
    BY NonzeroGeneration DEF IInv, TypeOK, Review, Reviewable
  <2> QED BY <2>1 DEF Review, Reviewable
<1>2. UNCHANGED <<flight, verdict>>
  BY DEF Review, ReviewAs
<1>3. ASSUME NEW outcome \in {"accepted", "failed"}, ReviewAs(outcome) PROVE Became(g, outcome)
  <2>1. outcome \in AttemptState /\ ResultOf(outcome) \in Result
    BY AcceptedResultCases DEF AttemptState, Active, ResultOf, Result, Final
  <2>2. AttemptStep(g, outcome, ResultOf(outcome), attempt[g].final)
    BY <1>1, <1>3, <2>1, RecordedStep DEF ReviewAs, IInv
  <2> QED BY <2>2, StepBecame
<1>4. CASE verdict[g] # "none" /\ ReviewAs("accepted")
  <2>1. g \notin flight
    BY <1>4 DEF IInv, AttemptsInv
  <2>2. Stopped(g)
    BY <1>4, <2>1, StoppedIs DEF Stopped
  <2> QED BY <1>1, <1>2, <1>3, <1>4, <2>2, SettleSlot
<1>5. CASE verdict[g] = "none" /\ Stopped(g) /\ ReviewAs("failed")
  BY <1>1, <1>2, <1>3, <1>5, SettleSlot
<1> QED BY <1>1, <1>4, <1>5 DEF Review

\* An expired claim is cancelled by the recovery.
LEMMA RecoverSlot == ASSUME IInv, IInv', RecoverClaim PROVE Slot!Release
<1>1. PICK g \in Generation : Expired(g) /\ attempt' = [attempt EXCEPT ![g] = Cancelled(@, "pending")]
  BY DEF RecoverClaim
<1>2. Became(g, "cancelled")
  BY <1>1, CancelledStep, StepBecame DEF IInv, CancelResult
<1>3. UNCHANGED <<flight, verdict>>
  BY DEF RecoverClaim
<1> QED BY <1>1, <1>2, <1>3, ReleaseSlot DEF Expired

\* Steps of a process that is not sending and touches no state.
LEMMA QuietProcess ==
  ASSUME IInv, NEW w \in Worker, worker[w].phase # "sending",
         \/ Stops(w) \/ (\E p \in Phase \ {"sending"} : Goes(w, p)) \/ StartsPoll(w) \/ ManualRetry(w)
         \/ \E p \in Phase \ {"sending"}, g \in 0..MaxGeneration, s \in Result : Remembers(w, p, g, s)
  PROVE  SendersStay
<1>1. \/ StartsPoll(w) \/ ManualRetry(w)
      \/ \E p \in Phase \ {"sending"}, g \in 0..MaxGeneration, s \in Result : WorkerStep(w, p, g, s)
  <2>1. CASE Stops(w)
    <3>1. WorkerStep(w, "idle", 0, "")
      BY <2>1, StopsStep DEF IInv
    <3>2. 0 \in 0..MaxGeneration /\ "" \in Result /\ "idle" \in Phase \ {"sending"}
      <4>1. 0 \in 0..MaxGeneration
        BY MaxGenerationAssumption
      <4> QED BY <4>1 DEF Result, Phase
    <3> QED BY <3>1, <3>2
  <2>2. ASSUME NEW p \in Phase \ {"sending"}, Goes(w, p)
        PROVE  \E g \in 0..MaxGeneration, s \in Result : WorkerStep(w, p, g, s)
    <3>1. WorkerStep(w, p, worker[w].gen, worker[w].seen)
      BY <2>2, GoesStep DEF IInv
    <3>2. worker[w].gen \in 0..MaxGeneration /\ worker[w].seen \in Result
      BY DEF IInv, TypeOK, WorkerRecord
    <3> QED BY <3>1, <3>2
  <2> QED BY <2>1, <2>2, RemembersStep DEF IInv
<1>2. CASE StartsPoll(w) \/ ManualRetry(w)
  <2>1. worker'[w].phase # "sending" /\ \A v \in Worker : v # w => worker'[v] = worker[v]
    BY <1>2 DEF StartsPoll, ManualRetry, IInv, TypeOK, WorkerRecord
  <2> QED BY <2>1 DEF SendersStay, QuietSender
<1> QED BY <1>1, <1>2, QuietStep

\* A process step that reads, projects, polls or gives up: none is a step of the slot.
LEMMA ReadingSlot ==
  ASSUME IInv, IInv', NEW w \in Worker,
         \/ Dispatch(w) \/ ManualRetry(w) \/ MetaEntry(w) \/ GoogleEntry(w) \/ GoogleRead(w)
         \/ GoogleReread(w) \/ RecoverResult(w) \/ RecoverReceipt(w)
         \/ ClaimWhileTrashed(w) \/ ClaimFindsReceipt(w) \/ ClaimBlocked(w)
         \/ Repair(w) \/ RepairFails(w) \/ PollUndecided(w) \/ RepairResult(w)
  PROVE  SlotStays
<1>1. UNCHANGED <<attempt, flight, verdict>> /\ worker[w].phase # "sending"
  <2>1. CASE Dispatch(w) \/ ManualRetry(w) \/ MetaEntry(w) \/ GoogleEntry(w) \/ GoogleRead(w)
    BY <2>1 DEF Dispatch, ManualRetry, MetaEntry, GoogleEntry, GoogleRead
  <2>2. CASE GoogleReread(w) \/ RecoverResult(w) \/ RecoverReceipt(w)
             \/ ClaimWhileTrashed(w) \/ ClaimFindsReceipt(w) \/ ClaimBlocked(w)
    BY <2>2 DEF GoogleReread, RecoverResult, RecoverReceipt, ClaimWhileTrashed,
       ClaimFindsReceipt, ClaimBlocked
  <2>3. CASE Repair(w) \/ RepairFails(w) \/ PollUndecided(w) \/ RepairResult(w)
    BY <2>3 DEF Repair, RepairFails, PollUndecided, RepairResult
  <2> QED BY <2>1, <2>2, <2>3
<1>2. \A g \in Generation : /\ g \in 0..MaxGeneration
                            /\ attempt[g].result \in Result /\ attempt[g].final \in Result
  <2>1. \A g \in Generation : g \in 0..MaxGeneration
    BY MaxGenerationAssumption DEF Generation
  <2>2. \A g \in Generation : attempt[g].result \in Result /\ attempt[g].final \in Result
    BY DEF IInv, TypeOK, AttemptRecord, Result
  <2> QED BY <2>1, <2>2
<1>3. SendersStay
  <2>1. CASE \/ Stops(w) \/ StartsPoll(w) \/ ManualRetry(w)
             \/ Goes(w, "entry") \/ Goes(w, "claiming") \/ Goes(w, "reading") \/ Goes(w, "rereading")
    BY <1>1, <2>1, QuietProcess DEF Phase
  <2>2. ASSUME NEW p \in {"repairThenRead", "repairResult", "repair"}, NEW g \in Generation,
               Remembers(w, p, g, attempt[g].result) \/ Remembers(w, p, g, attempt[g].final)
        PROVE  SendersStay
    <3>1. p \in Phase \ {"sending"}
      BY DEF Phase
    <3>2. g \in 0..MaxGeneration /\ attempt[g].result \in Result /\ attempt[g].final \in Result
      BY <1>2
    <3> QED BY <1>1, <2>2, <3>1, <3>2, QuietProcess
  <2>3. CASE GoogleEntry(w)
    <3>1. (\E g \in Generation : Blocking(g)) => latest \in Generation
      BY <2>3 DEF GoogleEntry, Blocking
    <3>2. \/ Stops(w) \/ Goes(w, "reading")
          \/ /\ \E g \in Generation : Blocking(g)
             /\ Remembers(w, "repairThenRead", latest, attempt[latest].result)
      BY <2>3 DEF GoogleEntry
    <3> QED BY <2>1, <2>2, <3>1, <3>2
  <2>4. CASE GoogleRead(w) \/ GoogleReread(w) \/ RecoverResult(w)
    <3>1. \/ \E g \in Generation : Remembers(w, "repairResult", g, attempt[g].final)
          \/ StartsPoll(w) \/ Goes(w, "claiming") \/ Stops(w)
      BY <2>4 DEF GoogleRead, GoogleReread, RecoverResult, ResultOfSummary
    <3> QED BY <2>1, <2>2, <3>1
  <2>5. CASE RecoverReceipt(w)
    <3>1. latest \in Generation
      BY <2>5, NonzeroGeneration DEF RecoverReceipt, IInv, TypeOK
    <3> QED BY <2>2, <2>5, <3>1 DEF RecoverReceipt
  <2>6. CASE \/ Dispatch(w) \/ ManualRetry(w) \/ MetaEntry(w) \/ ClaimWhileTrashed(w)
             \/ ClaimFindsReceipt(w) \/ ClaimBlocked(w)
    BY <2>1, <2>6 DEF Dispatch, MetaEntry, ClaimWhileTrashed, ClaimFindsReceipt, ClaimBlocked
  <2>7. CASE Repair(w) \/ RepairFails(w) \/ PollUndecided(w) \/ RepairResult(w)
    BY <2>1, <2>7 DEF Repair, RepairFails, PollUndecided, RepairResult
  <2> QED BY <2>3, <2>4, <2>5, <2>6, <2>7
<1> QED BY <1>1, <1>3, StatesStaySlot DEF StatesStay, Delivered

LEMMA PollDecidedSlot ==
  ASSUME IInv, IInv', NEW w \in Worker, PollDecided(w)
  PROVE  SlotStays
<1> DEFINE g == worker[w].gen
<1>1. g \in Generation /\ verdict[g] \in Final /\ worker[w].phase # "sending"
  BY NonzeroGeneration DEF IInv, TypeOK, WorkerRecord, PollDecided
<1>2. UNCHANGED <<flight, verdict>>
  BY DEF PollDecided
<1>3. CASE Stops(w) /\ UNCHANGED attempt
  BY <1>1, <1>2, <1>3, QuietProcess, StatesStaySlot DEF StatesStay, Delivered
<1>4. CASE /\ attempt' = [attempt EXCEPT ![g].final = IF @ = "" THEN verdict[g] ELSE @]
           /\ Remembers(w, "repairResult", g, attempt'[g].final)
  <2>1. AttemptStep(g, attempt[g].state, attempt[g].result,
                    IF attempt[g].final = "" THEN verdict[g] ELSE attempt[g].final)
    BY <1>1, <1>4, FinalStep DEF IInv
  <2>2. StatesStay
    BY <2>1 DEF AttemptStep, StatesStay
  <2>3. attempt'[g].final \in Result
    BY <1>1, <2>1 DEF AttemptStep, AttemptRecord, Result
  <2>4. "repairResult" \in Phase \ {"sending"} /\ g \in 0..MaxGeneration
    BY <1>1, GenerationBounds DEF Phase, IInv, TypeOK
  <2>5. SendersStay
    BY <1>1, <1>4, <2>3, <2>4, QuietProcess
  <2> QED BY <1>2, <2>2, <2>5, StatesStaySlot DEF Delivered
<1> QED BY <1>3, <1>4 DEF PollDecided

LEMMA WorldSlot ==
  ASSUME IInv, IInv',
         \/ Edit \/ TrashOrRestore \/ ToggleSendable \/ Age \/ BackoffEnds \/ ProviderDecides
         \/ UNCHANGED vars
  PROVE  SlotStays
<1>1. UNCHANGED <<flight, worker>>
  BY DEF Edit, TrashOrRestore, ToggleSendable, Age, BackoffEnds, ProviderDecides, vars
<1>2. StatesStay
  <2>1. CASE Edit \/ TrashOrRestore \/ ToggleSendable
    BY <2>1, TouchedStep DEF Edit, TrashOrRestore, ToggleSendable, IInv, Unread, StatesStay
  <2>2. CASE Age
    BY <2>2, AgedStep DEF Age, IInv, Unread, StatesStay
  <2>3. CASE BackoffEnds \/ ProviderDecides \/ UNCHANGED vars
    BY <2>3 DEF BackoffEnds, ProviderDecides, vars, StatesStay
  <2> QED BY <2>1, <2>2, <2>3
<1>3. Delivered' = Delivered
  <2>1. CASE UNCHANGED verdict
    BY <2>1 DEF Delivered
  <2>2. CASE ProviderDecides
    BY <2>2 DEF ProviderDecides, Delivered, Final, IInv, TypeOK
  <2>3. CASE Edit \/ TrashOrRestore \/ ToggleSendable \/ Age \/ BackoffEnds \/ UNCHANGED vars
    BY <2>1, <2>3 DEF Edit, TrashOrRestore, ToggleSendable, Age, BackoffEnds, vars
  <2> QED BY <2>2, <2>3
<1>4. SendersStay
  BY <1>1 DEF SendersStay
<1> QED BY <1>1, <1>2, <1>3, <1>4, StatesStaySlot

LEMMA EveryStepSlot == ASSUME IInv, IInv', [Next]_vars PROVE Slot!Next \/ SlotStays
<1>1. ASSUME NEW w \in Worker, PrepareFails(w) PROVE Slot!Next \/ SlotStays
  <2>1. /\ worker[w].phase \in Holding /\ worker[w].phase # "sending"
        /\ UNCHANGED <<flight, verdict>> /\ Finish(w, "failed")
    BY <1>1 DEF PrepareFails, Holding
  <2>2. verdict[worker[w].gen] = "none" /\ worker[w].gen \notin flight
    BY <1>1 DEF PrepareFails, Holding, IInv, WorkersInv, WorkerInv, Remembered, AttemptsInv, Untouched
  <2>3. Slot!Settle \/ Slot!Release \/ SlotStays
    BY <2>1, <2>2, FinishSlot
  <2> QED BY <2>3 DEF Slot!Next
<1>2. ASSUME NEW w \in Worker, Answer(w) PROVE Slot!Next \/ SlotStays
  <2>1. /\ worker[w].phase \in Holding /\ worker[w].phase # "sending"
        /\ UNCHANGED <<flight, verdict>>
    BY <1>2 DEF Answer, Holding
  <2>2. \/ verdict[worker[w].gen] # "none" /\ Finish(w, "accepted")
        \/ /\ verdict[worker[w].gen] = "none" /\ worker[w].gen \notin flight
           /\ Finish(w, "failed")
        \/ Finish(w, "unknown")
    BY <1>2 DEF Answer
  <2>3. Slot!Settle \/ Slot!Release \/ SlotStays
    BY <2>1, <2>2, FinishSlot
  <2> QED BY <2>3 DEF Slot!Next
<1>3. ASSUME NEW w \in Worker, Handoff(w) PROVE Slot!Next \/ SlotStays
  BY <1>3, HandoffSlot DEF Slot!Next
<1>4. ASSUME NEW w \in Worker, Send(w) \/ Crash(w) \/ ClaimNew(w) PROVE Slot!Next \/ SlotStays
  BY <1>4, SendSlot, CrashSlot, ClaimSlot DEF Slot!Next
<1>5. CASE Review \/ RecoverClaim \/ ProviderTakes
  BY <1>5, ReviewSlot, RecoverSlot, ArriveSlot DEF Slot!Next
<1>6. ASSUME NEW w \in Worker, PollDecided(w) PROVE SlotStays
  BY <1>6, PollDecidedSlot
<1>7. ASSUME NEW w \in Worker,
             \/ Dispatch(w) \/ ManualRetry(w) \/ RepairFails(w) \/ RecoverResult(w)
             \/ RecoverReceipt(w)
      PROVE  SlotStays
  BY <1>7, ReadingSlot
<1>8. ASSUME NEW w \in Worker, Dispatches(w) PROVE Slot!Next \/ SlotStays
  BY <1>2, <1>3, <1>4, <1>6, <1>8, ReadingSlot DEF Dispatches, Enters
<1>9. CASE \/ Edit \/ TrashOrRestore \/ ToggleSendable \/ Age \/ BackoffEnds \/ ProviderDecides
           \/ UNCHANGED vars
  BY <1>9, WorldSlot
<1> QED BY <1>1, <1>4, <1>5, <1>7, <1>8, <1>9 DEF Next, Environment

\* The attempts of an event implement the delivery slot: the initial state is an
\* empty slot, and every step of a sender, a poll, the recovery, a reviewer, the
\* provider or the network is a step of the slot or leaves it alone.
THEOREM AttemptsAreADeliverySlot == Spec => IsDeliverySlot
<1>1. Init => Slot!Init
  <2> SUFFICES ASSUME Init PROVE Slot!Init
      OBVIOUS
  <2>1. \A g \in Generation : attempt[g].state = "none" /\ verdict[g] = "none"
    BY DEF Init, NoAttempt
  <2>2. SlotOf = [at |-> "free"]
    BY <2>1, FreeSlot DEF Blocks, Active
  <2>3. /\ {g \in Generation : verdict[g] # "none"} = {}
        /\ {g \in Generation : attempt[g].state = "accepted"} = {}
    BY <2>1
  <2> QED BY <2>2, <2>3 DEF Slot!Init, Slot!Free
<1>2. IInv /\ IInv' /\ [Next]_vars => [Slot!Next]_(Slot!vars)
  <2>1. SlotStays => UNCHANGED Slot!vars
    BY DEF SlotStays, Delivered, Receipts, Slot!vars
  <2> QED BY <2>1, EveryStepSlot
<1> QED BY <1>1, <1>2, InvariantHolds, PTL DEF Spec, IsDeliverySlot, Slot!Spec
=============================================================================
