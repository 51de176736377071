---------------------- MODULE NotificationDeliveryProofs ----------------------
(***************************************************************************)
(* Proofs about NotificationDelivery, for any set of processes, any number *)
(* of attempts of each kind and any kind of lead.  What makes the safety   *)
(* properties inductive is what the state of an attempt says of the mail   *)
(* (OnNetwork), that the attempt under way, and a receipt that still       *)
(* counts, is the latest of its kind (InOrder), that one attempt of the    *)
(* lead is under way (OneUnderWay), and what a process may hold on to      *)
(* (WorkerInv, OneOwner).                                                  *)
(***************************************************************************)
EXTENDS NotificationDelivery, FiniteSetTheorems, TLAPS

Blocks(m) == attempt[m].state \in BlockingStates

\* What the server may have or get of a mail, by the state of its attempt.
OnNetwork(m) ==
    /\ attempt[m].state \in {"none", "claimed", "failed", "cancelled"} =>
          m \notin flight /\ m \notin taken
    /\ attempt[m].state = "accepted" => m \in taken
    /\ m \in flight => m \notin taken

\* An attempt that blocks others, or whose receipt rules out another mail, is
\* the latest of its kind; the receipt of a first mail rules it out for good.
InOrder(m) ==
    /\ m[2] > latest[m[1]] => attempt[m].state = "none"
    /\ Blocks(m) \/ (attempt[m].state = "accepted" /\ ~attempt[m].aged) =>
          m[2] = latest[m[1]]
    /\ attempt[m].state = "accepted" /\ m[1] = "initial" => ~attempt[m].aged

OneUnderWay == \A m, n \in Message : Blocks(m) /\ Blocks(n) => m = n

Holding == {"claimed", "prepared", "sending", "awaiting"}
Holds(w) == worker[w].phase \in Holding

\* What a process may rely on while it works on an attempt.
WorkerInv(w) ==
    /\ Holds(w) \/ worker[w].phase = "repair" =>
          Current(w) \in Message /\ worker[w].gen <= latest[worker[w].kind]
    /\ worker[w].phase \in {"claimed", "prepared"} =>
          attempt[Current(w)].state \in {"claimed", "cancelled"}
    /\ worker[w].phase = "sending" =>
          /\ attempt[Current(w)].state = "handoff"
          /\ Current(w) \notin flight /\ Current(w) \notin taken
    /\ worker[w].phase = "awaiting" =>
          attempt[Current(w)].state \notin {"none", "claimed"}
    /\ worker[w].phase = "repair" /\ worker[w].seen = "accepted" => Current(w) \in taken

OneOwner == \A v, w \in Worker : Holds(v) /\ Holds(w) /\ Current(v) = Current(w) => v = w

LatestIsBounded == \A k \in Kind : latest[k] <= MaxGeneration[k]

IInv ==
    /\ TypeOK
    /\ LatestIsBounded
    /\ \A m \in Message : OnNetwork(m) /\ InOrder(m)
    /\ OneUnderWay
    /\ \A w \in Worker : WorkerInv(w)
    /\ OneOwner
    /\ SummaryIsTrue
-----------------------------------------------------------------------------
(***************************************************************************)
(* Messages, records, and the effect of a step on one of them.             *)
(***************************************************************************)
LEMMA MessageIs ==
  /\ \A m \in Message : m = <<m[1], m[2]>> /\ m[1] \in Kind /\ m[2] \in 1..MaxGeneration[m[1]]
  /\ \A k \in Kind : \A g \in 1..MaxGeneration[k] : <<k, g>> \in Message
  /\ \A k \in Kind : MaxGeneration[k] \in Nat
<1>1. \A k \in Kind : MaxGeneration[k] \in Nat
  BY BoundsAssumption DEF Kind, MaxGeneration
<1>2. \A m \in Message : \E k \in Kind : \E g \in 1..MaxGeneration[k] : m = <<k, g>>
  BY DEF Message
<1>3. \A k \in Kind : \A g \in 1..MaxGeneration[k] : <<k, g>> \in Message
  BY DEF Message
<1> QED BY <1>1, <1>2, <1>3

LEMMA MessageBounds ==
  ASSUME TypeOK, NEW m \in Message
  PROVE  m[1] \in Kind /\ m[2] \in Nat /\ latest[m[1]] \in Nat
BY MessageIs DEF TypeOK

LEMMA RecordsAre ==
  /\ Idle \in WorkerRecord /\ Idle.phase = "idle"
  /\ NoAttempt \in AttemptRecord /\ NoAttempt.state = "none"
  /\ Cancelled \in AttemptRecord /\ Cancelled.state = "cancelled"
BY DEF Idle, WorkerRecord, Phase, Kind, NoAttempt, AttemptRecord, AttemptState, BlockingStates, Cancelled

LEMMA EndedIs ==
  ASSUME NEW state \in AttemptState, NEW disabled \in BOOLEAN
  PROVE  /\ Ended(state, disabled) \in AttemptRecord
         /\ Ended(state, disabled).state = state /\ ~Ended(state, disabled).aged
BY DEF Ended, NoAttempt, AttemptRecord

\* A record of attempts that differs in nothing but what a save of the lead, or
\* the time that has passed, makes of it.
SameStates(a, b) ==
    \A m \in Message :
        /\ b[m].state = a[m].state
        /\ a[m].state = "accepted" => (a[m].aged => b[m].aged)
        /\ a[m].state = "accepted" /\ m[1] = "initial" => b[m].aged = a[m].aged

LEMMA OutdatedIs ==
  ASSUME NEW a \in [Message -> AttemptRecord]
  PROVE  Outdated(a) \in [Message -> AttemptRecord] /\ SameStates(a, Outdated(a))
<1>1. \A m \in Message : LET b == [a[m] EXCEPT !.stale = TRUE] IN
          b \in AttemptRecord /\ b.state = a[m].state /\ b.aged = a[m].aged
  BY DEF AttemptRecord
<1> QED BY <1>1 DEF Outdated, SameStates

LEMMA GoesIs ==
  ASSUME TypeOK, NEW w \in Worker, NEW phase \in Phase, Goes(w, phase)
  PROVE  /\ worker' \in [Worker -> WorkerRecord]
         /\ worker'[w].phase = phase /\ worker'[w].kind = worker[w].kind
         /\ worker'[w].gen = worker[w].gen
         /\ \A v \in Worker : v # w => worker'[v] = worker[v]
<1>1. [worker[w] EXCEPT !.phase = phase] \in WorkerRecord
  BY DEF TypeOK, WorkerRecord
<1> QED BY <1>1 DEF TypeOK, Goes, WorkerRecord

LEMMA StopsIs ==
  ASSUME TypeOK, NEW w \in Worker, Stops(w)
  PROVE  /\ worker' \in [Worker -> WorkerRecord] /\ worker'[w].phase = "idle"
         /\ \A v \in Worker : v # w => worker'[v] = worker[v]
BY RecordsAre DEF TypeOK, Stops

LEMMA InitInv == Init => IInv
<1> SUFFICES ASSUME Init PROVE IInv
    OBVIOUS
<1>1. \A m \in Message : attempt[m] = NoAttempt /\ attempt[m].state = "none"
  BY RecordsAre DEF Init
<1>2. \A w \in Worker : worker[w].phase = "idle"
  BY RecordsAre DEF Init
<1>3. lead \in LeadRecord /\ lead.status = "pending" /\ lead.reminded = 0
  BY QueuedAssumption, BoundsAssumption DEF Init, LeadRecord
<1>4. TypeOK
  BY <1>1, <1>3, RecordsAre DEF Init, TypeOK
<1>5. LatestIsBounded
  BY MessageIs DEF Init, LatestIsBounded
<1>6. \A m \in Message : ~Blocks(m) /\ OnNetwork(m) /\ InOrder(m)
  BY <1>1 DEF Init, OnNetwork, InOrder, Blocks, BlockingStates
<1> QED BY <1>2, <1>3, <1>4, <1>5, <1>6
        DEF IInv, OneUnderWay, WorkerInv, OneOwner, Holds, Holding, SummaryIsTrue
-----------------------------------------------------------------------------
(***************************************************************************)
(* Steps after which no attempt is in another state: saves of the lead,    *)
(* time, and processes that begin or stop.                                 *)
(***************************************************************************)
LEMMA QuietStep ==
  ASSUME IInv, UNCHANGED <<latest, flight, taken>>, channel' \in Channel,
         attempt' \in [Message -> AttemptRecord], SameStates(attempt, attempt'),
         lead' \in LeadRecord, SummaryIsTrue',
         worker' \in [Worker -> WorkerRecord],
         \A w \in Worker : worker'[w] = worker[w] \/ worker'[w].phase \in {"idle", "claiming"}
  PROVE  IInv'
<1>1. TypeOK' /\ LatestIsBounded'
  BY DEF IInv, TypeOK, LatestIsBounded
<1>2. \A m \in Message : attempt'[m].state = attempt[m].state
  BY DEF SameStates
<1>3. ASSUME NEW m \in Message PROVE OnNetwork(m)' /\ InOrder(m)'
  <2>1. OnNetwork(m) /\ InOrder(m)
    BY DEF IInv
  <2>2. OnNetwork(m)'
    BY <1>2, <2>1 DEF OnNetwork
  <2>3. /\ attempt[m].state = "accepted" /\ ~attempt'[m].aged => ~attempt[m].aged
        /\ attempt[m].state = "accepted" /\ m[1] = "initial" => attempt'[m].aged = attempt[m].aged
    BY DEF SameStates
  <2>4. InOrder(m)'
    BY <1>2, <2>1, <2>3 DEF InOrder, Blocks
  <2> QED BY <2>2, <2>4
<1>4. OneUnderWay'
  BY <1>2 DEF IInv, OneUnderWay, Blocks
<1>5. ASSUME NEW w \in Worker PROVE WorkerInv(w)'
  <2>1. CASE worker'[w].phase \in {"idle", "claiming"}
    BY <2>1 DEF WorkerInv, Holds, Holding
  <2>2. CASE worker'[w] = worker[w]
    <3>1. WorkerInv(w) /\ Current(w)' = Current(w)
      BY <2>2 DEF IInv, Current
    <3> QED BY <1>2, <2>2, <3>1 DEF WorkerInv, Holds, Holding
  <2> QED BY <2>1, <2>2
<1>6. OneOwner'
  <2>1. \A w \in Worker : Holds(w)' => Holds(w) /\ Current(w)' = Current(w)
    BY DEF Holds, Holding, Current
  <2> QED BY <2>1 DEF IInv, OneOwner
<1> QED BY <1>1, <1>3, <1>4, <1>5, <1>6 DEF IInv

\* What a projection writes on the lead is so, if the state it is written from is.
LEMMA ProjectIs ==
  ASSUME IInv, NEW m \in Message, NEW seen, NEW attempts \in [Message -> AttemptRecord],
         Project(m[1], m[2], seen, attempts), seen = "accepted" => m \in taken, taken' = taken
  PROVE  /\ lead' \in LeadRecord /\ SummaryIsTrue'
         /\ attempt' \in [Message -> AttemptRecord] /\ SameStates(attempts, attempt')
<1>1. /\ m = <<m[1], m[2]>> /\ m[1] \in Kind /\ m[2] \in 1..MaxGeneration[m[1]]
      /\ lead \in LeadRecord /\ SummaryIsTrue
  BY MessageIs DEF IInv, TypeOK
<1>2. m[1] = "reminder" => m[2] \in 0..MaxReminders
  BY <1>1, BoundsAssumption DEF MaxGeneration
<1>3. ASSUME NEW disabled
      PROVE  /\ Shown(m[1], m[2], seen, disabled) \in LeadRecord
             /\ Shown(m[1], m[2], seen, disabled).status = "sent" =>
                   lead.status = "sent" \/ (m[1] = "initial" /\ m \in taken)
             /\ \/ Shown(m[1], m[2], seen, disabled).reminded = lead.reminded
                \/ /\ m = <<"reminder", Shown(m[1], m[2], seen, disabled).reminded>>
                   /\ m \in taken
  <2>1. CASE m[1] = "initial" /\ seen = "accepted"
    BY <1>1, <2>1 DEF Shown, LeadRecord
  <2>2. CASE m[1] = "reminder" /\ seen = "accepted"
    <3>1. Shown(m[1], m[2], seen, disabled) = [lead EXCEPT !.reminded = m[2]]
      BY <2>2 DEF Shown
    <3> QED BY <1>1, <1>2, <2>2, <3>1 DEF LeadRecord
  <2>3. CASE m[1] = "initial" /\ seen = "failed"
    BY <1>1, <2>3 DEF Shown, LeadRecord
  <2>4. CASE ~(m[1] = "initial" /\ seen = "accepted") /\ ~(m[1] = "reminder" /\ seen = "accepted")
             /\ ~(m[1] = "initial" /\ seen = "failed")
    BY <1>1, <2>4 DEF Shown
  <2> QED BY <2>1, <2>2, <2>3, <2>4
<1>4. lead' \in LeadRecord
  BY <1>1, <1>3 DEF Project
<1>5. SummaryIsTrue'
  <2>1. CASE lead' = lead
    BY <1>1, <2>1 DEF SummaryIsTrue
  <2>2. CASE \E disabled : lead' = Shown(m[1], m[2], seen, disabled)
    <3>1. /\ lead'.status = "sent" => lead.status = "sent" \/ (m[1] = "initial" /\ m \in taken)
          /\ \/ lead'.reminded = lead.reminded
             \/ m = <<"reminder", lead'.reminded>> /\ m \in taken
      BY <1>3, <2>2
    <3> QED BY <1>1, <3>1 DEF SummaryIsTrue
  <2> QED BY <2>1, <2>2 DEF Project
<1>6. SameStates(attempts, attempts)
  BY DEF SameStates
<1> QED BY <1>4, <1>5, <1>6, OutdatedIs DEF Project

LEMMA SameStatesOfSelf == \A a : SameStates(a, a)
BY DEF SameStates

\* The lead stays, or is saved without a word about its notifications.
LEMMA SummaryStays ==
  ASSUME IInv, taken \subseteq taken', lead'.status = lead.status, lead'.reminded = lead.reminded
  PROVE  SummaryIsTrue'
BY DEF IInv, SummaryIsTrue

\* A process begins or stops and changes nothing else.
LEMMA SilentInv ==
  ASSUME IInv, UNCHANGED <<lead, channel, latest, attempt, flight, taken>>,
         worker' \in [Worker -> WorkerRecord],
         \A w \in Worker : worker'[w] = worker[w] \/ worker'[w].phase \in {"idle", "claiming"}
  PROVE  IInv'
<1>1. /\ channel' \in Channel /\ lead' \in LeadRecord /\ attempt' \in [Message -> AttemptRecord]
      /\ SameStates(attempt, attempt') /\ SummaryIsTrue'
  BY SameStatesOfSelf, SummaryStays DEF IInv, TypeOK
<1> QED BY <1>1, QuietStep

LEMMA StartsSendingInv ==
  ASSUME IInv, NEW w \in Worker, NEW k \in Kind, StartsSending(w, k) PROVE IInv'
<1> DEFINE new == [worker[w] EXCEPT !.phase = "claiming", !.kind = k]
<1>1. new \in WorkerRecord /\ new.phase = "claiming"
  BY DEF IInv, TypeOK, WorkerRecord, Phase
<1>2. worker' = [worker EXCEPT ![w] = new]
  BY DEF StartsSending, IInv, TypeOK, WorkerRecord
<1> HIDE DEF new
<1>3. /\ worker' \in [Worker -> WorkerRecord]
      /\ \A v \in Worker : worker'[v] = worker[v] \/ worker'[v].phase \in {"idle", "claiming"}
  BY <1>1, <1>2 DEF IInv, TypeOK
<1> QED BY <1>3, SilentInv DEF StartsSending

LEMMA ReceiptIs ==
  ASSUME IInv, NEW k \in Kind, NEW g \in Receipts(k)
  PROVE  /\ <<k, g>> \in Message /\ <<k, g>> \in taken
         /\ <<k, g>>[1] = k /\ <<k, g>>[2] = g
BY MessageIs DEF Receipts, IInv, OnNetwork

LEMMA ClaimFindsReceiptInv ==
  ASSUME IInv, NEW w \in Worker, ClaimFindsReceipt(w) PROVE IInv'
<1>1. PICK g \in Receipts(worker[w].kind) : Project(worker[w].kind, g, "accepted", attempt)
  BY DEF ClaimFindsReceipt
<1>2. worker[w].kind \in Kind
  BY DEF IInv, TypeOK, WorkerRecord
<1> DEFINE m == <<worker[w].kind, g>>
<1>3. m \in Message /\ m \in taken /\ m[1] = worker[w].kind /\ m[2] = g
  BY <1>2, ReceiptIs
<1>4. Stops(w) /\ UNCHANGED <<channel, latest, flight, taken>>
  BY DEF ClaimFindsReceipt
<1> HIDE DEF m
<1>5. /\ lead' \in LeadRecord /\ SummaryIsTrue'
      /\ attempt' \in [Message -> AttemptRecord] /\ SameStates(attempt, attempt')
  BY <1>1, <1>3, <1>4, ProjectIs DEF IInv, TypeOK
<1>6. /\ worker' \in [Worker -> WorkerRecord]
      /\ \A v \in Worker : worker'[v] = worker[v] \/ worker'[v].phase \in {"idle", "claiming"}
  BY <1>4, StopsIs DEF IInv
<1> QED BY <1>4, <1>5, <1>6, QuietStep DEF IInv, TypeOK

LEMMA RepairInv == ASSUME IInv, NEW w \in Worker, Repair(w) PROVE IInv'
<1> DEFINE m == Current(w)
<1>1. /\ Project(m[1], m[2], worker[w].seen, attempt)
      /\ Stops(w) /\ UNCHANGED <<channel, latest, flight, taken>>
      /\ worker[w].phase = "repair"
  BY DEF Repair, Current
<1>2. m \in Message /\ (worker[w].seen = "accepted" => m \in taken)
  BY <1>1 DEF IInv, WorkerInv
<1> HIDE DEF m
<1>3. /\ lead' \in LeadRecord /\ SummaryIsTrue'
      /\ attempt' \in [Message -> AttemptRecord] /\ SameStates(attempt, attempt')
  BY <1>1, <1>2, ProjectIs DEF IInv, TypeOK
<1>4. /\ worker' \in [Worker -> WorkerRecord]
      /\ \A v \in Worker : worker'[v] = worker[v] \/ worker'[v].phase \in {"idle", "claiming"}
  BY <1>1, StopsIs DEF IInv
<1> QED BY <1>1, <1>3, <1>4, QuietStep DEF IInv, TypeOK

LEMMA StopsInv ==
  ASSUME IInv, NEW w \in Worker, Stops(w), UNCHANGED <<lead, channel, latest, attempt, flight, taken>>
  PROVE  IInv'
<1>1. /\ worker' \in [Worker -> WorkerRecord]
      /\ \A v \in Worker : worker'[v] = worker[v] \/ worker'[v].phase \in {"idle", "claiming"}
  BY StopsIs DEF IInv
<1> QED BY <1>1, SilentInv

\* A save of the lead, or of what its mails depend on.
LEMMA SavedInv ==
  ASSUME IInv, UNCHANGED <<latest, worker, flight, taken>>, channel' \in Channel,
         lead' \in LeadRecord, lead'.status = lead.status, lead'.reminded = lead.reminded,
         attempt' \in {attempt, Outdated(attempt)}
  PROVE  IInv'
<1>1. attempt' \in [Message -> AttemptRecord] /\ SameStates(attempt, attempt')
  BY OutdatedIs, SameStatesOfSelf DEF IInv, TypeOK
<1>2. SummaryIsTrue' /\ worker' \in [Worker -> WorkerRecord]
  BY SummaryStays DEF IInv, TypeOK
<1> QED BY <1>1, <1>2, QuietStep

LEMMA LeadSaves ==
  ASSUME TypeOK, \/ lead' = lead
                 \/ lead' = [lead EXCEPT !.trashed = ~@]
                 \/ lead' = [lead EXCEPT !.new = ~@]
  PROVE  lead' \in LeadRecord /\ lead'.status = lead.status /\ lead'.reminded = lead.reminded
BY DEF TypeOK, LeadRecord

LEMMA WorldInv == ASSUME IInv, Edit \/ TrashOrRestore \/ MoveStage \/ Reconfigure PROVE IInv'
<1>1. lead' \in LeadRecord /\ lead'.status = lead.status /\ lead'.reminded = lead.reminded
  BY LeadSaves DEF IInv, Edit, TrashOrRestore, MoveStage, Reconfigure
<1>2. UNCHANGED <<latest, worker, flight, taken>> /\ channel' \in Channel
      /\ attempt' \in {attempt, Outdated(attempt)}
  BY DEF IInv, TypeOK, Edit, TrashOrRestore, MoveStage, Reconfigure
<1> QED BY <1>1, <1>2, SavedInv

LEMMA AgeIs ==
  ASSUME TypeOK, Age
  PROVE  attempt' \in [Message -> AttemptRecord] /\ SameStates(attempt, attempt')
<1>1. PICK m \in Message :
        /\ m[1] = "initial" => attempt[m].state # "accepted"
        /\ attempt' = [attempt EXCEPT ![m].aged = TRUE]
  BY DEF Age
<1>2. LET b == [attempt[m] EXCEPT !.aged = TRUE] IN
          b \in AttemptRecord /\ b.state = attempt[m].state /\ b.aged
  BY DEF TypeOK, AttemptRecord
<1>3. attempt' \in [Message -> AttemptRecord] /\ attempt'[m].state = attempt[m].state /\ attempt'[m].aged
      /\ \A n \in Message : n # m => attempt'[n] = attempt[n]
  BY <1>1, <1>2 DEF TypeOK
<1> QED BY <1>1, <1>3 DEF SameStates

LEMMA AgeInv == ASSUME IInv, Age PROVE IInv'
<1>1. UNCHANGED <<lead, channel, latest, worker, flight, taken>>
  BY DEF Age
<1> QED BY <1>1, AgeIs, SummaryStays, QuietStep DEF IInv, TypeOK
-----------------------------------------------------------------------------
(***************************************************************************)
(* Steps on one attempt: of the process that holds it, a reviewer, or the  *)
(* server.                                                                 *)
(***************************************************************************)
\* At most the attempt m changes its state, and it does not come to block.
LEMMA AttemptMoves ==
  ASSUME IInv, UNCHANGED <<lead, channel, latest>>, NEW m \in Message,
         taken' \subseteq Message, taken \subseteq taken', flight' \subseteq Message,
         \A n \in Message : n # m => (n \in taken' <=> n \in taken) /\ (n \in flight' <=> n \in flight),
         attempt' \in [Message -> AttemptRecord],
         \A n \in Message : n # m => attempt'[n] = attempt[n],
         Blocks(m)' => Blocks(m),
         OnNetwork(m)', InOrder(m)'
  PROVE  /\ \A n \in Message : OnNetwork(n)' /\ InOrder(n)'
         /\ OneUnderWay' /\ LatestIsBounded' /\ SummaryIsTrue'
<1>1. ASSUME NEW n \in Message, n # m PROVE OnNetwork(n)' /\ InOrder(n)'
  <2>1. OnNetwork(n) /\ InOrder(n) /\ attempt'[n] = attempt[n]
    BY <1>1 DEF IInv
  <2> QED BY <1>1, <2>1 DEF OnNetwork, InOrder, Blocks
<1>2. \A n \in Message : Blocks(n)' => Blocks(n)
  BY DEF Blocks
<1>3. OneUnderWay'
  BY <1>2 DEF IInv, OneUnderWay
<1>4. LatestIsBounded' /\ SummaryIsTrue'
  BY SummaryStays DEF IInv, LatestIsBounded
<1> QED BY <1>1, <1>3, <1>4

\* A process that does not hold m relies on nothing that changes with m.
LEMMA OtherStays ==
  ASSUME IInv, UNCHANGED latest, NEW m \in Message, NEW v \in Worker,
         worker'[v] = worker[v], taken \subseteq taken',
         \A n \in Message : n # m => (n \in taken' <=> n \in taken) /\ (n \in flight' <=> n \in flight),
         \A n \in Message : n # m => attempt'[n] = attempt[n],
         Holds(v) => Current(v) # m
  PROVE  WorkerInv(v)'
<1>1. WorkerInv(v) /\ Current(v)' = Current(v)
  BY DEF IInv, Current
<1>2. Holds(v) => attempt'[Current(v)] = attempt[Current(v)]
  BY <1>1 DEF WorkerInv
<1>3. Holds(v) => /\ Current(v) \in taken' <=> Current(v) \in taken
                  /\ Current(v) \in flight' <=> Current(v) \in flight
  BY <1>1 DEF WorkerInv
<1> QED BY <1>1, <1>2, <1>3 DEF WorkerInv, Holds, Holding

LEMMA StepOfHolder ==
  ASSUME IInv, UNCHANGED <<lead, channel, latest, taken>>, NEW w \in Worker, Holds(w),
         NEW m \in Message, Current(w) = m,
         worker' \in [Worker -> WorkerRecord],
         \A v \in Worker : v # w => worker'[v] = worker[v],
         Holds(w)' => Current(w)' = m,
         WorkerInv(w)',
         flight' \in {flight, flight \cup {m}},
         attempt' \in [Message -> AttemptRecord],
         \A n \in Message : n # m => attempt'[n] = attempt[n],
         Blocks(m)' => Blocks(m),
         OnNetwork(m)', InOrder(m)'
  PROVE  IInv'
<1>2. /\ taken' \subseteq Message /\ flight' \subseteq Message /\ TypeOK'
      /\ \A n \in Message : n # m => (n \in taken' <=> n \in taken) /\ (n \in flight' <=> n \in flight)
  BY DEF IInv, TypeOK
<1>4. /\ \A n \in Message : OnNetwork(n)' /\ InOrder(n)'
      /\ OneUnderWay' /\ LatestIsBounded' /\ SummaryIsTrue'
  BY <1>2, AttemptMoves
<1>5. ASSUME NEW v \in Worker, v # w PROVE WorkerInv(v)'
  <2>1. Holds(v) => Current(v) # m
    BY <1>5 DEF IInv, OneOwner
  <2> QED BY <1>2, <1>5, <2>1, OtherStays
<1>6. OneOwner'
  <2>1. \A v \in Worker : Holds(v)' => Holds(v) /\ Current(v)' = Current(v)
    BY DEF Holds, Current
  <2> QED BY <2>1 DEF IInv, OneOwner
<1> QED BY <1>2, <1>4, <1>5, <1>6 DEF IInv

LEMMA HolderIs ==
  ASSUME IInv, NEW w \in Worker, Holds(w)
  PROVE  \E m \in Message : Current(w) = m
BY DEF IInv, WorkerInv

LEMMA PrepareInv == ASSUME IInv, NEW w \in Worker, Prepare(w) PROVE IInv'
<1>1. /\ worker[w].phase = "claimed" /\ Goes(w, "prepared") /\ "prepared" \in Phase
      /\ UNCHANGED <<lead, channel, latest, attempt, flight, taken>>
  BY DEF Prepare, Phase
<1>2. /\ worker' \in [Worker -> WorkerRecord]
      /\ worker'[w].phase = "prepared" /\ worker'[w].kind = worker[w].kind
      /\ worker'[w].gen = worker[w].gen
      /\ \A v \in Worker : v # w => worker'[v] = worker[v]
  BY <1>1, GoesIs DEF IInv
<1>3. WorkerInv(w) /\ Holds(w) /\ Current(w)' = Current(w)
  BY <1>1, <1>2 DEF IInv, Holds, Holding, Current
<1>4. WorkerInv(w)'
  BY <1>1, <1>2, <1>3 DEF WorkerInv, Holds, Holding
<1>5. PICK m \in Message : Current(w) = m
  BY <1>3, HolderIs
<1>6. OnNetwork(m)' /\ InOrder(m)' /\ (Blocks(m)' => Blocks(m))
  BY <1>1 DEF IInv, OnNetwork, InOrder, Blocks
<1> QED BY <1>1, <1>2, <1>3, <1>4, <1>5, <1>6, StepOfHolder DEF IInv, TypeOK, Blocks

\* The outcome of an attempt is stored by the process that holds it, which then
\* repairs the lead; if the state does not allow it, the process stops.
LEMMA FinishInv ==
  ASSUME IInv, NEW w \in Worker, Holds(w), worker[w].phase \in {"claimed", "awaiting"},
         NEW outcome \in {"accepted", "failed", "unknown"}, NEW disabled \in BOOLEAN,
         Finish(w, outcome, disabled), UNCHANGED <<lead, channel, latest, flight, taken>>,
         outcome = "accepted" => Current(w) \in taken,
         outcome = "failed" => Current(w) \notin taken /\ Current(w) \notin flight
  PROVE  IInv'
<1>0. PICK m \in Message : Current(w) = m
  BY HolderIs
<1>1. CASE attempt[m].state \notin FinishFrom(outcome)
  BY <1>0, <1>1, StopsInv DEF Finish
<1>2. CASE attempt[m].state \in FinishFrom(outcome)
  <2> DEFINE new == [worker[w] EXCEPT !.phase = "repair", !.seen = outcome]
  <2>1. /\ new \in WorkerRecord /\ new.phase = "repair" /\ new.seen = outcome
        /\ new.kind = worker[w].kind /\ new.gen = worker[w].gen
    BY DEF IInv, TypeOK, WorkerRecord, Phase
  <2>2. worker' = [worker EXCEPT ![w] = new]
    BY <1>0, <1>2 DEF Finish, IInv, TypeOK, WorkerRecord
  <2> HIDE DEF new
  <2>3. /\ worker' \in [Worker -> WorkerRecord] /\ worker'[w] = new
        /\ \A v \in Worker : v # w => worker'[v] = worker[v]
    BY <2>1, <2>2 DEF IInv, TypeOK
  <2>4. WorkerInv(w) /\ OnNetwork(m) /\ InOrder(m)
    BY DEF IInv
  <2>5. Current(w)' = m
    BY <1>0, <2>1, <2>3 DEF Current
  <2>6. /\ Ended(outcome, disabled) \in AttemptRecord
        /\ Ended(outcome, disabled).state = outcome /\ ~Ended(outcome, disabled).aged
    BY EndedIs DEF AttemptState, BlockingStates
  <2>7. /\ attempt' \in [Message -> AttemptRecord]
        /\ attempt'[m].state = outcome /\ ~attempt'[m].aged
        /\ \A n \in Message : n # m => attempt'[n] = attempt[n]
    BY <1>0, <1>2, <2>6 DEF Finish, IInv, TypeOK
  <2>8. attempt[m].state \in {"claimed", "handoff"} /\ Blocks(m)
    BY <1>2 DEF FinishFrom, Blocks, BlockingStates
  <2>9. attempt[m].state = "handoff" \/ outcome = "failed"
    BY <1>2 DEF FinishFrom
  <2>10. OnNetwork(m)' /\ InOrder(m)'
    <3>1. OnNetwork(m)'
      BY <1>0, <2>4, <2>7, <2>9 DEF OnNetwork
    <3>2. m[2] = latest[m[1]] /\ m[2] \in Nat
      BY <2>4, <2>8, MessageIs DEF InOrder
    <3>3. InOrder(m)'
      BY <2>7, <3>2 DEF InOrder
    <3> QED BY <3>1, <3>3
  <2>11. WorkerInv(w)'
    BY <1>0, <2>1, <2>3, <2>4, <2>5 DEF WorkerInv, Holds, Holding
  <2>12. ~Holds(w)'
    BY <2>1, <2>3 DEF Holds, Holding
  <2> QED BY <1>0, <2>3, <2>4, <2>7, <2>8, <2>10, <2>11, <2>12, StepOfHolder
<1> QED BY <1>1, <1>2

LEMMA PrepareFailsInv == ASSUME IInv, NEW w \in Worker, PrepareFails(w) PROVE IInv'
<1>1. /\ worker[w].phase = "claimed" /\ Holds(w) /\ Finish(w, "failed", channel \in PolicyDisabled)
      /\ UNCHANGED <<lead, channel, latest, flight, taken>>
      /\ (channel \in PolicyDisabled) \in BOOLEAN
  BY DEF PrepareFails, Holds, Holding
<1>2. /\ Current(w) \in Message /\ attempt[Current(w)].state \in {"claimed", "cancelled"}
  BY <1>1 DEF IInv, WorkerInv
<1>3. Current(w) \notin taken /\ Current(w) \notin flight
  BY <1>2 DEF IInv, OnNetwork
<1> QED BY <1>1, <1>3, FinishInv

LEMMA AnswerInv == ASSUME IInv, NEW w \in Worker, Answer(w) PROVE IInv'
<1>1. /\ worker[w].phase = "awaiting" /\ Holds(w)
      /\ UNCHANGED <<lead, channel, latest, flight, taken>>
  BY DEF Answer, Holds, Holding
<1>2. \/ Current(w) \in taken /\ Finish(w, "accepted", FALSE)
      \/ Current(w) \notin taken \cup flight /\ Finish(w, "failed", FALSE)
      \/ Finish(w, "unknown", FALSE)
  BY DEF Answer
<1> QED BY <1>1, <1>2, FinishInv

LEMMA HandoffInv == ASSUME IInv, NEW w \in Worker, Handoff(w) PROVE IInv'
<1>1. /\ worker[w].phase = "prepared" /\ Holds(w)
      /\ UNCHANGED <<lead, channel, latest, flight, taken>>
  BY DEF Handoff, Holds, Holding
<1>0. PICK m \in Message : Current(w) = m
  BY <1>1, HolderIs
<1>2. /\ WorkerInv(w) /\ OnNetwork(m) /\ InOrder(m)
      /\ attempt[m] \in AttemptRecord /\ m[2] \in Nat
  BY MessageIs DEF IInv, TypeOK
<1>3. CASE attempt[m].state # "claimed" /\ Stops(w) /\ UNCHANGED attempt
  BY <1>1, <1>3, StopsInv
<1>4. CASE /\ attempt[m].state = "claimed"
           /\ attempt' = [attempt EXCEPT ![m] = Cancelled] /\ Stops(w)
  <2>1. /\ attempt' \in [Message -> AttemptRecord] /\ attempt'[m].state = "cancelled"
        /\ \A n \in Message : n # m => attempt'[n] = attempt[n]
    BY <1>2, <1>4, RecordsAre DEF IInv, TypeOK
  <2>2. /\ worker' \in [Worker -> WorkerRecord] /\ worker'[w].phase = "idle"
        /\ \A v \in Worker : v # w => worker'[v] = worker[v]
    BY <1>4, StopsIs DEF IInv
  <2>3. ~Holds(w)' /\ WorkerInv(w)'
    BY <2>2 DEF Holds, Holding, WorkerInv
  <2>4. OnNetwork(m)'
    BY <1>1, <1>2, <1>4, <2>1 DEF OnNetwork
  <2>5. InOrder(m)'
    BY <1>1, <1>2, <1>4, <2>1 DEF InOrder, Blocks, BlockingStates
  <2>6. attempt'[m].state \notin BlockingStates
    BY <2>1 DEF BlockingStates
  <2> QED BY <1>0, <1>1, <2>1, <2>2, <2>3, <2>4, <2>5, <2>6, StepOfHolder DEF Blocks
<1>5. CASE /\ attempt[m].state = "claimed"
           /\ attempt' = [attempt EXCEPT ![m].state = "handoff", ![m].aged = FALSE]
           /\ Goes(w, "sending")
  <2> DEFINE new == [attempt[m] EXCEPT !.state = "handoff", !.aged = FALSE]
  <2>1. new \in AttemptRecord /\ new.state = "handoff"
    BY <1>2 DEF AttemptRecord, AttemptState, BlockingStates
  <2>2. attempt' = [attempt EXCEPT ![m] = new]
    BY <1>2, <1>5 DEF IInv, TypeOK, AttemptRecord
  <2> HIDE DEF new
  <2>3. /\ attempt' \in [Message -> AttemptRecord] /\ attempt'[m].state = "handoff"
        /\ \A n \in Message : n # m => attempt'[n] = attempt[n]
    BY <1>2, <2>1, <2>2 DEF IInv, TypeOK
  <2>4. /\ worker' \in [Worker -> WorkerRecord]
        /\ worker'[w].phase = "sending" /\ worker'[w].kind = worker[w].kind
        /\ worker'[w].gen = worker[w].gen
        /\ \A v \in Worker : v # w => worker'[v] = worker[v]
    BY <1>5, GoesIs DEF IInv, Phase
  <2>5. Current(w)' = m
    BY <1>0, <2>4 DEF Current
  <2>6. m \notin flight /\ m \notin taken /\ Blocks(m) /\ m[2] = latest[m[1]]
    BY <1>2, <1>5 DEF OnNetwork, Blocks, BlockingStates, InOrder
  <2>7. OnNetwork(m)' /\ InOrder(m)'
    BY <1>1, <1>2, <2>3, <2>6 DEF OnNetwork, InOrder
  <2>8. WorkerInv(w)'
    BY <1>0, <1>1, <1>2, <2>3, <2>4, <2>5, <2>6 DEF WorkerInv, Holds, Holding
  <2> QED BY <1>0, <1>1, <1>2, <2>3, <2>4, <2>5, <2>6, <2>7, <2>8, StepOfHolder
<1> QED BY <1>0, <1>3, <1>4, <1>5 DEF Handoff

LEMMA SendInv == ASSUME IInv, NEW w \in Worker, Send(w) PROVE IInv'
<1>1. /\ worker[w].phase = "sending" /\ Holds(w) /\ flight' = flight \cup {Current(w)}
      /\ Goes(w, "awaiting") /\ "awaiting" \in Phase
      /\ UNCHANGED <<lead, channel, latest, attempt, taken>>
  BY DEF Send, Holds, Holding, Phase
<1>2. /\ worker' \in [Worker -> WorkerRecord]
      /\ worker'[w].phase = "awaiting" /\ worker'[w].kind = worker[w].kind
      /\ worker'[w].gen = worker[w].gen
      /\ \A v \in Worker : v # w => worker'[v] = worker[v]
  BY <1>1, GoesIs DEF IInv
<1>0. PICK m \in Message : Current(w) = m
  BY <1>1, HolderIs
<1>3. /\ WorkerInv(w) /\ OnNetwork(m) /\ InOrder(m)
      /\ attempt[m].state = "handoff" /\ m \notin taken
  BY <1>0, <1>1 DEF IInv, WorkerInv
<1>4. Current(w)' = m
  BY <1>0, <1>2 DEF Current
<1>5. OnNetwork(m)' /\ InOrder(m)' /\ Blocks(m)
  BY <1>0, <1>1, <1>3 DEF OnNetwork, InOrder, Blocks, BlockingStates
<1>6. WorkerInv(w)'
  BY <1>0, <1>1, <1>2, <1>3, <1>4 DEF WorkerInv, Holds, Holding
<1>7. attempt' \in [Message -> AttemptRecord]
  BY <1>1 DEF IInv, TypeOK
<1> QED BY <1>0, <1>1, <1>2, <1>3, <1>4, <1>5, <1>6, <1>7, StepOfHolder

LEMMA ReviewAsInv ==
  ASSUME IInv, NEW m \in Message, NEW outcome \in {"accepted", "failed"}, ReviewAs(m, outcome),
         Reviewable(m),
         outcome = "accepted" => m \in taken,
         outcome = "failed" => m \notin taken /\ Stopped(m)
  PROVE  IInv'
<1> DEFINE ended == [attempt EXCEPT ![m] = Ended(outcome, FALSE)]
<1>1. /\ Project(m[1], m[2], outcome, ended) /\ UNCHANGED <<channel, latest, worker, flight, taken>>
      /\ attempt \in [Message -> AttemptRecord] /\ OnNetwork(m) /\ InOrder(m) /\ Blocks(m)
  BY DEF ReviewAs, IInv, TypeOK, Reviewable, Blocks, BlockingStates
<1>2. /\ Ended(outcome, FALSE) \in AttemptRecord
      /\ Ended(outcome, FALSE).state = outcome /\ ~Ended(outcome, FALSE).aged
  BY EndedIs DEF AttemptState, BlockingStates
<1>3. /\ ended \in [Message -> AttemptRecord] /\ ended[m].state = outcome /\ ~ended[m].aged
      /\ \A n \in Message : n # m => ended[n] = attempt[n]
  BY <1>1, <1>2
<1> HIDE DEF ended
<1>4. /\ lead' \in LeadRecord /\ SummaryIsTrue'
      /\ attempt' \in [Message -> AttemptRecord] /\ SameStates(ended, attempt')
  BY <1>1, <1>3, ProjectIs
<1>5. attempt'[m].state = outcome /\ \A n \in Message : n # m => attempt'[n].state = attempt[n].state
  BY <1>3, <1>4 DEF SameStates
<1>6. TypeOK' /\ LatestIsBounded'
  BY <1>1, <1>4 DEF IInv, TypeOK, LatestIsBounded
<1>7. ASSUME NEW n \in Message PROVE OnNetwork(n)' /\ InOrder(n)'
  <2>1. OnNetwork(n) /\ InOrder(n)
    BY DEF IInv
  <2>2. CASE n # m
    <3>1. attempt'[n].state = attempt[n].state /\ ended[n] = attempt[n]
      BY <1>3, <1>5, <2>2
    <3>2. /\ attempt[n].state = "accepted" /\ ~attempt'[n].aged => ~attempt[n].aged
          /\ attempt[n].state = "accepted" /\ n[1] = "initial" => attempt'[n].aged = attempt[n].aged
      BY <1>4, <3>1 DEF SameStates
    <3> QED BY <1>1, <2>1, <3>1, <3>2 DEF OnNetwork, InOrder, Blocks
  <2>3. CASE n = m
    <3>1. outcome = "failed" => m \notin flight
      BY DEF Stopped
    <3>2. m[2] = latest[m[1]] /\ m[2] \in Nat
      BY <1>1, MessageIs DEF InOrder
    <3>3. outcome = "accepted" /\ m[1] = "initial" => ~attempt'[m].aged
      BY <1>3, <1>4 DEF SameStates
    <3>4. OnNetwork(m)'
      BY <1>1, <1>5, <3>1 DEF OnNetwork
    <3>5. InOrder(m)'
      BY <1>1, <1>5, <3>2, <3>3 DEF InOrder
    <3> QED BY <2>3, <3>4, <3>5
  <2> QED BY <2>2, <2>3
<1>8. OneUnderWay'
  <2>1. \A n \in Message : Blocks(n)' => Blocks(n)
    BY <1>1, <1>5 DEF Blocks
  <2> QED BY <2>1 DEF IInv, OneUnderWay
<1>9. ASSUME NEW v \in Worker PROVE WorkerInv(v)'
  <2>1. WorkerInv(v) /\ Current(v)' = Current(v) /\ worker'[v] = worker[v]
    BY <1>1 DEF IInv, Current
  <2>2. CASE Current(v) = m
    <3>1. attempt[m].state \in {"handoff", "unknown"}
      BY DEF Reviewable
    <3>2. worker[v].phase # "sending"
      <4>1. CASE outcome = "accepted"
        BY <2>1, <2>2, <4>1 DEF WorkerInv
      <4>2. CASE outcome = "failed"
        BY <2>2, <4>2 DEF Stopped
      <4> QED BY <4>1, <4>2
    <3>3. worker[v].phase \notin {"claimed", "prepared"}
      BY <2>1, <2>2, <3>1 DEF WorkerInv
    <3>4. attempt'[m].state \notin {"none", "claimed"}
      BY <1>5
    <3> QED BY <1>1, <2>1, <2>2, <3>2, <3>3, <3>4 DEF WorkerInv, Holds, Holding
  <2>3. CASE Current(v) # m
    <3>1. Holds(v) => attempt'[Current(v)].state = attempt[Current(v)].state
      BY <1>5, <2>1, <2>3 DEF WorkerInv
    <3> QED BY <1>1, <2>1, <3>1 DEF WorkerInv, Holds, Holding
  <2> QED BY <2>2, <2>3
<1>10. OneOwner'
  BY <1>1 DEF IInv, OneOwner, Holds, Current
<1> QED BY <1>4, <1>6, <1>7, <1>8, <1>9, <1>10 DEF IInv

LEMMA ReviewInv == ASSUME IInv, Review PROVE IInv'
<1>1. PICK m \in Message :
        /\ Reviewable(m)
        /\ \/ m \in taken /\ ReviewAs(m, "accepted")
           \/ m \notin taken /\ Stopped(m) /\ ReviewAs(m, "failed")
  BY DEF Review
<1> QED BY <1>1, ReviewAsInv

LEMMA ServerTakesInv == ASSUME IInv, ServerTakes PROVE IInv'
<1>1. PICK m \in flight : flight' = flight \ {m} /\ taken' \in {taken, taken \cup {m}}
  BY DEF ServerTakes
<1>2. UNCHANGED <<lead, channel, latest, attempt, worker>>
  BY DEF ServerTakes
<1>3. /\ m \in Message /\ OnNetwork(m) /\ InOrder(m)
      /\ taken' \subseteq Message /\ flight' \subseteq Message /\ TypeOK'
  BY <1>1, <1>2 DEF IInv, TypeOK
<1>4. attempt[m].state \in {"handoff", "unknown"}
  <2>1. attempt[m].state \in AttemptState
    BY <1>3 DEF IInv, TypeOK, AttemptRecord
  <2> QED BY <1>1, <1>3, <2>1 DEF OnNetwork, AttemptState, BlockingStates
<1>5. OnNetwork(m)' /\ InOrder(m)' /\ (Blocks(m)' => Blocks(m))
  BY <1>1, <1>2, <1>3, <1>4 DEF OnNetwork, InOrder, Blocks
<1>6. /\ taken \subseteq taken'
      /\ \A n \in Message : n # m => (n \in taken' <=> n \in taken) /\ (n \in flight' <=> n \in flight)
  BY <1>1
<1>7. /\ \A n \in Message : OnNetwork(n)' /\ InOrder(n)'
      /\ OneUnderWay' /\ LatestIsBounded' /\ SummaryIsTrue'
  BY <1>2, <1>3, <1>5, <1>6, AttemptMoves DEF IInv, TypeOK
<1>8. ASSUME NEW v \in Worker PROVE WorkerInv(v)'
  <2>1. WorkerInv(v) /\ Current(v)' = Current(v) /\ worker'[v] = worker[v]
    BY <1>2 DEF IInv, Current
  <2>2. worker[v].phase = "sending" => Current(v) # m
    BY <1>1, <2>1 DEF WorkerInv
  <2>3. worker[v].phase = "sending" => Current(v) \notin flight' /\ Current(v) \notin taken'
    BY <1>1, <2>1, <2>2 DEF WorkerInv
  <2> QED BY <1>1, <1>2, <2>1, <2>3 DEF WorkerInv, Holds, Holding
<1>9. OneOwner'
  BY <1>2 DEF IInv, OneOwner, Holds, Current
<1> QED BY <1>3, <1>7, <1>8, <1>9 DEF IInv
-----------------------------------------------------------------------------
(***************************************************************************)
(* A new claim: nothing is under way, and no receipt rules the mail out.   *)
(***************************************************************************)
\* A receipt that still counts would have been found.
LEMMA ClaimableIsClear ==
  ASSUME IInv, NEW k \in Kind, Claimable(k), NEW m \in Message, m[1] = k
  PROVE  ~(attempt[m].state = "accepted" /\ ~attempt[m].aged)
<1> SUFFICES ASSUME attempt[m].state = "accepted", ~attempt[m].aged PROVE FALSE
    OBVIOUS
<1>1. /\ m = <<k, m[2]>> /\ m[2] \in 1..MaxGeneration[k] /\ m[2] = latest[k]
  BY MessageIs DEF IInv, InOrder
<1>2. ASSUME NEW h \in 1..MaxGeneration[k], attempt[<<k, h>>].state = "accepted" PROVE h <= m[2]
  <2>1. <<k, h>> \in Message /\ <<k, h>>[1] = k /\ <<k, h>>[2] = h /\ h \in Nat
    BY MessageIs
  <2>2. ~(h > latest[k])
    BY <1>2, <2>1 DEF IInv, InOrder
  <2>3. latest[k] \in Nat
    BY DEF IInv, TypeOK
  <2> QED BY <1>1, <2>1, <2>2, <2>3
<1>3. m[2] \in Receipts(k)
  BY <1>1, <1>2 DEF Receipts
<1> QED BY <1>3 DEF Claimable

LEMMA ClaimNewIs ==
  ASSUME IInv, NEW w \in Worker, ClaimNew(w), NEW k, k = worker[w].kind, NEW g, g = latest[k] + 1
  PROVE  /\ k \in Kind /\ g \in Nat /\ g \in 1..MaxGeneration[k]
         /\ <<k, g>> \in Message /\ <<k, g>>[1] = k /\ <<k, g>>[2] = g
         /\ Claimable(k) /\ worker[w].phase = "claiming"
         /\ UNCHANGED <<lead, channel, flight, taken>>
         /\ latest' \in [Kind -> Nat] /\ latest'[k] = g
         /\ \A j \in Kind : j # k => latest'[j] = latest[j]
         /\ worker' \in [Worker -> WorkerRecord]
         /\ worker'[w].phase = "claimed" /\ worker'[w].kind = k /\ worker'[w].gen = g
         /\ \A v \in Worker : v # w => worker'[v] = worker[v]
         /\ attempt' \in [Message -> AttemptRecord]
         /\ attempt'[<<k, g>>].state = "claimed"
         /\ \A n \in Message : n # <<k, g>> =>
               IF Expired(n) THEN attempt'[n].state = "cancelled" ELSE attempt'[n] = attempt[n]
<1>1. /\ k \in Kind /\ latest[k] \in Nat /\ latest[k] < MaxGeneration[k] /\ MaxGeneration[k] \in Nat
      /\ Claimable(k) /\ worker[w].phase = "claiming" /\ UNCHANGED <<lead, channel, flight, taken>>
      /\ latest' = [latest EXCEPT ![k] = g]
      /\ worker' = [worker EXCEPT ![w].phase = "claimed", ![w].gen = g]
      /\ attempt' = [m \in Message |->
                     IF m = <<k, g>> THEN [NoAttempt EXCEPT !.state = "claimed"]
                     ELSE IF Expired(m) THEN Cancelled
                     ELSE attempt[m]]
  BY MessageIs DEF ClaimNew, IInv, TypeOK, WorkerRecord
<1>2. g \in Nat /\ g \in 1..MaxGeneration[k]
  BY <1>1
<1>3. <<k, g>> \in Message /\ <<k, g>>[1] = k /\ <<k, g>>[2] = g
  BY <1>1, <1>2, MessageIs
<1>4. latest' \in [Kind -> Nat] /\ latest'[k] = g /\ \A j \in Kind : j # k => latest'[j] = latest[j]
  BY <1>1, <1>2 DEF IInv, TypeOK
<1>5. /\ [NoAttempt EXCEPT !.state = "claimed"] \in AttemptRecord
      /\ [NoAttempt EXCEPT !.state = "claimed"].state = "claimed"
  BY RecordsAre DEF NoAttempt, AttemptRecord, AttemptState, BlockingStates
<1>6. attempt' \in [Message -> AttemptRecord]
  BY <1>1, <1>5, RecordsAre DEF IInv, TypeOK
<1>7. /\ attempt'[<<k, g>>].state = "claimed"
      /\ \A n \in Message : n # <<k, g>> =>
               IF Expired(n) THEN attempt'[n].state = "cancelled" ELSE attempt'[n] = attempt[n]
  BY <1>1, <1>3, <1>5, RecordsAre
<1> DEFINE new == [worker[w] EXCEPT !.phase = "claimed", !.gen = g]
<1>8. new \in WorkerRecord /\ new.phase = "claimed" /\ new.kind = k /\ new.gen = g
  BY <1>2 DEF IInv, TypeOK, WorkerRecord, Phase
<1>9. worker' = [worker EXCEPT ![w] = new]
  BY <1>1 DEF IInv, TypeOK, WorkerRecord
<1> HIDE DEF new
<1>10. /\ worker' \in [Worker -> WorkerRecord] /\ worker'[w] = new
       /\ \A v \in Worker : v # w => worker'[v] = worker[v]
  BY <1>8, <1>9 DEF IInv, TypeOK
<1> QED BY <1>1, <1>2, <1>3, <1>4, <1>6, <1>7, <1>8, <1>10

LEMMA ClaimNewInv == ASSUME IInv, NEW w \in Worker, ClaimNew(w) PROVE IInv'
<1>1. PICK k : k = worker[w].kind
  OBVIOUS
<1>2. PICK g : g = latest[k] + 1
  OBVIOUS
<1>3. PICK m0 : m0 = <<k, g>>
  OBVIOUS
<1>4. /\ k \in Kind /\ g \in Nat /\ g \in 1..MaxGeneration[k]
      /\ m0 \in Message /\ m0[1] = k /\ m0[2] = g
      /\ Claimable(k) /\ worker[w].phase = "claiming"
      /\ UNCHANGED <<lead, channel, flight, taken>>
      /\ latest' \in [Kind -> Nat] /\ latest'[k] = g
      /\ \A j \in Kind : j # k => latest'[j] = latest[j]
      /\ worker' \in [Worker -> WorkerRecord]
      /\ worker'[w].phase = "claimed" /\ worker'[w].kind = k /\ worker'[w].gen = g
      /\ \A v \in Worker : v # w => worker'[v] = worker[v]
      /\ attempt' \in [Message -> AttemptRecord]
      /\ attempt'[m0].state = "claimed"
      /\ \A n \in Message : n # m0 =>
               IF Expired(n) THEN attempt'[n].state = "cancelled" ELSE attempt'[n] = attempt[n]
  BY <1>1, <1>2, <1>3, ClaimNewIs
<1>5. latest[k] \in Nat /\ g > latest[k] /\ attempt[m0].state = "none"
  <2>1. latest[k] \in Nat
    BY <1>4 DEF IInv, TypeOK
  <2> QED BY <1>2, <1>4, <2>1 DEF IInv, InOrder
<1>6. TypeOK' /\ LatestIsBounded'
  BY <1>4 DEF IInv, TypeOK, LatestIsBounded
<1>7. \A n \in Message : Blocks(n)' => n = m0
  <2> SUFFICES ASSUME NEW n \in Message, Blocks(n)', n # m0 PROVE FALSE
      OBVIOUS
  <2>1. ~Expired(n) /\ Blocks(n)
    BY <1>4 DEF Blocks, BlockingStates
  <2> QED BY <1>4, <2>1 DEF Claimable, Blocked, Blocks
<1>8. ASSUME NEW n \in Message PROVE OnNetwork(n)'
  <2>1. CASE n = m0
    BY <1>4, <1>5, <2>1 DEF IInv, OnNetwork
  <2>2. CASE n # m0 /\ Expired(n)
    BY <1>4, <2>2 DEF IInv, OnNetwork, Expired
  <2>3. CASE n # m0 /\ ~Expired(n)
    BY <1>4, <2>3 DEF IInv, OnNetwork
  <2> QED BY <2>1, <2>2, <2>3
<1>9. ASSUME NEW n \in Message PROVE InOrder(n)'
  <2>1. n[1] \in Kind /\ n[2] \in Nat /\ latest[n[1]] \in Nat /\ InOrder(n)
    BY MessageBounds DEF IInv
  <2>2. CASE n = m0
    BY <1>4, <2>1, <2>2 DEF InOrder
  <2>3. CASE n # m0
    <3>1. n[2] > latest'[n[1]] => attempt'[n].state = "none"
      <4>1. n[2] > latest'[n[1]] => n[2] > latest[n[1]]
        BY <1>2, <1>4, <1>5, <2>1
      <4>2. attempt[n].state = "none" => ~Expired(n)
        BY DEF Expired
      <4> QED BY <1>4, <2>1, <2>3, <4>1, <4>2 DEF InOrder
    <3>2. ~Blocks(n)'
      BY <1>7, <2>3
    <3>3. attempt'[n].state = "accepted" => attempt'[n] = attempt[n]
      BY <1>4, <2>3
    <3>4. attempt'[n].state = "accepted" /\ ~attempt'[n].aged => n[1] # k /\ n[2] = latest'[n[1]]
      BY <1>4, <2>1, <3>3, ClaimableIsClear DEF InOrder
    <3> QED BY <2>1, <3>1, <3>2, <3>3, <3>4 DEF InOrder
  <2> QED BY <2>2, <2>3
<1>10. OneUnderWay'
  BY <1>7 DEF OneUnderWay
<1>11. ASSUME NEW v \in Worker, v # w, Holds(v)
       PROVE  Current(v) # m0 /\ worker[v].gen <= latest'[worker[v].kind]
  <2>1. /\ worker[v].gen \in Nat /\ worker[v].kind \in Kind
        /\ worker[v].gen <= latest[worker[v].kind] /\ latest[worker[v].kind] \in Nat
    BY <1>11 DEF IInv, TypeOK, WorkerRecord, WorkerInv
  <2> QED BY <1>2, <1>3, <1>4, <1>5, <2>1 DEF Current
<1>12. Current(w)' = m0 /\ WorkerInv(w)'
  <2>1. Current(w)' = m0
    BY <1>3, <1>4 DEF Current
  <2> QED BY <1>4, <2>1 DEF WorkerInv, Holds, Holding
<1>13. ASSUME NEW v \in Worker, v # w PROVE WorkerInv(v)'
  <2>1. worker'[v] = worker[v] /\ Current(v)' = Current(v) /\ WorkerInv(v)
    BY <1>4, <1>13 DEF IInv, Current
  <2>2. CASE Holds(v)
    <3>1. PICK n \in Message : Current(v) = n
      BY <2>2, HolderIs
    <3>2. n # m0 /\ worker[v].gen <= latest'[worker[v].kind]
      BY <1>11, <1>13, <2>2, <3>1
    <3>3. /\ attempt[n].state = "claimed" => attempt'[n].state \in {"claimed", "cancelled"}
          /\ attempt[n].state # "claimed" => attempt'[n].state = attempt[n].state
      BY <1>4, <3>2 DEF Expired
    <3>4. worker[v].phase # "repair"
      BY <2>2 DEF Holds, Holding
    <3> QED BY <1>4, <2>1, <2>2, <3>1, <3>2, <3>3, <3>4 DEF WorkerInv, Holds, Holding
  <2>3. CASE ~Holds(v)
    <3>1. worker[v].phase = "repair" => worker[v].gen <= latest'[worker[v].kind]
      <4>1. SUFFICES ASSUME worker[v].phase = "repair" PROVE worker[v].gen <= latest'[worker[v].kind]
        OBVIOUS
      <4>2. /\ worker[v].gen \in Nat /\ worker[v].kind \in Kind
            /\ worker[v].gen <= latest[worker[v].kind] /\ latest[worker[v].kind] \in Nat
        BY <2>1, <4>1 DEF IInv, TypeOK, WorkerRecord, WorkerInv
      <4> QED BY <1>2, <1>4, <1>5, <4>2
    <3> QED BY <1>4, <2>1, <2>3, <3>1 DEF WorkerInv, Holds, Holding
  <2> QED BY <2>2, <2>3
<1>14. OneOwner'
  <2> SUFFICES ASSUME NEW v \in Worker, NEW u \in Worker, Holds(v)', Holds(u)',
                      Current(v)' = Current(u)', v # u
               PROVE FALSE
    BY DEF OneOwner
  <2>1. \A x \in Worker : x # w => (Holds(x)' <=> Holds(x)) /\ Current(x)' = Current(x)
    BY <1>4 DEF Holds, Current
  <2>2. CASE v = w
    BY <1>11, <1>12, <2>1, <2>2
  <2>3. CASE u = w
    BY <1>11, <1>12, <2>1, <2>3
  <2>4. CASE v # w /\ u # w
    BY <2>1, <2>4 DEF IInv, OneOwner
  <2> QED BY <2>2, <2>3, <2>4
<1>15. SummaryIsTrue'
  BY <1>4, SummaryStays
<1> QED BY <1>6, <1>8, <1>9, <1>10, <1>12, <1>13, <1>14, <1>15 DEF IInv
-----------------------------------------------------------------------------
LEMMA NextInv == IInv /\ [Next]_vars => IInv'
<1> SUFFICES ASSUME IInv, [Next]_vars PROVE IInv'
    OBVIOUS
<1>1. CASE UNCHANGED vars
  <2>1. /\ UNCHANGED <<lead, channel, latest, attempt, worker, flight, taken>>
        /\ worker' \in [Worker -> WorkerRecord]
    BY <1>1 DEF vars, IInv, TypeOK
  <2> QED BY <2>1, SilentInv
<1>2. ASSUME NEW w \in Worker, NEW k \in Kind, Sweep(w, k) PROVE IInv'
  BY <1>2, StartsSendingInv DEF Sweep
<1>3. ASSUME NEW w \in Worker, NotifyInbound(w) PROVE IInv'
  BY <1>3, StartsSendingInv DEF NotifyInbound, Kind
<1>4. ASSUME NEW w \in Worker, ClaimRefused(w) \/ Crash(w) PROVE IInv'
  BY <1>4, StopsInv DEF ClaimRefused, Crash
<1>5. ASSUME NEW w \in Worker,
             \/ ClaimFindsReceipt(w) \/ ClaimNew(w) \/ Prepare(w) \/ Handoff(w)
             \/ Send(w) \/ Answer(w) \/ Repair(w) \/ PrepareFails(w)
      PROVE  IInv'
  BY <1>5, ClaimFindsReceiptInv, ClaimNewInv, PrepareInv, HandoffInv, SendInv, AnswerInv, RepairInv,
     PrepareFailsInv
<1>6. CASE Reconfigure \/ Environment
  BY <1>6, ReviewInv, WorldInv, AgeInv, ServerTakesInv DEF Environment
<1> QED BY <1>1, <1>2, <1>3, <1>4, <1>5, <1>6 DEF Next, Proceeds, Fault

\* Whatever the processes, reviewers and the server do, attempts, mails and what
\* processes remember agree as IInv says (notification_attempts.py).
THEOREM InvariantHolds == Spec => []IInv
BY InitInv, NextInv, PTL DEF Spec

\* The columns the senders, the reviewer and the scheduler write keep their types.
THEOREM TypesHold == Spec => []TypeOK
<1>1. IInv => TypeOK
  BY DEF IInv
<1> QED BY <1>1, InvariantHolds, PTL

LEMMA TakenIs ==
  ASSUME IInv, NEW m \in taken
  PROVE  /\ m \in Message /\ attempt[m].state \in {"handoff", "unknown", "accepted"}
         /\ Blocks(m) \/ attempt[m].state = "accepted"
<1>1. m \in Message /\ OnNetwork(m) /\ attempt[m].state \in AttemptState
  BY DEF IInv, TypeOK, AttemptRecord
<1> QED BY <1>1 DEF OnNetwork, AttemptState, BlockingStates, Blocks

LEMMA NobodyIsMailedTwice == ASSUME IInv PROVE NoMailTwice
<1>1. OneInitialMail
  <2> DEFINE first == {m \in taken : m[1] = "initial"}
  <2>1. \A m \in first : m[2] = latest["initial"] /\ m = <<"initial", m[2]>>
    <3> SUFFICES ASSUME NEW m \in first PROVE m[2] = latest["initial"] /\ m = <<"initial", m[2]>>
        OBVIOUS
    <3>1. /\ m \in Message /\ InOrder(m) /\ m[1] = "initial"
          /\ Blocks(m) \/ attempt[m].state = "accepted"
      BY TakenIs DEF IInv
    <3> QED BY <3>1, MessageIs DEF InOrder
  <2>2. \A m, n \in first : m = n
    BY <2>1
  <2>3. first = {} \/ \E m : first = {m}
    BY <2>2
  <2>4. Cardinality(first) = 0 \/ Cardinality(first) = 1
    BY <2>3, FS_EmptySet, FS_Singleton
  <2> QED BY <2>4 DEF OneInitialMail
<1>2. NoBlindMail
  <2> SUFFICES ASSUME NEW w \in Worker, worker[w].phase = "sending"
               PROVE  /\ \A v \in Worker : worker[v].phase = "sending" => v = w
                      /\ flight = {}
                      /\ \A m \in taken : attempt[m].state = "accepted"
                      /\ \A m \in taken : m[1] = worker[w].kind =>
                            m[1] = "reminder" /\ attempt[m].aged
    BY DEF NoBlindMail
  <2>1. Holds(w) /\ WorkerInv(w)
    BY DEF IInv, Holds, Holding
  <2>2. PICK c \in Message : Current(w) = c
    BY <2>1, HolderIs
  <2>3. /\ attempt[c].state = "handoff" /\ Blocks(c) /\ c \notin flight /\ c \notin taken
    BY <2>1, <2>2 DEF WorkerInv, Blocks, BlockingStates
  <2>4. \A n \in Message : Blocks(n) => n = c
    BY <2>3 DEF IInv, OneUnderWay
  <2>5. ASSUME NEW v \in Worker, worker[v].phase = "sending" PROVE v = w
    <3>1. Holds(v) /\ WorkerInv(v)
      BY <2>5 DEF IInv, Holds, Holding
    <3>2. Current(v) \in Message /\ attempt[Current(v)].state = "handoff"
      BY <2>5, <3>1 DEF WorkerInv
    <3>3. Current(v) = c
      BY <2>4, <3>2 DEF Blocks, BlockingStates
    <3> QED BY <2>1, <2>2, <3>1, <3>3 DEF IInv, OneOwner
  <2>6. flight = {}
    <3> SUFFICES ASSUME NEW m \in flight PROVE FALSE
        OBVIOUS
    <3>1. m \in Message /\ OnNetwork(m) /\ attempt[m].state \in AttemptState
      BY DEF IInv, TypeOK, AttemptRecord
    <3>2. Blocks(m)
      BY <3>1 DEF OnNetwork, AttemptState, BlockingStates, Blocks
    <3> QED BY <2>3, <2>4, <3>1, <3>2
  <2>7. ASSUME NEW m \in taken PROVE attempt[m].state = "accepted" /\ m \in Message
    BY <2>3, <2>4, TakenIs
  <2>8. ASSUME NEW m \in taken, m[1] = worker[w].kind PROVE m[1] = "reminder" /\ attempt[m].aged
    <3>1. m \in Message /\ attempt[m].state = "accepted" /\ InOrder(m) /\ InOrder(c)
      BY <2>7 DEF IInv
    <3>2. c[1] = worker[w].kind /\ c[2] = latest[c[1]]
      BY <2>2, <2>3, <3>1 DEF Current, InOrder
    <3>3. m[2] = latest[m[1]] => m = c
      BY <2>8, <3>1, <3>2, MessageIs
    <3>4. attempt[m].aged
      BY <2>3, <3>1, <3>3 DEF InOrder
    <3>5. m[1] # "initial" /\ m[1] \in Kind
      BY <3>1, <3>4, MessageIs DEF InOrder
    <3> QED BY <3>4, <3>5 DEF Kind
  <2> QED BY <2>5, <2>6, <2>7, <2>8
<1> QED BY <1>1, <1>2 DEF NoMailTwice

\* The server never takes a second first mail of a lead, and a process about to
\* send is alone with everything before it on record: claim_notification and
\* begin_notification_handoff let no blind second mail out.
THEOREM NoSecondMail == Spec => []NoMailTwice
BY NobodyIsMailedTwice, InvariantHolds, PTL

\* "Sent" and the reminder time, which repair_notification_projection writes
\* from copies that may be old, are only shown of mails the server has.
THEOREM SummaryHolds == Spec => []SummaryIsTrue
<1>1. IInv => SummaryIsTrue
  BY DEF IInv
<1> QED BY <1>1, InvariantHolds, PTL
-----------------------------------------------------------------------------
(***************************************************************************)
(* The transitions of the table, and the slot the attempts of a lead are:  *)
(* what each step does to the states of the attempts and to the processes  *)
(* about to send.                                                          *)
(***************************************************************************)
StatesStay == \A m \in Message : attempt'[m].state = attempt[m].state

Became(m, state) ==
    /\ attempt'[m].state = state
    /\ \A n \in Message : n # m => attempt'[n].state = attempt[n].state

QuietSender(w) == worker[w].phase # "sending" /\ worker'[w].phase # "sending"

SendersStay == \A w \in Worker : worker'[w] = worker[w] \/ QuietSender(w)

LEMMA OneSender ==
  ASSUME NEW w \in Worker, QuietSender(w), \A v \in Worker : v # w => worker'[v] = worker[v]
  PROVE  SendersStay
<1> SUFFICES ASSUME NEW v \in Worker PROVE worker'[v] = worker[v] \/ QuietSender(v)
    BY DEF SendersStay
<1>1. CASE v = w
  BY <1>1
<1>2. CASE v # w
  BY <1>2
<1> QED BY <1>1, <1>2

LEMMA StopsQuietly ==
  ASSUME TypeOK, NEW w \in Worker, Stops(w), worker[w].phase # "sending"
  PROVE  SendersStay
BY StopsIs, OneSender DEF QuietSender

LEMMA UnchangedStays ==
  /\ UNCHANGED worker => SendersStay
  /\ UNCHANGED attempt => StatesStay
BY DEF SendersStay, StatesStay

LEMMA FinishSteps ==
  ASSUME IInv, NEW w \in Worker, NEW m \in Message, Current(w) = m,
         NEW outcome \in {"accepted", "failed", "unknown"}, NEW disabled \in BOOLEAN,
         Finish(w, outcome, disabled), worker[w].phase # "sending"
  PROVE  /\ SendersStay
         /\ \/ StatesStay
            \/ attempt[m].state \in FinishFrom(outcome) /\ Became(m, outcome)
<1>1. SendersStay
  <2>1. CASE Stops(w)
    BY <2>1, StopsQuietly DEF IInv
  <2>2. CASE worker' = [worker EXCEPT ![w].phase = "repair", ![w].seen = outcome]
    <3>1. LET p == [worker[w] EXCEPT !.phase = "repair", !.seen = outcome] IN p.phase = "repair"
      BY DEF IInv, TypeOK, WorkerRecord
    <3>2. worker'[w].phase = "repair" /\ \A v \in Worker : v # w => worker'[v] = worker[v]
      BY <2>2, <3>1 DEF IInv, TypeOK, WorkerRecord
    <3> QED BY <3>2, OneSender DEF QuietSender
  <2> QED BY <2>1, <2>2 DEF Finish
<1>2. CASE attempt[m].state \notin FinishFrom(outcome)
  BY <1>1, <1>2, UnchangedStays DEF Finish
<1>3. CASE attempt[m].state \in FinishFrom(outcome)
  <2>1. attempt' = [attempt EXCEPT ![m] = Ended(outcome, disabled)]
    BY <1>3 DEF Finish
  <2>2. Ended(outcome, disabled).state = outcome
    BY EndedIs DEF AttemptState, BlockingStates
  <2>3. Became(m, outcome)
    BY <2>1, <2>2 DEF Became, IInv, TypeOK
  <2> QED BY <1>1, <1>3, <2>3
<1> QED BY <1>2, <1>3

LEMMA HandoffSteps ==
  ASSUME IInv, NEW w \in Worker, NEW m \in Message, Current(w) = m, Handoff(w)
  PROVE  /\ UNCHANGED <<flight, taken>>
         /\ \/ SendersStay /\ StatesStay
            \/ SendersStay /\ attempt[m].state = "claimed" /\ Became(m, "cancelled")
            \/ /\ attempt[m].state = "claimed" /\ Became(m, "handoff")
               /\ worker'[w].phase = "sending" /\ Current(w)' = m
<1>1. worker[w].phase = "prepared" /\ UNCHANGED <<flight, taken>>
  BY DEF Handoff
<1>2. ASSUME Stops(w) PROVE SendersStay
  BY <1>1, <1>2, StopsQuietly DEF IInv
<1>3. CASE attempt[m].state # "claimed" /\ Stops(w) /\ UNCHANGED attempt
  BY <1>1, <1>2, <1>3, UnchangedStays
<1>4. CASE attempt[m].state = "claimed" /\ attempt' = [attempt EXCEPT ![m] = Cancelled] /\ Stops(w)
  <2>1. Became(m, "cancelled")
    BY <1>4, RecordsAre DEF Became, IInv, TypeOK
  <2> QED BY <1>1, <1>2, <1>4, <2>1
<1>5. CASE /\ attempt[m].state = "claimed"
           /\ attempt' = [attempt EXCEPT ![m].state = "handoff", ![m].aged = FALSE]
           /\ Goes(w, "sending")
  <2>1. Became(m, "handoff")
    BY <1>5 DEF Became, IInv, TypeOK, AttemptRecord
  <2>2. worker'[w].phase = "sending" /\ Current(w)' = m
    BY <1>5, GoesIs DEF IInv, Phase, Current
  <2> QED BY <1>1, <1>5, <2>1, <2>2
<1> QED BY <1>3, <1>4, <1>5 DEF Handoff

LEMMA ReviewSteps ==
  ASSUME IInv, Review
  PROVE  /\ UNCHANGED <<worker, flight, taken>>
         /\ \E m \in Message :
               /\ attempt[m].state \in {"handoff", "unknown"}
               /\ \/ m \in taken /\ Became(m, "accepted")
                  \/ m \notin taken /\ Stopped(m) /\ Became(m, "failed")
<1>1. PICK m \in Message :
        /\ Reviewable(m)
        /\ \/ m \in taken /\ ReviewAs(m, "accepted")
           \/ m \notin taken /\ Stopped(m) /\ ReviewAs(m, "failed")
  BY DEF Review
<1>2. ASSUME NEW outcome \in {"accepted", "failed"}, ReviewAs(m, outcome), outcome = "accepted" => m \in taken
      PROVE  Became(m, outcome)
  <2> DEFINE ended == [attempt EXCEPT ![m] = Ended(outcome, FALSE)]
  <2>1. Ended(outcome, FALSE) \in AttemptRecord /\ Ended(outcome, FALSE).state = outcome
    BY EndedIs DEF AttemptState, BlockingStates
  <2>2. /\ ended \in [Message -> AttemptRecord] /\ ended[m].state = outcome
        /\ \A n \in Message : n # m => ended[n] = attempt[n]
    BY <2>1 DEF IInv, TypeOK
  <2>3. Project(m[1], m[2], outcome, ended) /\ taken' = taken
    BY <1>2 DEF ReviewAs
  <2> HIDE DEF ended
  <2>4. SameStates(ended, attempt')
    BY <1>2, <2>2, <2>3, ProjectIs
  <2> QED BY <2>2, <2>4 DEF SameStates, Became
<1>3. UNCHANGED <<worker, flight, taken>>
  BY <1>1 DEF ReviewAs
<1>4. attempt[m].state \in {"handoff", "unknown"}
  BY <1>1 DEF Reviewable
<1> QED BY <1>1, <1>2, <1>3, <1>4

\* Steps that change no state of an attempt and leave the processes about to
\* send alone: all but those above, a claim, a send and the end of a sender.
LEMMA ProjectSteps ==
  ASSUME IInv, NEW w \in Worker, ClaimFindsReceipt(w) \/ Repair(w)
  PROVE  SendersStay /\ StatesStay /\ UNCHANGED <<flight, taken>>
<1>1. PICK k, g, seen : Project(k, g, seen, attempt)
  BY DEF ClaimFindsReceipt, Repair
<1>2. StatesStay
  BY <1>1, OutdatedIs DEF Project, SameStates, StatesStay, IInv, TypeOK
<1>3. Stops(w) /\ worker[w].phase # "sending" /\ UNCHANGED <<flight, taken>>
  BY DEF ClaimFindsReceipt, Repair
<1>4. SendersStay
  BY <1>3, StopsQuietly DEF IInv
<1> QED BY <1>2, <1>3, <1>4

LEMMA StartsSendingSteps ==
  ASSUME IInv, NEW w \in Worker, NEW k \in Kind, StartsSending(w, k)
  PROVE  SendersStay /\ StatesStay /\ UNCHANGED <<flight, taken>>
<1>1. /\ worker[w].phase = "idle"
      /\ worker' = [worker EXCEPT ![w].phase = "claiming", ![w].kind = k]
      /\ UNCHANGED <<attempt, flight, taken>>
  BY DEF StartsSending
<1>2. worker'[w].phase = "claiming" /\ \A v \in Worker : v # w => worker'[v] = worker[v]
  BY <1>1 DEF IInv, TypeOK, WorkerRecord
<1>3. SendersStay
  BY <1>1, <1>2, OneSender DEF QuietSender
<1> QED BY <1>1, <1>3, UnchangedStays

LEMMA ProcessSteps ==
  ASSUME IInv, NEW w \in Worker, ClaimRefused(w) \/ Prepare(w)
  PROVE  SendersStay /\ StatesStay /\ UNCHANGED <<flight, taken>>
<1>1. CASE ClaimRefused(w)
  <2>1. Stops(w) /\ worker[w].phase = "claiming" /\ UNCHANGED <<attempt, flight, taken>>
    BY <1>1 DEF ClaimRefused
  <2> QED BY <2>1, StopsQuietly, UnchangedStays DEF IInv
<1>2. CASE Prepare(w)
  <2>1. /\ Goes(w, "prepared") /\ "prepared" \in Phase /\ worker[w].phase = "claimed"
        /\ UNCHANGED <<attempt, flight, taken>>
    BY <1>2 DEF Prepare, Phase
  <2>2. worker'[w].phase = "prepared" /\ \A v \in Worker : v # w => worker'[v] = worker[v]
    BY <2>1, GoesIs DEF IInv
  <2> QED BY <2>1, <2>2, OneSender, UnchangedStays DEF QuietSender
<1> QED BY <1>1, <1>2

LEMMA WorldSteps ==
  ASSUME IInv, UNCHANGED vars \/ Edit \/ TrashOrRestore \/ MoveStage \/ Reconfigure \/ Age
  PROVE  SendersStay /\ StatesStay /\ UNCHANGED <<flight, taken>>
<1>1. UNCHANGED <<worker, flight, taken>>
  BY DEF vars, Edit, TrashOrRestore, MoveStage, Reconfigure, Age
<1>2. ASSUME attempt' \in {attempt, Outdated(attempt)} PROVE StatesStay
  BY <1>2, OutdatedIs DEF SameStates, StatesStay, IInv, TypeOK
<1>3. ASSUME Age PROVE StatesStay
  BY <1>3, AgeIs DEF SameStates, StatesStay, IInv
<1>4. StatesStay
  BY <1>2, <1>3 DEF vars, Edit, TrashOrRestore, MoveStage, Reconfigure
<1> QED BY <1>1, <1>4, UnchangedStays

LEMMA ClaimNewSteps ==
  ASSUME IInv, NEW w \in Worker, ClaimNew(w)
  PROVE  /\ UNCHANGED <<flight, taken>> /\ SendersStay
         /\ \A n \in Message : Blocks(n) => Expired(n)
         /\ \E m \in Message :
               /\ attempt[m].state = "none" /\ attempt'[m].state = "claimed"
               /\ \A n \in Message : n # m =>
                     attempt'[n].state = IF Expired(n) THEN "cancelled" ELSE attempt[n].state
<1>1. PICK k : k = worker[w].kind
  OBVIOUS
<1>2. PICK g : g = latest[k] + 1
  OBVIOUS
<1>3. /\ k \in Kind /\ <<k, g>> \in Message /\ <<k, g>>[1] = k /\ <<k, g>>[2] = g
      /\ Claimable(k) /\ worker[w].phase = "claiming" /\ UNCHANGED <<flight, taken>>
      /\ worker'[w].phase = "claimed"
      /\ latest[k] \in Nat
  BY <1>1, <1>2, ClaimNewIs DEF IInv, TypeOK
<1>4. PICK m \in Message : m = <<k, g>>
  BY <1>3
<1>5. /\ worker' = [worker EXCEPT ![w].phase = "claimed", ![w].gen = g]
      /\ attempt' = [n \in Message |->
                       IF n = m THEN [NoAttempt EXCEPT !.state = "claimed"]
                       ELSE IF Expired(n) THEN Cancelled ELSE attempt[n]]
  BY <1>1, <1>2, <1>4 DEF ClaimNew
<1>6. SendersStay
  <2>1. \A v \in Worker : v # w => worker'[v] = worker[v]
    BY <1>5 DEF IInv, TypeOK
  <2> QED BY <1>3, <2>1, OneSender DEF QuietSender
<1>7. attempt[m].state = "none"
  <2>1. m[2] > latest[m[1]]
    BY <1>2, <1>3, <1>4
  <2> QED BY <2>1 DEF IInv, InOrder
<1>8. \A n \in Message : Blocks(n) => Expired(n)
  BY <1>3 DEF Claimable, Blocked, Blocks
<1>9. [NoAttempt EXCEPT !.state = "claimed"].state = "claimed"
  BY DEF NoAttempt
<1>10. attempt'[m].state = "claimed"
  BY <1>5, <1>9
<1>11. ASSUME NEW n \in Message, n # m
       PROVE  attempt'[n].state = IF Expired(n) THEN "cancelled" ELSE attempt[n].state
  BY <1>5, <1>11, RecordsAre
<1> QED BY <1>3, <1>6, <1>7, <1>8, <1>10, <1>11
-----------------------------------------------------------------------------
Took(m) == attempt[m].state # attempt'[m].state =>
              <<attempt[m].state, attempt'[m].state>> \in Transition

LEMMA BecameTook ==
  ASSUME NEW m \in Message, NEW to, <<attempt[m].state, to>> \in Transition, Became(m, to)
  PROVE  \A n \in Message : Took(n)
BY DEF Took, Became

LEMMA StayedTook == StatesStay => \A m \in Message : Took(m)
BY DEF StatesStay, Took

LEMMA FinishTook ==
  ASSUME IInv, NEW w \in Worker, NEW outcome \in {"accepted", "failed", "unknown"},
         NEW disabled \in BOOLEAN, Finish(w, outcome, disabled), Holds(w), worker[w].phase # "sending"
  PROVE  \A m \in Message : Took(m)
<1>1. PICK m \in Message : Current(w) = m
  BY HolderIs
<1>2. \/ StatesStay
      \/ attempt[m].state \in FinishFrom(outcome) /\ Became(m, outcome)
  BY <1>1, FinishSteps
<1>3. \A from \in FinishFrom(outcome) : <<from, outcome>> \in Transition
  BY DEF FinishFrom, Transition
<1> QED BY <1>2, <1>3, BecameTook, StayedTook

LEMMA EveryStepTook == ASSUME IInv, [Next]_vars PROVE \A m \in Message : Took(m)
<1>1. ASSUME NEW w \in Worker, Handoff(w) PROVE \A m \in Message : Took(m)
  <2>1. PICK m \in Message : Current(w) = m
    BY <1>1, HolderIs DEF Handoff, Holds, Holding
  <2>2. <<"claimed", "cancelled">> \in Transition /\ <<"claimed", "handoff">> \in Transition
    BY DEF Transition
  <2> QED BY <1>1, <2>1, <2>2, HandoffSteps, BecameTook, StayedTook
<1>2. ASSUME NEW w \in Worker, PrepareFails(w) PROVE \A m \in Message : Took(m)
  <2>1. Holds(w) /\ worker[w].phase # "sending" /\ Finish(w, "failed", channel \in PolicyDisabled)
    BY <1>2 DEF PrepareFails, Holds, Holding
  <2>2. (channel \in PolicyDisabled) \in BOOLEAN
    OBVIOUS
  <2> QED BY <2>1, <2>2, FinishTook
<1>3. ASSUME NEW w \in Worker, Answer(w) PROVE \A m \in Message : Took(m)
  <2>1. Holds(w) /\ worker[w].phase # "sending"
    BY <1>3 DEF Answer, Holds, Holding
  <2>2. Finish(w, "accepted", FALSE) \/ Finish(w, "failed", FALSE) \/ Finish(w, "unknown", FALSE)
    BY <1>3 DEF Answer
  <2> QED BY <2>1, <2>2, FinishTook
<1>4. CASE Review
  <2>1. \A from \in {"handoff", "unknown"} : \A to \in {"accepted", "failed"} : <<from, to>> \in Transition
    BY DEF Transition
  <2> QED BY <1>4, <2>1, ReviewSteps, BecameTook
<1>5. ASSUME NEW w \in Worker, ClaimNew(w) PROVE \A m \in Message : Took(m)
  <2>1. PICK m \in Message :
          /\ attempt[m].state = "none" /\ attempt'[m].state = "claimed"
          /\ \A n \in Message : n # m =>
                attempt'[n].state = IF Expired(n) THEN "cancelled" ELSE attempt[n].state
    BY <1>5, ClaimNewSteps
  <2> SUFFICES ASSUME NEW n \in Message PROVE Took(n)
      OBVIOUS
  <2>2. CASE n = m
    BY <2>1, <2>2 DEF Took, Transition
  <2>3. CASE n # m
    BY <2>1, <2>3 DEF Took, Transition, Expired
  <2> QED BY <2>2, <2>3
<1>6. ASSUME NEW w \in Worker, Send(w) \/ Crash(w) PROVE \A m \in Message : Took(m)
  BY <1>6 DEF Send, Crash, Took
<1>7. CASE ServerTakes
  BY <1>7 DEF ServerTakes, Took
<1>8. ASSUME NEW w \in Worker, ClaimFindsReceipt(w) \/ Repair(w) PROVE StatesStay
  BY <1>8, ProjectSteps
<1>9. ASSUME NEW w \in Worker, NEW k \in Kind, Sweep(w, k) PROVE StatesStay
  BY <1>9, StartsSendingSteps DEF Sweep
<1>10. ASSUME NEW w \in Worker, NotifyInbound(w) PROVE StatesStay
  BY <1>10, StartsSendingSteps DEF NotifyInbound, Kind
<1>11. ASSUME NEW w \in Worker, ClaimRefused(w) \/ Prepare(w) PROVE StatesStay
  BY <1>11, ProcessSteps
<1>12. CASE UNCHANGED vars \/ Edit \/ TrashOrRestore \/ MoveStage \/ Reconfigure \/ Age
  BY <1>12, WorldSteps, StayedTook
<1>13. ASSUME NEW w \in Worker, Proceeds(w) \/ Fault(w) PROVE \A m \in Message : Took(m)
  BY <1>1, <1>2, <1>3, <1>5, <1>6, <1>8, <1>11, <1>13, StayedTook DEF Proceeds, Fault
<1> QED BY <1>4, <1>7, <1>9, <1>10, <1>12, <1>13, StayedTook DEF Next, Environment

\* No transaction of a sender or a reviewer is rejected by the table halfway: it
\* only makes transitions guard_notification_attempt_update allows, and leaves
\* one active attempt of the lead.
THEOREM TableAcceptsEveryStep == Spec => TableNeverRejects
<1>1. IInv /\ IInv' /\ [Next]_vars => [TableAccepts]_vars
  <2> SUFFICES ASSUME IInv, IInv', [Next]_vars PROVE TableAccepts
      OBVIOUS
  <2>1. \A m \in Message : Took(m)
    BY EveryStepTook
  <2>2. OneUnderWay'
    BY DEF IInv
  <2> QED BY <2>1, <2>2 DEF TableAccepts, Took, OneUnderWay, Blocks
<1> QED BY <1>1, InvariantHolds, PTL DEF Spec, TableNeverRejects
-----------------------------------------------------------------------------
(***************************************************************************)
(* The attempts of a lead are a delivery slot: the slot is held by the one *)
(* attempt under way, and how far it went is where its mail is.            *)
(***************************************************************************)
Accepted == {m \in Message : attempt[m].state = "accepted"}

SlotStays == UNCHANGED <<SlotOf, taken, Accepted>>

LEMMA HeldSlot ==
  ASSUME OneUnderWay, NEW m \in Message, Blocks(m)
  PROVE  SlotOf = [at |-> SlotStage(m), message |-> m]
<1>1. \A n \in Message : attempt[n].state \in BlockingStates => n = m
  BY DEF OneUnderWay, Blocks
<1>2. m = CHOOSE n \in Message : attempt[n].state \in BlockingStates
  BY <1>1 DEF Blocks
<1> QED BY <1>2 DEF SlotOf, Blocks

LEMMA HeldSlotNext ==
  ASSUME OneUnderWay', NEW m \in Message, Blocks(m)'
  PROVE  SlotOf' = [at |-> SlotStage(m)', message |-> m]
<1>1. \A n \in Message : attempt'[n].state \in BlockingStates => n = m
  BY DEF OneUnderWay, Blocks
<1>2. m = CHOOSE n \in Message : attempt'[n].state \in BlockingStates
  BY <1>1 DEF Blocks
<1> QED BY <1>2 DEF SlotOf, Blocks, SlotStage, Stopped, Current

LEMMA FreeSlot == (\A m \in Message : ~Blocks(m)) => SlotOf = SlotFree
BY DEF SlotOf, Blocks

LEMMA FreeSlotNext == (\A m \in Message : ~Blocks(m)') => SlotOf' = SlotFree
BY DEF SlotOf, SlotFree, Blocks

\* Nobody else is about to send the mail of an attempt.
LEMMA StoppedIs ==
  ASSUME IInv, NEW m \in Message, \/ m \in flight \cup taken
                                  \/ \E w \in Worker : Holds(w) /\ worker[w].phase # "sending" /\ Current(w) = m
  PROVE  \A v \in Worker : ~(worker[v].phase = "sending" /\ Current(v) = m)
<1> SUFFICES ASSUME NEW v \in Worker, worker[v].phase = "sending", Current(v) = m PROVE FALSE
    OBVIOUS
<1>1. Holds(v) /\ m \notin flight /\ m \notin taken
  BY DEF IInv, WorkerInv, Holds, Holding
<1> QED BY <1>1 DEF IInv, OneOwner

\* A step that leaves the mails, the senders and the states alone leaves the slot
\* alone; it also may turn an attempt from one state after the handoff to another.
SameSide(m) ==
    /\ attempt[m].state \in BlockingStates <=> attempt'[m].state \in BlockingStates
    /\ attempt[m].state = "claimed" <=> attempt'[m].state = "claimed"
    /\ attempt[m].state = "accepted" <=> attempt'[m].state = "accepted"

LEMMA StagesStay ==
  ASSUME UNCHANGED flight, SendersStay, NEW m \in Message, SameSide(m)
  PROVE  SlotStage(m)' = SlotStage(m)
<1>1. Stopped(m)' <=> Stopped(m)
  BY DEF Stopped, SendersStay, QuietSender, Current
<1> QED BY <1>1 DEF SlotStage, SameSide

LEMMA SlotIsLeftAlone ==
  ASSUME IInv, IInv', UNCHANGED <<flight, taken>>, SendersStay, \A m \in Message : SameSide(m)
  PROVE  SlotStays
<1>1. Accepted' = Accepted
  BY DEF Accepted, SameSide
<1>2. SlotOf' = SlotOf
  <2>1. CASE \A m \in Message : ~Blocks(m)
    BY <2>1, FreeSlot, FreeSlotNext DEF SameSide, Blocks
  <2>2. CASE \E m \in Message : Blocks(m)
    <3>1. PICK m \in Message : Blocks(m)
      BY <2>2
    <3>2. Blocks(m)'
      BY <3>1 DEF SameSide, Blocks
    <3>3. OneUnderWay /\ OneUnderWay'
      BY DEF IInv
    <3>4. SlotStage(m)' = SlotStage(m)
      BY StagesStay
    <3> QED BY <3>1, <3>2, <3>3, <3>4, HeldSlot, HeldSlotNext
  <2> QED BY <2>1, <2>2
<1> QED BY <1>1, <1>2 DEF SlotStays

LEMMA StatesStaySlot ==
  ASSUME IInv, IInv', UNCHANGED <<flight, taken>>, SendersStay, StatesStay
  PROVE  SlotStays
BY SlotIsLeftAlone DEF SameSide, StatesStay

\* The outcome of an attempt whose mail nobody can still send is recorded.
LEMMA SettleSlot ==
  ASSUME IInv, IInv', UNCHANGED <<flight, taken>>, NEW m \in Message,
         attempt[m].state \in {"handoff", "unknown"}, Stopped(m),
         \/ m \in taken /\ Became(m, "accepted")
         \/ m \notin taken /\ Became(m, "failed")
  PROVE  Slot!Settle
<1>1. Blocks(m) /\ OneUnderWay
  BY DEF Blocks, BlockingStates, IInv
<1>2. SlotOf = [at |-> "over", message |-> m]
  <2>1. SlotStage(m) = "over"
    BY DEF SlotStage, Stopped
  <2> QED BY <1>1, <2>1, HeldSlot
<1>3. \A n \in Message : ~Blocks(n)'
  BY <1>1 DEF Became, Blocks, BlockingStates, OneUnderWay
<1>4. SlotOf' = SlotFree
  BY <1>3, FreeSlotNext
<1>5. {n \in Message : attempt[n].state = "accepted"}'
         = {n \in Message : attempt[n].state = "accepted"} \cup (taken \cap {m})
  BY DEF Became
<1> QED BY <1>2, <1>4, <1>5 DEF Slot!Settle, Slot!Free, SlotFree

\* A claim that never got to the handoff is given up.
LEMMA ReleaseSlot ==
  ASSUME IInv, IInv', UNCHANGED <<flight, taken>>, NEW m \in Message,
         attempt[m].state = "claimed", Became(m, "failed") \/ Became(m, "cancelled")
  PROVE  Slot!Release
<1>1. Blocks(m) /\ OneUnderWay
  BY DEF Blocks, BlockingStates, IInv
<1>2. SlotOf = [at |-> "claimed", message |-> m]
  <2>1. SlotStage(m) = "claimed"
    BY DEF SlotStage
  <2> QED BY <1>1, <2>1, HeldSlot
<1>3. \A n \in Message : ~Blocks(n)'
  BY <1>1 DEF Became, Blocks, BlockingStates, OneUnderWay
<1>4. SlotOf' = SlotFree
  BY <1>3, FreeSlotNext
<1>5. {n \in Message : attempt[n].state = "accepted"}' = {n \in Message : attempt[n].state = "accepted"}
  BY DEF Became
<1> QED BY <1>2, <1>4, <1>5 DEF Slot!Release, Slot!Free, SlotFree

LEMMA FinishSlot ==
  ASSUME IInv, IInv', UNCHANGED <<flight, taken>>, NEW w \in Worker, Holds(w), worker[w].phase # "sending",
         NEW outcome \in {"accepted", "failed", "unknown"}, NEW disabled \in BOOLEAN,
         Finish(w, outcome, disabled),
         outcome = "accepted" => Current(w) \in taken,
         outcome = "failed" => Current(w) \notin taken \cup flight
  PROVE  Slot!Settle \/ Slot!Release \/ SlotStays
<1>1. PICK m \in Message : Current(w) = m
  BY HolderIs
<1>2. /\ SendersStay
      /\ StatesStay \/ (attempt[m].state \in FinishFrom(outcome) /\ Became(m, outcome))
  BY <1>1, FinishSteps
<1>3. CASE StatesStay
  BY <1>2, <1>3, StatesStaySlot
<1>4. CASE outcome = "unknown" /\ attempt[m].state = "handoff" /\ Became(m, "unknown")
  <2>1. \A n \in Message : SameSide(n)
    BY <1>4 DEF SameSide, Became, BlockingStates
  <2> QED BY <1>2, <2>1, SlotIsLeftAlone
<1>5. CASE outcome = "failed" /\ attempt[m].state = "claimed" /\ Became(m, "failed")
  BY <1>5, ReleaseSlot
<1>6. CASE outcome # "unknown" /\ attempt[m].state = "handoff" /\ Became(m, outcome)
  <2>1. m \notin flight
    BY <1>1, <1>6 DEF IInv, OnNetwork
  <2>2. Stopped(m)
    BY <1>1, <2>1, StoppedIs DEF Stopped
  <2> QED BY <1>1, <1>6, <2>2, SettleSlot
<1> QED BY <1>2, <1>3, <1>4, <1>5, <1>6 DEF FinishFrom

LEMMA HandoffSlot ==
  ASSUME IInv, IInv', NEW w \in Worker, Handoff(w)
  PROVE  Slot!HandOff \/ Slot!Release \/ SlotStays
<1>1. PICK m \in Message : Current(w) = m
  BY HolderIs DEF Handoff, Holds, Holding
<1>2. CASE SendersStay /\ StatesStay
  BY <1>1, <1>2, HandoffSteps, StatesStaySlot
<1>3. CASE attempt[m].state = "claimed" /\ Became(m, "cancelled")
  BY <1>1, <1>3, HandoffSteps, ReleaseSlot
<1>4. CASE /\ attempt[m].state = "claimed" /\ Became(m, "handoff")
           /\ worker'[w].phase = "sending" /\ Current(w)' = m
  <2>1. UNCHANGED <<flight, taken>>
    BY <1>1, HandoffSteps
  <2>2. SlotStage(m) = "claimed" /\ Blocks(m) /\ Blocks(m)' /\ OneUnderWay /\ OneUnderWay'
    BY <1>4 DEF SlotStage, Blocks, BlockingStates, Became, IInv
  <2>3. ~Stopped(m)' /\ m \notin flight'
    BY <1>4, <2>1 DEF Stopped, IInv, OnNetwork
  <2>4. SlotStage(m)' = "unsent"
    BY <1>4, <2>3 DEF SlotStage, Became
  <2>5. SlotOf = [at |-> "claimed", message |-> m] /\ SlotOf' = [at |-> "unsent", message |-> m]
    BY <2>2, <2>4, HeldSlot, HeldSlotNext
  <2>6. {n \in Message : attempt[n].state = "accepted"}' = {n \in Message : attempt[n].state = "accepted"}
    BY <1>4 DEF Became
  <2> QED BY <2>1, <2>5, <2>6 DEF Slot!HandOff, Slot!Moves, Slot!Held
<1> QED BY <1>1, <1>2, <1>3, <1>4, HandoffSteps

LEMMA SenderIs ==
  ASSUME IInv, NEW w \in Worker, worker[w].phase = "sending", NEW m \in Message, Current(w) = m
  PROVE  /\ attempt[m].state = "handoff" /\ m \notin flight /\ Blocks(m)
         /\ SlotStage(m) = "unsent"
         /\ \A v \in Worker : worker[v].phase = "sending" /\ Current(v) = m => v = w
<1>1. attempt[m].state = "handoff" /\ m \notin flight
  BY DEF IInv, WorkerInv
<1>2. SlotStage(m) = "unsent"
  BY <1>1 DEF SlotStage, Stopped
<1>3. \A v \in Worker : worker[v].phase = "sending" /\ Current(v) = m => v = w
  BY DEF IInv, OneOwner, Holds, Holding
<1> QED BY <1>1, <1>2, <1>3 DEF Blocks, BlockingStates

LEMMA SendSlot == ASSUME IInv, IInv', NEW w \in Worker, Send(w) PROVE Slot!Post
<1>1. PICK m \in Message : Current(w) = m
  BY HolderIs DEF Send, Holds, Holding
<1>2. worker[w].phase = "sending" /\ flight' = flight \cup {m} /\ UNCHANGED <<attempt, taken>>
  BY <1>1 DEF Send
<1>3. attempt[m].state = "handoff" /\ Blocks(m) /\ SlotStage(m) = "unsent"
  BY <1>1, <1>2, SenderIs
<1>4. SlotStage(m)' = "travelling" /\ Blocks(m)'
  BY <1>2, <1>3 DEF SlotStage, Blocks
<1>5. SlotOf = [at |-> "unsent", message |-> m] /\ SlotOf' = [at |-> "travelling", message |-> m]
  BY <1>3, <1>4, HeldSlot, HeldSlotNext DEF IInv
<1> QED BY <1>2, <1>5 DEF Slot!Post, Slot!Moves, Slot!Held

LEMMA CrashSlot == ASSUME IInv, IInv', NEW w \in Worker, Crash(w) PROVE Slot!SenderDies \/ SlotStays
<1>1. Stops(w) /\ UNCHANGED <<attempt, flight, taken>>
  BY DEF Crash
<1>2. CASE worker[w].phase # "sending"
  BY <1>1, <1>2, StopsQuietly, UnchangedStays, StatesStaySlot DEF IInv
<1>3. CASE worker[w].phase = "sending"
  <2>1. PICK m \in Message : Current(w) = m
    BY <1>3, HolderIs DEF Holds, Holding
  <2>2. /\ attempt[m].state = "handoff" /\ m \notin flight /\ Blocks(m) /\ SlotStage(m) = "unsent"
        /\ \A v \in Worker : worker[v].phase = "sending" /\ Current(v) = m => v = w
    BY <1>3, <2>1, SenderIs
  <2>3. worker'[w].phase = "idle" /\ \A v \in Worker : v # w => worker'[v] = worker[v]
    BY <1>1, StopsIs DEF IInv
  <2>4. ASSUME NEW v \in Worker PROVE ~(worker'[v].phase = "sending" /\ Current(v)' = m)
    <3>1. CASE v = w
      BY <2>3, <3>1
    <3>2. CASE v # w
      BY <2>2, <2>3, <3>2 DEF Current
    <3> QED BY <3>1, <3>2
  <2>5. Stopped(m)'
    BY <1>1, <2>2, <2>4 DEF Stopped
  <2>6. SlotStage(m)' = "over" /\ Blocks(m)'
    BY <1>1, <2>2, <2>5 DEF SlotStage, Blocks
  <2>7. SlotOf = [at |-> "unsent", message |-> m] /\ SlotOf' = [at |-> "over", message |-> m]
    BY <2>2, <2>6, HeldSlot, HeldSlotNext DEF IInv
  <2> QED BY <1>1, <2>7 DEF Slot!SenderDies, Slot!Moves, Slot!Held
<1> QED BY <1>2, <1>3

LEMMA ArriveSlot == ASSUME IInv, IInv', ServerTakes PROVE Slot!Arrive
<1>1. PICK m \in flight : flight' = flight \ {m} /\ taken' \in {taken, taken \cup {m}}
  BY DEF ServerTakes
<1>2. UNCHANGED <<attempt, worker>>
  BY DEF ServerTakes
<1>3. m \in Message /\ OnNetwork(m) /\ attempt[m].state \in AttemptState
  BY DEF IInv, TypeOK, AttemptRecord
<1>4. Blocks(m) /\ attempt[m].state # "claimed"
  BY <1>3 DEF OnNetwork, AttemptState, BlockingStates, Blocks
<1>5. SlotStage(m) = "travelling"
  BY <1>4 DEF SlotStage
<1>6. Stopped(m)' /\ Blocks(m)'
  BY <1>1, <1>2, <1>3, <1>4, StoppedIs DEF Stopped, Current, Blocks
<1>7. SlotStage(m)' = "over"
  BY <1>1, <1>2, <1>4, <1>6 DEF SlotStage
<1>8. SlotOf = [at |-> "travelling", message |-> m] /\ SlotOf' = [at |-> "over", message |-> m]
  BY <1>3, <1>4, <1>5, <1>6, <1>7, HeldSlot, HeldSlotNext DEF IInv
<1> QED BY <1>1, <1>2, <1>8 DEF Slot!Arrive, Slot!Moves, Slot!Held

LEMMA ClaimSlot == ASSUME IInv, IInv', NEW w \in Worker, ClaimNew(w) PROVE Slot!Claim
<1>1. UNCHANGED <<flight, taken>> /\ \A n \in Message : Blocks(n) => Expired(n)
  BY ClaimNewSteps
<1>2. PICK m \in Message :
        /\ attempt[m].state = "none" /\ attempt'[m].state = "claimed"
        /\ \A n \in Message : n # m =>
              attempt'[n].state = IF Expired(n) THEN "cancelled" ELSE attempt[n].state
  BY ClaimNewSteps
<1>3. SlotOf.at \in {"free", "claimed"}
  <2>1. CASE \A n \in Message : ~Blocks(n)
    BY <2>1, FreeSlot DEF SlotFree
  <2>2. CASE \E n \in Message : Blocks(n)
    <3>1. PICK n \in Message : Blocks(n)
      BY <2>2
    <3>2. SlotStage(n) = "claimed"
      BY <1>1, <3>1 DEF Expired, SlotStage
    <3> QED BY <3>1, <3>2, HeldSlot DEF IInv
  <2> QED BY <2>1, <2>2
<1>4. SlotOf' = [at |-> "claimed", message |-> m]
  <2>1. Blocks(m)' /\ SlotStage(m)' = "claimed"
    BY <1>2 DEF Blocks, BlockingStates, SlotStage
  <2> QED BY <2>1, HeldSlotNext DEF IInv
<1>5. m \notin taken
  BY <1>2 DEF IInv, OnNetwork
<1>6. {n \in Message : attempt[n].state = "accepted"}' = {n \in Message : attempt[n].state = "accepted"}
  <2> SUFFICES ASSUME NEW n \in Message PROVE attempt'[n].state = "accepted" <=> attempt[n].state = "accepted"
      OBVIOUS
  <2>1. CASE n = m
    BY <1>2, <2>1
  <2>2. CASE n # m
    BY <1>2, <2>2 DEF Expired
  <2> QED BY <2>1, <2>2
<1> QED BY <1>1, <1>3, <1>4, <1>5, <1>6 DEF Slot!Claim, Slot!Held

LEMMA ReviewSlot == ASSUME IInv, IInv', Review PROVE Slot!Settle
<1>1. PICK m \in Message :
        /\ attempt[m].state \in {"handoff", "unknown"}
        /\ \/ m \in taken /\ Became(m, "accepted")
           \/ m \notin taken /\ Stopped(m) /\ Became(m, "failed")
  BY ReviewSteps
<1>2. UNCHANGED <<flight, taken>>
  BY ReviewSteps
<1>3. Stopped(m)
  <2>1. CASE m \in taken
    <3>1. m \notin flight
      BY <2>1 DEF IInv, OnNetwork
    <3> QED BY <2>1, <3>1, StoppedIs DEF Stopped
  <2>2. CASE m \notin taken
    BY <1>1, <2>2
  <2> QED BY <2>1, <2>2
<1> QED BY <1>1, <1>2, <1>3, SettleSlot

LEMMA EveryStepSlot == ASSUME IInv, IInv', [Next]_vars PROVE Slot!Next \/ SlotStays
<1>1. ASSUME NEW w \in Worker, PrepareFails(w) PROVE Slot!Next \/ SlotStays
  <2>1. /\ Holds(w) /\ worker[w].phase = "claimed" /\ UNCHANGED <<flight, taken>>
        /\ Finish(w, "failed", channel \in PolicyDisabled)
    BY <1>1 DEF PrepareFails, Holds, Holding
  <2>2. PICK m \in Message : Current(w) = m
    BY <2>1, HolderIs
  <2>3. m \notin taken \cup flight
    BY <2>1, <2>2 DEF IInv, WorkerInv, OnNetwork
  <2>4. (channel \in PolicyDisabled) \in BOOLEAN
    OBVIOUS
  <2>5. Slot!Settle \/ Slot!Release \/ SlotStays
    BY <2>1, <2>2, <2>3, <2>4, FinishSlot
  <2> QED BY <2>5 DEF Slot!Next
<1>2. ASSUME NEW w \in Worker, Answer(w) PROVE Slot!Next \/ SlotStays
  <2>1. Holds(w) /\ worker[w].phase # "sending" /\ UNCHANGED <<flight, taken>>
    BY <1>2 DEF Answer, Holds, Holding
  <2>2. \/ Current(w) \in taken /\ Finish(w, "accepted", FALSE)
        \/ Current(w) \notin taken \cup flight /\ Finish(w, "failed", FALSE)
        \/ Finish(w, "unknown", FALSE)
    BY <1>2 DEF Answer
  <2>3. Slot!Settle \/ Slot!Release \/ SlotStays
    BY <2>1, <2>2, FinishSlot
  <2> QED BY <2>3 DEF Slot!Next
<1>3. ASSUME NEW w \in Worker, Handoff(w) PROVE Slot!Next \/ SlotStays
  BY <1>3, HandoffSlot DEF Slot!Next
<1>4. ASSUME NEW w \in Worker, Send(w) \/ Crash(w) \/ ClaimNew(w) PROVE Slot!Next \/ SlotStays
  BY <1>4, SendSlot, CrashSlot, ClaimSlot DEF Slot!Next
<1>5. CASE Review \/ ServerTakes
  BY <1>5, ReviewSlot, ArriveSlot DEF Slot!Next
<1>6. ASSUME NEW w \in Worker, ClaimFindsReceipt(w) \/ Repair(w) PROVE SlotStays
  BY <1>6, ProjectSteps, StatesStaySlot
<1>7. ASSUME NEW w \in Worker, ClaimRefused(w) \/ Prepare(w) PROVE SlotStays
  BY <1>7, ProcessSteps, StatesStaySlot
<1>8. ASSUME NEW w \in Worker, NEW k \in Kind, Sweep(w, k) PROVE SlotStays
  BY <1>8, StartsSendingSteps, StatesStaySlot DEF Sweep
<1>9. ASSUME NEW w \in Worker, NotifyInbound(w) PROVE SlotStays
  BY <1>9, StartsSendingSteps, StatesStaySlot DEF NotifyInbound, Kind
<1>10. CASE UNCHANGED vars \/ Edit \/ TrashOrRestore \/ MoveStage \/ Reconfigure \/ Age
  BY <1>10, WorldSteps, StatesStaySlot
<1>11. ASSUME NEW w \in Worker, Proceeds(w) \/ Fault(w) PROVE Slot!Next \/ SlotStays
  BY <1>1, <1>2, <1>3, <1>4, <1>6, <1>7, <1>11 DEF Proceeds, Fault
<1> QED BY <1>5, <1>8, <1>9, <1>10, <1>11 DEF Next, Environment

\* The attempts of a lead implement the delivery slot: the initial state is an
\* empty slot, and every step of a sender, of the scheduler, of a reviewer, of the
\* server or of the network is a step of the slot or leaves it alone.
THEOREM AttemptsAreADeliverySlot == Spec => IsDeliverySlot
<1>1. Init => Slot!Init
  <2> SUFFICES ASSUME Init PROVE Slot!Init
      OBVIOUS
  <2>1. \A m \in Message : attempt[m].state = "none"
    BY RecordsAre DEF Init
  <2>2. SlotOf = SlotFree
    BY <2>1, FreeSlot DEF Blocks, BlockingStates
  <2>3. taken = {} /\ {m \in Message : attempt[m].state = "accepted"} = {}
    BY <2>1 DEF Init
  <2> QED BY <2>2, <2>3 DEF Slot!Init, Slot!Free, SlotFree
<1>2. IInv /\ IInv' /\ [Next]_vars => [Slot!Next]_(Slot!vars)
  <2>1. SlotStays => UNCHANGED Slot!vars
    BY DEF SlotStays, Accepted, Slot!vars
  <2> QED BY <2>1, EveryStepSlot
<1> QED BY <1>1, <1>2, InvariantHolds, PTL DEF Spec, IsDeliverySlot, Slot!Spec
=============================================================================
