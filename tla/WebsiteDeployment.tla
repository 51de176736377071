-------------------------- MODULE WebsiteDeployment --------------------------
(***************************************************************************)
(* Which whole-site candidate the public web server shows: the append-only *)
(* ledger of selections, the deployment operations and receipts of one     *)
(* site, the pointer "current" of the serving store, and the requests that *)
(* deploy (console/website_selection.py, website_deployment.py,            *)
(* website_serving_store.py, website_recovery.py).                         *)
(*                                                                         *)
(* Selecting, preparing an operation and issuing a receipt are each a      *)
(* transaction; between the last two a request works on the file system    *)
(* with no lock of the database.  Rows are numbered in the order of their  *)
(* insertion, and an operation's number stands for its request token.  A   *)
(* page is taken as fresh: a form whose selection or deployed version is   *)
(* stale is refused and changes nothing.                                   *)
(***************************************************************************)
EXTENDS Integers, Sequences

CONSTANTS
    Request,        \* requests that deploy, or resume, at the same time
    Version,        \* verified whole-site candidates
    Baseline,       \* '': the site bundled with the image
    MaxSelections,  \* bound: selections explored
    MaxOperations,  \* bound: deployment operations explored
    MaxLosses       \* bound: times the serving volume is re-created

ASSUME BaselineAssumption == Baseline \notin Version
ASSUME BoundsAssumption ==
    MaxSelections \in Nat /\ MaxOperations \in Nat /\ MaxLosses \in Nat

VARIABLES
    selections,  \* website_release_selection: the versions selected
    operations,  \* website_deployment_operation
    receipts,    \* website_release_deployment
    pointer,     \* the version the web server shows
    holder,      \* who holds deploy.lock: a set of at most one request
    request,     \* the phase of each request and the operation it carries out
    losses       \* times the serving volume was re-created

vars == <<selections, operations, receipts, pointer, holder, request, losses>>
-----------------------------------------------------------------------------
Served == Version \cup {Baseline}

Operation == [selection : 1..MaxSelections, version : Version,
              previous : Served, status : {"prepared", "activated", "failed"}]
Receipt == [operation : 1..MaxOperations, selection : 1..MaxSelections,
            version : Version, previous : Served]
Phase == {"idle", "prepared", "deploying", "copying", "switched",
          "refused", "aborting"}

Idle == [phase |-> "idle", operation |-> 0]

\* The ledger of the site and the requests at work on it; deploy.lock is held
\* exactly by a request that copies.
TypeOK ==
    /\ selections \in Seq(Version)
    /\ operations \in Seq(Operation)
    /\ receipts \in Seq(Receipt)
    /\ pointer \in Served
    /\ holder = {r \in Request : request[r].phase = "copying"}
    /\ request \in [Request -> [phase : Phase, operation : 0..MaxOperations]]
    /\ losses \in 0..MaxLosses
    /\ \A r \in Request :
         request[r].phase # "idle" => request[r].operation \in DOMAIN operations

Init ==
    /\ selections = <<>>
    /\ operations = <<>>
    /\ receipts = <<>>
    /\ pointer = Baseline
    /\ holder = {}
    /\ request = [r \in Request |-> Idle]
    /\ losses = 0

\* current_website_selection, current_website_deployment.
Selected == IF selections = <<>> THEN Baseline ELSE selections[Len(selections)]
Deployed == IF receipts = <<>> THEN Baseline ELSE receipts[Len(receipts)].version

Prepared == {o \in DOMAIN operations : operations[o].status = "prepared"}
OperationOf(r) == operations[request[r].operation]

Goes(r, phase) == request' = [request EXCEPT ![r].phase = phase]
Returns(r) == request' = [request EXCEPT ![r] = Idle]
Becomes(o, status) == operations' = [operations EXCEPT ![o].status = status]

ledger == <<selections, operations, receipts>>
-----------------------------------------------------------------------------
\* Mutant of Select: the prepared operation is not looked for.
SelectMutant(v) ==
    /\ Len(selections) < MaxSelections
    /\ v # Selected
    /\ selections' = Append(selections, v)
    /\ UNCHANGED <<operations, receipts, pointer, holder, request, losses>>

\* select_website_candidate
Select(v) ==
    /\ Len(selections) < MaxSelections
    /\ Prepared = {}
    /\ v # Selected
    /\ selections' = Append(selections, v)
    /\ UNCHANGED <<operations, receipts, pointer, holder, request, losses>>
-----------------------------------------------------------------------------
\* deploy_selected_website: the transaction under the lock of the site row.

NewOperation == [selection |-> Len(selections), version |-> Selected,
                 previous |-> Deployed, status |-> "prepared"]

\* Mutant of Prepare: an unfinished operation does not block another request.
PrepareMutant(r) ==
    /\ request[r].phase = "idle"
    /\ Len(operations) < MaxOperations
    /\ Selected \notin {Baseline, Deployed}
    /\ operations' = Append(operations, NewOperation)
    /\ request' = [request EXCEPT ![r] =
         [phase |-> "prepared", operation |-> Len(operations) + 1]]
    /\ UNCHANGED <<selections, receipts, pointer, holder, losses>>

Prepare(r) ==
    /\ request[r].phase = "idle"
    /\ Len(operations) < MaxOperations
    /\ Prepared = {}
    /\ Selected \notin {Baseline, Deployed}
    /\ operations' = Append(operations, NewOperation)
    /\ request' = [request EXCEPT ![r] =
         [phase |-> "prepared", operation |-> Len(operations) + 1]]
    /\ UNCHANGED <<selections, receipts, pointer, holder, losses>>

\* The same token again.  An activated or a failed operation is answered at
\* once and changes nothing.
Replay(r) ==
    /\ request[r].phase = "idle"
    /\ \E o \in Prepared :
         request' = [request EXCEPT ![r] = [phase |-> "prepared", operation |-> o]]
    /\ UNCHANGED <<ledger, pointer, holder, losses>>
-----------------------------------------------------------------------------
\* deploy_selected_website: the work on the serving store.

\* Mutant of Observe: a target that is already served is not recognised.
ObserveMutant(r) ==
    /\ request[r].phase = "prepared"
    /\ Goes(r, IF pointer = OperationOf(r).previous THEN "deploying" ELSE "refused")
    /\ UNCHANGED <<ledger, pointer, holder, losses>>

Observe(r) ==
    /\ request[r].phase = "prepared"
    /\ Goes(r, CASE pointer = OperationOf(r).previous -> "deploying"
                 [] pointer = OperationOf(r).version -> "switched"
                 [] OTHER -> "refused")
    /\ UNCHANGED <<ledger, pointer, holder, losses>>

\* The candidate store or the serving store cannot be opened.
StoreFails(r) ==
    /\ request[r].phase = "prepared"
    /\ Goes(r, "aborting")
    /\ UNCHANGED <<ledger, pointer, holder, losses>>

\* Mutant of Expected: the pointer is not compared under the lock.
ExpectedMutant(r) == TRUE

\* WebsiteServingStore.deploy: the lock never waits, and the pointer must be
\* the one the ledger expects.
Expected(r) == pointer = OperationOf(r).previous

Lock(r) ==
    /\ request[r].phase = "deploying"
    /\ holder = {}
    /\ Expected(r)
    /\ holder' = {r}
    /\ Goes(r, "copying")
    /\ UNCHANGED <<ledger, pointer, losses>>

LockRefused(r) ==
    /\ request[r].phase = "deploying"
    /\ holder # {} \/ ~Expected(r)
    /\ Goes(r, "refused")
    /\ UNCHANGED <<ledger, pointer, holder, losses>>

Switch(r) ==
    /\ request[r].phase = "copying"
    /\ pointer' = OperationOf(r).version
    /\ holder' = {}
    /\ Goes(r, "switched")
    /\ UNCHANGED <<ledger, losses>>

CopyFails(r) ==
    /\ request[r].phase = "copying"
    /\ holder' = {}
    /\ Goes(r, "refused")
    /\ UNCHANGED <<ledger, pointer, losses>>

\* Mutant of MayFinalize: the status is not read again.
MayFinalizeMutant(r) ==
    /\ OperationOf(r).selection = Len(selections)
    /\ pointer = OperationOf(r).version

\* _finalize: the receipt, under the locks of the operation and of the site.
MayFinalize(r) ==
    /\ OperationOf(r).status = "prepared"
    /\ OperationOf(r).selection = Len(selections)
    /\ pointer = OperationOf(r).version

Finalize(r) ==
    /\ request[r].phase = "switched"
    /\ MayFinalize(r)
    /\ receipts' = Append(receipts,
         [operation |-> request[r].operation, selection |-> OperationOf(r).selection,
          version |-> OperationOf(r).version, previous |-> OperationOf(r).previous])
    /\ Becomes(request[r].operation, "activated")
    /\ Returns(r)
    /\ UNCHANGED <<selections, pointer, holder, losses>>

\* Another request of the same token has finished it.
FinalizedBefore(r) ==
    /\ request[r].phase = "switched"
    /\ OperationOf(r).status = "activated"
    /\ Returns(r)
    /\ UNCHANGED <<ledger, pointer, holder, losses>>

\* A condition does not hold, or the served bytes cannot be verified now.
FinalizeFails(r) ==
    /\ request[r].phase = "switched"
    /\ OperationOf(r).status # "activated"
    /\ Goes(r, "refused")
    /\ UNCHANGED <<ledger, pointer, holder, losses>>
-----------------------------------------------------------------------------
\* deploy_selected_website: the exception handler.

KeepsPrepared(r) == pointer # OperationOf(r).previous

\* The pointer is the target, or unknown: website_deployment_recovery_required.
KeepPrepared(r) ==
    /\ request[r].phase = "refused"
    /\ KeepsPrepared(r)
    /\ Returns(r)
    /\ UNCHANGED <<ledger, pointer, holder, losses>>

PointerUnreadable(r) ==
    /\ request[r].phase = "refused"
    /\ Returns(r)
    /\ UNCHANGED <<ledger, pointer, holder, losses>>

GiveUp(r) ==
    /\ request[r].phase = "refused"
    /\ ~KeepsPrepared(r)
    /\ Goes(r, "aborting")
    /\ UNCHANGED <<ledger, pointer, holder, losses>>

\* Mutant of MayFail: the status is not read again under the lock.
MayFailMutant(o) == TRUE

\* _mark_failed
MayFail(o) == operations[o].status = "prepared"

MarkFailed(r) ==
    /\ request[r].phase = "aborting"
    /\ IF MayFail(request[r].operation)
       THEN Becomes(request[r].operation, "failed")
       ELSE UNCHANGED operations
    /\ Returns(r)
    /\ UNCHANGED <<selections, receipts, pointer, holder, losses>>

\* The process dies; the kernel releases the lock of a dead process.
Crash(r) ==
    /\ request[r].phase # "idle"
    /\ holder' = holder \ {r}
    /\ Returns(r)
    /\ UNCHANGED <<ledger, pointer, losses>>
-----------------------------------------------------------------------------
\* The volume of the serving store is re-created while the writers are stopped.
LoseCache ==
    /\ losses < MaxLosses
    /\ \A r \in Request : request[r].phase = "idle"
    /\ pointer' = Baseline
    /\ losses' = losses + 1
    /\ UNCHANGED <<ledger, holder, request>>

\* Mutant of Reconcile: the cache is rebuilt under a prepared operation.
ReconcileMutant ==
    /\ receipts # <<>>
    /\ holder = {}
    /\ pointer # Deployed
    /\ pointer' = Deployed
    /\ UNCHANGED <<ledger, holder, request, losses>>

\* reconcile_website_serving_cache with apply: the site row stays locked, so no
\* operation is prepared meanwhile, and the pointer is replaced under deploy.lock.
Reconcile ==
    /\ Prepared = {}
    /\ receipts # <<>>
    /\ holder = {}
    /\ pointer # Deployed
    /\ pointer' = Deployed
    /\ UNCHANGED <<ledger, holder, request, losses>>
-----------------------------------------------------------------------------
Next ==
    \/ \E v \in Version : Select(v)
    \/ \E r \in Request :
         \/ Prepare(r) \/ Replay(r)
         \/ Observe(r) \/ StoreFails(r)
         \/ Lock(r) \/ LockRefused(r) \/ Switch(r) \/ CopyFails(r)
         \/ Finalize(r) \/ FinalizedBefore(r) \/ FinalizeFails(r)
         \/ KeepPrepared(r) \/ PointerUnreadable(r) \/ GiveUp(r) \/ MarkFailed(r)
         \/ Crash(r)
    \/ LoseCache
    \/ Reconcile

Spec == Init /\ [][Next]_vars
-----------------------------------------------------------------------------
\* The receipts form one chain: each names the version of the receipt before
\* it as the one it replaced, whatever requests crash, fail or resume.
ReceiptsChain ==
    \A i \in DOMAIN receipts :
        receipts[i].previous = IF i = 1 THEN Baseline ELSE receipts[i - 1].version

\* However many requests carry the same token, an operation is activated
\* exactly when it has a receipt, and it has at most one: replayed requests
\* that meet at _finalize issue it once, and none fails it afterwards.
OneReceiptPerOperation ==
    \A o \in DOMAIN operations :
        LET issued == {i \in DOMAIN receipts : receipts[i].operation = o} IN
        /\ operations[o].status = "activated" <=> issued # {}
        /\ \A i, j \in issued : i = j

\* The ledger of deployments agrees with itself: the chain is unbroken, and
\* operations and receipts match one to one.
ReceiptsAgree == ReceiptsChain /\ OneReceiptPerOperation

\* The site that is shown is the one of the latest receipt, or the target of
\* the prepared operation, whose receipt its token can still issue; a lost
\* serving volume shows the baseline until it is reconciled.
ServedIsRecorded ==
    \/ pointer = Deployed
    \/ \E o \in Prepared : pointer = operations[o].version
    \/ losses > 0 /\ pointer = Baseline

\* Whatever requests, failures and reconciliations overlap, the pointer only
\* moves from the version a request's operation recorded to its target (the
\* comparison made under deploy.lock still holds when the copy is complete), or,
\* with no operation prepared, back to the version of the latest receipt.
PointerMovesAsRecorded ==
    [][pointer' # pointer /\ losses' = losses =>
         \/ Prepared = {} /\ pointer' = Deployed
         \/ \E r \in Request :
               /\ request[r].phase = "copying"
               /\ pointer = OperationOf(r).previous
               /\ pointer' = OperationOf(r).version]_vars

\* A prepared operation ends although requests fail and processes die between
\* any two of its steps (fairness: WebsiteDeploymentLive!LiveSpec), as long as the pointer is the version it replaces or
\* its target.
OperationEnds ==
    \A o \in 1..MaxOperations :
        o \in Prepared
            ~> \/ o \notin Prepared
               \/ pointer \notin {operations[o].previous, operations[o].version}
=============================================================================
