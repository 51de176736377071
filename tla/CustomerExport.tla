---------------------------- MODULE CustomerExport ----------------------------
(***************************************************************************)
(* One customer-pool export job: the row of crm_customer_export_job, the   *)
(* private files on disk, the export workers that claim the job and the    *)
(* owner's requests that download, retry and cancel it                     *)
(* (console/customer_pool_exports.py, process_customer_exports).           *)
(*                                                                         *)
(* Claims, completion, retry and cancel are transactions on the locked     *)
(* row.  A download reads the row without a lock and, when it refuses,     *)
(* deletes a file and writes the status as two later steps.  A claim token *)
(* is the claim's number, and so is the one file it can write; 0 is the    *)
(* empty token and the empty path.                                         *)
(***************************************************************************)
EXTENDS Integers, FiniteSets

CONSTANTS
    Worker,      \* export workers (process_customer_exports)
    Reader,      \* requests of the owner that download the file
    MaxClaims    \* bound: claims explored

ASSUME MaxClaimsAssumption == MaxClaims \in Nat \ {0}

VARIABLES
    job,         \* the row; late: a processing row is PROCESSING_STALE_MINUTES old
    claims,      \* claim tokens issued
    files,       \* private files on disk
    orphans,     \* history: files left by a crash or a failed write
    allowed,     \* the creator may export the job's companies; fields and
                 \* file content are valid (all are refused the same way)
    worker,      \* what each worker is doing, and its claim token
    reader       \* what each download is doing, and the path it read

vars == <<job, claims, files, orphans, allowed, worker, reader>>
-----------------------------------------------------------------------------
Token == 0..MaxClaims
Status == {"pending", "processing", "ready", "failed", "expired", "canceled"}

JobRecord == [status : Status, token : Token, path : Token, late : BOOLEAN,
              expiry : {"none", "running", "over"}]
WorkerRecord == [phase : {"idle", "building", "built", "failing"}, token : Token]
ReaderRecord == [phase : {"idle", "removing", "saving"}, path : Token,
                 status : {"", "expired", "failed"}]

NoClaim == [phase |-> "idle", token |-> 0]
NoDownload == [phase |-> "idle", path |-> 0, status |-> ""]

\* With the CHECKs of the table: a token exactly while processing, a path and
\* an expiry time when ready.
TypeOK ==
    /\ job \in JobRecord
    /\ job.token # 0 <=> job.status = "processing"
    /\ job.status = "ready" => job.path # 0 /\ job.expiry # "none"
    /\ claims \in Token
    /\ files \subseteq 1..MaxClaims
    /\ orphans \subseteq 1..MaxClaims
    /\ allowed \in BOOLEAN
    /\ worker \in [Worker -> WorkerRecord]
    /\ reader \in [Reader -> ReaderRecord]

Init ==
    /\ job = [status |-> "pending", token |-> 0, path |-> 0, late |-> FALSE,
              expiry |-> "none"]
    /\ claims = 0
    /\ files = {}
    /\ orphans = {}
    /\ allowed = TRUE
    /\ worker = [w \in Worker |-> NoClaim]
    /\ reader = [r \in Reader |-> NoDownload]

Goes(w, phase) == worker' = [worker EXCEPT ![w].phase = phase]
Stops(w) == worker' = [worker EXCEPT ![w] = NoClaim]
Ends(status) == job' = [job EXCEPT !.status = status, !.token = 0]
-----------------------------------------------------------------------------
\* Mutant of Claimable: an abandoned claim is never taken over.
ClaimableMutant == job.status = "pending"

\* _claim_customer_export_job
Claimable == job.status = "pending" \/ (job.status = "processing" /\ job.late)

ClaimRefused(w) ==
    /\ worker[w].phase = "idle" /\ Claimable /\ ~allowed
    /\ Ends("failed")
    /\ UNCHANGED <<claims, files, orphans, allowed, worker, reader>>

Claim(w) ==
    /\ worker[w].phase = "idle" /\ Claimable /\ allowed
    /\ claims < MaxClaims
    /\ claims' = claims + 1
    /\ job' = [job EXCEPT !.status = "processing", !.token = claims + 1, !.late = FALSE]
    /\ worker' = [worker EXCEPT ![w] = [phase |-> "building", token |-> claims + 1]]
    /\ UNCHANGED <<files, orphans, allowed, reader>>

\* process_customer_export_job: the workbook is built and written without a
\* lock, whatever becomes of the row meanwhile.
Build(w) ==
    /\ worker[w].phase = "building" /\ allowed
    /\ files' = files \cup {worker[w].token}
    /\ Goes(w, "built")
    /\ UNCHANGED <<job, claims, orphans, allowed, reader>>

\* The snapshot is no longer authorized, or an exception, perhaps after the
\* file was written.
BuildFails(w) ==
    /\ worker[w].phase = "building"
    /\ \/ UNCHANGED <<files, orphans>>
       \/ /\ files' = files \cup {worker[w].token}
          /\ orphans' = orphans \cup {worker[w].token}
    /\ Goes(w, "failing")
    /\ UNCHANGED <<job, claims, allowed, reader>>

\* Mutant of Owns: any processing row is taken for the worker's own.
OwnsMutant(w) == job.status = "processing"

Owns(w) == job.status = "processing" /\ job.token = worker[w].token

\* _fail_processing_job
Fail(w) ==
    /\ worker[w].phase = "failing"
    /\ IF Owns(w)
       THEN /\ job' = [job EXCEPT !.status = "failed", !.token = 0, !.path = 0,
                                  !.expiry = "none"]
            /\ files' = files \ {job.path}
       ELSE UNCHANGED <<job, files>>
    /\ Stops(w)
    /\ UNCHANGED <<claims, orphans, allowed, reader>>

\* Mutant of Discard: the file of an overtaken claim is left behind.
DiscardMutant(w) == UNCHANGED files

Discard(w) == files' = files \ {worker[w].token}

\* The final transaction: publish the file, or delete it.
Complete(w) ==
    /\ worker[w].phase = "built"
    /\ \/ ~Owns(w) /\ Discard(w) /\ UNCHANGED job
       \/ Owns(w) /\ ~allowed /\ Discard(w) /\ Ends("failed")
       \/ /\ Owns(w) /\ allowed
          /\ job' = [job EXCEPT !.status = "ready", !.token = 0,
                                !.path = worker[w].token, !.expiry = "running"]
          /\ UNCHANGED files
    /\ Stops(w)
    /\ UNCHANGED <<claims, orphans, allowed, reader>>

\* A kill, or a failed transaction: the row keeps the claim and a file that was
\* written stays.
Crash(w) ==
    /\ worker[w].phase # "idle"
    /\ orphans' = orphans \cup ({worker[w].token} \cap files)
    /\ Stops(w)
    /\ UNCHANGED <<job, claims, files, allowed, reader>>
-----------------------------------------------------------------------------
\* customer_pool_export_download: the row is read once, without a lock.
DownloadExpired(r) ==
    /\ reader[r].phase = "idle" /\ job.status = "ready" /\ job.expiry = "over"
    /\ reader' = [reader EXCEPT ![r] =
                    [phase |-> "removing", path |-> job.path, status |-> "expired"]]
    /\ UNCHANGED <<job, claims, files, orphans, allowed, worker>>

DownloadRevoked(r) ==
    /\ reader[r].phase = "idle" /\ job.status = "ready" /\ job.expiry # "over"
    /\ ~allowed
    /\ reader' = [reader EXCEPT ![r] =
                    [phase |-> "removing", path |-> job.path, status |-> "failed"]]
    /\ UNCHANGED <<job, claims, files, orphans, allowed, worker>>

DownloadMissing(r) ==
    /\ reader[r].phase = "idle" /\ job.status = "ready" /\ job.expiry # "over"
    /\ allowed /\ job.path \notin files
    /\ reader' = [reader EXCEPT ![r] =
                    [phase |-> "saving", path |-> job.path, status |-> "failed"]]
    /\ UNCHANGED <<job, claims, files, orphans, allowed, worker>>

RemoveFile(r) ==
    /\ reader[r].phase = "removing"
    /\ files' = files \ {reader[r].path}
    /\ reader' = [reader EXCEPT ![r].phase = "saving"]
    /\ UNCHANGED <<job, claims, orphans, allowed, worker>>

\* Mutant of StatusFits: the table has no claim CHECK (migration 0045).
StatusFitsMutant == TRUE

\* save(update_fields=['status']) changes the status whatever it is now; only
\* the claim CHECK rejects it while a claim token is in the row.
StatusFits == job.token = 0

SaveStatus(r) ==
    /\ reader[r].phase = "saving"
    /\ job' = IF StatusFits THEN [job EXCEPT !.status = reader[r].status] ELSE job
    /\ reader' = [reader EXCEPT ![r] = NoDownload]
    /\ UNCHANGED <<claims, files, orphans, allowed, worker>>

\* The request dies before its save.
DownloadDies(r) ==
    /\ reader[r].phase # "idle"
    /\ reader' = [reader EXCEPT ![r] = NoDownload]
    /\ UNCHANGED <<job, claims, files, orphans, allowed, worker>>
-----------------------------------------------------------------------------
\* customer_pool_export_retry
Retry ==
    /\ job.status \in {"failed", "expired"} /\ allowed
    /\ files' = files \ {job.path}
    /\ job' = [status |-> "pending", token |-> 0, path |-> 0, late |-> FALSE,
               expiry |-> "none"]
    /\ UNCHANGED <<claims, orphans, allowed, worker, reader>>

\* customer_pool_export_cancel; it leaves the path in the row.
Cancel ==
    /\ job.status \in {"pending", "processing", "ready"}
    /\ files' = files \ {job.path}
    /\ Ends("canceled")
    /\ UNCHANGED <<claims, orphans, allowed, worker, reader>>
-----------------------------------------------------------------------------
TurnsLate ==
    /\ job.status = "processing" /\ ~job.late
    /\ job' = [job EXCEPT !.late = TRUE]
    /\ UNCHANGED <<claims, files, orphans, allowed, worker, reader>>

Expires ==
    /\ job.expiry = "running"
    /\ job' = [job EXCEPT !.expiry = "over"]
    /\ UNCHANGED <<claims, files, orphans, allowed, worker, reader>>

\* The creator loses or regains a capability or a company.
Authorize ==
    /\ allowed' = ~allowed
    /\ UNCHANGED <<job, claims, files, orphans, worker, reader>>

Proceeds(w) == Build(w) \/ Fail(w) \/ Complete(w) \/ (~allowed /\ BuildFails(w))
Fault(w) == Crash(w) \/ BuildFails(w)
Download(r) ==
    \/ DownloadExpired(r) \/ DownloadRevoked(r) \/ DownloadMissing(r)
    \/ RemoveFile(r) \/ SaveStatus(r) \/ DownloadDies(r)
Environment == Retry \/ Cancel \/ TurnsLate \/ Expires \/ Authorize

Next ==
    \/ \E w \in Worker : Claim(w) \/ ClaimRefused(w) \/ Proceeds(w) \/ Fault(w)
    \/ \E r \in Reader : Download(r)
    \/ Environment

Spec == Init /\ [][Next]_vars
-----------------------------------------------------------------------------
\* What is offered for download was built by the newest claim: a worker that
\* was taken for dead and comes back cannot publish its stale rows
\* (process_customer_export_job, "Cancellation and a newer
\* stale-job reclaim therefore remain authoritative").
NewestClaimPublishes == job.status = "ready" => job.path = claims

\* A claim is ended by its own worker or by its owner's cancel, never by an
\* overtaken worker, nor by a download that read the row before the claim.
ClaimEnds ==
    job.status = "processing" /\ job'.status # "processing" =>
        \/ job'.status = "canceled"
        \/ job.late /\ job'.status = "failed" /\ ~allowed
        \/ \E w \in Worker : worker[w].token = job.token /\ worker'[w] = NoClaim
ClaimIsExclusive == [][ClaimEnds]_vars

\* Customer data does not pile up on disk: every file is the one the row names,
\* or one a running worker is about to publish, or the remains of a crash.
NoLeftovers ==
    \A f \in files :
        \/ f = job.path \/ f \in orphans
        \/ \E w \in Worker : worker[w] = [phase |-> "built", token |-> f]

\* Both together: of all the files that claims build, only the one of the newest
\* claim is offered, and no other stays behind unnamed.
OnlyNewestIsKept == NewestClaimPublishes /\ NoLeftovers

\* The same promise for the cancellation: a canceled job stays canceled.  A
\* download that read the row before the cancel breaks it.
CanceledStays == job.status = "canceled" => job'.status = "canceled"
CancellationIsAuthoritative == [][CanceledStays]_vars

\* A queued export comes to an end although workers crash: it is ready, failed
\* or canceled, or the claims (bounded here) are used up.
ExportEnds ==
    job.status \in {"pending", "processing"}
        ~> job.status \notin {"pending", "processing"} \/ claims = MaxClaims
=============================================================================
