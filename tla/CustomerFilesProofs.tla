------------------------ MODULE CustomerFilesProofs -------------------------
(***************************************************************************)
(* Proofs about CustomerFiles, that is about CustomerExport and            *)
(* CustomerImport, one after the other, and that the composition keeps     *)
(* what is proved of each.                                                 *)
(***************************************************************************)
EXTENDS CustomerFiles, FiniteSetTheorems, WellFoundedInduction, TLAPS
-----------------------------------------------------------------------------
(***************************************************************************)
(* Export jobs, for any workers, downloads and number of claims. The row   *)
(* names the newest claim while that one is processed (JobInv), and        *)
(* whoever builds or removes a file has a claim (HoldersInv).              *)
(***************************************************************************)
\* The row names the newest claim while that is processed, and a file only once
\* there is one to offer.
JobInv ==
    /\ job.status = "processing" => job.token = claims
    /\ job.status \in {"pending", "processing"} => job.path = 0

\* Whoever is at work has a claim; a download that goes on has its verdict.
HoldersInv ==
    /\ \A w \in Worker : worker[w].phase # "idle" => worker[w].token # 0
    /\ \A r \in Reader : reader[r].phase # "idle" => reader[r].status # ""

ExportInv == TypeOK /\ JobInv /\ HoldersInv /\ OnlyNewestIsKept

LEMMA ExportNumbers ==
  TypeOK => /\ MaxClaims \in Nat /\ MaxClaims >= 1 /\ claims \in Nat /\ claims <= MaxClaims
            /\ job.token \in Nat /\ job.path \in Nat /\ 0 \notin files
            /\ Token = 0..MaxClaims /\ 0 \in Token
BY MaxClaimsAssumption DEF TypeOK, Token, JobRecord

LEMMA RestingRecords == NoClaim \in WorkerRecord /\ NoDownload \in ReaderRecord
BY MaxClaimsAssumption DEF NoClaim, NoDownload, WorkerRecord, ReaderRecord, Token

LEMMA InitExportInv == Init => ExportInv
<1> SUFFICES ASSUME Init PROVE ExportInv
    OBVIOUS
<1>1. TypeOK
  BY RestingRecords, MaxClaimsAssumption DEF Init, TypeOK, JobRecord, Status, Token
<1>2. JobInv /\ OnlyNewestIsKept
  BY DEF Init, JobInv, OnlyNewestIsKept, NewestClaimPublishes, NoLeftovers
<1>3. HoldersInv
  BY DEF Init, HoldersInv, NoClaim, NoDownload
<1> QED BY <1>1, <1>2, <1>3 DEF ExportInv

LEMMA StutterExportInv == ExportInv /\ UNCHANGED vars => ExportInv'
<1> SUFFICES ASSUME ExportInv, UNCHANGED vars PROVE ExportInv'
    OBVIOUS
<1>1. TypeOK' /\ JobInv'
  BY DEF vars, ExportInv, TypeOK, JobInv
<1>2. HoldersInv'
  BY DEF vars, ExportInv, HoldersInv
<1>3. OnlyNewestIsKept'
  BY DEF vars, ExportInv, OnlyNewestIsKept, NewestClaimPublishes, NoLeftovers
<1> QED BY <1>1, <1>2, <1>3 DEF ExportInv

\* worker[w] is idle afterwards, the others are as they were.
LEMMA WorkerStops ==
  ASSUME TypeOK, NEW w \in Worker, Stops(w)
  PROVE  /\ worker' \in [Worker -> WorkerRecord]
         /\ worker'[w] = NoClaim /\ worker'[w].phase = "idle"
         /\ \A v \in Worker : v # w => worker'[v] = worker[v]
BY RestingRecords DEF TypeOK, Stops, NoClaim

LEMMA WorkerGoes ==
  ASSUME TypeOK, NEW w \in Worker, NEW phase \in {"building", "built", "failing"}, Goes(w, phase)
  PROVE  /\ worker' \in [Worker -> WorkerRecord]
         /\ worker'[w] = [phase |-> phase, token |-> worker[w].token]
         /\ \A v \in Worker : v # w => worker'[v] = worker[v]
<1>1. worker[w] \in WorkerRecord
  BY DEF TypeOK
<1>2. [worker[w] EXCEPT !.phase = phase] = [phase |-> phase, token |-> worker[w].token]
  BY <1>1 DEF WorkerRecord
<1>3. [phase |-> phase, token |-> worker[w].token] \in WorkerRecord
  BY <1>1 DEF WorkerRecord
<1> QED BY <1>2, <1>3 DEF TypeOK, Goes

\* A row that ends, or stays pending or processing, with the path it has.
LEMMA JobChanges ==
  ASSUME ExportInv, UNCHANGED <<claims, orphans, worker>>, files' \subseteq files,
         allowed' \in BOOLEAN,
         reader' \in [Reader -> ReaderRecord],
         \A r \in Reader : reader'[r].phase # "idle" => reader'[r].status # "",
         job' \in JobRecord, job'.token # 0 <=> job'.status = "processing",
         job'.status \in {job.status, "failed", "expired", "canceled"},
         job'.token \in {0, job.token}, job'.path = job.path,
         job'.expiry = "none" => job.expiry = "none"
  PROVE  ExportInv'
<1>1. TypeOK'
  BY DEF ExportInv, TypeOK
<1>2. JobInv' /\ HoldersInv'
  BY DEF ExportInv, TypeOK, JobInv, HoldersInv
<1>3. OnlyNewestIsKept'
  BY DEF ExportInv, OnlyNewestIsKept, NewestClaimPublishes, NoLeftovers
<1> QED BY <1>1, <1>2, <1>3 DEF ExportInv

LEMMA EndsIs ==
  ASSUME TypeOK, NEW status \in {"failed", "canceled"}, Ends(status)
  PROVE  /\ job' \in JobRecord /\ job'.token = 0 /\ job'.status = status
         /\ job'.path = job.path /\ job'.expiry = job.expiry
<1>1. job \in JobRecord /\ job' = [job EXCEPT !.status = status, !.token = 0]
  BY DEF TypeOK, Ends
<1>2. status \in Status /\ 0 \in Token
  BY ExportNumbers DEF Status
<1> QED BY <1>1, <1>2 DEF JobRecord

LEMMA ClaimRefusedExportInv == ASSUME ExportInv, NEW w \in Worker, ClaimRefused(w) PROVE ExportInv'
<1>1. Ends("failed") /\ UNCHANGED <<claims, files, orphans, allowed, worker, reader>>
  BY DEF ClaimRefused
<1> QED BY <1>1, EndsIs, JobChanges DEF ExportInv, TypeOK, HoldersInv

LEMMA ClaimExportInv == ASSUME ExportInv, NEW w \in Worker, Claim(w) PROVE ExportInv'
<1>1. /\ worker[w].phase = "idle" /\ claims < MaxClaims /\ claims' = claims + 1
      /\ job' = [job EXCEPT !.status = "processing", !.token = claims + 1, !.late = FALSE]
      /\ worker' = [worker EXCEPT ![w] = [phase |-> "building", token |-> claims + 1]]
      /\ job.status \in {"pending", "processing"}
      /\ UNCHANGED <<files, orphans, allowed, reader>>
  BY DEF Claim, Claimable
<1>2. claims' \in Token /\ claims' # 0
  BY <1>1, ExportNumbers DEF ExportInv
<1>3. /\ job' \in JobRecord /\ job'.status = "processing" /\ job'.token = claims'
      /\ job'.path = job.path
  <2>1. job \in JobRecord /\ "processing" \in Status
    BY DEF ExportInv, TypeOK, Status
  <2> QED BY <1>1, <1>2, <2>1 DEF JobRecord
<1>4. /\ worker' \in [Worker -> WorkerRecord]
      /\ worker'[w] = [phase |-> "building", token |-> claims']
      /\ \A v \in Worker : v # w => worker'[v] = worker[v]
  BY <1>1, <1>2 DEF ExportInv, TypeOK, WorkerRecord
<1>5. TypeOK'
  BY <1>1, <1>2, <1>3, <1>4 DEF ExportInv, TypeOK
<1>6. JobInv'
  BY <1>1, <1>3 DEF ExportInv, JobInv
<1>7. HoldersInv'
  BY <1>1, <1>2, <1>4 DEF ExportInv, HoldersInv
<1>8. NewestClaimPublishes'
  BY <1>3 DEF NewestClaimPublishes
<1>9. NoLeftovers'
  BY <1>1, <1>3, <1>4 DEF ExportInv, OnlyNewestIsKept, NoLeftovers
<1> QED BY <1>5, <1>6, <1>7, <1>8, <1>9 DEF ExportInv, OnlyNewestIsKept

\* A file that is written is about to be published, or is one that is left over.
LEMMA BuildExportInv ==
  ASSUME ExportInv, NEW w \in Worker, Build(w) \/ BuildFails(w) PROVE ExportInv'
<1> DEFINE own == worker[w].token
<1>1. /\ worker[w].phase = "building" /\ UNCHANGED <<job, claims, allowed, reader>>
      /\ \/ files' = files \cup {own} /\ orphans' = orphans /\ Goes(w, "built")
         \/ UNCHANGED <<files, orphans>> /\ Goes(w, "failing")
         \/ files' = files \cup {own} /\ orphans' = orphans \cup {own} /\ Goes(w, "failing")
  BY DEF Build, BuildFails
<1>2. own \in 1..MaxClaims
  <2>1. worker[w] \in WorkerRecord /\ worker[w].token # 0
    BY <1>1 DEF ExportInv, HoldersInv, TypeOK
  <2>2. own \in 0..MaxClaims /\ own # 0
    BY <2>1 DEF WorkerRecord, Token
  <2> QED BY <2>2, MaxClaimsAssumption
<1>3. PICK phase \in {"built", "failing"} :
        /\ Goes(w, phase)
        /\ \/ files' = files \cup {own} /\ orphans' = orphans /\ phase = "built"
           \/ UNCHANGED <<files, orphans>>
           \/ files' = files \cup {own} /\ orphans' = orphans \cup {own}
  BY <1>1
<1>4. /\ worker' \in [Worker -> WorkerRecord]
      /\ worker'[w] = [phase |-> phase, token |-> own]
      /\ \A v \in Worker : v # w => worker'[v] = worker[v]
  BY <1>3, WorkerGoes DEF ExportInv
<1> HIDE DEF own
<1>5. TypeOK'
  BY <1>1, <1>2, <1>3, <1>4 DEF ExportInv, TypeOK
<1>6. JobInv' /\ NewestClaimPublishes'
  BY <1>1 DEF ExportInv, JobInv, OnlyNewestIsKept, NewestClaimPublishes
<1>7. HoldersInv'
  <2>1. own # 0 /\ reader' = reader
    BY <1>1, <1>2, MaxClaimsAssumption
  <2>2. ASSUME NEW v \in Worker, worker'[v].phase # "idle" PROVE worker'[v].token # 0
    <3>1. CASE v = w
      BY <1>4, <2>1, <3>1
    <3>2. CASE v # w
      BY <1>4, <2>2, <3>2 DEF ExportInv, HoldersInv
    <3> QED BY <3>1, <3>2
  <2> QED BY <2>1, <2>2 DEF ExportInv, HoldersInv
<1>8. NoLeftovers'
  <2>1. SUFFICES ASSUME NEW f \in files', f # job.path, f \notin orphans'
                 PROVE  \E v \in Worker : worker'[v] = [phase |-> "built", token |-> f]
    BY <1>1 DEF NoLeftovers
  <2>2. CASE f \in files
    <3>1. PICK v \in Worker : worker[v] = [phase |-> "built", token |-> f]
      BY <1>3, <2>1, <2>2 DEF ExportInv, OnlyNewestIsKept, NoLeftovers
    <3>2. v # w
      BY <1>1, <3>1
    <3> QED BY <1>4, <3>1, <3>2
  <2>3. CASE f \notin files
    BY <1>3, <1>4, <2>1, <2>3
  <2> QED BY <2>2, <2>3
<1> QED BY <1>5, <1>6, <1>7, <1>8 DEF ExportInv, OnlyNewestIsKept

\* A worker that stops: the row is its own and ends or offers its file, or it
\* stays; what it had written is offered, deleted or left over.
LEMMA WorkerEnds ==
  ASSUME ExportInv, NEW w \in Worker, Stops(w), UNCHANGED <<claims, allowed, reader>>,
         files' \subseteq files, orphans \subseteq orphans', orphans' \subseteq 1..MaxClaims,
         job' \in JobRecord, job'.token # 0 <=> job'.status = "processing",
         job'.status = "ready" => job'.path # 0 /\ job'.expiry # "none",
         JobInv', NewestClaimPublishes',
         job'.path # job.path => job.path \notin files',
         worker[w].phase = "built" /\ worker[w].token \in files'
             => worker[w].token \in orphans' \cup {job'.path}
  PROVE  ExportInv'
<1>1. /\ worker' \in [Worker -> WorkerRecord] /\ worker'[w].phase = "idle"
      /\ \A v \in Worker : v # w => worker'[v] = worker[v]
  BY WorkerStops DEF ExportInv
<1>2. TypeOK'
  BY <1>1 DEF ExportInv, TypeOK
<1>3. HoldersInv'
  BY <1>1 DEF ExportInv, HoldersInv
<1>4. NoLeftovers'
  <2>1. SUFFICES ASSUME NEW f \in files', f # job'.path, f \notin orphans'
                 PROVE  \E v \in Worker : worker'[v] = [phase |-> "built", token |-> f]
    BY DEF NoLeftovers
  <2>2. f # job.path
    BY <2>1
  <2>3. PICK v \in Worker : worker[v] = [phase |-> "built", token |-> f]
    BY <2>1, <2>2 DEF ExportInv, OnlyNewestIsKept, NoLeftovers
  <2>4. v # w
    BY <2>1, <2>3
  <2> QED BY <1>1, <2>3, <2>4
<1> QED BY <1>2, <1>3, <1>4 DEF ExportInv, OnlyNewestIsKept

LEMMA FailExportInv == ASSUME ExportInv, NEW w \in Worker, Fail(w) PROVE ExportInv'
<1>1. worker[w].phase = "failing" /\ Stops(w) /\ UNCHANGED <<claims, orphans, allowed, reader>>
  BY DEF Fail
<1>2. CASE Owns(w)
  <2>1. /\ job' = [job EXCEPT !.status = "failed", !.token = 0, !.path = 0, !.expiry = "none"]
        /\ files' = files \ {job.path}
    BY <1>2 DEF Fail
  <2>2. job \in JobRecord /\ "failed" \in Status /\ 0 \in Token
    BY ExportNumbers DEF ExportInv, TypeOK, Status
  <2>3. job' \in JobRecord /\ job'.status = "failed" /\ job'.token = 0
    BY <2>1, <2>2 DEF JobRecord
  <2>4. JobInv' /\ NewestClaimPublishes'
    BY <2>3 DEF JobInv, NewestClaimPublishes
  <2> QED BY <1>1, <2>1, <2>3, <2>4, WorkerEnds DEF ExportInv, TypeOK
<1>3. CASE ~Owns(w)
  <2>1. UNCHANGED <<job, files>>
    BY <1>3 DEF Fail
  <2>2. JobInv' /\ NewestClaimPublishes'
    BY <1>1, <2>1 DEF ExportInv, JobInv, OnlyNewestIsKept, NewestClaimPublishes
  <2> QED BY <1>1, <2>1, <2>2, WorkerEnds DEF ExportInv, TypeOK
<1> QED BY <1>2, <1>3

LEMMA CompleteExportInv == ASSUME ExportInv, NEW w \in Worker, Complete(w) PROVE ExportInv'
<1>1. worker[w].phase = "built" /\ Stops(w) /\ UNCHANGED <<claims, orphans, allowed, reader>>
  BY DEF Complete
<1>2. CASE Discard(w) /\ UNCHANGED job
  <2>1. JobInv' /\ NewestClaimPublishes'
    BY <1>1, <1>2 DEF ExportInv, JobInv, OnlyNewestIsKept, NewestClaimPublishes
  <2>2. files' = files \ {worker[w].token}
    BY <1>2 DEF Discard
  <2> QED BY <1>1, <1>2, <2>1, <2>2, WorkerEnds DEF ExportInv, TypeOK
<1>3. CASE Discard(w) /\ Ends("failed")
  <2>1. job' \in JobRecord /\ job'.status = "failed" /\ job'.token = 0 /\ job'.path = job.path
    BY <1>3, EndsIs DEF ExportInv
  <2>2. JobInv' /\ NewestClaimPublishes'
    BY <2>1 DEF JobInv, NewestClaimPublishes
  <2>3. files' = files \ {worker[w].token}
    BY <1>3 DEF Discard
  <2> QED BY <1>1, <2>1, <2>2, <2>3, WorkerEnds DEF ExportInv, TypeOK
<1>4. CASE /\ Owns(w) /\ UNCHANGED files
           /\ job' = [job EXCEPT !.status = "ready", !.token = 0,
                                 !.path = worker[w].token, !.expiry = "running"]
  <2>1. worker[w].token = claims /\ worker[w].token # 0 /\ job.path = 0
    BY <1>4 DEF Owns, ExportInv, JobInv, TypeOK
  <2>2. job \in JobRecord /\ "ready" \in Status /\ 0 \in Token /\ worker[w].token \in Token
    BY <2>1, ExportNumbers DEF ExportInv, TypeOK, Status
  <2>3. /\ job' \in JobRecord /\ job'.status = "ready" /\ job'.token = 0
        /\ job'.path = claims /\ job'.expiry = "running"
    BY <1>4, <2>1, <2>2 DEF JobRecord
  <2>4. JobInv' /\ NewestClaimPublishes'
    BY <1>1, <2>3 DEF JobInv, NewestClaimPublishes
  <2>5. 0 \notin files
    BY ExportNumbers DEF ExportInv
  <2> QED BY <1>1, <1>4, <2>1, <2>3, <2>4, <2>5, WorkerEnds DEF ExportInv, TypeOK
<1> QED BY <1>2, <1>3, <1>4 DEF Complete

LEMMA CrashExportInv == ASSUME ExportInv, NEW w \in Worker, Crash(w) PROVE ExportInv'
<1>1. /\ Stops(w) /\ UNCHANGED <<job, claims, files, allowed, reader>>
      /\ orphans' = orphans \cup ({worker[w].token} \cap files)
  BY DEF Crash
<1>2. JobInv' /\ NewestClaimPublishes'
  BY <1>1 DEF ExportInv, JobInv, OnlyNewestIsKept, NewestClaimPublishes
<1> QED BY <1>1, <1>2, WorkerEnds DEF ExportInv, TypeOK

LEMMA DownloadExportInv == ASSUME ExportInv, NEW r \in Reader, Download(r) PROVE ExportInv'
<1>1. TypeOK /\ reader \in [Reader -> ReaderRecord] /\ job \in JobRecord
  BY DEF ExportInv, TypeOK
<1>2. CASE DownloadExpired(r) \/ DownloadRevoked(r) \/ DownloadMissing(r)
  <2>1. PICK phase \in {"removing", "saving"}, status \in {"expired", "failed"} :
          reader' = [reader EXCEPT ![r] = [phase |-> phase, path |-> job.path, status |-> status]]
    BY <1>2 DEF DownloadExpired, DownloadRevoked, DownloadMissing
  <2>2. UNCHANGED <<job, claims, files, orphans, allowed, worker>>
    BY <1>2 DEF DownloadExpired, DownloadRevoked, DownloadMissing
  <2>3. /\ reader' \in [Reader -> ReaderRecord] /\ reader'[r].status # ""
        /\ \A q \in Reader : q # r => reader'[q] = reader[q]
    BY <1>1, <2>1 DEF ReaderRecord, JobRecord
  <2> QED BY <2>2, <2>3, JobChanges DEF ExportInv, TypeOK, HoldersInv
<1>3. CASE RemoveFile(r)
  <2>1. /\ reader' \in [Reader -> ReaderRecord] /\ reader'[r].status = reader[r].status
        /\ reader[r].phase # "idle"
        /\ \A q \in Reader : q # r => reader'[q] = reader[q]
    BY <1>1, <1>3 DEF RemoveFile, ReaderRecord
  <2>2. files' \subseteq files /\ UNCHANGED <<job, claims, orphans, allowed, worker>>
    BY <1>3 DEF RemoveFile
  <2> QED BY <2>1, <2>2, JobChanges DEF ExportInv, TypeOK, HoldersInv
<1>4. ASSUME reader' = [reader EXCEPT ![r] = NoDownload]
      PROVE  /\ reader' \in [Reader -> ReaderRecord]
             /\ \A q \in Reader : reader'[q].phase # "idle" => reader'[q].status # ""
  BY <1>1, <1>4, RestingRecords DEF ExportInv, HoldersInv, NoDownload
<1>5. CASE SaveStatus(r)
  <2>1. /\ reader' = [reader EXCEPT ![r] = NoDownload]
        /\ UNCHANGED <<claims, files, orphans, allowed, worker>>
        /\ job' = IF job.token = 0 THEN [job EXCEPT !.status = reader[r].status] ELSE job
    BY <1>5 DEF SaveStatus, StatusFits
  <2>2. reader[r].status \in {"expired", "failed"}
    BY <1>1, <1>5 DEF SaveStatus, ExportInv, HoldersInv, ReaderRecord
  <2>3. /\ job' \in JobRecord /\ job'.token = job.token /\ job'.path = job.path
        /\ job'.expiry = job.expiry
        /\ IF job.token = 0 THEN job'.status = reader[r].status ELSE job'.status = job.status
    BY <1>1, <2>1, <2>2 DEF JobRecord, Status
  <2>4. job'.status \in {job.status, "failed", "expired", "canceled"}
        /\ (job'.token # 0 <=> job'.status = "processing")
    BY <2>2, <2>3 DEF ExportInv, TypeOK
  <2> QED BY <1>4, <2>1, <2>3, <2>4, JobChanges DEF ExportInv, TypeOK
<1>6. CASE DownloadDies(r)
  <2>1. /\ reader' = [reader EXCEPT ![r] = NoDownload]
        /\ UNCHANGED <<job, claims, files, orphans, allowed, worker>>
    BY <1>6 DEF DownloadDies
  <2> QED BY <1>4, <2>1, JobChanges DEF ExportInv, TypeOK
<1> QED BY <1>2, <1>3, <1>5, <1>6 DEF Download

LEMMA RetryExportInv == ASSUME ExportInv, Retry PROVE ExportInv'
<1>1. /\ files' = files \ {job.path} /\ UNCHANGED <<claims, orphans, allowed, worker, reader>>
      /\ job' = [status |-> "pending", token |-> 0, path |-> 0, late |-> FALSE, expiry |-> "none"]
  BY DEF Retry
<1>2. job' \in JobRecord
  BY <1>1, MaxClaimsAssumption DEF JobRecord, Status, Token
<1>3. TypeOK'
  BY <1>1, <1>2 DEF ExportInv, TypeOK
<1>4. JobInv' /\ HoldersInv'
  BY <1>1 DEF ExportInv, JobInv, HoldersInv
<1>5. OnlyNewestIsKept'
  BY <1>1 DEF ExportInv, OnlyNewestIsKept, NewestClaimPublishes, NoLeftovers
<1> QED BY <1>3, <1>4, <1>5 DEF ExportInv

LEMMA EnvironmentExportInv == ASSUME ExportInv, Environment PROVE ExportInv'
<1>1. job \in JobRecord /\ (job.token # 0 <=> job.status = "processing")
      /\ reader \in [Reader -> ReaderRecord] /\ allowed \in BOOLEAN
      /\ \A r \in Reader : reader[r].phase # "idle" => reader[r].status # ""
  BY DEF ExportInv, TypeOK, HoldersInv
<1>2. CASE Cancel
  <2>1. /\ Ends("canceled") /\ files' = files \ {job.path}
        /\ UNCHANGED <<claims, orphans, allowed, worker, reader>>
    BY <1>2 DEF Cancel
  <2> QED BY <1>1, <2>1, EndsIs, JobChanges DEF ExportInv
<1>3. CASE TurnsLate
  <2>1. /\ job' = [job EXCEPT !.late = TRUE]
        /\ UNCHANGED <<claims, files, orphans, allowed, worker, reader>>
    BY <1>3 DEF TurnsLate
  <2>2. /\ job' \in JobRecord /\ job'.status = job.status /\ job'.token = job.token
        /\ job'.path = job.path /\ job'.expiry = job.expiry
    BY <1>1, <2>1 DEF JobRecord
  <2> QED BY <1>1, <2>1, <2>2, JobChanges
<1>4. CASE Expires
  <2>1. /\ job' = [job EXCEPT !.expiry = "over"]
        /\ UNCHANGED <<claims, files, orphans, allowed, worker, reader>>
    BY <1>4 DEF Expires
  <2>2. /\ job' \in JobRecord /\ job'.status = job.status /\ job'.token = job.token
        /\ job'.path = job.path /\ job'.expiry = "over"
    BY <1>1, <2>1 DEF JobRecord
  <2> QED BY <1>1, <2>1, <2>2, JobChanges
<1>5. CASE Authorize
  BY <1>1, <1>5, JobChanges DEF Authorize
<1> QED BY <1>2, <1>3, <1>4, <1>5, RetryExportInv DEF Environment

LEMMA NextExportInv == ExportInv /\ [Next]_vars => ExportInv'
<1> SUFFICES ASSUME ExportInv, [Next]_vars PROVE ExportInv'
    OBVIOUS
<1>1. ASSUME NEW w \in Worker, Claim(w) \/ ClaimRefused(w) \/ Proceeds(w) \/ Fault(w)
      PROVE  ExportInv'
  BY <1>1, ClaimExportInv, ClaimRefusedExportInv, BuildExportInv, FailExportInv, CompleteExportInv,
     CrashExportInv DEF Proceeds, Fault
<1>2. ASSUME NEW r \in Reader, Download(r) PROVE ExportInv'
  BY <1>2, DownloadExportInv
<1> QED BY <1>1, <1>2, EnvironmentExportInv, StutterExportInv DEF Next

\* The inductive invariant of a job, its workers and its downloads.
LEMMA ExportInvariantHolds == Spec => []ExportInv
BY InitExportInv, NextExportInv, PTL DEF Spec

\* What is offered was built by the newest claim, and no file of an older claim
\* stays that nobody would remove, whoever crashes or comes back late
\* (process_customer_export_job).
THEOREM OnlyNewestFileStays == Spec => []OnlyNewestIsKept
<1>1. ExportInv => OnlyNewestIsKept
  BY DEF ExportInv
<1> QED BY ExportInvariantHolds, <1>1, PTL

LEMMA ClaimEndsRightly == ExportInv /\ [Next]_vars => [ClaimEnds]_vars
<1> SUFFICES ASSUME ExportInv, Next, job.status = "processing", job'.status # "processing"
             PROVE  ClaimEnds
    BY DEF ClaimEnds
<1>1. TypeOK /\ job.token # 0
  BY DEF ExportInv, TypeOK
<1>2. ASSUME NEW w \in Worker, Fail(w) \/ Complete(w) PROVE ClaimEnds
  <2>1. Stops(w) /\ (job' # job => Owns(w))
    BY <1>2 DEF Fail, Complete
  <2> QED BY <1>1, <2>1, WorkerStops DEF ClaimEnds, Owns
<1>3. ASSUME NEW w \in Worker, ClaimRefused(w) PROVE ClaimEnds
  BY <1>1, <1>3, EndsIs DEF ClaimRefused, Claimable, ClaimEnds
<1>4. ASSUME NEW w \in Worker, Claim(w) PROVE FALSE
  BY <1>1, <1>4 DEF Claim, TypeOK, JobRecord
<1>5. ASSUME NEW w \in Worker, Build(w) \/ BuildFails(w) \/ Crash(w) PROVE FALSE
  BY <1>5 DEF Build, BuildFails, Crash
<1>6. ASSUME NEW r \in Reader, Download(r) PROVE FALSE
  BY <1>1, <1>6 DEF Download, DownloadExpired, DownloadRevoked, DownloadMissing, RemoveFile, SaveStatus,
     DownloadDies, StatusFits
<1>7. CASE Cancel
  BY <1>1, <1>7, EndsIs DEF Cancel, ClaimEnds
<1>8. ASSUME Retry \/ TurnsLate \/ Expires \/ Authorize PROVE FALSE
  BY <1>1, <1>8 DEF Retry, TurnsLate, Expires, Authorize, TypeOK, JobRecord
<1> QED BY <1>2, <1>3, <1>4, <1>5, <1>6, <1>7, <1>8 DEF Next, Proceeds, Fault, Environment

\* A claim under way is ended by the worker that holds it, by a cancellation, or as
\* failed once it is late and its owner may not read the rows any more: never by an
\* overtaken worker or by a download (_fail_processing_job and its callers).
THEOREM ClaimHasOneEnd == Spec => ClaimIsExclusive
BY ExportInvariantHolds, ClaimEndsRightly, PTL DEF Spec, ClaimIsExclusive
-----------------------------------------------------------------------------
(***************************************************************************)
(* Imported batches, for any records, companies and batches. An open       *)
(* commit counts what it has written so far (ProgressInv), and the records *)
(* it has written are nobody else's (MadeInv, MadeApart).                  *)
(***************************************************************************)
RowsWith(row, s) == {r \in Record : row[r].status = s}

\* An open commit counts what it has written so far: the rows it has behind it
\* are written or have failed, those before it wait.
ProgressInv(b) ==
    /\ ~work[b].open => work[b] = AtRest
    /\ \A r \in Record : r \in work[b].todo => work[b].row[r].status \in Waiting
    /\ work[b].open =>
          \A r \in Record \ work[b].todo : work[b].row[r].status \notin {"new", "supplement"}
    /\ work[b].open =>
          /\ work[b].imported = Cardinality(RowsWith(work[b].row, "imported"))
          /\ work[b].failed = Cardinality(RowsWith(work[b].row, "failed") \ work[b].todo)

\* What an open commit has written is nobody else's record, and the company of
\* a row that counts as imported is the one the record was given to.
MadeInv(b) ==
    /\ \A m, n \in work[b].made : m[1] = n[1] => m = n
    /\ \A m \in work[b].made, s \in source : s[1] = m[1] => s = m
    /\ \A m \in work[b].made : m[1] \notin work[b].todo
    /\ \A r \in Record : work[b].row[r].status = "imported" =>
          <<r, work[b].row[r].company>> \in source \cup work[b].made

MadeApart == \A b, c \in Batch : b # c =>
                \A m \in work[b].made, n \in work[c].made : m[1] # n[1]

\* The totals of one batch, and a file that has no preview yet.
TotalsOf(b) ==
    /\ batch[b].imported = Cardinality(RowsWith(batch[b].row, "imported"))
    /\ batch[b].failed = Cardinality(RowsWith(batch[b].row, "failed"))
    /\ batch[b].status = "succeeded" => \A s \in Waiting : RowsWith(batch[b].row, s) = {}
    /\ batch[b].status = "none" => batch[b].imported = 0 /\ batch[b].failed = 0

ImportInv ==
    /\ ImportTypeOK
    /\ \A b \in Batch : ProgressInv(b) /\ MadeInv(b) /\ TotalsOf(b)
    /\ MadeApart
    /\ RecordsKeepTheirCompany

BatchRow == [status : BatchStatus, row : [Record -> Row], imported : Nat, failed : Nat]
WorkRow == [open : BOOLEAN, todo : SUBSET Record, row : [Record -> Row],
            imported : Nat, failed : Nat, made : SUBSET (Record \X Company)]

LEMMA RowsAreFinite ==
  /\ \A T \in SUBSET Record : IsFiniteSet(T) /\ Cardinality(T) \in Nat
  /\ \A row, s : RowsWith(row, s) \in SUBSET Record
<1>1. IsFiniteSet(Record)
  BY FS_Interval, RecordsAssumption DEF Record
<1> QED BY <1>1, FS_Subset, FS_CardinalityType DEF RowsWith

LEMMA AtRestIs ==
  /\ AtRest \in WorkRow /\ ~AtRest.open /\ AtRest.todo = {} /\ AtRest.made = {} /\ AtRest.failed = 0
  /\ \A r \in Record : AtRest.row[r] = NoRow /\ NoRow \in Row /\ NoRow.status = "new"
BY DEF AtRest, WorkRow, NoRow, Row, RowStatus

LEMMA LeastRowExists ==
  ASSUME NEW S \in SUBSET Nat, S # {}
  PROVE  \E r \in S : \A other \in S : r <= other
<1> DEFINE R == OpToRel(<, Nat)
<1>1. IsWellFoundedOn(R, Nat)
  BY NatLessThanWellFounded
<1>2. \A m, n \in Nat : <<n, m>> \in R <=> n < m
  BY DEF OpToRel
<1> HIDE DEF R
<1>3. PICK r \in S : \A other \in S : ~(<<other, r>> \in R)
  BY <1>1, WFMin
<1>4. \A other \in S : other \in Nat /\ r \in Nat /\ ~(other < r)
  BY <1>2, <1>3
<1> QED BY <1>4

\* Following finds a row to write while there is one.
LEMMA FollowingIs ==
  ASSUME ImportTypeOK, NEW b \in Batch, work[b].todo # {}
  PROVE  Following(b) \in work[b].todo /\ Following(b) \in Record
<1>1. work[b].todo \in SUBSET Record /\ work[b].todo \in SUBSET Nat
  BY RecordsAssumption DEF ImportTypeOK, Record
<1>2. \E r \in work[b].todo : \A other \in work[b].todo : r <= other
  BY <1>1, LeastRowExists
<1> QED BY <1>1, <1>2 DEF Following

LEMMA InitImportInv == ImportInit => ImportInv
<1> SUFFICES ASSUME ImportInit PROVE ImportInv
    OBVIOUS
<1>1. \A b \in Batch : work[b] = AtRest
  BY DEF ImportInit
<1>2. \A b \in Batch : \A r \in Record : batch[b].row[r] = NoRow
  BY DEF ImportInit
<1>3. \A b \in Batch : batch[b].status = "none" /\ batch[b].imported = 0 /\ batch[b].failed = 0
  BY DEF ImportInit
<1>4. ImportTypeOK
  BY AtRestIs, RecordsAssumption DEF ImportInit, ImportTypeOK, BatchStatus, WorkRow
<1>5. \A b \in Batch : RowsWith(batch[b].row, "imported") = {} /\ RowsWith(batch[b].row, "failed") = {}
  BY <1>2, AtRestIs DEF RowsWith
<1>6. \A b \in Batch : TotalsOf(b)
  BY <1>3, <1>5, FS_EmptySet DEF TotalsOf
<1>7. \A b \in Batch : ProgressInv(b) /\ MadeInv(b)
  BY <1>1, AtRestIs DEF ProgressInv, MadeInv
<1>8. MadeApart
  BY <1>1, AtRestIs DEF MadeApart
<1>9. RecordsKeepTheirCompany
  BY <1>2, AtRestIs DEF ImportInit, RecordsKeepTheirCompany
<1> QED BY <1>4, <1>6, <1>7, <1>8, <1>9 DEF ImportInv
-----------------------------------------------------------------------------
\* One open commit takes a step, or begins, or is lost; the rest is as it was.
LEMMA WorkMoves ==
  ASSUME ImportInv, UNCHANGED <<source, batch, name>>, NEW b \in Batch,
         work' \in [Batch -> WorkRow],
         \A c \in Batch : c # b => work'[c] = work[c],
         ProgressInv(b)', MadeInv(b)',
         \A c \in Batch \ {b} : \A m \in work'[b].made, n \in work[c].made : m[1] # n[1]
  PROVE  ImportInv'
<1>1. ImportTypeOK' /\ RecordsKeepTheirCompany'
  BY DEF ImportInv, ImportTypeOK, WorkRow, RecordsKeepTheirCompany
<1>2. \A c \in Batch : c # b => ProgressInv(c)' /\ MadeInv(c)'
  <2> SUFFICES ASSUME NEW c \in Batch, c # b PROVE ProgressInv(c)' /\ MadeInv(c)'
      OBVIOUS
  <2>1. work'[c] = work[c] /\ ProgressInv(c) /\ MadeInv(c)
    BY DEF ImportInv
  <2> QED BY <2>1 DEF ProgressInv, MadeInv
<1>3. \A c \in Batch : TotalsOf(c)'
  BY DEF ImportInv, TotalsOf
<1>4. MadeApart'
  <2> SUFFICES ASSUME NEW c \in Batch, NEW d \in Batch, c # d
               PROVE \A m \in work'[c].made, n \in work'[d].made : m[1] # n[1]
    BY DEF MadeApart
  <2>1. CASE c = b
    <3>1. work'[d] = work[d] /\ d \in Batch \ {b}
      BY <2>1
    <3> QED BY <2>1, <3>1
  <2>2. CASE d = b
    <3>1. work'[c] = work[c] /\ c \in Batch \ {b}
      BY <2>2
    <3> QED BY <2>2, <3>1
  <2>3. CASE c # b /\ d # b
    BY <2>3 DEF ImportInv, MadeApart
  <2> QED BY <2>1, <2>2, <2>3
<1> QED BY <1>1, <1>2, <1>3, <1>4 DEF ImportInv

LEMMA RestsImportInv ==
  ASSUME ImportInv, NEW b \in Batch, work' = [work EXCEPT ![b] = AtRest],
         UNCHANGED <<source, batch, name>>
  PROVE  ImportInv'
<1>1. /\ work' \in [Batch -> WorkRow] /\ work'[b] = AtRest
      /\ \A c \in Batch : c # b => work'[c] = work[c]
  BY AtRestIs DEF ImportInv, ImportTypeOK, WorkRow
<1>2. ProgressInv(b)' /\ MadeInv(b)'
  BY <1>1, AtRestIs DEF ProgressInv, MadeInv
<1> QED BY <1>1, <1>2, AtRestIs, WorkMoves

LEMMA BeginImportInv == ASSUME ImportInv, NEW b \in Batch, Begin(b) PROVE ImportInv'
<1> DEFINE todo == {r \in Record : batch[b].row[r].status \in Waiting}
           new == [AtRest EXCEPT !.open = TRUE, !.row = batch[b].row,
                                 !.imported = batch[b].imported, !.todo = todo]
<1>1. /\ UNCHANGED <<name, source, batch>>
      /\ work' = [work EXCEPT ![b] = new]
  BY DEF Begin
<1>2. /\ batch[b] \in BatchRow /\ todo \in SUBSET Record
      /\ work \in [Batch -> WorkRow]
  BY DEF ImportInv, ImportTypeOK, BatchRow, WorkRow
<1>3. /\ new \in WorkRow
      /\ new.open /\ new.todo = todo /\ new.row = batch[b].row /\ new.failed = 0
      /\ new.imported = batch[b].imported /\ new.made = {}
  BY <1>2, AtRestIs DEF WorkRow, BatchRow
<1> HIDE DEF new
<1>4. /\ work' \in [Batch -> WorkRow] /\ work'[b] = new
      /\ \A c \in Batch : c # b => work'[c] = work[c]
  BY <1>1, <1>2, <1>3
<1>6. RowsWith(batch[b].row, "failed") \ todo = {}
  BY DEF RowsWith, Waiting
<1>7. \A r \in Record : (r \in todo <=> batch[b].row[r].status \in Waiting)
  OBVIOUS
<1> HIDE DEF todo
<1>8. ProgressInv(b)'
  <2>1. new.imported = Cardinality(RowsWith(new.row, "imported"))
    BY <1>3 DEF ImportInv, TotalsOf
  <2>2. new.failed = Cardinality(RowsWith(new.row, "failed") \ new.todo)
    BY <1>3, <1>6, FS_EmptySet
  <2>3. \A r \in Record : /\ r \in new.todo => new.row[r].status \in Waiting
                          /\ r \notin new.todo => new.row[r].status \notin {"new", "supplement"}
    BY <1>3, <1>7 DEF Waiting
  <2>4. work'[b] = new /\ new.open
    BY <1>3, <1>4
  <2>5. \A r \in Record \ new.todo : new.row[r].status \notin {"new", "supplement"}
    BY <2>3
  <2> HIDE DEF new
  <2> QED BY <2>1, <2>2, <2>3, <2>4, <2>5 DEF ProgressInv
<1>9. MadeInv(b)'
  BY <1>1, <1>3, <1>4 DEF MadeInv, ImportInv, RecordsKeepTheirCompany
<1> QED BY <1>1, <1>3, <1>4, <1>8, <1>9, WorkMoves

\* A row that is done leaves those to do; nothing else of the commit changes.
LEMMA DoneIs ==
  ASSUME NEW b \in Batch, work[b] \in WorkRow, NEW r \in Record, NEW row \in Row
  PROVE  /\ Done(b, r, row) \in WorkRow
         /\ Done(b, r, row).open = work[b].open
         /\ Done(b, r, row).todo = work[b].todo \ {r}
         /\ Done(b, r, row).row = [work[b].row EXCEPT ![r] = row]
         /\ Done(b, r, row).imported = work[b].imported
         /\ Done(b, r, row).failed = work[b].failed
         /\ Done(b, r, row).made = work[b].made
<1>1. [work[b].row EXCEPT ![r] = row] \in [Record -> Row]
  BY DEF WorkRow
<1>2. Done(b, r, row) = [[work[b] EXCEPT !.todo = work[b].todo \ {r}]
                            EXCEPT !.row = [work[b].row EXCEPT ![r] = row]]
  BY DEF Done, WorkRow
<1> QED BY <1>1, <1>2 DEF WorkRow

LEMMA WrittenIs ==
  ASSUME NEW w \in WorkRow, NEW m \in Record \X Company
  PROVE  LET new == [w EXCEPT !.imported = @ + 1, !.made = @ \cup {m}] IN
         /\ new \in WorkRow /\ new.open = w.open /\ new.todo = w.todo /\ new.row = w.row
         /\ new.imported = w.imported + 1 /\ new.failed = w.failed /\ new.made = w.made \cup {m}
<1> DEFINE made == w.made \cup {m}
           imported == w.imported + 1
<1>1. made \in SUBSET (Record \X Company) /\ imported \in Nat
  BY DEF WorkRow
<1>2. [w EXCEPT !.imported = @ + 1, !.made = @ \cup {m}]
         = [w EXCEPT !.imported = imported, !.made = made]
  BY DEF WorkRow
<1> HIDE DEF made, imported
<1>3. LET new == [w EXCEPT !.imported = imported, !.made = made] IN
      /\ new \in WorkRow /\ new.open = w.open /\ new.todo = w.todo /\ new.row = w.row
      /\ new.imported = imported /\ new.failed = w.failed /\ new.made = made
  BY <1>1 DEF WorkRow
<1> QED BY <1>2, <1>3 DEF made, imported

LEMMA RefusedIs ==
  ASSUME NEW w \in WorkRow
  PROVE  LET new == [w EXCEPT !.failed = @ + 1] IN
         /\ new \in WorkRow /\ new.open = w.open /\ new.todo = w.todo /\ new.row = w.row
         /\ new.imported = w.imported /\ new.failed = w.failed + 1 /\ new.made = w.made
BY DEF WorkRow

LEMMA ImportRowImportInv == ASSUME ImportInv, NEW b \in Batch, ImportRow(b) PROVE ImportInv'
<1> DEFINE r == Following(b)
           has == work[b].row[r].company
<1>1. PICK c \in (IF has = NoCompany THEN Unused ELSE {has}) :
              /\ \A other \in Batch \ {b} : \A m \in work[other].made : m[1] # r
              /\ Indexed(r, c)
              /\ work' = [work EXCEPT ![b] =
                    [Done(b, r, [status |-> "imported", company |-> c])
                        EXCEPT !.imported = @ + 1, !.made = @ \cup {<<r, c>>}]]
  BY DEF ImportRow
<1>2. /\ work[b].todo # {} /\ UNCHANGED <<name, source, batch>>
      /\ work \in [Batch -> WorkRow] /\ work[b] \in WorkRow
      /\ r \in work[b].todo /\ r \in Record
  BY FollowingIs DEF ImportRow, ImportInv, ImportTypeOK, WorkRow
<1>3. work[b].open /\ ProgressInv(b) /\ MadeInv(b)
  BY <1>2, AtRestIs DEF ImportInv, ProgressInv
<1> HIDE DEF r
<1>4. c \in Company
  <2>1. work[b].row[r] \in Row
    BY <1>2 DEF WorkRow
  <2> QED BY <1>1, <2>1 DEF Row, Unused
<1> DEFINE done == [status |-> "imported", company |-> c]
           row == [work[b].row EXCEPT ![r] = done]
           new == [Done(b, r, done) EXCEPT !.imported = @ + 1, !.made = @ \cup {<<r, c>>}]
<1>5. work' = [work EXCEPT ![b] = new]
  BY <1>1
<1>6. done \in Row /\ done.status = "imported" /\ done.company = c
  BY <1>4 DEF Row, RowStatus
<1>7. /\ row \in [Record -> Row] /\ row[r] = done
      /\ \A x \in Record : x # r => row[x] = work[b].row[x]
  BY <1>2, <1>6 DEF WorkRow
<1> HIDE DEF done
<1>8. /\ new \in WorkRow /\ new.open /\ new.todo = work[b].todo \ {r} /\ new.row = row
      /\ new.imported = work[b].imported + 1 /\ new.failed = work[b].failed
      /\ new.made = work[b].made \cup {<<r, c>>}
  <2>1. <<r, c>> \in Record \X Company
    BY <1>2, <1>4
  <2>2. Done(b, r, done) \in WorkRow
    BY <1>2, <1>6, DoneIs
  <2> DEFINE w == Done(b, r, done)
  <2>3. /\ new \in WorkRow /\ new.open = w.open /\ new.todo = w.todo /\ new.row = w.row
        /\ new.imported = w.imported + 1 /\ new.failed = w.failed /\ new.made = w.made \cup {<<r, c>>}
    BY <2>1, <2>2, WrittenIs
  <2>4. /\ w.open = work[b].open /\ w.todo = work[b].todo \ {r} /\ w.row = row
        /\ w.imported = work[b].imported /\ w.failed = work[b].failed /\ w.made = work[b].made
    BY <1>2, <1>6, DoneIs
  <2> HIDE DEF w, new, row
  <2> QED BY <1>3, <2>3, <2>4
<1> HIDE DEF new, row
<1>10. /\ work' \in [Batch -> WorkRow] /\ work'[b] = new
       /\ \A d \in Batch : d # b => work'[d] = work[d]
  BY <1>2, <1>5, <1>8
<1>11. ProgressInv(b)'
  <2>1. work[b].row[r].status \in Waiting
    BY <1>2, <1>3 DEF ProgressInv
  <2>2. RowsWith(row, "imported") = RowsWith(work[b].row, "imported") \cup {r}
    BY <1>2, <1>6, <1>7 DEF RowsWith
  <2>3. r \notin RowsWith(work[b].row, "imported")
    BY <2>1 DEF RowsWith, Waiting
  <2>4. Cardinality(RowsWith(row, "imported")) = Cardinality(RowsWith(work[b].row, "imported")) + 1
    BY <2>2, <2>3, RowsAreFinite, FS_AddElement
  <2>5. RowsWith(row, "failed") \ (work[b].todo \ {r}) = RowsWith(work[b].row, "failed") \ work[b].todo
    BY <1>2, <1>6, <1>7 DEF RowsWith
  <2>6. \A x \in Record : x \in work[b].todo \ {r} => row[x].status \in Waiting
    BY <1>3, <1>7 DEF ProgressInv
  <2>7. \A x \in Record \ (work[b].todo \ {r}) : row[x].status \notin {"new", "supplement"}
    BY <1>3, <1>6, <1>7 DEF ProgressInv
  <2> QED BY <1>3, <1>8, <1>10, <2>4, <2>5, <2>6, <2>7 DEF ProgressInv
<1>12. MadeInv(b)'
  <2>1. \A m \in work[b].made : m[1] # r
    BY <1>2, <1>3 DEF MadeInv
  <2>2. \A s \in source : s[1] = r => s = <<r, c>>
    BY <1>1, <1>2 DEF Indexed, ImportInv, ImportTypeOK
  <2>3. \A x \in Record : row[x].status = "imported" =>
            <<x, row[x].company>> \in source \cup new.made
    BY <1>3, <1>6, <1>7, <1>8 DEF MadeInv
  <2>4. /\ \A m, n \in new.made : m[1] = n[1] => m = n
        /\ \A m \in new.made, s \in source : s[1] = m[1] => s = m
        /\ \A m \in new.made : m[1] \notin new.todo
    BY <1>3, <1>8, <2>1, <2>2 DEF MadeInv
  <2> QED BY <1>2, <1>8, <1>10, <2>3, <2>4 DEF MadeInv
<1>13. \A d \in Batch \ {b} : \A m \in work'[b].made, n \in work[d].made : m[1] # n[1]
  <2> SUFFICES ASSUME NEW d \in Batch \ {b}, NEW m \in new.made, NEW n \in work[d].made
               PROVE m[1] # n[1]
    BY <1>10
  <2>1. CASE m = <<r, c>>
    BY <1>1, <2>1
  <2>2. CASE m \in work[b].made
    BY <2>2 DEF ImportInv, MadeApart
  <2> QED BY <1>8, <2>1, <2>2
<1> QED BY <1>2, <1>10, <1>11, <1>12, <1>13, WorkMoves

LEMMA RefuseRowImportInv == ASSUME ImportInv, NEW b \in Batch, RefuseRow(b) PROVE ImportInv'
<1> DEFINE r == Following(b)
           done == [work[b].row[r] EXCEPT !.status = "failed"]
           row == [work[b].row EXCEPT ![r] = done]
           new == [Done(b, r, done) EXCEPT !.failed = @ + 1]
<1>1. /\ work[b].todo # {} /\ UNCHANGED <<name, source, batch>>
      /\ work' = [work EXCEPT ![b] = new]
  BY DEF RefuseRow
<1>2. /\ work \in [Batch -> WorkRow] /\ work[b] \in WorkRow
      /\ r \in work[b].todo /\ r \in Record
  BY <1>1, FollowingIs DEF ImportInv, ImportTypeOK, WorkRow
<1>3. work[b].open /\ ProgressInv(b) /\ MadeInv(b)
  BY <1>1, AtRestIs DEF ImportInv, ProgressInv
<1> HIDE DEF r
<1>4. done \in Row /\ done.status = "failed"
  <2>1. work[b].row[r] \in Row
    BY <1>2 DEF WorkRow
  <2> QED BY <2>1 DEF Row, RowStatus
<1>6. /\ row \in [Record -> Row] /\ row[r] = done
      /\ \A x \in Record : x # r => row[x] = work[b].row[x]
  BY <1>2, <1>4 DEF WorkRow
<1> HIDE DEF done
<1>7. /\ new \in WorkRow /\ new.open /\ new.todo = work[b].todo \ {r} /\ new.row = row
      /\ new.imported = work[b].imported /\ new.failed = work[b].failed + 1
      /\ new.made = work[b].made
  <2>1. Done(b, r, done) \in WorkRow
    BY <1>2, <1>4, DoneIs
  <2> QED BY <1>2, <1>3, <1>4, <2>1, DoneIs, RefusedIs
<1> HIDE DEF new, row
<1>9. /\ work' \in [Batch -> WorkRow] /\ work'[b] = new
      /\ \A d \in Batch : d # b => work'[d] = work[d]
  BY <1>1, <1>2, <1>7
<1>10. ProgressInv(b)'
  <2>1. work[b].row[r].status \in Waiting
    BY <1>2, <1>3 DEF ProgressInv
  <2>2. RowsWith(row, "failed") \ (work[b].todo \ {r})
           = (RowsWith(work[b].row, "failed") \ work[b].todo) \cup {r}
    BY <1>2, <1>4, <1>6 DEF RowsWith
  <2>3. RowsWith(work[b].row, "failed") \ work[b].todo \in SUBSET Record
    BY DEF RowsWith
  <2>4. Cardinality(RowsWith(row, "failed") \ (work[b].todo \ {r}))
           = Cardinality(RowsWith(work[b].row, "failed") \ work[b].todo) + 1
    BY <1>2, <2>2, <2>3, RowsAreFinite, FS_AddElement
  <2>5. RowsWith(row, "imported") = RowsWith(work[b].row, "imported")
    BY <1>2, <1>4, <1>6, <2>1 DEF RowsWith, Waiting
  <2>6. \A x \in Record : x \in work[b].todo \ {r} => row[x].status \in Waiting
    BY <1>3, <1>6 DEF ProgressInv
  <2>7. \A x \in Record \ (work[b].todo \ {r}) : row[x].status \notin {"new", "supplement"}
    BY <1>3, <1>4, <1>6 DEF ProgressInv
  <2> QED BY <1>3, <1>7, <1>9, <2>4, <2>5, <2>6, <2>7 DEF ProgressInv
<1>11. MadeInv(b)'
  <2>1. \A x \in Record : row[x].status = "imported" =>
            <<x, row[x].company>> \in source \cup work[b].made
    BY <1>3, <1>4, <1>6 DEF MadeInv
  <2> QED BY <1>1, <1>3, <1>7, <1>9, <2>1 DEF MadeInv
<1>12. \A d \in Batch \ {b} : \A m \in work'[b].made, n \in work[d].made : m[1] # n[1]
  BY <1>7, <1>9 DEF ImportInv, MadeApart
<1> QED BY <1>1, <1>9, <1>10, <1>11, <1>12, WorkMoves

\* Nothing was written: what open commits say is as it was.
LEMMA WorkStays ==
  ASSUME ImportInv, UNCHANGED <<source, work>>
  PROVE  MadeApart' /\ \A b \in Batch : ProgressInv(b)' /\ MadeInv(b)'
<1>1. \A b \in Batch : ProgressInv(b)'
  BY DEF ImportInv, ProgressInv
<1>2. \A b \in Batch : MadeInv(b)'
  BY DEF ImportInv, MadeInv
<1> QED BY <1>1, <1>2 DEF ImportInv, MadeApart

LEMMA PreviewFileImportInv == ASSUME ImportInv, NEW b \in Batch, PreviewFile(b) PROVE ImportInv'
<1>1. PICK row \in [Record -> UNION {Classified(r) : r \in Record}] :
          /\ \A r \in Record : row[r] \in Classified(r)
          /\ batch' = [batch EXCEPT ![b].status = "preview", ![b].row = row]
  BY DEF PreviewFile
<1>2. batch[b].status = "none" /\ UNCHANGED <<name, source, work>> /\ batch \in [Batch -> BatchRow]
  BY DEF PreviewFile, ImportInv, ImportTypeOK, BatchRow
<1>3. \A r \in Record : row[r] \in Row /\ row[r].status \notin {"imported", "failed"}
  <2> SUFFICES ASSUME NEW r \in Record PROVE row[r] \in Row /\ row[r].status \notin {"imported", "failed"}
      OBVIOUS
  <2>1. row[r] \in Classified(r)
    BY <1>1
  <2>2. Candidates(r) \subseteq Company
    BY DEF Candidates
  <2>3. \A x \in [status : {"supplement", "unchanged"}, company : Candidates(r)] :
            x \in Row /\ x.status \notin {"imported", "failed"}
    BY <2>2 DEF Row, RowStatus
  <2>4. \A x \in {[status |-> "quarantined", company |-> NoCompany], NoRow} :
            x \in Row /\ x.status \notin {"imported", "failed"}
    BY DEF Row, RowStatus, NoRow
  <2> QED BY <2>1, <2>3, <2>4 DEF Classified
<1>4. row \in [Record -> Row]
  BY <1>1, <1>3
<1>5. /\ batch' \in [Batch -> BatchRow]
      /\ batch'[b].row = row /\ batch'[b].status = "preview"
      /\ batch'[b].imported = batch[b].imported /\ batch'[b].failed = batch[b].failed
      /\ \A c \in Batch : c # b => batch'[c] = batch[c]
  BY <1>1, <1>2, <1>4 DEF BatchRow, BatchStatus
<1>6. ImportTypeOK'
  BY <1>2, <1>5 DEF ImportInv, ImportTypeOK, BatchRow
<1>7. \A c \in Batch : TotalsOf(c)'
  <2>1. RowsWith(row, "imported") = {} /\ RowsWith(row, "failed") = {}
    BY <1>3 DEF RowsWith
  <2>2. batch[b].imported = 0 /\ batch[b].failed = 0
    BY <1>2 DEF ImportInv, TotalsOf
  <2>3. TotalsOf(b)'
    BY <1>5, <2>1, <2>2, FS_EmptySet DEF TotalsOf
  <2>4. ASSUME NEW c \in Batch, c # b PROVE TotalsOf(c)'
    <3>1. batch'[c] = batch[c] /\ TotalsOf(c)
      BY <1>5, <2>4 DEF ImportInv
    <3> QED BY <3>1 DEF TotalsOf
  <2> QED BY <2>3, <2>4
<1>8. RecordsKeepTheirCompany'
  <2>1. ASSUME NEW c \in Batch, NEW r \in Record, batch'[c].row[r].status = "imported"
        PROVE  <<r, batch'[c].row[r].company>> \in source
    <3>1. c # b
      BY <1>3, <1>5, <2>1
    <3> QED BY <1>5, <2>1, <3>1 DEF ImportInv, RecordsKeepTheirCompany
  <2> QED BY <1>2, <2>1 DEF ImportInv, RecordsKeepTheirCompany
<1> QED BY <1>2, <1>6, <1>7, <1>8, WorkStays DEF ImportInv

LEMMA CommitBatchImportInv == ASSUME ImportInv, NEW b \in Batch, CommitBatch(b) PROVE ImportInv'
<1> DEFINE new == [status |-> IF work[b].failed > 0 THEN "partial" ELSE "succeeded",
                   row |-> work[b].row, imported |-> work[b].imported, failed |-> work[b].failed]
<1>1. /\ work[b].open /\ work[b].todo = {}
      /\ batch' = [batch EXCEPT ![b] = new]
      /\ source' = source \cup work[b].made
      /\ work' = [work EXCEPT ![b] = AtRest]
      /\ name' = [c \in Company |->
          IF name[c] = 0 /\ \E r \in Record : <<r, c>> \in work[b].made
          THEN CHOOSE r \in Record : <<r, c>> \in work[b].made ELSE name[c]]
  BY DEF CommitBatch
<1>2. /\ batch \in [Batch -> BatchRow] /\ work \in [Batch -> WorkRow] /\ work[b] \in WorkRow
      /\ name \in [Company -> 0..Records] /\ source \subseteq Record \X Company
  BY DEF ImportInv, ImportTypeOK, BatchRow, WorkRow
<1>3. ProgressInv(b) /\ MadeInv(b) /\ MadeApart /\ RecordsKeepTheirCompany
  BY DEF ImportInv
<1>4. /\ new \in BatchRow /\ new.row = work[b].row /\ new.status # "none"
      /\ new.imported = work[b].imported /\ new.failed = work[b].failed
      /\ new.status = "succeeded" => ~(work[b].failed > 0)
  BY <1>2 DEF BatchRow, BatchStatus, WorkRow
<1> HIDE DEF new
<1>5. /\ batch' \in [Batch -> BatchRow] /\ batch'[b] = new
      /\ \A c \in Batch : c # b => batch'[c] = batch[c]
      /\ work' \in [Batch -> WorkRow] /\ work'[b] = AtRest
      /\ \A c \in Batch : c # b => work'[c] = work[c]
  BY <1>1, <1>2, <1>4, AtRestIs
<1>6. ImportTypeOK'
  <2>1. name' \in [Company -> 0..Records]
    <3> SUFFICES ASSUME NEW c \in Company PROVE name'[c] \in 0..Records
      BY <1>1
    <3>1. Record \subseteq 0..Records
      BY RecordsAssumption DEF Record
    <3>2. name[c] \in 0..Records
      BY <1>2
    <3> QED BY <1>1, <3>1, <3>2
  <2>2. source' \subseteq Record \X Company
    BY <1>1, <1>2 DEF WorkRow
  <2> QED BY <1>5, <2>1, <2>2 DEF ImportTypeOK, BatchRow, WorkRow
<1>7. \A c \in Batch : TotalsOf(c)'
  <2>1. ASSUME NEW c \in Batch, c # b PROVE TotalsOf(c)'
    <3>1. batch'[c] = batch[c] /\ TotalsOf(c)
      BY <1>5, <2>1 DEF ImportInv
    <3> QED BY <3>1 DEF TotalsOf
  <2>2. RowsWith(work[b].row, "failed") \ work[b].todo = RowsWith(work[b].row, "failed")
    BY <1>1
  <2>3. /\ work[b].imported = Cardinality(RowsWith(work[b].row, "imported"))
        /\ work[b].failed = Cardinality(RowsWith(work[b].row, "failed"))
    BY <1>1, <1>3, <2>2 DEF ProgressInv
  <2>4. ASSUME new.status = "succeeded" PROVE \A s \in Waiting : RowsWith(new.row, s) = {}
    <3>1. work[b].failed = 0
      BY <1>2, <1>4, <2>4 DEF WorkRow
    <3>2. RowsWith(work[b].row, "failed") = {}
      BY <2>3, <3>1, RowsAreFinite, FS_EmptySet
    <3>3. \A r \in Record : work[b].row[r].status \notin {"new", "supplement"}
      BY <1>1, <1>3 DEF ProgressInv
    <3> QED BY <1>4, <3>2, <3>3 DEF RowsWith, Waiting
  <2>5. TotalsOf(b)'
    BY <1>4, <1>5, <2>3, <2>4 DEF TotalsOf
  <2> QED BY <2>1, <2>5
<1>8. RecordsKeepTheirCompany'
  <2>1. \A s, t \in source' : s[1] = t[1] => s = t
    BY <1>1, <1>3 DEF MadeInv, RecordsKeepTheirCompany
  <2>2. ASSUME NEW c \in Batch, NEW r \in Record, batch'[c].row[r].status = "imported"
        PROVE  <<r, batch'[c].row[r].company>> \in source'
    <3>1. CASE c = b
      BY <1>1, <1>3, <1>4, <1>5, <2>2, <3>1 DEF MadeInv
    <3>2. CASE c # b
      BY <1>1, <1>3, <1>5, <2>2, <3>2 DEF RecordsKeepTheirCompany
    <3> QED BY <3>1, <3>2
  <2> QED BY <2>1, <2>2 DEF RecordsKeepTheirCompany
<1>9. ASSUME NEW c \in Batch PROVE ProgressInv(c)' /\ MadeInv(c)'
  <2>1. CASE c = b
    BY <1>5, <2>1, AtRestIs DEF ProgressInv, MadeInv
  <2>2. CASE c # b
    <3>1. work'[c] = work[c] /\ ProgressInv(c) /\ MadeInv(c)
      BY <1>5, <2>2 DEF ImportInv
    <3>2. \A m \in work[c].made, n \in work[b].made : m[1] # n[1]
      BY <1>3, <2>2 DEF MadeApart
    <3>3. \A m \in work[c].made, s \in source' : s[1] = m[1] => s = m
      BY <1>1, <3>1, <3>2 DEF MadeInv
    <3>4. MadeInv(c)'
      BY <1>1, <3>1, <3>3 DEF MadeInv
    <3> QED BY <3>1, <3>4 DEF ProgressInv
  <2> QED BY <2>1, <2>2
<1>10. MadeApart'
  <2> SUFFICES ASSUME NEW c \in Batch, NEW d \in Batch, c # d
               PROVE \A m \in work'[c].made, n \in work'[d].made : m[1] # n[1]
    BY DEF MadeApart
  <2>1. CASE c = b \/ d = b
    BY <1>5, <2>1, AtRestIs
  <2>2. CASE c # b /\ d # b
    BY <1>3, <1>5, <2>2 DEF MadeApart
  <2> QED BY <2>1, <2>2
<1> QED BY <1>6, <1>7, <1>8, <1>9, <1>10 DEF ImportInv

LEMMA NextImportInv == ImportInv /\ [ImportNext]_importVars => ImportInv'
<1> SUFFICES ASSUME ImportInv, [ImportNext]_importVars PROVE ImportInv'
    OBVIOUS
<1>1. CASE UNCHANGED importVars
  <2>1. UNCHANGED <<name, source, batch, work>>
    BY <1>1 DEF importVars
  <2>2. ImportTypeOK' /\ RecordsKeepTheirCompany' /\ \A b \in Batch : TotalsOf(b)'
    BY <2>1 DEF ImportInv, ImportTypeOK, RecordsKeepTheirCompany, TotalsOf
  <2> QED BY <2>1, <2>2, WorkStays DEF ImportInv
<1>2. ASSUME NEW c \in Company, NEW r \in Record, AddCompany(c, r) PROVE ImportInv'
  <2>1. /\ UNCHANGED <<source, batch, work>> /\ name' = [name EXCEPT ![c] = r] /\ r \in 0..Records
    BY <1>2, RecordsAssumption DEF AddCompany, Record
  <2>2. ImportTypeOK'
    BY <2>1 DEF ImportInv, ImportTypeOK
  <2>3. RecordsKeepTheirCompany' /\ \A b \in Batch : TotalsOf(b)'
    BY <2>1 DEF ImportInv, RecordsKeepTheirCompany, TotalsOf
  <2> QED BY <2>1, <2>2, <2>3, WorkStays DEF ImportInv
<1>3. ASSUME NEW b \in Batch, LoseCommit(b) PROVE ImportInv'
  BY <1>3, RestsImportInv DEF LoseCommit
<1> QED BY <1>1, <1>2, <1>3, PreviewFileImportInv, BeginImportInv, ImportRowImportInv, RefuseRowImportInv,
           CommitBatchImportInv DEF ImportNext

\* The inductive invariant of the batches and of the commits under way.
THEOREM ImportInvariant == ImportSpec => []ImportInv
BY InitImportInv, NextImportInv, PTL DEF ImportSpec

\* A record belongs to one company, and the totals of a batch are those of its rows,
\* whatever commits fail halfway, are repeated or run at once (_commit_row).
THEOREM ImportsStayTrue == ImportSpec => []ImportsAreTrue
<1>1. ImportInv => ImportsAreTrue
  BY DEF ImportInv, TotalsOf, RowsWith, ImportsAreTrue, TotalsAreTrue
<1> QED BY <1>1, ImportInvariant, PTL
-----------------------------------------------------------------------------
\* A run of both beside each other is a run of each of them, so that what is proved
\* of the parts holds of the composition.
THEOREM FilesKeepTheirParts == FilesSpec => Spec /\ ImportSpec
<1>1. FilesInit => Init /\ ImportInit
  BY DEF FilesInit
<1>2. [FilesNext]_fileVars => [Next]_vars /\ [ImportNext]_importVars
  BY DEF FilesNext, fileVars
<1> QED BY <1>1, <1>2, PTL DEF FilesSpec, Spec, ImportSpec
=============================================================================
