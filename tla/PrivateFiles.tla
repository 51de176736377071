---------------------------- MODULE PrivateFiles ----------------------------
(***************************************************************************)
(* Private CRM attachments: rows of crm_attachment, the files they name,   *)
(* and the journal of upload markers beside the files                      *)
(* (console/crm_files.py, console/crm_upload_recovery.py).                 *)
(*                                                                         *)
(* A database transaction rolls back, a file does not.  Every upload       *)
(* therefore leaves a marker on disk until its row has committed, and a    *)
(* retired row keeps the path it still has to delete.  An upload of a      *)
(* content that is already stored names the stored file and drops its own. *)
(*                                                                         *)
(* All uploads here carry one content, on one site, for uploads of         *)
(* different contents have no row, path or lock in common.  An upload's    *)
(* token, path, row and advisory lock are the upload itself.               *)
(***************************************************************************)
EXTENDS Integers, FiniteSets

CONSTANTS
    Upload,      \* calls of store_crm_attachment
    Stored,      \* those that committed before the story begins
    Cleaner,     \* runs of _cleanup_private_attachment
    Sweeper,     \* runs of _reconcile_marker
    MaxFaults,   \* bound: disk losses and failed or interrupted clean-ups
    None         \* the empty path, and no row

ASSUME NoneAssumption == None \notin Upload
ASSUME StoredAssumption == Stored \subseteq Upload
ASSUME MaxFaultsAssumption == MaxFaults \in Nat

VARIABLES
    row,         \* committed rows: storage_path and purge_storage_path
    files,       \* paths with a file on disk
    marker,      \* journal entries; "created" once the file is known to be ours
    upload,      \* what each upload is doing, the rows its query found, the
                 \* row it locked to adopt its file, the path to store
    cleaner,     \* what each clean-up is doing, its row and its error code
    sweeper,     \* what each recovery is doing, its marker
    lost,        \* history: named files the disk lost
    faults

vars == <<row, files, marker, upload, cleaner, sweeper, lost, faults>>
-----------------------------------------------------------------------------
Stage == {"idle", "allocated", "opened", "written", "choosing", "adopted",
          "stored", "committed", "over"}
Path == Upload \cup {None}

RowRecord == [path : Path, purge : Path]
UploadRecord == [at : Stage, seen : SUBSET Upload, adopts : Path, path : Path]
CleanerRecord == [at : {"idle", "checked", "removed"}, row : Path,
                  code : {"", "shared", "filesystem"}]
SweeperRecord == [at : {"idle", "read", "unnamed", "removed"}, token : Path]

NotBegun == [at |-> "idle", seen |-> {}, adopts |-> None, path |-> None]
Finished == [NotBegun EXCEPT !.at = "over"]
NoCleaning == [at |-> "idle", row |-> None, code |-> ""]
NoSweep == [at |-> "idle", token |-> None]

\* With crm_attachment_cleanup_state_check: a path to purge only in a row that
\* names no file.
TypeOK ==
    /\ row \in [Upload -> RowRecord]
    /\ \A r \in Upload : row[r].purge # None => row[r].path = None
    /\ files \subseteq Upload
    /\ marker \in [Upload -> {"none", "planned", "created"}]
    /\ upload \in [Upload -> UploadRecord]
    /\ cleaner \in [Cleaner -> CleanerRecord]
    /\ sweeper \in [Sweeper -> SweeperRecord]
    /\ lost \subseteq Upload
    /\ faults \in 0..MaxFaults

Init ==
    /\ row = [r \in Upload |-> [path |-> IF r \in Stored THEN r ELSE None, purge |-> None]]
    /\ files = Stored
    /\ marker = [u \in Upload |-> "none"]
    /\ upload = [u \in Upload |-> IF u \in Stored THEN Finished ELSE NotBegun]
    /\ cleaner = [c \in Cleaner |-> NoCleaning]
    /\ sweeper = [s \in Sweeper |-> NoSweep]
    /\ lost = {}
    /\ faults = 0

Active == {r \in Upload : row[r].path # None}
NamedActive(p) == \E r \in Upload : row[r].path = p
Named(p) == \E r \in Upload : p \in {row[r].path, row[r].purge}

\* Mutant of Runs: the lock outlives its transaction.
RunsMutant(u) == upload[u].at \notin {"idle", "committed"}

\* The advisory lock of the token, held to the end of the transaction.
Runs(u) == upload[u].at \notin {"idle", "committed", "over"}

\* Mutant of RowFree: rows are not locked.
RowFreeMutant(r) == TRUE

\* SELECT ... FOR UPDATE: no upload has adopted the row, no clean-up works on it.
RowFree(r) ==
    /\ \A u \in Upload : upload[u].adopts # r
    /\ \A c \in Cleaner : cleaner[c].row # r
-----------------------------------------------------------------------------
\* store_crm_attachment.
Goes(u, from, to) ==
    /\ upload[u].at = from
    /\ upload' = [upload EXCEPT ![u].at = to]
Over(u) == upload' = [upload EXCEPT ![u] = Finished]
Marks(u, mark) == marker' = [marker EXCEPT ![u] = mark]
OthersIdle == UNCHANGED <<row, cleaner, sweeper, lost, faults>>

\* allocate_upload: take the advisory lock, write the marker.
Allocate(u) ==
    /\ Goes(u, "idle", "allocated")
    /\ Marks(u, "planned")
    /\ UNCHANGED files /\ OthersIdle

\* private_file: the file is created exclusively.
Open(u) ==
    /\ Goes(u, "allocated", "opened")
    /\ files' = files \cup {u}
    /\ UNCHANGED marker /\ OthersIdle

\* confirm_created, and the content.
Write(u) ==
    /\ Goes(u, "opened", "written")
    /\ Marks(u, "created")
    /\ UNCHANGED files /\ OthersIdle

\* The query for a stored copy takes its snapshot.
Look(u) ==
    /\ upload[u].at = "written"
    /\ upload' = [upload EXCEPT ![u].at = "choosing", ![u].seen = Active]
    /\ UNCHANGED <<files, marker>> /\ OthersIdle

\* It locks a row of the snapshot, waiting for its holder, and takes it if it
\* still names a file; which one (the newest) is left open.  A missing stored
\* file is restored from the new one.
Adopt(u, r) ==
    /\ upload[u].at = "choosing"
    /\ r \in upload[u].seen /\ row[r].path # None
    /\ RowFree(r)
    /\ upload' = [upload EXCEPT ![u].at = "adopted", ![u].seen = {}, ![u].adopts = r,
                                ![u].path = row[r].path]
    /\ files' = files \cup {row[r].path}
    /\ lost' = lost \ {row[r].path}
    /\ UNCHANGED <<row, marker, cleaner, sweeper, faults>>

\* No row of the snapshot names a file any more: the new row owns the new file.
Own(u) ==
    /\ upload[u].at = "choosing"
    /\ \A r \in upload[u].seen : row[r].path = None
    /\ upload' = [upload EXCEPT ![u].at = "stored", ![u].seen = {}, ![u].path = u]
    /\ UNCHANGED <<files, marker>> /\ OthersIdle

\* The finally block of an upload that adopted a file: its own is deleted,
\* then its marker.
DropTemporary(u) ==
    /\ Goes(u, "adopted", "stored")
    /\ files' = files \ {u}
    /\ Marks(u, "none")
    /\ OthersIdle

\* Mutant of CleansUp: the marker goes whether the file could be deleted or not.
CleansUpMutant(u) ==
    /\ files' \in {files, files \ {u}}
    /\ Marks(u, "none")

\* The finally block on its way out of a failure: the file, then the marker;
\* an OSError ends it early.
CleansUp(u) ==
    \/ UNCHANGED <<files, marker>>
    \/ /\ files' = files \ {u}
       /\ Marks(u, "none") \/ UNCHANGED marker

\* An exception, or the clean-up of DropTemporary itself fails: rolled back.
Fail(u) ==
    /\ upload[u].at \in {"allocated", "opened", "written", "choosing", "adopted"}
    /\ CleansUp(u)
    /\ Over(u)
    /\ OthersIdle

Commit(u) ==
    /\ upload[u].at = "stored"
    /\ row' = [row EXCEPT ![u].path = upload[u].path]
    /\ IF upload[u].adopts = None THEN Goes(u, "stored", "committed") ELSE Over(u)
    /\ UNCHANGED <<files, marker, cleaner, sweeper, lost, faults>>

\* The caller's transaction fails after store_crm_attachment returned.
Rollback(u) ==
    /\ upload[u].at = "stored"
    /\ Over(u)
    /\ UNCHANGED <<files, marker>> /\ OthersIdle

\* on_commit; an OSError leaves the marker.
ClearMarker(u) ==
    /\ upload[u].at = "committed"
    /\ Marks(u, "none") \/ UNCHANGED marker
    /\ Over(u)
    /\ UNCHANGED files /\ OthersIdle

\* The process dies: its locks and its transaction go, its files stay.
Die(u) ==
    /\ upload[u].at \notin {"idle", "over"}
    /\ Over(u)
    /\ UNCHANGED <<files, marker>> /\ OthersIdle
-----------------------------------------------------------------------------
Retired(record) == [path |-> None, purge |-> record.path]

\* retire_private_attachments: a privacy request or the retention policy.
Retire(rows) ==
    /\ rows # {} /\ rows \subseteq Active
    /\ \A r \in rows : RowFree(r)
    /\ row' = [r \in Upload |-> IF r \in rows THEN Retired(row[r]) ELSE row[r]]
    /\ UNCHANGED <<files, marker, upload, cleaner, sweeper, lost, faults>>
-----------------------------------------------------------------------------
\* _cleanup_private_attachment: after the commit of a retirement, and again
\* whenever an administrator repeats it.
CleanerRest == UNCHANGED <<marker, upload, sweeper, lost>>

\* Mutant of Shared: retired rows with one path wait for each other.
SharedMutant(r) == \E q \in Upload \ {r} : row[r].purge \in {row[q].path, row[q].purge}

Shared(r) == NamedActive(row[r].purge)

Check(c, r) ==
    /\ cleaner[c].at = "idle"
    /\ row[r].purge # None /\ RowFree(r)
    /\ cleaner' = [cleaner EXCEPT ![c] =
          [at |-> IF Shared(r) THEN "removed" ELSE "checked", row |-> r,
           code |-> IF Shared(r) THEN "shared" ELSE ""]]
    /\ UNCHANGED <<row, files, faults>> /\ CleanerRest

Remove(c) ==
    /\ cleaner[c].at = "checked"
    /\ files' = files \ {row[cleaner[c].row].purge}
    /\ cleaner' = [cleaner EXCEPT ![c].at = "removed"]
    /\ UNCHANGED <<row, faults>> /\ CleanerRest

RemoveFails(c) ==
    /\ cleaner[c].at = "checked"
    /\ faults < MaxFaults
    /\ faults' = faults + 1
    /\ cleaner' = [cleaner EXCEPT ![c].at = "removed", ![c].code = "filesystem"]
    /\ UNCHANGED <<row, files>> /\ CleanerRest

\* Mutant of Purged: an attempt counts as a deletion.
PurgedMutant(c) == TRUE

Purged(c) == cleaner[c].code = ""

Record(c) ==
    /\ cleaner[c].at = "removed"
    /\ row' = IF Purged(c) THEN [row EXCEPT ![cleaner[c].row].purge = None] ELSE row
    /\ cleaner' = [cleaner EXCEPT ![c] = NoCleaning]
    /\ UNCHANGED <<files, faults>> /\ CleanerRest

\* Rolled back; a deleted file stays deleted.
CleanerDies(c) ==
    /\ cleaner[c].at # "idle"
    /\ faults < MaxFaults
    /\ faults' = faults + 1
    /\ cleaner' = [cleaner EXCEPT ![c] = NoCleaning]
    /\ UNCHANGED <<row, files>> /\ CleanerRest
-----------------------------------------------------------------------------
\* _reconcile_marker: recovery of uploads that never committed.
SweeperRest == UNCHANGED <<row, upload, cleaner, lost>>
Sweeps(s, from, to) ==
    /\ sweeper[s].at = from
    /\ sweeper' = [sweeper EXCEPT ![s].at = to]
SweepEnds(s) == sweeper' = [sweeper EXCEPT ![s] = NoSweep]

\* pg_try_advisory_xact_lock, then the marker is read; a busy one is passed.
Lock(s, m) ==
    /\ sweeper[s].at = "idle"
    /\ marker[m] # "none" /\ ~Runs(m)
    /\ \A t \in Sweeper : sweeper[t].token # m
    /\ sweeper' = [sweeper EXCEPT ![s] = [at |-> "read", token |-> m]]
    /\ UNCHANGED <<files, marker, faults>> /\ SweeperRest

\* "referenced": a committed row names the file.
Referenced(s) ==
    /\ sweeper[s].at = "read" /\ Named(sweeper[s].token)
    /\ Marks(sweeper[s].token, "none")
    /\ SweepEnds(s)
    /\ UNCHANGED <<files, faults>> /\ SweeperRest

Unreferenced(s) ==
    /\ ~Named(sweeper[s].token)
    /\ Sweeps(s, "read", "unnamed")
    /\ UNCHANGED <<files, marker, faults>> /\ SweeperRest

\* "uncertain": the upload may not have created the file it planned.
Uncertain(s) ==
    /\ sweeper[s].at = "unnamed"
    /\ sweeper[s].token \in files /\ marker[sweeper[s].token] # "created"
    /\ SweepEnds(s)
    /\ UNCHANGED <<files, marker, faults>> /\ SweeperRest

RemoveOrphan(s) ==
    /\ sweeper[s].token \in files => marker[sweeper[s].token] = "created"
    /\ Sweeps(s, "unnamed", "removed")
    /\ files' = files \ {sweeper[s].token}
    /\ UNCHANGED <<marker, faults>> /\ SweeperRest

ClearSwept(s) ==
    /\ sweeper[s].at = "removed"
    /\ Marks(sweeper[s].token, "none")
    /\ SweepEnds(s)
    /\ UNCHANGED <<files, faults>> /\ SweeperRest

\* "failed" (an OSError), or the process dies.
SweepFails(s) ==
    /\ sweeper[s].at # "idle"
    /\ faults < MaxFaults
    /\ faults' = faults + 1
    /\ SweepEnds(s)
    /\ UNCHANGED <<files, marker>> /\ SweeperRest
-----------------------------------------------------------------------------
\* The disk loses a stored file.
Lose(p) ==
    /\ p \in files /\ NamedActive(p)
    /\ faults < MaxFaults
    /\ faults' = faults + 1
    /\ files' = files \ {p}
    /\ lost' = lost \cup {p}
    /\ UNCHANGED <<row, marker, upload, cleaner, sweeper>>

Proceeds(u) ==
    \/ Open(u) \/ Write(u) \/ Look(u) \/ \E r \in Upload : Adopt(u, r)
    \/ Own(u) \/ DropTemporary(u) \/ Commit(u) \/ ClearMarker(u)

Breaks(u) == Fail(u) \/ Rollback(u) \/ Die(u)

Cleans(c) == Remove(c) \/ Record(c)

Recovers(s) ==
    \/ Referenced(s) \/ Unreferenced(s) \/ Uncertain(s)
    \/ RemoveOrphan(s) \/ ClearSwept(s)

Next ==
    \/ \E u \in Upload : Allocate(u) \/ Proceeds(u) \/ Breaks(u) \/ Lose(u)
    \/ \E rows \in SUBSET Upload : Retire(rows)
    \/ \E c \in Cleaner :
          \/ \E r \in Upload : Check(c, r)
          \/ Cleans(c) \/ RemoveFails(c) \/ CleanerDies(c)
    \/ \E s \in Sweeper :
          \/ \E m \in Upload : Lock(s, m)
          \/ Recovers(s) \/ SweepFails(s)

Spec == Init /\ [][Next]_vars

\* An administrator repeats both clean-ups, least recently tried rows first
\* and by pages of the journal; a transaction ends.
LiveSpec ==
    /\ Spec
    /\ \A u \in Upload : WF_vars(Proceeds(u))
    /\ \A r \in Upload : SF_vars(\E c \in Cleaner : Check(c, r))
    /\ \A c \in Cleaner : WF_vars(Cleans(c))
    /\ \A m \in Upload : SF_vars(\E s \in Sweeper : Lock(s, m))
    /\ \A s \in Sweeper : WF_vars(Recovers(s))
-----------------------------------------------------------------------------
\* A row that is not retired has its file, whoever shares it, whatever other
\* rows are retired and whatever recovery deletes (crm_files.py:77, :204).
ActiveHasFile == \A r \in Active : row[r].path \in files \cup lost

\* "An outer transaction rollback leaves recoverable intent rather than an
\* untracked blob": a file on disk is named by a row or by a marker.
NothingUntracked == \A p \in files : Named(p) \/ marker[p] # "none"

\* The database and the disk agree in both directions.
FilesAgree == ActiveHasFile /\ NothingUntracked

\* A retirement is not forgotten while its file is on disk: the path is
\* cleared only once the file is gone (crm_files.py:96).
PurgedIsGone ==
    [][\A r \in Upload :
          (row[r].purge # None /\ row'[r].purge = None) => row[r].purge \notin files']_vars

\* A retired file is deleted in the end, unless an active row shares it.
RetiredIsRemoved ==
    \A r \in Upload : row[r].purge # None ~> (row[r].purge = None \/ NamedActive(row[r].purge))

\* The file of an upload that never committed is deleted in the end, unless
\* the upload died before it confirmed that the file is its own.
AbandonedIsRemoved ==
    \A u \in Upload :
       (upload[u].at = "over" /\ marker[u] = "created" /\ ~Named(u)) ~> u \notin files

\* Whatever must be deleted, by a retirement or because nothing committed it, is
\* deleted in the end.
FilesAreRemoved == RetiredIsRemoved /\ AbandonedIsRemoved
=============================================================================
