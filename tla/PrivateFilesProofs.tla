-------------------------- MODULE PrivateFilesProofs --------------------------
(***************************************************************************)
(* Proofs about PrivateFiles, for any number of uploads, clean-ups and     *)
(* recoveries.  A file may be deleted by three different hands - the       *)
(* upload that made it, the clean-up of a retired row, the recovery of an  *)
(* abandoned upload - and the invariant says what each of them may rely on *)
(* between the moment it looks and the moment it deletes.                  *)
(***************************************************************************)
EXTENDS PrivateFiles, TLAPS

Ended == {"committed", "over"}

\* An upload that must still find its own file, or its own marker.
HasFile(u) == \/ upload[u].at \in {"opened", "written", "choosing"}
              \/ upload[u].at = "stored" /\ upload[u].adopts = None
Journaled(u) == HasFile(u) \/ upload[u].at \in {"allocated", "adopted"}

\* Rows name the files of ended uploads only, and a running upload has no row.
RowInv(r) ==
    /\ upload[r].at \notin Ended => row[r].path = None /\ row[r].purge = None
    /\ row[r].path # None => upload[row[r].path].at \in Ended
    /\ row[r].purge # None => upload[row[r].purge].at \in Ended
RowsInv == \A r \in Upload : RowInv(r)

\* The row whose file an upload adopted keeps naming it until the commit.
AdoptionInv(u) ==
    /\ upload[u].at = "adopted" => upload[u].adopts # None
    /\ upload[u].adopts # None =>
         /\ upload[u].at \in {"adopted", "stored"}
         /\ row[upload[u].adopts].path = upload[u].path /\ upload[u].path # None
    /\ upload[u].at = "stored" /\ upload[u].adopts = None => upload[u].path = u
AdoptionsInv == \A u \in Upload : AdoptionInv(u)

JournalInv(u) ==
    /\ HasFile(u) => u \in files
    /\ Journaled(u) => marker[u] # "none"
    /\ upload[u].at = "committed" /\ u \in files => Named(u)
    /\ upload[u].at = "idle" => marker[u] = "none"
JournalsInv == \A u \in Upload : JournalInv(u)

\* A clean-up keeps its row to itself; no active row comes to share the file.
PurgeOf(c) == row[cleaner[c].row].purge
CleanerInv(c) ==
    /\ cleaner[c].at # "idle" => cleaner[c].row # None /\ PurgeOf(c) # None
    /\ cleaner[c].at = "checked" => ~NamedActive(PurgeOf(c))
    /\ cleaner[c].at = "removed" /\ cleaner[c].code = "" =>
         ~NamedActive(PurgeOf(c)) /\ PurgeOf(c) \notin files
CleanersInv ==
    /\ \A c \in Cleaner : CleanerInv(c)
    /\ \A c, d \in Cleaner : cleaner[c].at # "idle" /\ cleaner[c].row = cleaner[d].row => c = d

\* What recovery found unnamed stays unnamed.
SweeperInv(s) ==
    LET m == sweeper[s].token IN
    /\ sweeper[s].at # "idle" => m # None /\ upload[m].at \in Ended
    /\ sweeper[s].at \in {"unnamed", "removed"} => ~Named(m)
    /\ sweeper[s].at = "removed" => m \notin files
SweepersInv == \A s \in Sweeper : SweeperInv(s)

IInv == /\ TypeOK /\ RowsInv /\ AdoptionsInv /\ JournalsInv /\ CleanersInv /\ SweepersInv
        /\ ActiveHasFile /\ NothingUntracked
-----------------------------------------------------------------------------
(***************************************************************************)
(* The effect of a step on one record.                                     *)
(***************************************************************************)
UploadStep(u) ==
    /\ upload' \in [Upload -> UploadRecord]
    /\ \A v \in Upload : v # u => upload'[v] = upload[v]
MarkerStep(u) ==
    /\ marker' \in [Upload -> {"none", "planned", "created"}]
    /\ \A v \in Upload : v # u => marker'[v] = marker[v]

LEMMA GoesEffect ==
  ASSUME TypeOK, NEW u \in Upload, NEW from \in Stage, NEW to \in Stage, Goes(u, from, to)
  PROVE  /\ UploadStep(u) /\ upload[u].at = from
         /\ upload'[u].at = to /\ upload'[u].adopts = upload[u].adopts
         /\ upload'[u].path = upload[u].path
<1> DEFINE new == [upload[u] EXCEPT !.at = to]
<1>1. /\ new \in UploadRecord
      /\ new.at = to /\ new.adopts = upload[u].adopts /\ new.path = upload[u].path
  BY DEF TypeOK, UploadRecord
<1>2. upload' = [upload EXCEPT ![u] = new] /\ upload[u].at = from
  BY DEF Goes
<1> HIDE DEF new
<1> QED BY <1>1, <1>2 DEF TypeOK, UploadStep

LEMMA FinishedForm ==
  Finished = [at |-> "over", seen |-> {}, adopts |-> None, path |-> None]
  /\ Finished \in UploadRecord
<1>1. Finished = [at |-> "over", seen |-> {}, adopts |-> None, path |-> None]
  BY DEF Finished, NotBegun
<1> QED BY <1>1 DEF UploadRecord, Stage, Path

\* A record of an upload with one field replaced.
Fields(new, at, adopts, path) ==
    new \in UploadRecord /\ new.at = at /\ new.adopts = adopts /\ new.path = path

LEMMA ReplacedAt ==
  ASSUME NEW old \in UploadRecord, NEW at \in Stage
  PROVE  Fields([old EXCEPT !.at = at], at, old.adopts, old.path)
BY DEF Fields, UploadRecord

LEMMA ReplacedSeen ==
  ASSUME NEW old \in UploadRecord, NEW seen \in SUBSET Upload
  PROVE  Fields([old EXCEPT !.seen = seen], old.at, old.adopts, old.path)
BY DEF Fields, UploadRecord

LEMMA ReplacedAdopts ==
  ASSUME NEW old \in UploadRecord, NEW adopts \in Path
  PROVE  Fields([old EXCEPT !.adopts = adopts], old.at, adopts, old.path)
BY DEF Fields, UploadRecord

LEMMA ReplacedPath ==
  ASSUME NEW old \in UploadRecord, NEW path \in Path
  PROVE  Fields([old EXCEPT !.path = path], old.at, old.adopts, path)
BY DEF Fields, UploadRecord

LEMMA OverEffect ==
  ASSUME TypeOK, NEW u \in Upload, Over(u)
  PROVE  UploadStep(u) /\ upload'[u].at = "over" /\ upload'[u].adopts = None
BY FinishedForm DEF TypeOK, Over, UploadStep

LEMMA MarksEffect ==
  ASSUME TypeOK, NEW u \in Upload, NEW mark \in {"none", "planned", "created"}, Marks(u, mark)
  PROVE  MarkerStep(u) /\ marker'[u] = mark
BY DEF TypeOK, Marks, MarkerStep

LEMMA InitIInv == Init => IInv
<1> SUFFICES ASSUME Init PROVE IInv
    OBVIOUS
<1> USE NoneAssumption, StoredAssumption, MaxFaultsAssumption
<1>1. TypeOK
  <2>1. row \in [Upload -> RowRecord] /\ \A r \in Upload : row[r].purge = None
    BY DEF Init, RowRecord, Path
  <2>2. upload \in [Upload -> UploadRecord]
    BY FinishedForm DEF Init, UploadRecord, NotBegun, Stage, Path
  <2>3. cleaner \in [Cleaner -> CleanerRecord] /\ sweeper \in [Sweeper -> SweeperRecord]
    BY DEF Init, CleanerRecord, SweeperRecord, Path, NoCleaning, NoSweep
  <2> QED BY <2>1, <2>2, <2>3 DEF Init, TypeOK
<1>2. \A u \in Upload : /\ upload[u].at \in {"idle", "over"} /\ upload[u].adopts = None
                        /\ u \in Stored => upload[u].at = "over"
                        /\ row[u].path = IF u \in Stored THEN u ELSE None
                        /\ row[u].purge = None
  BY DEF Init, Finished, NotBegun
<1>3. RowsInv /\ AdoptionsInv
  BY <1>2 DEF RowsInv, RowInv, AdoptionsInv, AdoptionInv, Ended
<1>4. JournalsInv
  BY <1>2 DEF Init, JournalsInv, JournalInv, HasFile, Journaled
<1>5. CleanersInv /\ SweepersInv
  BY DEF Init, CleanersInv, CleanerInv, NoCleaning, SweepersInv, SweeperInv, NoSweep
<1>6. ActiveHasFile /\ NothingUntracked
  BY <1>2 DEF Init, ActiveHasFile, Active, NothingUntracked, Named
<1> QED BY <1>1, <1>3, <1>4, <1>5, <1>6 DEF IInv

LEMMA StutterIInv == IInv /\ UNCHANGED vars => IInv'
<1> SUFFICES ASSUME IInv, UNCHANGED vars PROVE IInv'
    OBVIOUS
<1> USE DEF IInv, vars
<1>1. TypeOK' /\ RowsInv' /\ AdoptionsInv'
  BY DEF TypeOK, RowsInv, RowInv, AdoptionsInv, AdoptionInv
<1>2. JournalsInv' /\ ActiveHasFile' /\ NothingUntracked'
  BY DEF JournalsInv, JournalInv, HasFile, Journaled, Named, ActiveHasFile, Active,
     NothingUntracked
<1>3. CleanersInv' /\ SweepersInv'
  BY DEF CleanersInv, CleanerInv, PurgeOf, SweepersInv, SweeperInv, Named, NamedActive
<1> QED BY <1>1, <1>2, <1>3
-----------------------------------------------------------------------------
(***************************************************************************)
(* Steps of an upload.  They write no row; they create or delete the       *)
(* upload's own file, or restore one that an active row names.             *)
(***************************************************************************)
LEMMA UploadIInv ==
  ASSUME IInv, NEW u \in Upload, UploadStep(u), MarkerStep(u),
         UNCHANGED <<row, cleaner, sweeper, faults>>,
         upload[u].at \in Ended => upload'[u].at \in Ended /\ files' = files,
         files' \subseteq Upload, lost' \subseteq Upload,
         \A p \in files \cup lost : p # u => p \in files' \cup lost',
         \A p \in files' : p \in files \/ p = u \/ NamedActive(p),
         \A p \in files : p # u => p \in files',
         lost \subseteq files' \cup lost',
         AdoptionInv(u)', JournalInv(u)',
         u \in files' => Named(u) \/ marker'[u] # "none"
  PROVE  IInv'
<1>1. TypeOK'
  BY DEF IInv, TypeOK, UploadStep, MarkerStep
<1>2. \A v \in Upload : upload[v].at \in Ended => upload'[v].at \in Ended
  BY DEF UploadStep
<1>3. RowsInv'
  <2> SUFFICES ASSUME NEW r \in Upload PROVE RowInv(r)'
      BY DEF RowsInv
  <2>1. RowInv(r) /\ row[r].path \in Path /\ row[r].purge \in Path /\ row' = row
    BY DEF IInv, RowsInv, TypeOK, RowRecord
  <2> QED BY <1>2, <2>1 DEF RowInv, Path
<1>4. AdoptionsInv'
  BY DEF IInv, AdoptionsInv, AdoptionInv, UploadStep
<1>5. JournalsInv'
  <2> SUFFICES ASSUME NEW v \in Upload, v # u PROVE JournalInv(v)'
      BY DEF JournalsInv
  <2>1. upload'[v] = upload[v] /\ marker'[v] = marker[v] /\ row' = row
    BY DEF UploadStep, MarkerStep
  <2>2. JournalInv(v)
    BY DEF IInv, JournalsInv
  <2>3. v \in files => v \in files'
    OBVIOUS
  <2>4. v \in files' => v \in files \/ Named(v)
    BY DEF NamedActive, Named
  <2> QED BY <2>1, <2>2, <2>3, <2>4 DEF JournalInv, HasFile, Journaled, Named
<1>6. ASSUME NEW p \in Upload, upload[p].at \in Ended, p \notin files, ~NamedActive(p)
      PROVE  p \notin files'
  BY <1>6
<1>7. CleanersInv'
  <2> SUFFICES ASSUME NEW c \in Cleaner PROVE CleanerInv(c)'
      BY DEF IInv, CleanersInv
  <2>1. CleanerInv(c) /\ cleaner[c].row \in Path /\ cleaner' = cleaner /\ row' = row
    BY DEF IInv, CleanersInv, TypeOK, CleanerRecord
  <2>2. cleaner[c].at # "idle" =>
          /\ cleaner[c].row \in Upload /\ PurgeOf(c) \in Upload
          /\ upload[PurgeOf(c)].at \in Ended
    BY <2>1 DEF CleanerInv, PurgeOf, Path, IInv, RowsInv, RowInv, TypeOK, RowRecord
  <2> QED BY <1>6, <2>1, <2>2 DEF CleanerInv, PurgeOf, NamedActive
<1>8. SweepersInv'
  <2> SUFFICES ASSUME NEW s \in Sweeper PROVE SweeperInv(s)'
      BY DEF SweepersInv
  <2>1. SweeperInv(s) /\ sweeper[s].token \in Path /\ sweeper' = sweeper /\ row' = row
    BY DEF IInv, SweepersInv, TypeOK, SweeperRecord
  <2> QED BY <1>2, <1>6, <2>1 DEF SweeperInv, Path, Named, NamedActive
<1>9. ActiveHasFile'
  <2> SUFFICES ASSUME NEW r \in Upload, row[r].path # None
               PROVE  row[r].path \in files' \cup lost'
      BY DEF ActiveHasFile, Active
  <2>1. row[r].path \in Upload /\ row[r].path \in files \cup lost
    BY DEF IInv, ActiveHasFile, Active, TypeOK, RowRecord, Path
  <2>2. upload[row[r].path].at \in Ended
    BY DEF IInv, RowsInv, RowInv
  <2> QED BY <2>1, <2>2
<1>10. NothingUntracked'
  <2> SUFFICES ASSUME NEW p \in files' PROVE Named(p) \/ marker'[p] # "none"
      BY DEF NothingUntracked, Named
  <2>1. CASE p = u
    BY <2>1
  <2>2. CASE p # u /\ p \in files
    BY <2>2 DEF IInv, NothingUntracked, MarkerStep, TypeOK
  <2>3. CASE NamedActive(p)
    BY <2>3 DEF NamedActive, Named
  <2> QED BY <2>1, <2>2, <2>3
<1> QED BY <1>1, <1>3, <1>4, <1>5, <1>7, <1>8, <1>9, <1>10 DEF IInv

\* ... and when nothing but its own file is touched.
LEMMA OwnFileIInv ==
  ASSUME IInv, NEW u \in Upload, UploadStep(u), MarkerStep(u), OthersIdle,
         upload[u].at \in Ended => upload'[u].at \in Ended /\ files' = files,
         files' \subseteq files \cup {u}, files \subseteq files' \cup {u},
         AdoptionInv(u)', JournalInv(u)',
         u \in files' => Named(u) \/ marker'[u] # "none"
  PROVE  IInv'
<1>1. UNCHANGED <<row, cleaner, sweeper, faults>> /\ lost' = lost
  BY DEF OthersIdle
<1>2. files' \subseteq Upload /\ lost' \subseteq Upload
  BY <1>1 DEF IInv, TypeOK
<1>3. /\ \A p \in files \cup lost : p # u => p \in files' \cup lost'
      /\ \A p \in files' : p \in files \/ p = u \/ NamedActive(p)
      /\ \A p \in files : p # u => p \in files'
      /\ lost \subseteq files' \cup lost'
  BY <1>1
<1> QED BY <1>1, <1>2, <1>3, UploadIInv

\* An upload is over: it owes nothing but a trace of its file.
LEMMA OverIInv ==
  ASSUME IInv, NEW u \in Upload, Over(u), MarkerStep(u), OthersIdle,
         upload[u].at \in Ended => files' = files,
         files' \subseteq files, files \subseteq files' \cup {u},
         u \in files' => Named(u) \/ marker'[u] # "none"
  PROVE  IInv'
<1>1. UploadStep(u) /\ upload'[u].at = "over" /\ upload'[u].adopts = None
  BY OverEffect DEF IInv
<1>2. AdoptionInv(u)' /\ JournalInv(u)'
  BY <1>1 DEF AdoptionInv, JournalInv, HasFile, Journaled
<1>3. upload[u].at \in Ended => upload'[u].at \in Ended /\ files' = files
  BY <1>1 DEF Ended
<1>4. files' \subseteq files \cup {u}
  OBVIOUS
<1> QED BY <1>1, <1>2, <1>3, <1>4, OwnFileIInv

LEMMA MarkerStays ==
  ASSUME IInv, NEW u \in Upload, marker' = marker
  PROVE  MarkerStep(u)
BY DEF IInv, TypeOK, MarkerStep

LEMMA AllocateIInv ==
  ASSUME IInv, NEW u \in Upload, Allocate(u)
  PROVE  IInv'
<1>1. /\ UploadStep(u) /\ upload[u].at = "idle"
      /\ upload'[u].at = "allocated" /\ upload'[u].adopts = upload[u].adopts
  BY GoesEffect DEF Allocate, IInv, Stage
<1>2. MarkerStep(u) /\ marker'[u] = "planned" /\ files' = files /\ OthersIdle
  BY MarksEffect DEF Allocate, IInv
<1>3. upload[u].adopts = None
  BY <1>1 DEF IInv, AdoptionsInv, AdoptionInv
<1>4. AdoptionInv(u)' /\ JournalInv(u)'
  BY <1>1, <1>2, <1>3 DEF AdoptionInv, JournalInv, HasFile, Journaled
<1> QED BY <1>1, <1>2, <1>4, OwnFileIInv DEF Ended

LEMMA OpenIInv ==
  ASSUME IInv, NEW u \in Upload, Open(u)
  PROVE  IInv'
<1>1. /\ UploadStep(u) /\ upload[u].at = "allocated"
      /\ upload'[u].at = "opened" /\ upload'[u].adopts = upload[u].adopts
  BY GoesEffect DEF Open, IInv, Stage
<1>2. MarkerStep(u) /\ marker' = marker /\ files' = files \cup {u} /\ OthersIdle
  BY MarkerStays DEF Open
<1>3. upload[u].adopts = None /\ marker[u] # "none"
  BY <1>1 DEF IInv, AdoptionsInv, AdoptionInv, JournalsInv, JournalInv, Journaled
<1>4. AdoptionInv(u)' /\ JournalInv(u)'
  BY <1>1, <1>2, <1>3 DEF AdoptionInv, JournalInv, HasFile, Journaled
<1> QED BY <1>1, <1>2, <1>3, <1>4, OwnFileIInv DEF Ended

LEMMA WriteIInv ==
  ASSUME IInv, NEW u \in Upload, Write(u)
  PROVE  IInv'
<1>1. /\ UploadStep(u) /\ upload[u].at = "opened"
      /\ upload'[u].at = "written" /\ upload'[u].adopts = upload[u].adopts
  BY GoesEffect DEF Write, IInv, Stage
<1>2. MarkerStep(u) /\ marker'[u] = "created" /\ files' = files /\ OthersIdle
  BY MarksEffect DEF Write, IInv
<1>3. upload[u].adopts = None /\ u \in files
  BY <1>1 DEF IInv, AdoptionsInv, AdoptionInv, JournalsInv, JournalInv, HasFile
<1>4. AdoptionInv(u)' /\ JournalInv(u)'
  BY <1>1, <1>2, <1>3 DEF AdoptionInv, JournalInv, HasFile, Journaled
<1> QED BY <1>1, <1>2, <1>4, OwnFileIInv DEF Ended

\* What an upload does while it looks for a stored copy and keeps its own file.
LEMMA KeepsFileIInv ==
  ASSUME IInv, NEW u \in Upload, UploadStep(u), UNCHANGED <<files, marker>>, OthersIdle,
         HasFile(u), upload[u].at \notin Ended, upload'[u].adopts = None,
         \/ upload'[u].at = "choosing"
         \/ upload'[u].at = "stored" /\ upload'[u].path = u
  PROVE  IInv'
<1>1. u \in files /\ marker[u] # "none"
  BY DEF IInv, JournalsInv, JournalInv, Journaled
<1>2. AdoptionInv(u)' /\ JournalInv(u)' /\ MarkerStep(u)
  BY <1>1, MarkerStays DEF AdoptionInv, JournalInv, HasFile, Journaled
<1> QED BY <1>1, <1>2, OwnFileIInv

LEMMA LookIInv ==
  ASSUME IInv, NEW u \in Upload, Look(u)
  PROVE  IInv'
<1> DEFINE first == [upload[u] EXCEPT !.at = "choosing"]
           new == [first EXCEPT !.seen = Active]
<1>0. upload[u] \in UploadRecord /\ "choosing" \in Stage /\ Active \in SUBSET Upload
  BY DEF IInv, TypeOK, Stage, Active
<1>1. /\ new \in UploadRecord
      /\ new.at = "choosing" /\ new.adopts = upload[u].adopts
  <2>1. Fields(first, "choosing", upload[u].adopts, upload[u].path)
    BY <1>0, ReplacedAt
  <2> HIDE DEF first
  <2>2. Fields(new, first.at, first.adopts, first.path)
    BY <1>0, <2>1, ReplacedSeen DEF Fields
  <2> HIDE DEF new
  <2> QED BY <2>1, <2>2 DEF Fields
<1>2. upload' = [upload EXCEPT ![u] = new]
  BY DEF Look, IInv, TypeOK
<1>3. upload[u].adopts = None /\ HasFile(u) /\ upload[u].at \notin Ended
  BY DEF Look, IInv, AdoptionsInv, AdoptionInv, HasFile, Ended
<1> HIDE DEF new
<1>4. UploadStep(u) /\ upload'[u] = new
  BY <1>1, <1>2 DEF IInv, TypeOK, UploadStep
<1> QED BY <1>1, <1>3, <1>4, KeepsFileIInv DEF Look

LEMMA OwnIInv ==
  ASSUME IInv, NEW u \in Upload, Own(u)
  PROVE  IInv'
<1> DEFINE first == [upload[u] EXCEPT !.at = "stored"]
           second == [first EXCEPT !.seen = {}]
           new == [second EXCEPT !.path = u]
<1>0. upload[u] \in UploadRecord /\ "stored" \in Stage /\ u \in Path
  BY DEF IInv, TypeOK, Stage, Path
<1>1. /\ new \in UploadRecord
      /\ new.at = "stored" /\ new.adopts = upload[u].adopts /\ new.path = u
  <2>1. Fields(first, "stored", upload[u].adopts, upload[u].path)
    BY <1>0, ReplacedAt
  <2> HIDE DEF first
  <2>2. Fields(second, first.at, first.adopts, first.path)
    BY <2>1, ReplacedSeen DEF Fields
  <2> HIDE DEF second
  <2>3. Fields(new, second.at, second.adopts, u)
    BY <1>0, <2>2, ReplacedPath DEF Fields
  <2> HIDE DEF new
  <2> QED BY <2>1, <2>2, <2>3 DEF Fields
<1>2. upload' = [upload EXCEPT ![u] = new]
  BY DEF Own, IInv, TypeOK
<1>3. upload[u].adopts = None /\ HasFile(u) /\ upload[u].at \notin Ended
  BY DEF Own, IInv, AdoptionsInv, AdoptionInv, HasFile, Ended
<1> HIDE DEF new
<1>4. UploadStep(u) /\ upload'[u] = new
  BY <1>1, <1>2 DEF IInv, TypeOK, UploadStep
<1> QED BY <1>1, <1>3, <1>4, KeepsFileIInv DEF Own

LEMMA AdoptIInv ==
  ASSUME IInv, NEW u \in Upload, NEW r \in Upload, Adopt(u, r)
  PROVE  IInv'
<1> DEFINE p == row[r].path
           first == [upload[u] EXCEPT !.at = "adopted"]
           second == [first EXCEPT !.seen = {}]
           third == [second EXCEPT !.adopts = r]
           new == [third EXCEPT !.path = p]
<1>1. p \in Upload /\ p # None /\ r # None
  BY NoneAssumption DEF Adopt, IInv, TypeOK, RowRecord, Path
<1>2. /\ new \in UploadRecord
      /\ new.at = "adopted" /\ new.adopts = r /\ new.path = p
  <2> HIDE DEF p
  <2>1. upload[u] \in UploadRecord /\ "adopted" \in Stage /\ r \in Path /\ p \in Path
    BY <1>1 DEF IInv, TypeOK, Stage, Path
  <2>2. Fields(first, "adopted", upload[u].adopts, upload[u].path)
    BY <2>1, ReplacedAt
  <2> HIDE DEF first
  <2>3. Fields(second, first.at, first.adopts, first.path)
    BY <2>2, ReplacedSeen DEF Fields
  <2> HIDE DEF second
  <2>4. Fields(third, second.at, r, second.path)
    BY <2>1, <2>3, ReplacedAdopts DEF Fields
  <2> HIDE DEF third
  <2>5. Fields(new, third.at, third.adopts, p)
    BY <2>1, <2>4, ReplacedPath DEF Fields
  <2> HIDE DEF new
  <2> QED BY <2>2, <2>3, <2>4, <2>5 DEF Fields
<1>3. upload' = [upload EXCEPT ![u] = new]
  BY DEF Adopt, IInv, TypeOK
<1>4. upload[u].at = "choosing" /\ u \in files /\ marker[u] # "none"
  BY DEF Adopt, IInv, JournalsInv, JournalInv, HasFile, Journaled
<1>5. /\ UNCHANGED <<row, marker, cleaner, sweeper, faults>>
      /\ files' = files \cup {p} /\ lost' = lost \ {p} /\ NamedActive(p)
  BY DEF Adopt, NamedActive
<1> HIDE DEF new, p
<1>6. UploadStep(u) /\ upload'[u] = new
  BY <1>2, <1>3 DEF IInv, TypeOK, UploadStep
<1>7. AdoptionInv(u)'
  BY <1>1, <1>2, <1>5, <1>6 DEF AdoptionInv, p
<1>8. JournalInv(u)'
  BY <1>1, <1>2, <1>4, <1>5, <1>6 DEF JournalInv, HasFile, Journaled
<1>9. /\ files' \subseteq Upload /\ lost' \subseteq Upload
      /\ \A q \in files \cup lost : q # u => q \in files' \cup lost'
      /\ \A q \in files' : q \in files \/ q = u \/ NamedActive(q)
      /\ \A q \in files : q # u => q \in files'
      /\ lost \subseteq files' \cup lost'
  BY <1>1, <1>5 DEF IInv, TypeOK
<1>10. upload[u].at \notin Ended /\ marker'[u] # "none" /\ MarkerStep(u)
  BY <1>4, <1>5, MarkerStays DEF Ended
<1> QED BY <1>5, <1>6, <1>7, <1>8, <1>9, <1>10, UploadIInv

LEMMA DropTemporaryIInv ==
  ASSUME IInv, NEW u \in Upload, DropTemporary(u)
  PROVE  IInv'
<1>1. /\ UploadStep(u) /\ upload[u].at = "adopted" /\ upload'[u].at = "stored"
      /\ upload'[u].adopts = upload[u].adopts /\ upload'[u].path = upload[u].path
  BY GoesEffect DEF DropTemporary, IInv, Stage
<1>2. MarkerStep(u) /\ files' = files \ {u} /\ OthersIdle /\ row' = row
  BY MarksEffect DEF DropTemporary, IInv, OthersIdle
<1>3. AdoptionInv(u) /\ upload[u].adopts # None
  BY <1>1 DEF IInv, AdoptionsInv, AdoptionInv
<1>4. AdoptionInv(u)' /\ JournalInv(u)'
  BY <1>1, <1>2, <1>3 DEF AdoptionInv, JournalInv, HasFile, Journaled
<1> QED BY <1>1, <1>2, <1>4, OwnFileIInv DEF Ended

LEMMA FailIInv ==
  ASSUME IInv, NEW u \in Upload, Fail(u)
  PROVE  IInv'
<1>1. Over(u) /\ OthersIdle /\ upload[u].at \notin Ended
  BY DEF Fail, Ended
<1>2. MarkerStep(u) /\ (marker' = marker \/ files' = files \ {u})
  BY MarkerStays, MarksEffect DEF Fail, CleansUp, IInv
<1>3. files' \subseteq files /\ files \subseteq files' \cup {u}
  BY DEF Fail, CleansUp
<1>4. u \in files' => Named(u) \/ marker'[u] # "none"
  BY <1>2, <1>3 DEF IInv, NothingUntracked
<1> QED BY <1>1, <1>2, <1>3, <1>4, OverIInv

LEMMA LeavesIInv ==
  ASSUME IInv, NEW u \in Upload, Rollback(u) \/ Die(u)
  PROVE  IInv'
<1>1. Over(u) /\ OthersIdle /\ files' = files /\ marker' = marker
  BY DEF Rollback, Die
<1>2. MarkerStep(u) /\ (u \in files' => Named(u) \/ marker'[u] # "none")
  BY <1>1, MarkerStays DEF IInv, NothingUntracked
<1> QED BY <1>1, <1>2, OverIInv

LEMMA ClearMarkerIInv ==
  ASSUME IInv, NEW u \in Upload, ClearMarker(u)
  PROVE  IInv'
<1>1. Over(u) /\ OthersIdle /\ files' = files /\ MarkerStep(u)
  BY MarkerStays, MarksEffect DEF ClearMarker, IInv
<1>2. u \in files' => Named(u)
  BY <1>1 DEF ClearMarker, IInv, JournalsInv, JournalInv
<1> QED BY <1>1, <1>2, OverIInv
-----------------------------------------------------------------------------
(***************************************************************************)
(* Steps that write rows.                                                  *)
(***************************************************************************)
\* An upload that may commit stores a path that is either its own, on disk and
\* named by no row, or named by an active row it has locked.
LEMMA StoredPath ==
  ASSUME IInv, NEW u \in Upload, upload[u].at = "stored"
  PROVE  /\ row[u].path = None /\ row[u].purge = None
         /\ upload[u].path \in Upload
         /\ upload[u].path \in files \cup lost
         /\ \/ upload[u].path = u /\ upload[u].adopts = None
            \/ /\ upload[u].adopts # None
               /\ NamedActive(upload[u].path) /\ upload[upload[u].path].at \in Ended
<1>1. upload[u].at \notin Ended /\ AdoptionInv(u) /\ RowInv(u) /\ JournalInv(u)
  BY DEF Ended, IInv, AdoptionsInv, RowsInv, JournalsInv
<1>2. CASE upload[u].adopts = None
  BY <1>1, <1>2 DEF AdoptionInv, RowInv, JournalInv, HasFile
<1>3. CASE upload[u].adopts # None
  <2> DEFINE a == upload[u].adopts
             q == upload[u].path
  <2>1. a \in Upload /\ row[a].path = q /\ q # None
    BY <1>1, <1>3 DEF AdoptionInv, IInv, TypeOK, UploadRecord, Path
  <2>2. q \in Upload /\ q \in files \cup lost /\ upload[q].at \in Ended
    BY <2>1 DEF IInv, TypeOK, RowRecord, Path, ActiveHasFile, Active, RowsInv, RowInv
  <2> QED BY <1>1, <1>3, <2>1, <2>2 DEF RowInv, NamedActive
<1> QED BY <1>2, <1>3

LEMMA CommitIInv ==
  ASSUME IInv, NEW u \in Upload, Commit(u)
  PROVE  IInv'
<1> DEFINE q == upload[u].path
<1>1. upload[u].at = "stored" /\ UNCHANGED <<files, marker, cleaner, sweeper, lost, faults>>
  BY DEF Commit
<1>2. /\ row[u].path = None /\ row[u].purge = None
      /\ q \in Upload /\ q \in files \cup lost
      /\ \/ q = u /\ upload[u].adopts = None
         \/ upload[u].adopts # None /\ NamedActive(q) /\ upload[q].at \in Ended
  BY <1>1, StoredPath
<1>3. /\ row' \in [Upload -> RowRecord]
      /\ row'[u].path = q /\ row'[u].purge = None
      /\ \A r \in Upload : r # u => row'[r] = row[r]
  <2>1. row[u] \in RowRecord /\ q \in Path /\ row \in [Upload -> RowRecord]
    BY <1>2 DEF IInv, TypeOK, Path
  <2>2. row' = [row EXCEPT ![u] = [row[u] EXCEPT !.path = q]]
    BY <2>1 DEF Commit
  <2>3. /\ [row[u] EXCEPT !.path = q] \in RowRecord
        /\ [row[u] EXCEPT !.path = q].path = q /\ [row[u] EXCEPT !.path = q].purge = None
    BY <1>2, <2>1 DEF RowRecord
  <2> QED BY <2>1, <2>2, <2>3
<1>4. /\ UploadStep(u) /\ upload'[u].at \in Ended /\ upload'[u].adopts = None
      /\ upload'[u].at = "committed" => q = u
  <2>1. CASE upload[u].adopts = None
    BY <1>2, <2>1, GoesEffect DEF Commit, IInv, Stage, Ended
  <2>2. CASE upload[u].adopts # None
    BY <2>2, OverEffect DEF Commit, IInv, Ended
  <2> QED BY <2>1, <2>2
<1> HIDE DEF q
<1>5. \A v \in Upload : upload[v].at \in Ended => upload'[v].at \in Ended
  BY <1>4 DEF UploadStep
<1>6. upload'[q].at \in Ended
  BY <1>2, <1>4, <1>5
<1>7. \A p \in Upload : /\ Named(p) => Named(p)'
                        /\ p # q /\ NamedActive(p)' => NamedActive(p)
                        /\ p # q /\ Named(p)' => Named(p)
  BY <1>2, <1>3, NoneAssumption DEF Named, NamedActive
<1>8. \A p \in Upload : upload[p].at \in Ended /\ ~NamedActive(p) => p # q
  BY <1>1, <1>2 DEF Ended
<1>9. TypeOK'
  <2>1. \A r \in Upload : row'[r].purge # None => row'[r].path = None
    BY <1>3 DEF IInv, TypeOK
  <2> QED BY <1>1, <1>3, <1>4, <2>1 DEF IInv, TypeOK, UploadStep
<1>10. RowsInv'
  <2> SUFFICES ASSUME NEW r \in Upload PROVE RowInv(r)'
      BY DEF RowsInv
  <2>1. CASE r = u
    BY <1>3, <1>4, <1>6, <2>1 DEF RowInv
  <2>2. CASE r # u
    <3>1. RowInv(r) /\ row[r].path \in Path /\ row[r].purge \in Path
      BY DEF IInv, RowsInv, TypeOK, RowRecord
    <3>2. row'[r] = row[r] /\ upload'[r] = upload[r]
      BY <1>3, <1>4, <2>2 DEF UploadStep
    <3> QED BY <1>5, <3>1, <3>2 DEF RowInv, Path
  <2> QED BY <2>1, <2>2
<1>11. AdoptionsInv'
  <2> SUFFICES ASSUME NEW v \in Upload PROVE AdoptionInv(v)'
      BY DEF AdoptionsInv
  <2>1. CASE v = u
    BY <1>4, <2>1 DEF AdoptionInv, Ended
  <2>2. CASE v # u
    <3>1. AdoptionInv(v) /\ upload[v].adopts \in Path /\ upload'[v] = upload[v]
      BY <1>4, <2>2 DEF IInv, AdoptionsInv, TypeOK, UploadRecord, UploadStep
    <3>2. upload[v].adopts # None => upload[v].adopts # u /\ upload[v].adopts \in Upload
      BY <1>2, <3>1 DEF AdoptionInv, Path
    <3> QED BY <1>3, <3>1, <3>2 DEF AdoptionInv
  <2> QED BY <2>1, <2>2
<1>12. JournalsInv'
  <2> SUFFICES ASSUME NEW v \in Upload PROVE JournalInv(v)'
      BY DEF JournalsInv
  <2>1. CASE v = u
    <3>1. upload'[u].at = "committed" => Named(u)'
      BY <1>3, <1>4 DEF Named
    <3> QED BY <1>4, <2>1, <3>1 DEF JournalInv, HasFile, Journaled, Ended
  <2>2. CASE v # u
    <3>1. JournalInv(v) /\ upload'[v] = upload[v] /\ (Named(v) => Named(v)')
      BY <1>4, <1>7, <2>2 DEF IInv, JournalsInv, UploadStep
    <3> QED BY <1>1, <3>1 DEF JournalInv, HasFile, Journaled
  <2> QED BY <2>1, <2>2
<1>13. CleanersInv'
  <2> SUFFICES ASSUME NEW c \in Cleaner PROVE CleanerInv(c)'
      BY <1>1 DEF IInv, CleanersInv
  <2>1. CleanerInv(c) /\ cleaner[c].row \in Path /\ cleaner' = cleaner /\ files' = files
    BY <1>1 DEF IInv, CleanersInv, TypeOK, CleanerRecord
  <2>2. CASE cleaner[c].at = "idle"
    BY <2>1, <2>2 DEF CleanerInv
  <2>3. CASE cleaner[c].at # "idle"
    <3>1. cleaner[c].row \in Upload /\ cleaner[c].row # u
      BY <1>2, <2>1, <2>3 DEF CleanerInv, PurgeOf, Path
    <3>2. PurgeOf(c)' = PurgeOf(c)
      BY <1>3, <2>1, <3>1 DEF PurgeOf
    <3>3. PurgeOf(c) \in Upload /\ upload[PurgeOf(c)].at \in Ended
      BY <2>1, <2>3, <3>1 DEF CleanerInv, PurgeOf, Path, IInv, RowsInv, RowInv, TypeOK, RowRecord
    <3>4. ~NamedActive(PurgeOf(c)) => ~NamedActive(PurgeOf(c))'
      BY <1>7, <1>8, <3>2, <3>3 DEF NamedActive
    <3> QED BY <2>1, <2>3, <3>2, <3>4 DEF CleanerInv
  <2> QED BY <2>2, <2>3
<1>14. SweepersInv'
  <2> SUFFICES ASSUME NEW s \in Sweeper PROVE SweeperInv(s)'
      BY DEF SweepersInv
  <2>1. SweeperInv(s) /\ sweeper[s].token \in Path /\ sweeper' = sweeper /\ files' = files
    BY <1>1 DEF IInv, SweepersInv, TypeOK, SweeperRecord
  <2>2. \A m \in Upload : upload[m].at \in Ended /\ ~Named(m) => ~Named(m)'
    BY <1>7, <1>8 DEF Named, NamedActive
  <2> QED BY <1>5, <2>1, <2>2 DEF SweeperInv, Path, Named
<1>15. ActiveHasFile'
  BY <1>1, <1>2, <1>3 DEF IInv, ActiveHasFile, Active
<1>16. NothingUntracked'
  BY <1>1, <1>7 DEF IInv, NothingUntracked, TypeOK
<1> QED BY <1>9, <1>10, <1>11, <1>12, <1>13, <1>14, <1>15, <1>16 DEF IInv

LEMMA RetireIInv ==
  ASSUME IInv, NEW rows, Retire(rows)
  PROVE  IInv'
<1>1. /\ UNCHANGED <<files, marker, upload, cleaner, sweeper, lost, faults>>
      /\ rows \subseteq Upload /\ \A r \in rows : row[r].path # None /\ RowFree(r)
  BY DEF Retire, Active
<1>2. /\ row' \in [Upload -> RowRecord]
      /\ \A r \in rows : row'[r].path = None /\ row'[r].purge = row[r].path
      /\ \A r \in Upload : r \notin rows => row'[r] = row[r]
  BY <1>1 DEF Retire, Retired, IInv, TypeOK, RowRecord, Path
<1>3. \A r \in rows : row[r].purge = None
  BY <1>1 DEF IInv, TypeOK
<1>4. \A p \in Upload : /\ Named(p)' <=> Named(p)
                        /\ NamedActive(p)' => NamedActive(p)
  BY <1>1, <1>2, <1>3, NoneAssumption DEF Named, NamedActive
<1>5. TypeOK'
  BY <1>1, <1>2 DEF IInv, TypeOK
<1>6. RowsInv'
  <2> SUFFICES ASSUME NEW r \in Upload PROVE RowInv(r)'
      BY DEF RowsInv
  <2>1. RowInv(r) /\ upload' = upload
    BY <1>1 DEF IInv, RowsInv
  <2> QED BY <1>1, <1>2, <2>1 DEF RowInv
<1>7. AdoptionsInv'
  <2> SUFFICES ASSUME NEW v \in Upload PROVE AdoptionInv(v)'
      BY DEF AdoptionsInv
  <2>1. AdoptionInv(v) /\ upload[v].adopts \in Path /\ upload' = upload
    BY <1>1 DEF IInv, AdoptionsInv, TypeOK, UploadRecord
  <2>2. upload[v].adopts \notin rows
    BY <1>1 DEF RowFree
  <2> QED BY <1>2, <2>1, <2>2 DEF AdoptionInv, Path
<1>8. JournalsInv'
  BY <1>1, <1>4 DEF IInv, JournalsInv, JournalInv, HasFile, Journaled
<1>9. CleanersInv'
  <2> SUFFICES ASSUME NEW c \in Cleaner PROVE CleanerInv(c)'
      BY <1>1 DEF IInv, CleanersInv
  <2>1. CleanerInv(c) /\ cleaner[c].row \in Path /\ cleaner' = cleaner /\ files' = files
    BY <1>1 DEF IInv, CleanersInv, TypeOK, CleanerRecord
  <2>2. cleaner[c].row \notin rows
    BY <1>1 DEF RowFree
  <2>3. cleaner[c].at # "idle" => PurgeOf(c)' = PurgeOf(c) /\ PurgeOf(c) \in Upload
    BY <1>2, <2>1, <2>2 DEF CleanerInv, PurgeOf, Path, IInv, TypeOK, RowRecord
  <2>4. cleaner[c].at # "idle" /\ ~NamedActive(PurgeOf(c)) => ~NamedActive(PurgeOf(c))'
    BY <1>4, <2>3 DEF NamedActive
  <2> QED BY <2>1, <2>3, <2>4 DEF CleanerInv
<1>10. SweepersInv'
  <2> SUFFICES ASSUME NEW s \in Sweeper PROVE SweeperInv(s)'
      BY DEF SweepersInv
  <2>1. SweeperInv(s) /\ sweeper[s].token \in Path /\ UNCHANGED <<sweeper, files, upload>>
    BY <1>1 DEF IInv, SweepersInv, TypeOK, SweeperRecord
  <2>2. \A m \in Upload : ~Named(m) => ~Named(m)'
    BY <1>4 DEF Named
  <2> QED BY <2>1, <2>2 DEF SweeperInv, Path, Named
<1>11. ActiveHasFile' /\ NothingUntracked'
  <2>1. ActiveHasFile'
    BY <1>1, <1>2 DEF IInv, ActiveHasFile, Active
  <2>2. NothingUntracked'
    BY <1>1, <1>4 DEF IInv, NothingUntracked, TypeOK
  <2> QED BY <2>1, <2>2
<1> QED BY <1>5, <1>6, <1>7, <1>8, <1>9, <1>10, <1>11 DEF IInv
-----------------------------------------------------------------------------
(***************************************************************************)
(* Steps of a clean-up.                                                    *)
(***************************************************************************)
\* Steps that write no row: they delete no file but those of ended uploads
\* that no active row names.
LEMMA CleanerIInv ==
  ASSUME IInv, CleanerRest, row' = row, faults' \in 0..MaxFaults,
         cleaner' \in [Cleaner -> CleanerRecord], CleanersInv',
         files' \subseteq files,
         \A p \in files \ files' : upload[p].at \in Ended /\ ~NamedActive(p)
  PROVE  IInv'
<1>1. UNCHANGED <<row, marker, upload, sweeper, lost>>
  BY DEF CleanerRest
<1>2. TypeOK' /\ RowsInv' /\ AdoptionsInv'
  BY <1>1 DEF IInv, TypeOK, RowsInv, RowInv, AdoptionsInv, AdoptionInv
<1>3. JournalsInv'
  BY <1>1 DEF IInv, JournalsInv, JournalInv, HasFile, Journaled, Named, Ended
<1>4. SweepersInv'
  BY <1>1 DEF IInv, SweepersInv, SweeperInv, Named
<1>5. ActiveHasFile' /\ NothingUntracked'
  BY <1>1 DEF IInv, ActiveHasFile, Active, NothingUntracked, Named, NamedActive
<1> QED BY <1>2, <1>3, <1>4, <1>5 DEF IInv

\* What one clean-up owes when it alone has moved.
LEMMA OneCleaner ==
  ASSUME IInv, NEW c \in Cleaner, CleanerRest, row' = row, faults' \in 0..MaxFaults,
         NEW new \in CleanerRecord, cleaner' = [cleaner EXCEPT ![c] = new],
         IF new.at = "idle" THEN new.row = None
                            ELSE \A d \in Cleaner : d # c => cleaner[d].row # new.row,
         files' \subseteq files,
         \A p \in files \ files' : upload[p].at \in Ended /\ ~NamedActive(p),
         CleanerInv(c)'
  PROVE  IInv'
<1>1. /\ cleaner' \in [Cleaner -> CleanerRecord]
      /\ cleaner'[c] = new /\ \A d \in Cleaner : d # c => cleaner'[d] = cleaner[d]
  BY DEF IInv, TypeOK
<1>2. \A d \in Cleaner : d # c => CleanerInv(d)'
  BY <1>1 DEF IInv, CleanersInv, CleanerInv, PurgeOf, NamedActive
<1>3. ASSUME NEW d \in Cleaner, NEW e \in Cleaner,
             cleaner'[d].at # "idle", cleaner'[d].row = cleaner'[e].row
      PROVE  d = e
  <2>1. CASE d = c \/ e # c
    BY <1>1, <1>3, <2>1 DEF IInv, CleanersInv
  <2>2. CASE d # c /\ e = c
    <3>1. cleaner[d].row = new.row /\ cleaner[d].at # "idle"
      BY <1>1, <1>3, <2>2
    <3>2. cleaner[d].row # None
      BY <3>1 DEF IInv, CleanersInv, CleanerInv
    <3> QED BY <2>2, <3>1, <3>2
  <2> QED BY <2>1, <2>2
<1>4. CleanersInv'
  BY <1>2, <1>3 DEF CleanersInv
<1> QED BY <1>1, <1>4, CleanerIInv

LEMMA CheckIInv ==
  ASSUME IInv, NEW c \in Cleaner, NEW r \in Upload, Check(c, r)
  PROVE  IInv'
<1> DEFINE new == [at |-> IF Shared(r) THEN "removed" ELSE "checked", row |-> r,
                   code |-> IF Shared(r) THEN "shared" ELSE ""]
<1>1. /\ cleaner' = [cleaner EXCEPT ![c] = new] /\ row[r].purge # None
      /\ UNCHANGED <<row, files, faults>> /\ CleanerRest
      /\ \A d \in Cleaner : cleaner[d].row # r
  BY DEF Check, RowFree
<1>2. /\ new \in CleanerRecord /\ new.row = r /\ new.at # "idle" /\ r # None
      /\ new.at = "checked" => ~Shared(r)
      /\ ~(new.at = "removed" /\ new.code = "")
  BY NoneAssumption DEF CleanerRecord, Path
<1> HIDE DEF new
<1>3. cleaner'[c] = new
  BY <1>1 DEF IInv, TypeOK
<1>4. CleanerInv(c)'
  BY <1>1, <1>2, <1>3 DEF CleanerInv, PurgeOf, Shared, NamedActive
<1>5. faults' \in 0..MaxFaults
  BY <1>1 DEF IInv, TypeOK
<1> QED BY <1>1, <1>2, <1>4, <1>5, OneCleaner

LEMMA RemoveIInv ==
  ASSUME IInv, NEW c \in Cleaner, Remove(c)
  PROVE  IInv'
<1> DEFINE new == [cleaner[c] EXCEPT !.at = "removed"]
<1>1. /\ cleaner' = [cleaner EXCEPT ![c] = new] /\ cleaner[c].at = "checked"
      /\ files' = files \ {PurgeOf(c)}
      /\ UNCHANGED <<row, faults>> /\ CleanerRest
  BY DEF Remove, PurgeOf, IInv, TypeOK
<1>2. cleaner[c] \in CleanerRecord
  BY DEF IInv, TypeOK
<1>3. new \in CleanerRecord /\ new.row = cleaner[c].row /\ new.at = "removed"
  BY <1>2 DEF CleanerRecord
<1> HIDE DEF new
<1>4. cleaner'[c] = new
  BY <1>1 DEF IInv, TypeOK
<1>5. /\ cleaner[c].row \in Upload /\ PurgeOf(c) # None /\ ~NamedActive(PurgeOf(c))
      /\ \A d \in Cleaner : d # c => cleaner[d].row # cleaner[c].row
  BY <1>1, <1>2 DEF IInv, CleanersInv, CleanerInv, CleanerRecord, Path
<1>6. upload[PurgeOf(c)].at \in Ended
  BY <1>5 DEF IInv, RowsInv, RowInv, PurgeOf
<1>7. CleanerInv(c)'
  <2>1. PurgeOf(c)' = PurgeOf(c) /\ row' = row
    BY <1>1, <1>3, <1>4 DEF PurgeOf
  <2>2. PurgeOf(c)' # None /\ PurgeOf(c)' \notin files'
    BY <1>1, <1>5, <2>1
  <2>3. ~NamedActive(PurgeOf(c))'
    BY <1>5, <2>1 DEF NamedActive
  <2>4. cleaner'[c].row # None /\ cleaner'[c].at = "removed"
    BY <1>3, <1>4, <1>5, NoneAssumption
  <2> QED BY <2>2, <2>3, <2>4 DEF CleanerInv
<1>8. faults' \in 0..MaxFaults
  BY <1>1 DEF IInv, TypeOK
<1>9. files' \subseteq files
      /\ \A p \in files \ files' : upload[p].at \in Ended /\ ~NamedActive(p)
  BY <1>1, <1>5, <1>6
<1> QED BY <1>1, <1>3, <1>5, <1>7, <1>8, <1>9, OneCleaner

LEMMA RemoveFailsIInv ==
  ASSUME IInv, NEW c \in Cleaner, RemoveFails(c)
  PROVE  IInv'
<1> DEFINE first == [cleaner[c] EXCEPT !.at = "removed"]
           new == [first EXCEPT !.code = "filesystem"]
<1>1. /\ cleaner' = [cleaner EXCEPT ![c] = new] /\ cleaner[c].at = "checked"
      /\ UNCHANGED <<row, files>> /\ CleanerRest
  BY DEF RemoveFails, IInv, TypeOK
<1>2. cleaner[c] \in CleanerRecord
  BY DEF IInv, TypeOK
<1>3. /\ new \in CleanerRecord /\ new.row = cleaner[c].row
      /\ new.at = "removed" /\ new.code = "filesystem"
  <2>1. first \in CleanerRecord /\ first.row = cleaner[c].row /\ first.at = "removed"
    BY <1>2 DEF CleanerRecord
  <2> HIDE DEF first
  <2> QED BY <2>1 DEF CleanerRecord
<1> HIDE DEF new
<1>4. cleaner'[c] = new
  BY <1>1 DEF IInv, TypeOK
<1>5. /\ cleaner[c].row # None /\ PurgeOf(c) # None
      /\ \A d \in Cleaner : d # c => cleaner[d].row # cleaner[c].row
  BY <1>1 DEF IInv, CleanersInv, CleanerInv
<1>6. CleanerInv(c)'
  BY <1>1, <1>3, <1>4, <1>5 DEF CleanerInv, PurgeOf
<1>7. faults' \in 0..MaxFaults
  BY MaxFaultsAssumption DEF RemoveFails, IInv, TypeOK
<1> QED BY <1>1, <1>3, <1>5, <1>6, <1>7, OneCleaner

LEMMA CleanerDiesIInv ==
  ASSUME IInv, NEW c \in Cleaner, CleanerDies(c)
  PROVE  IInv'
<1>1. NoCleaning \in CleanerRecord /\ NoCleaning.at = "idle" /\ NoCleaning.row = None
  BY DEF NoCleaning, CleanerRecord, Path
<1>2. /\ cleaner' = [cleaner EXCEPT ![c] = NoCleaning]
      /\ UNCHANGED <<row, files>> /\ CleanerRest
  BY DEF CleanerDies
<1>3. cleaner'[c] = NoCleaning
  BY <1>2 DEF IInv, TypeOK
<1>4. CleanerInv(c)'
  BY <1>1, <1>3 DEF CleanerInv
<1>5. faults' \in 0..MaxFaults
  BY MaxFaultsAssumption DEF CleanerDies, IInv, TypeOK
<1> QED BY <1>1, <1>2, <1>4, <1>5, OneCleaner

LEMMA RecordIInv ==
  ASSUME IInv, NEW c \in Cleaner, Record(c)
  PROVE  IInv'
<1> DEFINE r == cleaner[c].row
           p == row[r].purge
<1>1. /\ cleaner[c].at = "removed" /\ cleaner' = [cleaner EXCEPT ![c] = NoCleaning]
      /\ UNCHANGED <<files, faults>> /\ CleanerRest
      /\ UNCHANGED <<marker, upload, sweeper, lost>>
  BY DEF Record, CleanerRest
<1>2. NoCleaning \in CleanerRecord /\ NoCleaning.at = "idle" /\ NoCleaning.row = None
  BY DEF NoCleaning, CleanerRecord, Path
<1>3. /\ cleaner' \in [Cleaner -> CleanerRecord] /\ cleaner'[c] = NoCleaning
      /\ \A d \in Cleaner : d # c => cleaner'[d] = cleaner[d]
  BY <1>1, <1>2 DEF IInv, TypeOK
<1>4. CASE ~Purged(c)
  <2>1. row' = row /\ faults' \in 0..MaxFaults /\ CleanerInv(c)'
    BY <1>1, <1>2, <1>3, <1>4 DEF Record, IInv, TypeOK, CleanerInv
  <2> QED BY <1>1, <1>2, <2>1, OneCleaner
<1>5. CASE Purged(c)
  <2>1. /\ r \in Upload /\ p # None /\ p \notin files
        /\ \A d \in Cleaner : d # c => cleaner[d].row # r
    BY <1>1, <1>5 DEF Purged, IInv, CleanersInv, CleanerInv, PurgeOf, TypeOK, CleanerRecord, Path
  <2>2. /\ row' \in [Upload -> RowRecord]
        /\ row'[r].purge = None /\ \A q \in Upload : row'[q].path = row[q].path
        /\ \A q \in Upload : q # r => row'[q] = row[q]
    <3>1. row' = [row EXCEPT ![r] = [row[r] EXCEPT !.purge = None]]
      BY <1>5 DEF Record, IInv, TypeOK
    <3>2. /\ [row[r] EXCEPT !.purge = None] \in RowRecord
          /\ [row[r] EXCEPT !.purge = None].purge = None
          /\ [row[r] EXCEPT !.purge = None].path = row[r].path
      BY <2>1 DEF IInv, TypeOK, RowRecord, Path
    <3> HIDE DEF r
    <3> QED BY <2>1, <3>1, <3>2 DEF IInv, TypeOK
  <2> HIDE DEF r
  <2>3. \A q \in Upload : /\ NamedActive(q)' <=> NamedActive(q)
                          /\ Named(q)' => Named(q)
                          /\ q # p /\ Named(q) => Named(q)'
    BY <2>1, <2>2, NoneAssumption DEF Named, NamedActive
  <2> HIDE DEF p
  <2>4. TypeOK'
    BY <1>1, <1>3, <2>2 DEF IInv, TypeOK
  <2>5. RowsInv'
    BY <1>1, <2>2 DEF IInv, RowsInv, RowInv
  <2>6. AdoptionsInv'
    BY <1>1, <2>2 DEF IInv, AdoptionsInv, AdoptionInv, TypeOK, UploadRecord, Path
  <2>7. JournalsInv'
    BY <1>1, <2>1, <2>3 DEF IInv, JournalsInv, JournalInv, HasFile, Journaled
  <2>8. CleanersInv'
    <3>1. ASSUME NEW d \in Cleaner PROVE CleanerInv(d)'
      <4>1. CASE d = c
        BY <1>2, <1>3, <4>1 DEF CleanerInv
      <4>2. CASE d # c
        <5>1. CleanerInv(d) /\ cleaner[d].row \in Path /\ cleaner'[d] = cleaner[d]
          BY <1>3, <4>2 DEF IInv, CleanersInv, TypeOK, CleanerRecord
        <5>2. cleaner[d].at # "idle" => PurgeOf(d)' = PurgeOf(d) /\ PurgeOf(d) \in Upload
          BY <2>1, <2>2, <4>2, <5>1 DEF CleanerInv, PurgeOf, Path, IInv, TypeOK, RowRecord
        <5>3. cleaner[d].at # "idle" /\ ~NamedActive(PurgeOf(d)) => ~NamedActive(PurgeOf(d))'
          BY <2>3, <5>2 DEF NamedActive
        <5> QED BY <1>1, <5>1, <5>2, <5>3 DEF CleanerInv
      <4> QED BY <4>1, <4>2
    <3>2. ASSUME NEW d \in Cleaner, NEW e \in Cleaner,
                 cleaner'[d].at # "idle", cleaner'[d].row = cleaner'[e].row
          PROVE  d = e
      <4>1. d # c /\ cleaner[d].row # None
        BY <1>2, <1>3, <3>2 DEF IInv, CleanersInv, CleanerInv
      <4>2. e # c
        BY <1>2, <1>3, <3>2, <4>1
      <4> QED BY <1>3, <3>2, <4>1, <4>2 DEF IInv, CleanersInv
    <3> QED BY <3>1, <3>2 DEF CleanersInv
  <2>9. SweepersInv'
    <3> SUFFICES ASSUME NEW s \in Sweeper PROVE SweeperInv(s)'
        BY DEF SweepersInv
    <3>1. SweeperInv(s) /\ sweeper[s].token \in Path
      BY DEF IInv, SweepersInv, TypeOK, SweeperRecord
    <3>2. \A m \in Upload : ~Named(m) => ~Named(m)'
      BY <2>3 DEF Named
    <3> QED BY <1>1, <3>1, <3>2 DEF SweeperInv, Path, Named
  <2>10. ActiveHasFile'
    BY <1>1, <2>2 DEF IInv, ActiveHasFile, Active
  <2>11. NothingUntracked'
    BY <1>1, <2>1, <2>3 DEF IInv, NothingUntracked, TypeOK
  <2> QED BY <2>4, <2>5, <2>6, <2>7, <2>8, <2>9, <2>10, <2>11 DEF IInv
<1> QED BY <1>4, <1>5
-----------------------------------------------------------------------------
(***************************************************************************)
(* Steps of a recovery, and of the disk.                                   *)
(***************************************************************************)
\* A recovery deletes the files and clears the markers of ended uploads only,
\* and leaves a marker at least where no row names the file that stays.
LEMMA SweeperIInv ==
  ASSUME IInv, SweeperRest, faults' \in 0..MaxFaults,
         NEW s \in Sweeper, NEW new \in SweeperRecord,
         sweeper' = [sweeper EXCEPT ![s] = new], SweeperInv(s)',
         marker' \in [Upload -> {"none", "planned", "created"}],
         \A u \in Upload : marker'[u] # marker[u] =>
             upload[u].at \in Ended /\ (u \in files' => Named(u)),
         files' \subseteq files,
         \A p \in files \ files' : upload[p].at \in Ended /\ ~Named(p)
  PROVE  IInv'
<1>1. UNCHANGED <<row, upload, cleaner, lost>>
  BY DEF SweeperRest
<1>2. /\ sweeper' \in [Sweeper -> SweeperRecord]
      /\ \A t \in Sweeper : t # s => sweeper'[t] = sweeper[t]
  BY DEF IInv, TypeOK
<1>3. \A p \in Upload : ~Named(p) => ~NamedActive(p)
  BY DEF Named, NamedActive
<1>4. TypeOK' /\ RowsInv' /\ AdoptionsInv'
  BY <1>1, <1>2 DEF IInv, TypeOK, RowsInv, RowInv, AdoptionsInv, AdoptionInv
<1>5. JournalsInv'
  <2> SUFFICES ASSUME NEW u \in Upload PROVE JournalInv(u)'
      BY DEF JournalsInv
  <2>1. JournalInv(u) /\ upload' = upload /\ row' = row
    BY <1>1 DEF IInv, JournalsInv
  <2>2. upload[u].at \notin Ended => marker'[u] = marker[u] /\ (u \in files => u \in files')
    OBVIOUS
  <2>3. HasFile(u) \/ Journaled(u) \/ upload[u].at = "idle" => upload[u].at \notin Ended
    BY DEF HasFile, Journaled, Ended
  <2> QED BY <2>1, <2>2, <2>3 DEF JournalInv, HasFile, Journaled, Named
<1>6. CleanersInv'
  BY <1>1 DEF IInv, CleanersInv, CleanerInv, PurgeOf, NamedActive
<1>7. SweepersInv'
  <2> SUFFICES ASSUME NEW t \in Sweeper, t # s PROVE SweeperInv(t)'
      BY DEF SweepersInv
  <2> QED BY <1>1, <1>2 DEF IInv, SweepersInv, SweeperInv, Named
<1>8. ActiveHasFile'
  BY <1>1, <1>3 DEF IInv, ActiveHasFile, Active, NamedActive, TypeOK, RowRecord, Path
<1>9. NothingUntracked'
  BY <1>1 DEF IInv, NothingUntracked, Named, TypeOK
<1> QED BY <1>4, <1>5, <1>6, <1>7, <1>8, <1>9 DEF IInv

LEMMA LockIInv ==
  ASSUME IInv, NEW s \in Sweeper, NEW m \in Upload, Lock(s, m)
  PROVE  IInv'
<1> DEFINE new == [at |-> "read", token |-> m]
<1>1. /\ sweeper' = [sweeper EXCEPT ![s] = new]
      /\ UNCHANGED <<files, marker, faults>> /\ SweeperRest
      /\ marker[m] # "none" /\ ~Runs(m)
  BY DEF Lock
<1>2. new \in SweeperRecord /\ new.at = "read" /\ new.token = m /\ m # None
  BY NoneAssumption DEF SweeperRecord, Path
<1> HIDE DEF new
<1>3. upload[m].at \in Ended
  BY <1>1 DEF Runs, Ended, IInv, JournalsInv, JournalInv
<1>4. sweeper'[s] = new /\ upload' = upload
  BY <1>1 DEF IInv, TypeOK, SweeperRest
<1>5. SweeperInv(s)'
  BY <1>2, <1>3, <1>4 DEF SweeperInv
<1> QED BY <1>1, <1>2, <1>5, SweeperIInv DEF IInv, TypeOK

\* The step of a recovery that ends it.
LEMMA SweepEndsIInv ==
  ASSUME IInv, NEW s \in Sweeper, SweepEnds(s), SweeperRest, files' = files,
         faults' \in 0..MaxFaults,
         \/ marker' = marker
         \/ /\ Marks(sweeper[s].token, "none") /\ sweeper[s].at # "idle"
            /\ sweeper[s].token \in files => Named(sweeper[s].token)
  PROVE  IInv'
<1>1. NoSweep \in SweeperRecord /\ NoSweep.at = "idle"
  BY DEF NoSweep, SweeperRecord, Path
<1>2. SweeperInv(s)'
  <2>1. sweeper'[s].at = "idle"
    BY <1>1 DEF SweepEnds, IInv, TypeOK
  <2> QED BY <2>1 DEF SweeperInv
<1>3. marker' \in [Upload -> {"none", "planned", "created"}]
  BY DEF Marks, IInv, TypeOK
<1>4. \A u \in Upload : marker'[u] # marker[u] =>
          upload[u].at \in Ended /\ (u \in files' => Named(u))
  BY DEF Marks, IInv, TypeOK, SweepersInv, SweeperInv
<1> QED BY <1>1, <1>2, <1>3, <1>4, SweeperIInv DEF SweepEnds

LEMMA SweepStopsIInv ==
  ASSUME IInv, NEW s \in Sweeper,
         Referenced(s) \/ Uncertain(s) \/ ClearSwept(s) \/ SweepFails(s)
  PROVE  IInv'
<1>1. SweepEnds(s) /\ SweeperRest /\ files' = files /\ sweeper[s].at # "idle"
  BY DEF Referenced, Uncertain, ClearSwept, SweepFails
<1>2. faults' \in 0..MaxFaults
  BY MaxFaultsAssumption DEF Referenced, Uncertain, ClearSwept, SweepFails, IInv, TypeOK
<1>3. CASE Referenced(s)
  BY <1>1, <1>2, <1>3, SweepEndsIInv DEF Referenced
<1>4. CASE Uncertain(s) \/ SweepFails(s)
  BY <1>1, <1>2, <1>4, SweepEndsIInv DEF Uncertain, SweepFails
<1>5. CASE ClearSwept(s)
  <2>1. Marks(sweeper[s].token, "none") /\ sweeper[s].token \notin files
    BY <1>5 DEF ClearSwept, IInv, SweepersInv, SweeperInv
  <2> QED BY <1>1, <1>2, <2>1, SweepEndsIInv
<1> QED BY <1>3, <1>4, <1>5

\* The step of a recovery that goes on with the marker it has locked.
LEMMA SweepsIInv ==
  ASSUME IInv, NEW s \in Sweeper, NEW from \in {"read", "unnamed"},
         NEW to \in {"unnamed", "removed"}, Sweeps(s, from, to), SweeperRest,
         UNCHANGED <<marker, faults>>, ~Named(sweeper[s].token),
         files' \in {files, files \ {sweeper[s].token}},
         to = "removed" => sweeper[s].token \notin files'
  PROVE  IInv'
<1> DEFINE m == sweeper[s].token
           new == [sweeper[s] EXCEPT !.at = to]
<1>1. sweeper[s] \in SweeperRecord /\ sweeper[s].at = from
  BY DEF Sweeps, IInv, TypeOK
<1>2. new \in SweeperRecord /\ new.at = to /\ new.token = m
  BY <1>1 DEF SweeperRecord
<1>3. sweeper' = [sweeper EXCEPT ![s] = new]
  BY DEF Sweeps, IInv, TypeOK
<1>4. m # None /\ upload[m].at \in Ended
  BY <1>1 DEF IInv, SweepersInv, SweeperInv
<1> HIDE DEF new
<1>5. sweeper'[s] = new /\ upload' = upload /\ row' = row
  BY <1>3 DEF IInv, TypeOK, SweeperRest
<1>6. SweeperInv(s)'
  BY <1>2, <1>4, <1>5 DEF SweeperInv, Named
<1>7. /\ files' \subseteq files
      /\ \A p \in files \ files' : upload[p].at \in Ended /\ ~Named(p)
  BY <1>4
<1>8. faults' \in 0..MaxFaults /\ marker' = marker
      /\ marker' \in [Upload -> {"none", "planned", "created"}]
  BY DEF IInv, TypeOK
<1> QED BY <1>2, <1>3, <1>6, <1>7, <1>8, SweeperIInv

LEMMA SweepGoesOnIInv ==
  ASSUME IInv, NEW s \in Sweeper, Unreferenced(s) \/ RemoveOrphan(s)
  PROVE  IInv'
<1>1. CASE Unreferenced(s)
  BY <1>1, SweepsIInv DEF Unreferenced
<1>2. CASE RemoveOrphan(s)
  <2>1. ~Named(sweeper[s].token)
    BY <1>2 DEF RemoveOrphan, Sweeps, IInv, SweepersInv, SweeperInv
  <2> QED BY <1>2, <2>1, SweepsIInv DEF RemoveOrphan
<1> QED BY <1>1, <1>2

LEMMA LoseIInv ==
  ASSUME IInv, NEW p \in Upload, Lose(p)
  PROVE  IInv'
<1>1. /\ NamedActive(p) /\ files' = files \ {p} /\ lost' = lost \cup {p}
      /\ UNCHANGED <<row, marker, upload, cleaner, sweeper>>
  BY DEF Lose
<1>2. upload[p].at \in Ended
  BY <1>1, NoneAssumption DEF NamedActive, IInv, RowsInv, RowInv
<1>3. TypeOK'
  BY <1>1, MaxFaultsAssumption DEF Lose, IInv, TypeOK
<1>4. RowsInv' /\ AdoptionsInv'
  BY <1>1 DEF IInv, RowsInv, RowInv, AdoptionsInv, AdoptionInv
<1>5. JournalsInv'
  BY <1>1, <1>2 DEF IInv, JournalsInv, JournalInv, HasFile, Journaled, Named, Ended
<1>6. CleanersInv' /\ SweepersInv'
  BY <1>1 DEF IInv, CleanersInv, CleanerInv, PurgeOf, NamedActive, SweepersInv, SweeperInv, Named
<1>7. ActiveHasFile' /\ NothingUntracked'
  BY <1>1 DEF IInv, ActiveHasFile, Active, NothingUntracked, Named
<1> QED BY <1>3, <1>4, <1>5, <1>6, <1>7 DEF IInv
-----------------------------------------------------------------------------
LEMMA NextIInv == IInv /\ Next => IInv'
<1> SUFFICES ASSUME IInv, Next PROVE IInv'
    OBVIOUS
<1>1. ASSUME NEW u \in Upload, Allocate(u) \/ Proceeds(u) \/ Breaks(u) \/ Lose(u)
      PROVE  IInv'
  <2>1. ASSUME Allocate(u) \/ Open(u) \/ Write(u) \/ Look(u) PROVE IInv'
    BY <2>1, AllocateIInv, OpenIInv, WriteIInv, LookIInv
  <2>2. ASSUME NEW r \in Upload, Adopt(u, r) PROVE IInv'
    BY <2>2, AdoptIInv
  <2>3. ASSUME Own(u) \/ DropTemporary(u) \/ Commit(u) \/ ClearMarker(u) PROVE IInv'
    BY <2>3, OwnIInv, DropTemporaryIInv, CommitIInv, ClearMarkerIInv
  <2>4. ASSUME Breaks(u) \/ Lose(u) PROVE IInv'
    BY <2>4, FailIInv, LeavesIInv, LoseIInv DEF Breaks
  <2> QED BY <1>1, <2>1, <2>2, <2>3, <2>4 DEF Proceeds
<1>2. ASSUME NEW rows, Retire(rows) PROVE IInv'
  BY <1>2, RetireIInv
<1>3. ASSUME NEW c \in Cleaner,
             \/ \E r \in Upload : Check(c, r)
             \/ Cleans(c) \/ RemoveFails(c) \/ CleanerDies(c)
      PROVE  IInv'
  BY <1>3, CheckIInv, RemoveIInv, RecordIInv, RemoveFailsIInv, CleanerDiesIInv DEF Cleans
<1>4. ASSUME NEW s \in Sweeper,
             (\E m \in Upload : Lock(s, m)) \/ Recovers(s) \/ SweepFails(s)
      PROVE  IInv'
  BY <1>4, LockIInv, SweepStopsIInv, SweepGoesOnIInv DEF Recovers
<1> QED BY <1>1, <1>2, <1>3, <1>4 DEF Next

\* The invariant holds of every behaviour: whoever deletes a file, nobody's
\* view of it is stale at that moment.
THEOREM InvariantHolds == Spec => []IInv
<1>1. IInv /\ [Next]_vars => IInv'
  BY NextIInv, StutterIInv
<1> QED BY InitIInv, <1>1, PTL DEF Spec

\* An active row has its file unless the disk lost it, in a system with any
\* number of concurrent uploads, retirements, clean-ups and recoveries.
THEOREM FilesStay == Spec => []ActiveHasFile
<1>1. IInv => ActiveHasFile
  BY DEF IInv
<1> QED BY InvariantHolds, <1>1, PTL

\* Whatever fails or dies between two steps, every file on disk is named by a
\* row or by an upload marker, so that one of the two clean-ups can find it.
THEOREM FilesAreTracked == Spec => []NothingUntracked
<1>1. IInv => NothingUntracked
  BY DEF IInv
<1> QED BY InvariantHolds, <1>1, PTL

\* Rows and files agree: no active row without its file, no file without a row or
\* a marker.
THEOREM RowsAndFilesAgree == Spec => []FilesAgree
<1>1. ActiveHasFile /\ NothingUntracked => FilesAgree
  BY DEF FilesAgree
<1> QED BY <1>1, FilesStay, FilesAreTracked, PTL

\* The variables have their types, and no row names a file while it retires one.
THEOREM TypesHold == Spec => []TypeOK
<1>1. IInv => TypeOK
  BY DEF IInv
<1> QED BY InvariantHolds, <1>1, PTL

\* A clean-up forgets a retired path only when its file is no longer on disk,
\* although it looks at the file system long before it writes the row.
THEOREM RetirementIsKept == Spec => PurgedIsGone
<1> DEFINE Kept == \A r \in Upload :
             (row[r].purge # None /\ row'[r].purge = None) => row[r].purge \notin files'
<1>1. IInv /\ [Next]_vars => [Kept]_vars
  <2> SUFFICES ASSUME IInv, Next, NEW r \in Upload,
                      row[r].purge # None, row'[r].purge = None
               PROVE  row[r].purge \notin files'
      BY DEF vars
  <2>1. row' # row
    OBVIOUS
  <2>2. ASSUME NEW u \in Upload, Commit(u) PROVE FALSE
    <3>1. row'[r].purge = row[r].purge
      BY <2>2 DEF Commit, IInv, TypeOK, RowRecord
    <3> QED BY <3>1
  <2>3. ASSUME NEW rows, Retire(rows) PROVE FALSE
    <3>1. row[r].path = None /\ row'[r].purge = None
      BY DEF IInv, TypeOK
    <3>2. r \notin rows /\ row'[r] = row[r]
      BY <2>3, <3>1 DEF Retire, Active
    <3> QED BY <3>2
  <2>4. ASSUME NEW c \in Cleaner, Record(c) PROVE row[r].purge \notin files'
    <3>1. cleaner[c].at = "removed" /\ cleaner[c].code = "" /\ files' = files
      BY <2>1, <2>4 DEF Record, Purged
    <3>2. cleaner[c].row = r
      BY <2>4 DEF Record, IInv, TypeOK
    <3> QED BY <3>1, <3>2 DEF IInv, CleanersInv, CleanerInv, PurgeOf
  <2>5. ASSUME NEW u \in Upload, Allocate(u) \/ Proceeds(u) \/ Breaks(u) \/ Lose(u)
        PROVE  Commit(u)
    BY <2>1, <2>5 DEF Allocate, Proceeds, Breaks, Lose, Open, Write, Look, Adopt, Own,
       DropTemporary, ClearMarker, Fail, Rollback, Die, OthersIdle
  <2>6. ASSUME NEW c \in Cleaner,
               \/ \E q \in Upload : Check(c, q)
               \/ Cleans(c) \/ RemoveFails(c) \/ CleanerDies(c)
        PROVE  Record(c)
    BY <2>1, <2>6 DEF Check, Cleans, Remove, RemoveFails, CleanerDies
  <2>7. ASSUME NEW s \in Sweeper,
               (\E m \in Upload : Lock(s, m)) \/ Recovers(s) \/ SweepFails(s)
        PROVE  FALSE
    BY <2>1, <2>7 DEF Lock, Recovers, Referenced, Unreferenced, Uncertain, RemoveOrphan,
       ClearSwept, SweepFails, SweeperRest
  <2> QED BY <2>2, <2>3, <2>4, <2>5, <2>6, <2>7 DEF Next
<1>2. PurgedIsGone <=> [][Kept]_vars
  BY DEF PurgedIsGone
<1> HIDE DEF Kept
<1> QED BY InvariantHolds, <1>1, <1>2, PTL DEF Spec
=============================================================================
