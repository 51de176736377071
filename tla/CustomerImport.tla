---------------------------- MODULE CustomerImport ----------------------------
(***************************************************************************)
(* Importing companies from files (leads/customer_import_services.py and   *)
(* the adapters in front of it): a preview classifies every row of a file  *)
(* against the companies there are then; a later request writes the rows,  *)
(* each in a savepoint, in one transaction that holds the batch and its    *)
(* rows but no company.  What an open transaction has written nobody else  *)
(* sees; the index on external records makes a second writer wait.         *)
(* Rows a file's reader refuses, contacts and the standard-21 rows are     *)
(* left out.                                                               *)
(***************************************************************************)
EXTENDS Integers, FiniteSets

CONSTANTS
    Batch,     \* files
    Records,   \* rows of each file: the same external records, 1 to Records
    Company,   \* bound: companies that may exist
    NoCompany

ASSUME RecordsAssumption == Records \in Nat
ASSUME CompanyAssumption == NoCompany \notin Company

VARIABLES
    name,     \* the record that tells each company's name, 0 for no company
    source,   \* customer_source: <<record, company>>
    batch,    \* customer_import_batch and its rows
    work      \* the transaction that commits each batch

importVars == <<name, source, batch, work>>
-----------------------------------------------------------------------------
Record == 1..Records
RowStatus == {"new", "supplement", "unchanged", "quarantined", "imported", "failed"}
BatchStatus == {"none", "preview", "partial", "succeeded"}
Row == [status : RowStatus, company : Company \cup {NoCompany}]
NoRow == [status |-> "new", company |-> NoCompany]

ImportTypeOK ==
    /\ name \in [Company -> 0..Records]
    /\ source \subseteq Record \X Company
    /\ batch \in [Batch -> [status : BatchStatus, row : [Record -> Row],
                            imported : Nat, failed : Nat]]
    /\ work \in [Batch -> [open : BOOLEAN, todo : SUBSET Record, row : [Record -> Row],
                           imported : Nat, failed : Nat, made : SUBSET (Record \X Company)]]

AtRest == [open |-> FALSE, todo |-> {}, row |-> [r \in Record |-> NoRow],
           imported |-> 0, failed |-> 0, made |-> {}]

ImportInit ==
    /\ name = [c \in Company |-> 0]
    /\ source = {}
    /\ batch = [b \in Batch |-> [status |-> "none", row |-> [r \in Record |-> NoRow],
                                 imported |-> 0, failed |-> 0]]
    /\ work = [b \in Batch |-> AtRest]
-----------------------------------------------------------------------------
Unused == {c \in Company : name[c] = 0 /\ \A b \in Batch : \A m \in work[b].made : m[2] # c}

\* Somebody adds a company by hand.
AddCompany(c, r) ==
    /\ c \in Unused
    /\ name' = [name EXCEPT ![c] = r]
    /\ UNCHANGED <<source, batch, work>>

Candidates(r) == {c \in Company : name[c] = r \/ <<r, c>> \in source}

\* A matching company has something to gain from the row, or has not.
Classified(r) ==
    IF Cardinality(Candidates(r)) > 1 THEN {[status |-> "quarantined", company |-> NoCompany]}
    ELSE IF Candidates(r) = {} THEN {NoRow}
    ELSE [status : {"supplement", "unchanged"}, company : Candidates(r)]

\* The site's lock makes a second preview of the file find the first.
PreviewFile(b) ==
    /\ batch[b].status = "none"
    /\ \E row \in [Record -> UNION {Classified(r) : r \in Record}] :
          /\ \A r \in Record : row[r] \in Classified(r)
          /\ batch' = [batch EXCEPT ![b].status = "preview", ![b].row = row]
    /\ UNCHANGED <<name, source, work>>

Waiting == {"new", "supplement", "failed"}

\* Mutant of Begin: the totals are those of this commit.
BeginMutant(b) ==
    /\ batch[b].status \in {"preview", "partial"} /\ ~work[b].open
    /\ work' = [work EXCEPT ![b] =
          [AtRest EXCEPT !.open = TRUE, !.row = batch[b].row,
                         !.todo = {r \in Record : batch[b].row[r].status \in Waiting}]]
    /\ UNCHANGED <<name, source, batch>>

Begin(b) ==
    /\ batch[b].status \in {"preview", "partial"} /\ ~work[b].open
    /\ work' = [work EXCEPT ![b] =
          [AtRest EXCEPT !.open = TRUE, !.row = batch[b].row, !.imported = batch[b].imported,
                         !.todo = {r \in Record : batch[b].row[r].status \in Waiting}]]
    /\ UNCHANGED <<name, source, batch>>

\* Mutant of Indexed.
IndexedMutant(r, c) == TRUE

\* uq_crm_customer_source_external lets the company have the record.
Indexed(r, c) == \A s \in source : s[1] = r => s[2] = c

Following(b) == CHOOSE r \in work[b].todo : \A other \in work[b].todo : r <= other

Done(b, r, row) == [work[b] EXCEPT !.todo = @ \ {r}, !.row[r] = row]

\* A row without a company makes one; the company then gets the record.
ImportRow(b) ==
    /\ work[b].todo # {}
    /\ LET r == Following(b)
           has == work[b].row[r].company
       IN  \E c \in (IF has = NoCompany THEN Unused ELSE {has}) :
              /\ \A other \in Batch \ {b} : \A m \in work[other].made : m[1] # r
              /\ Indexed(r, c)
              /\ work' = [work EXCEPT ![b] =
                    [Done(b, r, [status |-> "imported", company |-> c])
                        EXCEPT !.imported = @ + 1, !.made = @ \cup {<<r, c>>}]]
    /\ UNCHANGED <<name, source, batch>>

\* The savepoint is rolled back; the next commit tries the row again.
RefuseRow(b) ==
    /\ work[b].todo # {}
    /\ LET r == Following(b)
       IN  work' = [work EXCEPT ![b] =
              [Done(b, r, [work[b].row[r] EXCEPT !.status = "failed"]) EXCEPT !.failed = @ + 1]]
    /\ UNCHANGED <<name, source, batch>>

CommitBatch(b) ==
    /\ work[b].open /\ work[b].todo = {}
    /\ batch' = [batch EXCEPT ![b] =
          [status |-> IF work[b].failed > 0 THEN "partial" ELSE "succeeded",
           row |-> work[b].row, imported |-> work[b].imported, failed |-> work[b].failed]]
    /\ source' = source \cup work[b].made
    /\ name' = [c \in Company |->
          IF name[c] = 0 /\ \E r \in Record : <<r, c>> \in work[b].made
          THEN CHOOSE r \in Record : <<r, c>> \in work[b].made ELSE name[c]]
    /\ work' = [work EXCEPT ![b] = AtRest]

\* The process dies: the whole commit is undone.
LoseCommit(b) ==
    /\ work[b].open
    /\ work' = [work EXCEPT ![b] = AtRest]
    /\ UNCHANGED <<name, source, batch>>

ImportNext ==
    \/ \E c \in Company, r \in Record : AddCompany(c, r)
    \/ \E b \in Batch :
          \/ PreviewFile(b) \/ Begin(b) \/ ImportRow(b) \/ RefuseRow(b)
          \/ CommitBatch(b) \/ LoseCommit(b)

ImportSpec == ImportInit /\ [][ImportNext]_importVars
-----------------------------------------------------------------------------
\* However old its preview is, a file never gives a record to a second company,
\* and a row that counts as imported has given its record to the company it names
\* (_commit_row).
RecordsKeepTheirCompany ==
    /\ \A s, t \in source : s[1] = t[1] => s = t
    /\ \A b \in Batch, r \in Record :
          batch[b].row[r].status = "imported" => <<r, batch[b].row[r].company>> \in source

\* Over all the commits a batch took, its totals are those of its rows, and one
\* that succeeded has left no row to write (commit_customer_import).
TotalsAreTrue ==
    \A b \in Batch :
        LET rows(s) == {r \in Record : batch[b].row[r].status = s} IN
        /\ batch[b].imported = Cardinality(rows("imported"))
        /\ batch[b].failed = Cardinality(rows("failed"))
        /\ batch[b].status = "succeeded" => \A s \in Waiting : rows(s) = {}

\* What a batch says of its rows, and each row of its company, is so.
ImportsAreTrue == RecordsKeepTheirCompany /\ TotalsAreTrue
=============================================================================
