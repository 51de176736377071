----------------------------- MODULE CustomerFiles -----------------------------
(***************************************************************************)
(* Customers that leave and enter as files, for one run: export jobs       *)
(* (MCCustomerExport) and imported batches (CustomerImport).  They share   *)
(* the companies alone, which an export only reads, so a behaviour follows *)
(* one and leaves the other as it began.                                   *)
(***************************************************************************)
EXTENDS MCCustomerExport, CustomerImport

VARIABLE direction   \* what a behaviour follows

fileVars == <<vars, importVars, direction>>

FilesInit == direction \in {"in", "out"} /\ Init /\ ImportInit

FilesNext ==
    /\ direction' = direction
    /\ \/ direction = "out" /\ Next /\ UNCHANGED importVars
       \/ direction = "in" /\ ImportNext /\ UNCHANGED vars

FilesSpec == FilesInit /\ [][FilesNext]_fileVars /\ ExportFairness
=============================================================================
