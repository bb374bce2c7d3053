------------------------------ MODULE Ingestion -----------------------------
(***************************************************************************)
(* AIChatSample's ingestion: at start-up DataIngestor brings two stores up *)
(* to date with a directory of documents.  JsonVectorStore, a JSON file    *)
(* that is read whole and written whole, holds the records a search finds; *)
(* IngestionCacheDbContext, a SQLite database, remembers which version of  *)
(* each document was ingested and the keys of its records.  Nothing ties a *)
(* write of one to a write of the other, and the process may stop between  *)
(* any two steps; the documents change at any time.                        *)
(*                                                                         *)
(* A record's key is its document and its position in it (page and index); *)
(* its content is the version of the document it was cut from.             *)
(***************************************************************************)
EXTENDS Integers, FiniteSets

CONSTANTS
  Doc,         \* file names
  MaxVersions, \* bound: how often a document is written
  MaxRecords,  \* bound: the records a version is cut into
  MaxCrashes,  \* bound: how often the process stops or fails before it is up
  NoDoc        \* no document

ASSUME BoundsAssumption ==
  /\ MaxVersions \in Nat \ {0} /\ MaxRecords \in Nat \ {0} /\ MaxCrashes \in Nat
ASSUME NoDocAssumption == NoDoc \notin Doc

Version == 1 .. MaxVersions
None == 0
Index == 1 .. MaxRecords
Key == Doc \X Index

VARIABLES
  file,     \* the version of each document in the directory, or None
  sizes,    \* the number of records in each version of each document
  written,  \* the last version of each document ever written
  disk,     \* the JSON file: the version each key's record was cut from, or None
  records,  \* _records, its copy in memory
  db,       \* the saved rows: version and record indexes of each document
  rows,     \* the rows as DbContext tracks them, not yet saved
  todo,     \* the documents the current loop has still to process
  doc,      \* the document being processed
  pc,       \* where IngestDataAsync is; "up" once app.Run serves requests
  crashes

directory == <<file, sizes, written>>
vars == <<directory, disk, records, db, rows, todo, doc, pc, crashes>>

NoRow == [version |-> None, ids |-> {}]

Init ==
  /\ file = [d \in Doc |-> None]
  /\ sizes \in [Doc -> [Version -> Index]]
  /\ written = [d \in Doc |-> None]
  /\ disk = [k \in Key |-> None]
  /\ records = disk
  /\ db = [d \in Doc |-> NoRow]
  /\ rows = db
  /\ todo = {}
  /\ doc = NoDoc
  /\ pc = "down"
  /\ crashes = 0

-----------------------------------------------------------------------------
(* The directory.                                                          *)

Write(d) ==
  /\ written[d] < MaxVersions
  /\ written' = [written EXCEPT ![d] = @ + 1]
  /\ file' = [file EXCEPT ![d] = written[d] + 1]
  /\ UNCHANGED <<sizes, disk, records, db, rows, todo, doc, pc, crashes>>

Remove(d) ==
  /\ file[d] # None
  /\ file' = [file EXCEPT ![d] = None]
  /\ UNCHANGED <<sizes, written, disk, records, db, rows, todo, doc, pc, crashes>>

-----------------------------------------------------------------------------
(* IngestDataAsync.                                                        *)

\* The records of d with these indexes, replaced by version v (None: removed).
With(vectors, d, ids, v) ==
  [k \in Key |-> IF k[1] = d /\ k[2] \in ids THEN v ELSE vectors[k]]

\* GetCollection reads the file; GetDeletedDocumentsAsync compares the rows of
\* the database with the directory.
Start ==
  /\ pc = "down"
  /\ records' = disk
  /\ rows' = db
  /\ todo' = {d \in Doc : db[d].version # None /\ file[d] = None}
  /\ pc' = "deleting"
  /\ UNCHANGED <<directory, disk, db, doc, crashes>>

\* Mutant of DeleteRecords: the row goes, the records stay.
DeleteRowOnly(d) ==
  /\ pc = "deleting" /\ d \in todo
  /\ rows' = [rows EXCEPT ![d] = NoRow]
  /\ todo' = todo \ {d}
  /\ UNCHANGED <<directory, disk, records, db, doc, pc, crashes>>

\* DeleteBatchAsync of the records of a deleted document; WriteToDiskAsync.
DeleteRecords(d) ==
  /\ pc = "deleting" /\ d \in todo
  /\ records' = With(records, d, rows[d].ids, None)
  /\ disk' = records'
  /\ rows' = [rows EXCEPT ![d] = NoRow]
  /\ todo' = todo \ {d}
  /\ UNCHANGED <<directory, db, doc, pc, crashes>>

\* SaveChangesAsync after the deletions.
SaveDeleted ==
  /\ pc = "deleting" /\ todo = {}
  /\ db' = rows
  /\ pc' = "listing"
  /\ UNCHANGED <<directory, disk, records, rows, todo, doc, crashes>>

\* Mutant of List: the versions are saved when they are read.
ListAndSave ==
  /\ pc = "listing"
  /\ todo' = {d \in Doc : file[d] # None /\ rows[d].version # file[d]}
  /\ rows' = [d \in Doc |-> IF d \in todo' THEN [rows[d] EXCEPT !.version = file[d]] ELSE rows[d]]
  /\ db' = rows'
  /\ pc' = "next"
  /\ UNCHANGED <<directory, disk, records, doc, crashes>>

\* GetNewOrModifiedDocumentsAsync: the version of a modified document is set to
\* that of the file, in memory.
List ==
  /\ pc = "listing"
  /\ todo' = {d \in Doc : file[d] # None /\ rows[d].version # file[d]}
  /\ rows' = [d \in Doc |-> IF d \in todo' THEN [rows[d] EXCEPT !.version = file[d]] ELSE rows[d]]
  /\ pc' = "next"
  /\ UNCHANGED <<directory, disk, records, db, doc, crashes>>

\* Mutant of DeleteOld: the records of the previous version are not deleted.
DeleteNothing(d) ==
  /\ pc = "next" /\ d \in todo
  /\ todo' = todo \ {d}
  /\ doc' = d
  /\ pc' = "upsert"
  /\ UNCHANGED <<directory, disk, records, db, rows, crashes>>

\* The records of the previous version are deleted, and the file is written.
DeleteOld(d) ==
  /\ pc = "next" /\ d \in todo
  /\ records' = With(records, d, rows[d].ids, None)
  /\ disk' = records'
  /\ todo' = todo \ {d}
  /\ doc' = d
  /\ pc' = "upsert"
  /\ UNCHANGED <<directory, db, rows, crashes>>

\* Mutant of Upsert: the indexes noted in the row count from zero.
UpsertFromZero ==
  /\ pc = "upsert" /\ file[doc] # None
  /\ LET v == file[doc]
         ids == 1 .. sizes[doc][v]
     IN /\ records' = With(records, doc, ids, v)
        /\ disk' = records'
        /\ rows' = [rows EXCEPT ![doc].ids = {i - 1 : i \in ids}]
  /\ doc' = NoDoc
  /\ pc' = "next"
  /\ UNCHANGED <<directory, db, todo, crashes>>

\* CreateRecordsForDocumentAsync opens the file as it is now; the new records
\* are upserted, written, and noted in the row.
Upsert ==
  /\ pc = "upsert" /\ file[doc] # None
  /\ LET v == file[doc]
         ids == 1 .. sizes[doc][v]
     IN /\ records' = With(records, doc, ids, v)
        /\ disk' = records'
        /\ rows' = [rows EXCEPT ![doc].ids = ids]
  /\ doc' = NoDoc
  /\ pc' = "next"
  /\ UNCHANGED <<directory, db, todo, crashes>>

\* The last SaveChangesAsync; then the application serves searches.
SaveModified ==
  /\ pc = "next" /\ todo = {}
  /\ db' = rows
  /\ pc' = "up"
  /\ UNCHANGED <<directory, disk, records, rows, todo, doc, crashes>>

\* The embedding service fails, the document is gone when it is opened, or the
\* process is stopped: start-up ends here, to be tried again.
Crash ==
  /\ crashes < MaxCrashes
  /\ pc \notin {"down", "up"}
  /\ crashes' = crashes + 1
  /\ pc' = "down"
  /\ doc' = NoDoc /\ todo' = {}
  /\ UNCHANGED <<directory, disk, records, db, rows>>

\* The application is shut down once it is up.
Stop ==
  /\ pc = "up"
  /\ pc' = "down"
  /\ UNCHANGED <<directory, disk, records, db, rows, todo, doc, crashes>>

Ingest ==
  \/ Start
  \/ \E d \in Doc : DeleteRecords(d) \/ DeleteOld(d)
  \/ SaveDeleted \/ List \/ Upsert \/ SaveModified

Next ==
  \/ \E d \in Doc : Write(d) \/ Remove(d)
  \/ Ingest \/ Crash \/ Stop

Spec == Init /\ [][Next]_vars

-----------------------------------------------------------------------------

\* By its row, the document need not be ingested again.
UpToDate(row, d) == row.version # None /\ row.version = file[d]

TypeOK ==
  /\ file \in [Doc -> Version \cup {None}]
  /\ sizes \in [Doc -> [Version -> Index]]
  /\ written \in [Doc -> Version \cup {None}]
  /\ disk \in [Key -> Version \cup {None}]
  /\ records \in [Key -> Version \cup {None}]
  /\ db \in [Doc -> [version : Version \cup {None}, ids : SUBSET Index]]
  /\ rows \in [Doc -> [version : Version \cup {None}, ids : SUBSET Index]]
  /\ todo \subseteq Doc
  /\ doc \in IF pc = "upsert" THEN Doc ELSE {NoDoc}
  /\ pc \in {"down", "deleting", "listing", "next", "upsert", "up"}
  /\ crashes \in 0 .. MaxCrashes

\* While the application serves searches, a document it takes for up to date
\* can be found: every record of that version is in the store and in the row,
\* whatever start-ups were cut short before, and although the file may be
\* written to between the look at its last write time and the reading of it.
UpToDateFound ==
  pc = "up" =>
    \A d \in Doc : UpToDate(db[d], d) =>
      /\ db[d].ids = 1 .. sizes[d][file[d]]
      /\ \A i \in db[d].ids : records[<<d, i>>] = file[d]

\* As long as no start-up was cut short, one that completes leaves no record
\* the database does not know of: a search finds nothing that is out of date by
\* more than what was written since the start-up.
AllKnown ==
  pc = "up" /\ crashes = 0 => \A d \in Doc, i \in Index : disk[<<d, i>>] # None => i \in db[d].ids

\* What a start-up sets out to delete is all that the store holds of the
\* documents that are gone.
SetsOutToDeleteAll ==
  pc = "down" /\ pc' = "deleting" =>
    \A d \in Doc, i \in Index :
      file[d] = None /\ disk[<<d, i>>] # None => d \in todo' /\ i \in rows'[d].ids

\* The comment on IngestionCacheDbContext: keeping track of the ingested
\* documents "makes it possible [...] to delete documents that have been
\* removed from the underlying source".  GetDeletedDocumentsAsync finds all of
\* what is left of them, however often start-up was cut short.
GoneIsDeleted == [][SetsOutToDeleteAll]_vars

\* It does as long as no start-up was cut short.
GoneIsDeletedIfSmooth == [][crashes = 0 => SetsOutToDeleteAll]_vars

-----------------------------------------------------------------------------
(* Why UpToDateFound holds.  A version is never seen again once the file has *)
(* been written to or removed, so a row may be unsound only while its        *)
(* version differs from the file's.                                          *)

\* If the row has the version of the file, its records are those of the file.
Sound(row, d) ==
  UpToDate(row, d) =>
    /\ row.ids = 1 .. sizes[d][file[d]]
    /\ \A i \in row.ids : records[<<d, i>>] = file[d]

\* No row and no file is ahead of what was written.
VersionsWritten ==
  \A d \in Doc : file[d] <= written[d] /\ db[d].version <= written[d] /\ rows[d].version <= written[d]

\* While deletions are under way: what is still to be deleted, and what has
\* been deleted without the database knowing, is not up to date.
DeletingInv ==
  pc \in {"deleting", "listing"} => \A d \in Doc :
    /\ d \in todo => ~ UpToDate(db[d], d)
    /\ \/ rows[d] = db[d]
       \/ pc = "deleting" /\ rows[d] = NoRow /\ ~ UpToDate(db[d], d)

\* While documents are being replaced: those not yet done are not up to date
\* in the database, and the rows of the others are sound.
ReplacingInv ==
  pc \in {"next", "upsert"} => \A d \in Doc :
    IF d \in todo \/ d = doc THEN ~ UpToDate(db[d], d) ELSE Sound(rows[d], d)

\* The inductive invariant: UpToDateFound holds of the database at every
\* moment of a start-up, however it is cut short.
IInv ==
  /\ TypeOK
  /\ records = disk
  /\ VersionsWritten
  /\ \A d \in Doc : Sound(db[d], d)
  /\ DeletingInv
  /\ ReplacingInv
  /\ doc \notin todo
=============================================================================
