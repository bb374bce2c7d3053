-------------------------- MODULE IngestionProofs ---------------------------
(***************************************************************************)
(* UpToDateFound of Ingestion, for any documents, versions and records and *)
(* any number of start-ups cut short: IInv is inductive.                    *)
(***************************************************************************)
EXTENDS Ingestion, TLAPS

USE BoundsAssumption, NoDocAssumption DEF Version, None, Index, NoRow

(* What With returns, and that it leaves the records of other documents.   *)
LEMMA WithType ==
  ASSUME NEW vectors \in [Key -> Version \cup {None}], NEW d, NEW ids,
         NEW v \in Version \cup {None}
  PROVE  With(vectors, d, ids, v) \in [Key -> Version \cup {None}]
  BY DEF With

LEMMA WithValue ==
  ASSUME NEW vectors, NEW d \in Doc, NEW ids, NEW v, NEW e \in Doc, NEW i \in Index
  PROVE  With(vectors, d, ids, v)[<<e, i>>] =
           IF e = d /\ i \in ids THEN v ELSE vectors[<<e, i>>]
  BY DEF With, Key

-----------------------------------------------------------------------------

LEMMA TypeInit == Init => TypeOK
  BY SMT DEF Init, TypeOK, Key

LEMMA TypeNext == TypeOK /\ [Next]_vars => TypeOK'
<1> SUFFICES ASSUME TypeOK, [Next]_vars PROVE TypeOK'
  OBVIOUS
<1> USE DEF TypeOK
<1>1. ASSUME NEW d \in Doc, Write(d) PROVE TypeOK'
  <2>1. written[d] + 1 \in Version
    <3>1. written[d] < MaxVersions
      BY <1>1 DEF Write
    <3>2. written[d] \in Version \cup {None}
      OBVIOUS
    <3> QED
      BY <3>1, <3>2
  <2>2. file' \in [Doc -> Version \cup {None}] /\ written' \in [Doc -> Version \cup {None}]
    BY <1>1, <2>1 DEF Write
  <2> QED
    BY <1>1, <2>2 DEF Write
<1>2. ASSUME NEW d \in Doc, Remove(d) PROVE TypeOK'
  BY <1>2 DEF Remove
<1>3. CASE Start
  BY <1>3 DEF Start, directory
<1>4. ASSUME NEW d \in Doc, DeleteRecords(d) PROVE TypeOK'
  BY <1>4, WithType DEF DeleteRecords, directory
<1>5. ASSUME NEW d \in Doc, DeleteOld(d) PROVE TypeOK'
  BY <1>5, WithType DEF DeleteOld, directory
<1>6. CASE SaveDeleted
  BY <1>6 DEF SaveDeleted, directory
<1>7. CASE List
  BY <1>7 DEF List, directory
<1>8. CASE Upsert
  <2> DEFINE v == file[doc]
             ids == 1 .. sizes[doc][v]
  <2>1. doc \in Doc /\ v \in Version /\ sizes[doc][v] \in Index
    BY <1>8 DEF Upsert
  <2>2. ids \subseteq Index
    BY <2>1
  <2>3. /\ records' = With(records, doc, ids, v)
        /\ disk' = records'
        /\ rows' = [rows EXCEPT ![doc].ids = ids]
        /\ doc' = NoDoc /\ pc' = "next"
        /\ UNCHANGED <<directory, db, todo, crashes>>
    BY <1>8 DEF Upsert
  <2> HIDE DEF ids, v
  <2>4. rows' \in [Doc -> [version : Version \cup {None}, ids : SUBSET Index]]
    BY <2>1, <2>2, <2>3
  <2>5. records' \in [Key -> Version \cup {None}]
    BY <2>1, <2>3, WithType
  <2> QED
    BY <2>3, <2>4, <2>5 DEF directory
<1>9. CASE SaveModified
  BY <1>9 DEF SaveModified, directory
<1>10. CASE Crash
  BY <1>10 DEF Crash, directory
<1>11. CASE Stop
  BY <1>11 DEF Stop, directory
<1>12. CASE UNCHANGED vars
  BY <1>12 DEF vars, directory
<1> QED
  BY <1>1, <1>2, <1>3, <1>4, <1>5, <1>6, <1>7, <1>8, <1>9, <1>10, <1>11, <1>12 DEF Next, Ingest

(* Type correctness: the invariant every other proof about Ingestion needs. *)
THEOREM TypeCorrect == Spec => []TypeOK
  BY TypeInit, TypeNext, PTL DEF Spec

-----------------------------------------------------------------------------

LEMMA IInit == Init => IInv
<1> SUFFICES ASSUME Init PROVE IInv
  OBVIOUS
<1>1. TypeOK
  BY TypeInit
<1>2. VersionsWritten
  BY DEF Init, VersionsWritten
<1>3. \A d \in Doc : ~ UpToDate(db[d], d)
  BY DEF Init, UpToDate
<1> QED
  BY <1>1, <1>2, <1>3 DEF Init, IInv, Sound, DeletingInv, ReplacingInv

LEMMA Nats ==
  TypeOK => \A d \in Doc : /\ written[d] \in Nat /\ file[d] \in Nat
                           /\ db[d].version \in Nat /\ rows[d].version \in Nat
<1> SUFFICES ASSUME TypeOK, NEW d \in Doc
             PROVE  /\ written[d] \in Nat /\ file[d] \in Nat
                    /\ db[d].version \in Nat /\ rows[d].version \in Nat
  OBVIOUS
<1>1. \A x \in Version \cup {None} : x \in Nat
  OBVIOUS
<1>2. /\ written[d] \in Version \cup {None} /\ file[d] \in Version \cup {None}
      /\ db[d].version \in Version \cup {None} /\ rows[d].version \in Version \cup {None}
  BY DEF TypeOK
<1> QED
  BY <1>1, <1>2

(* A step that leaves the stores alone: a version that was not up to date    *)
(* does not become so, for a file only takes versions never seen before.     *)
LEMMA DirectorySteps ==
  ASSUME IInv, TypeOK', NEW d \in Doc, Write(d) \/ Remove(d)
  PROVE  IInv'
<1> USE DEF IInv
<1>1. UNCHANGED <<sizes, disk, records, db, rows, todo, doc, pc>>
  BY DEF Write, Remove
<1>2. /\ \A e \in Doc : written[e] \in Nat /\ written'[e] \in Nat /\ written[e] <= written'[e]
      /\ \A e \in Doc : file'[e] = file[e] \/ file'[e] = None \/ file'[e] > written[e]
      /\ \A e \in Doc : file'[e] \in Nat /\ file'[e] <= written'[e]
  <2>1. \A e \in Doc : written[e] \in Nat /\ file[e] \in Nat /\ file[e] <= written[e]
    BY Nats DEF VersionsWritten
  <2>2. CASE Write(d)
    <3>1. \A e \in Doc : /\ written'[e] = IF e = d THEN written[d] + 1 ELSE written[e]
                         /\ file'[e] = IF e = d THEN written[d] + 1 ELSE file[e]
      BY <2>2 DEF Write, TypeOK
    <3> HIDE DEF IInv
    <3> QED
      BY <2>1, <3>1
  <2>3. CASE Remove(d)
    <3>1. written' = written /\ \A e \in Doc : file'[e] = IF e = d THEN None ELSE file[e]
      BY <2>3 DEF Remove, TypeOK
    <3> HIDE DEF IInv
    <3> QED
      BY <2>1, <3>1
  <2> QED
    BY <2>2, <2>3
<1>9. VersionsWritten'
  <2>1. \A e \in Doc : /\ db[e].version \in Nat /\ db[e].version <= written[e]
                       /\ rows[e].version \in Nat /\ rows[e].version <= written[e]
    BY Nats DEF VersionsWritten
  <2>2. \A e \in Doc : db[e].version <= written'[e] /\ rows[e].version <= written'[e]
    <3> HIDE DEF IInv
    <3> QED
      BY <1>2, <2>1
  <2> QED
    BY <1>1, <1>2, <2>2 DEF VersionsWritten
<1>3. \A e \in Doc, n \in Nat :
        n <= written[e] /\ n # None /\ n = file'[e] => file'[e] = file[e]
  <2> HIDE DEF IInv
  <2> QED
    BY <1>2
<1>4. \A e \in Doc : UpToDate(db[e], e)' => file'[e] = file[e] /\ UpToDate(db[e], e)
  BY <1>1, <1>3, Nats DEF VersionsWritten, UpToDate
<1>5. \A e \in Doc : UpToDate(rows[e], e)' => file'[e] = file[e] /\ UpToDate(rows[e], e)
  BY <1>1, <1>3, Nats DEF VersionsWritten, UpToDate
<1>6. \A e \in Doc : Sound(db[e], e)'
  BY <1>1, <1>4 DEF Sound
<1>7. DeletingInv'
  BY <1>1, <1>4 DEF DeletingInv
<1>8. ReplacingInv'
  BY <1>1, <1>4, <1>5 DEF ReplacingInv, Sound
<1> QED
  BY <1>1, <1>9, <1>6, <1>7, <1>8

(* Start-up up to the listing: the rows are those of the database.           *)
LEMMA DeletingSteps ==
  ASSUME IInv, TypeOK', \/ Start \/ SaveDeleted \/ \E d \in Doc : DeleteRecords(d)
  PROVE  IInv'
<1>1. CASE Start
  <2>1. UNCHANGED <<directory, disk, db, doc>> /\ records' = records /\ rows' = db /\ pc' = "deleting"
    BY <1>1 DEF Start, IInv
  <2>2. \A d \in todo' : ~ UpToDate(db[d], d)
    BY <1>1 DEF Start, UpToDate
  <2>3. doc' \notin todo'
    BY <1>1 DEF Start, IInv, TypeOK
  <2>4. VersionsWritten' /\ \A d \in Doc : Sound(db[d], d)'
    BY <2>1 DEF IInv, VersionsWritten, Sound, UpToDate, directory
  <2>5. DeletingInv' /\ ReplacingInv'
    BY <2>1, <2>2 DEF DeletingInv, ReplacingInv, UpToDate, directory
  <2> QED
    BY <2>1, <2>3, <2>4, <2>5 DEF IInv
<1>2. CASE SaveDeleted
  <2>1. /\ UNCHANGED <<directory, disk, records, rows, todo, doc>>
        /\ db' = rows /\ pc = "deleting" /\ pc' = "listing" /\ todo = {}
    BY <1>2 DEF SaveDeleted
  <2>2. \A d \in Doc : rows[d] = db[d] \/ rows[d] = NoRow
    BY <2>1 DEF IInv, DeletingInv
  <2>3. \A d \in Doc : Sound(rows[d], d)
    BY <2>2 DEF IInv, Sound, UpToDate
  <2>4. VersionsWritten' /\ \A d \in Doc : Sound(db[d], d)'
    BY <2>1, <2>3 DEF IInv, VersionsWritten, Sound, UpToDate, directory
  <2>5. DeletingInv' /\ ReplacingInv'
    BY <2>1 DEF DeletingInv, ReplacingInv
  <2> QED
    BY <2>1, <2>4, <2>5 DEF IInv
<1>3. ASSUME NEW d \in Doc, DeleteRecords(d) PROVE IInv'
  <2>1. /\ UNCHANGED <<directory, db, doc, pc>> /\ pc = "deleting" /\ d \in todo
        /\ records' = With(records, d, rows[d].ids, None) /\ disk' = records'
        /\ rows' = [rows EXCEPT ![d] = NoRow] /\ todo' = todo \ {d}
    BY <1>3 DEF DeleteRecords
  <2>2. ~ UpToDate(db[d], d) /\ ~ UpToDate(db[d], d)'
    BY <2>1 DEF IInv, DeletingInv, UpToDate, directory
  <2>3. \A e \in Doc : rows'[e] = IF e = d THEN NoRow ELSE rows[e]
    BY <2>1 DEF IInv, TypeOK
  <2>4. VersionsWritten'
    <3>1. \A e \in Doc : rows'[e].version = None \/ rows'[e] = rows[e]
      BY <2>3
    <3> QED
      BY <2>1, <3>1, Nats DEF IInv, VersionsWritten, directory
  <2>5. \A e \in Doc : Sound(db[e], e)'
    <3>1. ASSUME NEW e \in Doc, e # d PROVE Sound(db[e], e)'
      <4>1. db'[e] = db[e] /\ db[e].ids \subseteq Index /\ Sound(db[e], e)
        BY <2>1 DEF IInv, TypeOK
      <4>2. ASSUME NEW i \in Index PROVE records'[<<e, i>>] = records[<<e, i>>]
        BY <3>1, <2>1, WithValue
      <4> QED
        BY <4>1, <4>2, <2>1 DEF Sound, UpToDate, directory
    <3> QED
      BY <2>2, <3>1 DEF Sound
  <2>6. DeletingInv' /\ ReplacingInv'
    BY <2>1, <2>2, <2>3 DEF IInv, DeletingInv, ReplacingInv, UpToDate, directory
  <2> QED
    BY <2>1, <2>4, <2>5, <2>6 DEF IInv
<1> QED
  BY <1>1, <1>2, <1>3

(* The loop over new and modified documents.                                 *)
LEMMA ReplacingSteps ==
  ASSUME IInv, TypeOK', \/ List \/ Upsert \/ SaveModified \/ \E d \in Doc : DeleteOld(d)
  PROVE  IInv'
<1>1. CASE List
  <2>1. /\ UNCHANGED <<directory, disk, records, db, doc>> /\ pc = "listing" /\ pc' = "next"
        /\ \A d \in Doc : rows[d] = db[d]
    BY <1>1 DEF List, IInv, DeletingInv
  <2>2. \A d \in Doc : d \in todo' <=> file[d] # None /\ db[d].version # file[d]
    BY <1>1, <2>1 DEF List
  <2>3. \A d \in Doc : IF d \in todo' THEN rows'[d].version = file[d] ELSE rows'[d] = rows[d]
    BY <1>1 DEF List, IInv, TypeOK
  <2>4. doc' \notin todo' /\ doc \notin Doc
    BY <1>1 DEF List, IInv, TypeOK
  <2>5. VersionsWritten' /\ \A d \in Doc : Sound(db[d], d)'
    BY <2>1, <2>3 DEF IInv, VersionsWritten, Sound, UpToDate, directory
  <2>6. DeletingInv' /\ ReplacingInv'
    BY <2>1, <2>2, <2>3, <2>4 DEF IInv, DeletingInv, ReplacingInv, Sound, UpToDate, directory
  <2> QED
    BY <2>1, <2>4, <2>5, <2>6 DEF IInv
<1>2. ASSUME NEW d \in Doc, DeleteOld(d) PROVE IInv'
  <2>1. /\ UNCHANGED <<directory, db, rows>> /\ pc = "next" /\ pc' = "upsert" /\ d \in todo
        /\ records' = With(records, d, rows[d].ids, None) /\ disk' = records'
        /\ todo' = todo \ {d} /\ doc' = d
    BY <1>2 DEF DeleteOld
  <2>2. ~ UpToDate(db[d], d)' /\ doc \notin Doc
    BY <2>1 DEF IInv, TypeOK, ReplacingInv, UpToDate, directory
  <2>3. ASSUME NEW e \in Doc, e # d, NEW row, row.ids \subseteq Index, Sound(row, e)
        PROVE  (row.version # None /\ row.version = file'[e]) =>
                 /\ row.ids = 1 .. sizes'[e][file'[e]]
                 /\ \A i \in row.ids : records'[<<e, i>>] = file'[e]
    <3>1. ASSUME NEW i \in Index PROVE records'[<<e, i>>] = records[<<e, i>>]
      BY <2>3, <2>1, WithValue
    <3> QED
      BY <3>1, <2>1, <2>3 DEF Sound, UpToDate, directory
  <2>4. VersionsWritten' /\ DeletingInv'
    BY <2>1 DEF IInv, VersionsWritten, DeletingInv, directory
  <2>5. \A e \in Doc : db[e].ids \subseteq Index /\ rows[e].ids \subseteq Index
    BY DEF IInv, TypeOK
  <2>6. \A e \in Doc : Sound(db[e], e)'
    BY <2>1, <2>2, <2>3, <2>5 DEF IInv, Sound, UpToDate
  <2>7. ReplacingInv'
    BY <2>1, <2>2, <2>3, <2>5 DEF IInv, ReplacingInv, Sound, UpToDate, directory
  <2> QED
    BY <2>1, <2>4, <2>6, <2>7 DEF IInv
<1>3. CASE Upsert
  <2>0. PICK D \in Doc : D = doc
    BY <1>3 DEF Upsert, IInv, TypeOK
  <2> DEFINE v == file[D]
             ids == 1 .. sizes[D][v]
  <2>1. /\ UNCHANGED <<directory, db, todo>> /\ pc = "upsert" /\ pc' = "next"
        /\ records' = With(records, D, ids, v) /\ disk' = records'
        /\ rows' = [rows EXCEPT ![D].ids = ids] /\ doc' = NoDoc
    BY <1>3, <2>0 DEF Upsert
  <2>2. D \notin todo /\ v \in Version /\ sizes[D][v] \in Index
    BY <1>3, <2>0 DEF Upsert, IInv, TypeOK
  <2>3. ids \subseteq Index
    BY <2>2
  <2>4. ~ UpToDate(db[D], D)'
    BY <2>0, <2>1, <2>2 DEF IInv, ReplacingInv, UpToDate, directory
  <2>5. ASSUME NEW e \in Doc, e # D, NEW row, row.ids \subseteq Index, Sound(row, e)
        PROVE  (row.version # None /\ row.version = file'[e]) =>
                 /\ row.ids = 1 .. sizes'[e][file'[e]]
                 /\ \A i \in row.ids : records'[<<e, i>>] = file'[e]
    <3>1. ASSUME NEW i \in Index PROVE records'[<<e, i>>] = records[<<e, i>>]
      BY <2>5, <2>1, <2>2, WithValue
    <3> QED
      BY <3>1, <2>1, <2>5 DEF Sound, UpToDate, directory
  <2>6. \A e \in Doc : db[e].ids \subseteq Index /\ rows[e].ids \subseteq Index
    BY DEF IInv, TypeOK
  <2>7. \A i \in ids : records'[<<D, i>>] = v
    <3> HIDE DEF ids, v
    <3>1. ASSUME NEW i \in ids PROVE records'[<<D, i>>] = v
      <4>1. i \in Index
        BY <2>3, <3>1
      <4>2. With(records, D, ids, v)[<<D, i>>] = v
        <5>1. <<D, i>> \in Key
          BY <4>1 DEF Key
        <5> QED
          BY <5>1, <3>1 DEF With
      <4> QED
        BY <4>2, <2>1
    <3> QED
      BY <3>1
  <2>8. /\ \A e \in Doc : rows'[e].version = rows[e].version /\ (e # D => rows'[e] = rows[e])
        /\ rows'[D].ids = ids
    <3> HIDE DEF ids
    <3> QED
      BY <2>1, <2>2 DEF IInv, TypeOK
  <2>9. VersionsWritten' /\ DeletingInv'
    BY <2>1, <2>8 DEF IInv, VersionsWritten, DeletingInv, directory
  <2>10. \A e \in Doc : Sound(db[e], e)'
    BY <2>1, <2>2, <2>4, <2>5, <2>6 DEF IInv, Sound, UpToDate
  <2>11. ReplacingInv'
    <3>1. Sound(rows[D], D)'
      BY <2>1, <2>2, <2>7, <2>8 DEF Sound, directory
    <3>2. ASSUME NEW e \in Doc, e \notin todo, e # D PROVE Sound(rows[e], e)'
      BY <2>0, <3>2, <2>1, <2>5, <2>6, <2>8 DEF IInv, ReplacingInv, Sound, UpToDate
    <3>3. ASSUME NEW e \in todo PROVE e \in Doc /\ ~ UpToDate(db[e], e)'
      BY <3>3, <2>1 DEF IInv, TypeOK, ReplacingInv, UpToDate, directory
    <3> QED
      BY <3>1, <3>2, <3>3, <2>1 DEF ReplacingInv
  <2> QED
    BY <2>1, <2>9, <2>10, <2>11 DEF IInv, TypeOK
<1>4. CASE SaveModified
  <2>1. /\ UNCHANGED <<directory, disk, records, rows, todo, doc>>
        /\ pc = "next" /\ todo = {} /\ db' = rows /\ pc' = "up"
    BY <1>4 DEF SaveModified
  <2>2. \A d \in Doc : Sound(rows[d], d)
    BY <2>1 DEF IInv, TypeOK, ReplacingInv
  <2>3. VersionsWritten' /\ \A d \in Doc : Sound(db[d], d)'
    BY <2>1, <2>2 DEF IInv, VersionsWritten, Sound, UpToDate, directory
  <2> QED
    BY <2>1, <2>3 DEF IInv, DeletingInv, ReplacingInv
<1> QED
  BY <1>1, <1>2, <1>3, <1>4

LEMMA INext == IInv /\ [Next]_vars => IInv'
<1> SUFFICES ASSUME IInv, [Next]_vars PROVE IInv'
  OBVIOUS
<1>1. TypeOK'
  BY TypeNext DEF IInv
<1>2. CASE Crash \/ Stop
  <2>1. /\ UNCHANGED <<directory, disk, records, db, rows>> /\ pc' = "down"
        /\ doc' = NoDoc /\ NoDoc \notin todo'
    BY <1>2 DEF Crash, Stop, IInv, TypeOK
  <2> QED
    BY <1>1, <2>1 DEF IInv, VersionsWritten, DeletingInv, ReplacingInv, Sound, UpToDate, directory
<1>3. CASE UNCHANGED vars
  BY <1>3 DEF vars, directory, IInv, TypeOK, VersionsWritten, DeletingInv, ReplacingInv, Sound, UpToDate
<1> QED
  BY <1>1, <1>2, <1>3, DirectorySteps, DeletingSteps, ReplacingSteps DEF Next, Ingest

(* The invariant on which the two stores agree, in every behaviour: however  *)
(* often IngestDataAsync is cut short and whatever happens to the directory. *)
THEOREM Invariance == Spec => []IInv
  BY IInit, INext, PTL DEF Spec

(* A document that IngestDataAsync will not read again, because its row has  *)
(* the version of the file, can be found in full once the application is up. *)
THEOREM TakenForUpToDateIsFound == Spec => []UpToDateFound
<1>1. IInv => UpToDateFound
  BY DEF IInv, UpToDateFound, Sound, UpToDate
<1> QED
  BY <1>1, Invariance, PTL

-----------------------------------------------------------------------------
(* Start-ups none of which was cut short.                                    *)

\* These rows know of every record on disk, and only a row that has a version
\* has records.
Known(table) ==
  \A d \in Doc :
    /\ table[d].ids # {} => table[d].version # None
    /\ \A i \in Index : disk[<<d, i>>] # None => i \in table[d].ids

\* The database knows all between start-ups, the tracked rows during one: what is
\* deleted from the store is all there was of the document.
SmoothInv ==
  crashes = 0 =>
    /\ IF pc \in {"down", "up"} THEN Known(db) ELSE Known(rows)
    /\ pc \in {"next", "upsert"} => \A d \in todo \cup {doc} : d \in Doc => rows[d].version # None
    /\ pc = "upsert" => \A i \in Index : disk[<<doc, i>>] = None

\* A step that deletes what a row notes of a document leaves nothing of it, and
\* all else as it is.
LEMMA NothingLeft ==
  ASSUME IInv, Known(rows), NEW d \in Doc,
         records' = With(records, d, rows[d].ids, None), disk' = records'
  PROVE  /\ \A i \in Index : disk'[<<d, i>>] = None
         /\ \A e \in Doc, i \in Index : disk'[<<e, i>>] # None =>
              e # d /\ disk[<<e, i>>] # None
<1>1. records = disk
  BY DEF IInv
<1>2. \A e \in Doc, i \in Index : disk'[<<e, i>>] =
        IF e = d /\ i \in rows[d].ids THEN None ELSE disk[<<e, i>>]
  <2> TAKE e \in Doc, i \in Index
  <2>1. disk'[<<e, i>>] = With(records, d, rows[d].ids, None)[<<e, i>>]
    OBVIOUS
  <2>2. <<e, i>> \in Key
    BY DEF Key
  <2> QED
    BY <1>1, <2>1, <2>2 DEF With
<1> QED
  BY <1>2 DEF Known

LEMMA SmoothStep == IInv /\ SmoothInv /\ [Next]_vars => SmoothInv'
<1> SUFFICES ASSUME IInv, SmoothInv, [Next]_vars, crashes' = 0 PROVE SmoothInv'
  BY DEF SmoothInv
<1>0. TypeOK /\ crashes = 0
  <2>1. TypeOK /\ crashes \in Nat
    BY DEF IInv, TypeOK
  <2>2. crashes' = crashes \/ crashes' = crashes + 1
    BY DEF Next, Ingest, vars, Write, Remove, Start, DeleteRecords, DeleteOld, SaveDeleted,
           List, Upsert, SaveModified, Crash, Stop
  <2> QED
    BY <2>1, <2>2
<1>1. CASE \/ Stop \/ SaveDeleted \/ SaveModified \/ UNCHANGED vars
           \/ \E d \in Doc : Write(d) \/ Remove(d)
  BY <1>0, <1>1 DEF SmoothInv, Known, Stop, SaveDeleted, SaveModified, vars, Write, Remove
<1>2. CASE Start
  BY <1>0, <1>2 DEF SmoothInv, Known, Start
<1>3. ASSUME NEW d \in Doc, DeleteRecords(d) PROVE SmoothInv'
  <2>1. /\ records' = With(records, d, rows[d].ids, None) /\ disk' = records'
        /\ pc = "deleting" /\ pc' = pc
        /\ \A e \in Doc : rows'[e] = IF e = d THEN NoRow ELSE rows[e]
    BY <1>0, <1>3 DEF DeleteRecords, TypeOK
  <2>2. Known(rows)
    BY <1>0, <2>1 DEF SmoothInv
  <2>3. Known(rows)'
    BY <2>1, <2>2, NothingLeft DEF Known
  <2> QED
    BY <2>1, <2>3 DEF SmoothInv
<1>4. CASE List
  <2>1. /\ disk' = disk /\ doc' \notin Doc /\ pc = "listing" /\ pc' = "next" /\ todo' \subseteq Doc
        /\ \A d \in Doc : /\ rows'[d].ids = rows[d].ids
                          /\ IF d \in todo' THEN rows'[d].version # None ELSE rows'[d] = rows[d]
    BY <1>0, <1>4 DEF List, TypeOK
  <2>2. Known(rows)
    BY <1>0, <2>1 DEF SmoothInv
  <2>3. Known(rows)'
    BY <2>1, <2>2 DEF Known
  <2> QED
    BY <2>1, <2>3 DEF SmoothInv
<1>5. ASSUME NEW d \in Doc, DeleteOld(d) PROVE SmoothInv'
  <2>1. /\ records' = With(records, d, rows[d].ids, None) /\ disk' = records'
        /\ pc = "next" /\ pc' = "upsert" /\ d \in todo
        /\ rows' = rows /\ todo' \subseteq todo /\ doc' = d
    BY <1>5 DEF DeleteOld
  <2>2. Known(rows)
    BY <1>0, <2>1 DEF SmoothInv
  <2>3. Known(rows)'
    BY <2>1, <2>2, NothingLeft DEF Known
  <2>4. \A i \in Index : disk'[<<doc', i>>] = None
    BY <2>1, <2>2, NothingLeft
  <2>5. \A e \in todo' \cup {doc'} : e \in Doc => rows'[e].version # None
    BY <1>0, <2>1 DEF SmoothInv
  <2> QED
    BY <2>1, <2>3, <2>4, <2>5 DEF SmoothInv
<1>6. CASE Upsert
  <2>0. PICK d \in Doc : d = doc
    BY <1>0, <1>6 DEF Upsert, TypeOK
  <2> DEFINE v == file[d]
             ids == 1 .. sizes[d][v]
  <2>1. /\ records' = With(records, d, ids, v) /\ disk' = records' /\ doc' = NoDoc
        /\ pc = "upsert" /\ pc' = "next" /\ todo' = todo
        /\ rows' = [rows EXCEPT ![d].ids = ids]
    BY <1>6, <2>0 DEF Upsert
  <2> HIDE DEF ids, v
  <2>2. \A e \in Doc : /\ rows'[e].version = rows[e].version
                       /\ rows'[e].ids = IF e = d THEN ids ELSE rows[e].ids
    BY <1>0, <2>1 DEF TypeOK
  <2>3. /\ Known(rows) /\ rows[d].version # None
        /\ \A i \in Index : disk[<<d, i>>] = None
        /\ \A e \in todo : e \in Doc => rows[e].version # None
    BY <1>0, <2>0, <2>1 DEF SmoothInv
  <2>4. \A e \in Doc, i \in Index : disk'[<<e, i>>] # None =>
          IF e = d THEN i \in ids ELSE disk[<<e, i>>] # None
    BY <2>1, <2>3, WithValue DEF IInv
  <2>5. Known(rows)'
    BY <2>2, <2>3, <2>4 DEF Known
  <2> QED
    BY <2>1, <2>2, <2>3, <2>5 DEF SmoothInv
<1>7. CASE Crash
  BY <1>0, <1>7 DEF Crash
<1> QED
  BY <1>1, <1>2, <1>3, <1>4, <1>5, <1>6, <1>7 DEF Next, Ingest

LEMMA SmoothInit == Init => SmoothInv
  BY DEF Init, SmoothInv, Known, Key

LEMMA Smooth == Spec => []SmoothInv
  BY SmoothInit, SmoothStep, Invariance, PTL DEF Spec

(* After a start-up that completes, and before which none was cut short, the *)
(* store holds no record that IngestionCacheDbContext does not know of.      *)
THEOREM NothingUnknown == Spec => []AllKnown
<1>1. SmoothInv => AllKnown
  BY DEF SmoothInv, Known, AllKnown
<1> QED
  BY <1>1, Smooth, PTL

(* As long as no start-up was cut short, GetDeletedDocumentsAsync finds all  *)
(* that the store holds of documents that are gone.                          *)
THEOREM AllGoneIsFound == Spec => GoneIsDeletedIfSmooth
<1>1. IInv /\ SmoothInv /\ [Next]_vars => [crashes = 0 => SetsOutToDeleteAll]_vars
  <2> SUFFICES ASSUME SmoothInv, [Next]_vars, crashes = 0, pc = "down", pc' = "deleting",
                      NEW d \in Doc, NEW i \in Index, file[d] = None, disk[<<d, i>>] # None
               PROVE  d \in todo' /\ i \in rows'[d].ids
    BY DEF SetsOutToDeleteAll
  <2>1. Start
    BY DEF Next, Ingest, vars, Write, Remove, Start, DeleteRecords, DeleteOld, SaveDeleted,
           List, Upsert, SaveModified, Crash, Stop
  <2>2. db[d].version # None /\ i \in db[d].ids
    BY DEF SmoothInv, Known
  <2> QED
    BY <2>1, <2>2 DEF Start
<1> QED
  BY <1>1, Invariance, Smooth, PTL DEF Spec, GoneIsDeletedIfSmooth
=============================================================================
