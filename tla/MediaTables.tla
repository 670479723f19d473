---------------------------- MODULE MediaTables ----------------------------
(***************************************************************************)
(* The tables and the blob store behind uploaded media.                    *)
(*                                                                         *)
(*   uploadParts  upload_parts of one upload: part index -> row            *)
(*   files        files: id -> row; fileSeq is the sequence files_id_seq   *)
(*   copies       the messages rows that carry a file, one per owner       *)
(*   objects      what the blob store holds, finished or temporary         *)
(*                                                                         *)
(* A row records a size and an object holds a number of bytes; which bytes *)
(* they are is left out.                                                   *)
(* `aged' says that a row or an object is older than the cutoff of the     *)
(* sweeps; time passing makes everything that exists aged.                 *)
(***************************************************************************)
EXTENDS Integers, FiniteSets, Functions

CONSTANTS
    MediaOwners,    \* the two accounts of the dialog media is sent in
    MaxFileBytes,   \* cap on one upload; a user's parts have twice as much
    MaxPartRows,    \* cap on the number of a user's parts
    MaxUserBytes    \* cap on what a user stores

VARIABLES uploadParts, partSeq, files, fileSeq, copies, objects

tableVars == <<uploadParts, partSeq, files, fileSeq, copies, objects>>

-----------------------------------------------------------------------------
(* The blob store: a write goes to a temporary and is renamed into place.  *)

\* A key drawn at random is one that was never drawn before.
NewPartKey == <<"part", partSeq + 1>>

FileKey(id) == <<"file", id>>

ParseKey(o) == o.key[2]

TempOf(key) == {o \in objects : o.key = key /\ o.temp}

CreateTemp(key, n) == objects \cup {[key |-> key, temp |-> TRUE, aged |-> FALSE, bytes |-> n]}

\* A temporary that a sweep has unlinked is written to in vain.
WriteTemp(key, n) == (objects \ TempOf(key)) \cup {[o EXCEPT !.bytes = n] : o \in TempOf(key)}

Rename(key) == (objects \ TempOf(key)) \cup {[o EXCEPT !.temp = FALSE] : o \in TempOf(key)}

\* Removing what is not there is not an error.
Unlink(keys, temp) == {o \in objects : o.key \notin keys \/ o.temp # temp}

ReadAt(key) == \E o \in objects : o.key = key /\ ~o.temp

WalkPrefix(kind) == {o \in objects : o.key[1] = kind}

-----------------------------------------------------------------------------
(* upload_parts.                                                           *)

\* A saved part replaces the size and the key of the row and keeps its date.
UpsertUploadPart(i, size, key) ==
    [j \in DOMAIN uploadParts \cup {i} |->
        IF j # i THEN uploadParts[j]
        ELSE [key |-> key, size |-> size,
              aged |-> i \in DOMAIN uploadParts /\ uploadParts[i].aged]]

\* The key the row named before, as a set: no row, no key.
SupersededKey(i) == IF i \in DOMAIN uploadParts THEN {uploadParts[i].key} ELSE {}

\* sum(size), over rows or over part references.
SumOfSizes(rows) == SumFunction([i \in DOMAIN rows |-> rows[i].size])

FileOutstandingBytes(rows) == SumOfSizes(rows)

UserOutstanding(rows) == [parts |-> Cardinality(DOMAIN rows), total |-> SumOfSizes(rows)]

UploadPartsSummary ==
    [parts    |-> Cardinality(DOMAIN uploadParts),
     maxIndex |-> CHOOSE m \in DOMAIN uploadParts \cup {-1} : \A i \in DOMAIN uploadParts : i <= m,
     total    |-> SumOfSizes(uploadParts)]

UploadPartRefs ==
    [i \in DOMAIN uploadParts |-> [key |-> uploadParts[i].key, size |-> uploadParts[i].size]]

UploadPartKey(i) == IF i \in DOMAIN uploadParts THEN {uploadParts[i].key} ELSE {}

ClaimExpiredUploadParts ==
    [i \in {j \in DOMAIN uploadParts : uploadParts[j].aged} |-> uploadParts[i].key]

\* The rows of refs that still name the key refs has for them: the ones
\* DeleteUploadPartByKey deletes.
StillNamed(refs) == {i \in DOMAIN refs : UploadPartKey(i) = {refs[i]}}

DeleteUploadPartByKey(refs) ==
    [i \in DOMAIN uploadParts \ StillNamed(refs) |-> uploadParts[i]]

LivePartKeys == {uploadParts[i].key : i \in DOMAIN uploadParts}

-----------------------------------------------------------------------------
(* files and the messages that refer to them.                              *)

InsertFile(size) ==
    [id \in DOMAIN files \cup {fileSeq + 1} |->
        IF id \in DOMAIN files THEN files[id] ELSE [stored |-> FALSE, aged |-> FALSE, size |-> size]]

\* Of every row, stored or not.
UserStoredBytes == SumOfSizes(files)

MarkFileStored(id) == [files EXCEPT ![id].stored = TRUE]

DeleteFile(id) == [f \in DOMAIN files \ {id} |-> files[f]]

Referenced(id) == \E c \in copies : c.file = id /\ ~c.deleted

\* What DeleteUnreferencedFile and DeleteUnassembledFile check again.
DeleteUnreferencedFile(id) == files[id].stored /\ files[id].aged /\ ~Referenced(id)

DeleteUnassembledFile(id) == ~files[id].stored /\ files[id].aged /\ ~Referenced(id)

FileForDownload(id, owner) ==
    /\ id \in DOMAIN files
    /\ files[id].stored
    /\ \E c \in copies : c.file = id /\ c.owner = owner /\ ~c.deleted

MessageByRandomID(owner, rid) == {c \in copies : c.owner = owner /\ c.rid = rid}

MaxFileID == IF files = << >> THEN 0 ELSE CHOOSE m \in DOMAIN files : \A f \in DOMAIN files : f <= m

AllocatedFileIDCeiling == fileSeq

ExistingFileIDs(ids) == ids \cap DOMAIN files

FileExistsForBlob(id) == id \in DOMAIN files

\* Mutant: the window ends before its last id.
MediaErasureScanBelow(through) ==
    {id \in DOMAIN files : id < through /\ ~Referenced(id) /\ files[id].aged}

\* One window of the scan: nothing live refers to the row, and it is aged.
MediaErasureScan(through) ==
    {id \in DOMAIN files : id <= through /\ ~Referenced(id) /\ files[id].aged}
=============================================================================
