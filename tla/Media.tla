------------------------------- MODULE Media -------------------------------
(***************************************************************************)
(* Uploaded media: saving parts, assembling them into a file, sending,     *)
(* forwarding, deleting and downloading it, and the passes that take away  *)
(* what nothing names any more. A row and the bytes it names live in two   *)
(* systems no transaction spans, so every operation is the sequence of its *)
(* database statements and of its calls to the blob store, any of which    *)
(* may be the last one its process makes.                                  *)
(*                                                                         *)
(* jobs[p] is what process p is in the middle of. The row locks and the    *)
(* assembly claim a job holds follow from its step.                        *)
(***************************************************************************)
EXTENDS MediaTables, TLC

CONSTANTS
    MediaClients,   \* request handlers
    PartSweepers,   \* sweepExpiredUploadParts, one per replica
    Reclaimers,     \* reclaimOrphanedPartBytes
    Erasers,        \* sweepMediaErasure
    Uploader,       \* the owner who uploads and sends
    AssemblySlots   \* assemblies a replica runs at once

VARIABLES
    jobs,
    tasks,          \* bounds: the calls of each kind still to come, the faults
                    \* that may happen, the indexes and the sizes of the parts
                    \* saved and the passes that run
    faults,         \* how many faults have happened
    saved,          \* history: the part keys whose save has succeeded
    condemned       \* history: the part keys a cleanup has set out to delete

mediaVars == <<tableVars, jobs, tasks, faults, saved, condemned>>

Workers == MediaClients \cup PartSweepers \cup Reclaimers \cup Erasers

\* The fields are: the step to come, the part being saved, its key and the
\* key it replaced, the parts an assembly reads, the keys a cleanup removes,
\* the random id, the number of parts, the bytes of the part or the total of
\* the upload, the file, whether the database connection is alive, and the
\* candidates a sweep has still to visit.
Free == [op |-> "none", step |-> "idle", part |-> 0, key |-> << >>, old |-> {}, refs |-> << >>, keys |-> << >>,
         rid |-> "none", n |-> 0, size |-> 0, file |-> 0, conn |-> TRUE, todo |-> {}, through |-> 0]

-----------------------------------------------------------------------------
(* Locks.                                                                  *)

\* SendMessage and ForwardMessages hold the owners' advisory locks between
\* taking the file's row and inserting the copies.
OwnersFree == \A p \in Workers : jobs[p].step # "insert"

\* The assembly claim: a session lock on the connection of the assembly.
Claimed(id) ==
    \E p \in Workers : /\ jobs[p].file = id
                       /\ jobs[p].conn
                       /\ jobs[p].step \in {"share", "create", "copy", "rename", "mark"}

\* FOR SHARE on the files row.
SharedRow(id) ==
    \E p \in Workers :
        /\ jobs[p].file = id
        /\ \/ jobs[p].step = "insert"
           \/ jobs[p].conn /\ jobs[p].step \in {"create", "copy", "rename", "mark"}

\* FOR UPDATE on the files row.
Exclusive(id) ==
    \E p \in Workers : jobs[p].file = id /\ jobs[p].step \in {"delete", "deleteTemp"}

AssembliesRunning ==
    {p \in Workers : jobs[p].step \in {"share", "create", "copy", "rename", "mark"} /\ jobs[p].op = "send"}

-----------------------------------------------------------------------------
(* How a step leaves its job.                                              *)

Goto(p, step) ==
    jobs' = [jobs EXCEPT ![p] = IF step = "idle" THEN Free ELSE [@ EXCEPT !.step = step]]

Done(p) == Goto(p, "idle")

\* Handlers are alike: a call is made on the first one that is free.
Begin(p, op, job) ==
    /\ jobs[p] = Free
    /\ p = CHOOSE q \in MediaClients : jobs[q] = Free
    /\ tasks[op] > 0
    /\ tasks' = [tasks EXCEPT ![op] = @ - 1]
    /\ jobs' = [jobs EXCEPT ![p] = job]

At(p, step) == jobs[p].step = step

\* A call to the blob store that removes bytes, and its failure.
Removes(p, keys, temp, step) ==
    /\ objects' = Unlink(keys, temp)
    /\ Goto(p, step)
    /\ UNCHANGED faults

RemoveFails(p, step) ==
    /\ faults < tasks.fault
    /\ faults' = faults + 1
    /\ Goto(p, step)
    /\ UNCHANGED objects
-----------------------------------------------------------------------------
(* Saving a part: the row first, then its bytes, then the bytes it         *)
(* replaced, then a second look at the row.                                *)

SaveUploadPart(p, i, size) ==
    LET rows == UpsertUploadPart(i, size, NewPartKey)
        fits == /\ FileOutstandingBytes(rows) <= MaxFileBytes
                /\ UserOutstanding(rows).total <= 2 * MaxFileBytes
                /\ UserOutstanding(rows).parts <= MaxPartRows
    IN  /\ OwnersFree
        /\ Begin(p, "save", IF ~fits THEN Free
                            ELSE [Free EXCEPT !.op = "save", !.step = "create", !.part = i, !.size = size,
                                              !.key = NewPartKey, !.old = SupersededKey(i)])
        /\ IF fits
           THEN uploadParts' = rows /\ partSeq' = partSeq + 1
           ELSE UNCHANGED <<uploadParts, partSeq>>
        /\ UNCHANGED <<files, fileSeq, copies, objects, faults, saved, condemned>>

\* Put, first half: the temporary, with the bytes when they are in memory.
PutTemp(p) ==
    /\ At(p, "create")
    /\ objects' = CreateTemp(jobs[p].key, IF jobs[p].op = "save" THEN jobs[p].size ELSE 0)
    /\ Goto(p, IF jobs[p].op = "save" THEN "rename" ELSE "copy")
    /\ UNCHANGED <<uploadParts, partSeq, files, fileSeq, copies, tasks, faults, saved, condemned>>

\* What a Put that failed leaves: no temporary, and an assembly that is over
\* or a save that has still the replaced bytes to remove.
PutFailed(p) ==
    /\ objects' = objects \ TempOf(jobs[p].key)
    /\ jobs' = [jobs EXCEPT ![p] =
                    IF @.op = "save" /\ @.old # {} THEN [@ EXCEPT !.step = "dropOld", !.key = << >>]
                    ELSE Free]

\* Put, second half: the rename, which fails when a sweep took the temporary.
PutRename(p) ==
    /\ At(p, "rename")
    /\ IF TempOf(jobs[p].key) = {}
       THEN PutFailed(p)
       ELSE /\ objects' = Rename(jobs[p].key)
            /\ Goto(p, CASE jobs[p].op = "send"  -> "mark"
                         [] jobs[p].old # {}     -> "dropOld"
                         [] OTHER                -> "reread")
    /\ UNCHANGED <<uploadParts, partSeq, files, fileSeq, copies, tasks, faults, saved, condemned>>

\* The backend refuses the write.
PutFault(p) ==
    /\ jobs[p].step \in {"create", "copy", "rename"}
    /\ faults < tasks.fault
    /\ faults' = faults + 1
    /\ PutFailed(p)
    /\ UNCHANGED <<uploadParts, partSeq, files, fileSeq, copies, tasks, saved, condemned>>

\* The superseded bytes go whether or not the new ones arrived.
removeSuperseded(p) ==
    /\ At(p, "dropOld")
    /\ LET next == IF jobs[p].key = << >> THEN "idle" ELSE "reread"
       IN  Removes(p, jobs[p].old, FALSE, next) \/ RemoveFails(p, next)
    /\ UNCHANGED <<uploadParts, partSeq, files, fileSeq, copies, tasks, saved, condemned>>

\* The second look: a row that no longer names these bytes leaves them to
\* this call to remove.
dropUnnamedPartBytes(p) ==
    /\ At(p, "reread")
    /\ LET named == UploadPartKey(jobs[p].part) = {jobs[p].key}
       IN  /\ Goto(p, IF named THEN "idle" ELSE "dropOwn")
           /\ saved' = IF named THEN saved \cup {jobs[p].key} ELSE saved
    /\ UNCHANGED <<tableVars, tasks, faults, condemned>>

removeOwn(p) ==
    /\ At(p, "dropOwn")
    /\ Removes(p, {jobs[p].key}, FALSE, "idle") \/ RemoveFails(p, "idle")
    /\ UNCHANGED <<uploadParts, partSeq, files, fileSeq, copies, tasks, saved, condemned>>

-----------------------------------------------------------------------------
(* Taking parts away: after an assembly, and when they have expired. The   *)
(* bytes go first, then the rows that still name them, then the bytes of   *)
(* those rows again.                                                       *)

AfterCleanup(p) == IF jobs[p].op = "send" THEN "lockRef" ELSE "idle"

DeleteUploadParts(p) ==
    LET keys == [i \in DOMAIN UploadPartRefs |-> UploadPartRefs[i].key]
    IN  /\ At(p, "partRefs")
        /\ jobs' = [jobs EXCEPT ![p].keys = keys, ![p].refs = << >>, ![p].size = 0,
                                ![p].step = IF keys = << >> THEN "lockRef" ELSE "removeParts"]
        /\ condemned' = condemned \cup Range(keys)
        /\ UNCHANGED <<tableVars, tasks, faults, saved>>

\* A pass that claims nothing ends at once.
deleteExpiredUploadParts(p) ==
    /\ jobs[p] = Free
    /\ ClaimExpiredUploadParts # << >>
    /\ jobs' = [jobs EXCEPT ![p] = [Free EXCEPT !.op = "sweep", !.step = "removeParts",
                                                !.keys = ClaimExpiredUploadParts]]
    /\ condemned' = condemned \cup Range(ClaimExpiredUploadParts)
    /\ UNCHANGED <<tableVars, tasks, faults, saved>>

\* A failure here ends the cleanup with the rows in place.
removePartBytes(p) ==
    /\ At(p, "removeParts")
    /\ Removes(p, Range(jobs[p].keys), FALSE, "retire") \/ RemoveFails(p, AfterCleanup(p))
    /\ UNCHANGED <<uploadParts, partSeq, files, fileSeq, copies, tasks, saved, condemned>>

retirePartRows(p) ==
    LET gone == StillNamed(jobs[p].keys)
    IN  /\ At(p, "retire")
        /\ uploadParts' = DeleteUploadPartByKey(jobs[p].keys)
        /\ jobs' = [jobs EXCEPT ![p].keys = [i \in gone |-> jobs[p].keys[i]], ![p].step = "collect"]
        /\ UNCHANGED <<partSeq, files, fileSeq, copies, objects, tasks, faults, saved, condemned>>

removeRetired(p) ==
    /\ At(p, "collect")
    /\ \/ Removes(p, Range(jobs[p].keys), FALSE, AfterCleanup(p))
       \/ RemoveFails(p, AfterCleanup(p))
    /\ UNCHANGED <<uploadParts, partSeq, files, fileSeq, copies, tasks, saved, condemned>>

\* reclaimOrphanedPartBytes: part objects, temporaries included, that are
\* aged and that no row names.
walkParts(p) ==
    LET old == {o \in WalkPrefix("part") : o.aged}
    IN  /\ jobs[p] = Free
        /\ old # {}
        /\ jobs' = [jobs EXCEPT ![p] = [Free EXCEPT !.op = "reclaim", !.step = "gate", !.todo = old]]
        /\ UNCHANGED <<tableVars, tasks, faults, saved, condemned>>

ReclaimGate(p) ==
    LET orphans == {o \in jobs[p].todo : o.key \notin LivePartKeys}
    IN  /\ At(p, "gate")
        /\ jobs' = [jobs EXCEPT ![p] = IF orphans = {} THEN Free
                                       ELSE [@ EXCEPT !.todo = orphans, !.step = "reclaim"]]
        /\ UNCHANGED <<tableVars, tasks, faults, saved, condemned>>

ReclaimOrphanedPartBytes(p) ==
    /\ At(p, "reclaim")
    /\ \/ /\ objects' = objects \ {o \in objects : \E t \in jobs[p].todo : t.key = o.key /\ t.temp = o.temp}
          /\ Done(p)
          /\ UNCHANGED faults
       \/ RemoveFails(p, "idle")
    /\ UNCHANGED <<uploadParts, partSeq, files, fileSeq, copies, tasks, saved, condemned>>
-----------------------------------------------------------------------------
(* Sending an uploaded document: a retry is answered from the message it   *)
(* made; otherwise the parts are assembled into a file and the file is     *)
(* sent.                                                                   *)

handleSendMedia(p, rid, n) ==
    /\ Begin(p, "send", IF MessageByRandomID(Uploader, rid) # {} THEN Free
                        ELSE [Free EXCEPT !.op = "send", !.step = "resend", !.rid = rid, !.n = n])
    /\ UNCHANGED <<tableVars, faults, saved, condemned>>

\* The lookup is made again after the rate limit: a deleted message ends the
\* call, a live one lends its file.
resendFileID(p) ==
    LET known == MessageByRandomID(Uploader, jobs[p].rid)
    IN  /\ At(p, "resend")
        /\ \/ known = {} /\ Goto(p, "summary")
           \/ \E c \in known :
                 IF c.deleted THEN Done(p)
                 ELSE jobs' = [jobs EXCEPT ![p].step = "lockRef", ![p].file = c.file]
        /\ UNCHANGED <<tableVars, tasks, faults, saved, condemned>>

\* The parts must be the indexes below the declared number, at both reads; the
\* total is that of the first read.
assembleFile(p) ==
    LET s  == UploadPartsSummary
        ok == s.parts = jobs[p].n /\ s.maxIndex = jobs[p].n - 1 /\ s.total > 0
    IN  /\ At(p, "summary")
        /\ IF ok THEN jobs' = [jobs EXCEPT ![p].step = "refs", ![p].size = s.total] ELSE Done(p)
        /\ UNCHANGED <<tableVars, tasks, faults, saved, condemned>>

readPartRefs(p) ==
    /\ At(p, "refs")
    /\ IF DOMAIN UploadPartRefs = 0..(jobs[p].n - 1) /\ \A i \in DOMAIN UploadPartRefs : UploadPartRefs[i].size > 0
       THEN jobs' = [jobs EXCEPT ![p].step = "allocate", ![p].refs = UploadPartRefs]
       ELSE Done(p)
    /\ UNCHANGED <<tableVars, tasks, faults, saved, condemned>>

\* allocateFileTx, with the assembly claim taken before it commits.
AllocateFile(p) ==
    /\ At(p, "allocate")
    /\ Cardinality(AssembliesRunning) < AssemblySlots
    /\ OwnersFree
    /\ \/ /\ UserStoredBytes + jobs[p].size > MaxUserBytes
          /\ Done(p)
          /\ UNCHANGED <<files, fileSeq>>
       \/ /\ UserStoredBytes + jobs[p].size <= MaxUserBytes
          /\ files' = InsertFile(jobs[p].size)
          /\ fileSeq' = fileSeq + 1
          /\ jobs' = [jobs EXCEPT ![p].step = "share", ![p].file = fileSeq + 1,
                                  ![p].key = FileKey(fileSeq + 1)]
    /\ UNCHANGED <<uploadParts, partSeq, copies, objects, tasks, faults, saved, condemned>>

\* lockFileRefs: the row FOR SHARE, in the second transaction of the assembly
\* and in the one that sends or forwards. A missing row ends the call.
lockFileRefs(p) ==
    /\ jobs[p].step \in {"share", "lockRef"}
    /\ ~Exclusive(jobs[p].file)
    /\ At(p, "lockRef") => OwnersFree
    /\ Goto(p, IF jobs[p].file \notin DOMAIN files \/ ~jobs[p].conn THEN "idle"
               ELSE IF At(p, "share") THEN "create" ELSE "insert")
    /\ UNCHANGED <<tableVars, tasks, faults, saved, condemned>>

\* What Put reports: the bytes of the parts as the second read found them.
Written(p) == SumOfSizes(jobs[p].refs)

\* The copy reads every part by the key read before; one that is gone fails
\* the Put.
copyParts(p) ==
    /\ At(p, "copy")
    /\ IF \A i \in DOMAIN jobs[p].refs : ReadAt(jobs[p].refs[i].key)
       THEN objects' = WriteTemp(jobs[p].key, Written(p)) /\ Goto(p, "rename")
       ELSE PutFailed(p)
    /\ UNCHANGED <<uploadParts, partSeq, files, fileSeq, copies, tasks, faults, saved, condemned>>

\* The object holds as many bytes as the row says.
AsDescribed(p) == Written(p) = jobs[p].size

\* Parts that changed between the two reads fail the call after Put: the
\* object stays at the key of the file, and the row stays unstored. A
\* connection that died has taken the transaction with it.
completeAssembly(p) ==
    /\ At(p, "mark")
    /\ IF AsDescribed(p) /\ jobs[p].conn
       THEN files' = MarkFileStored(jobs[p].file) /\ Goto(p, "partRefs")
       ELSE Done(p) /\ UNCHANGED files
    /\ UNCHANGED <<uploadParts, partSeq, fileSeq, copies, objects, tasks, faults, saved, condemned>>

\* The commit is made and its answer lost: stored, and the call fails.
CommitUnanswered(p) ==
    /\ At(p, "mark")
    /\ AsDescribed(p) /\ jobs[p].conn
    /\ faults < tasks.fault
    /\ faults' = faults + 1
    /\ files' = MarkFileStored(jobs[p].file)
    /\ Done(p)
    /\ UNCHANGED <<uploadParts, partSeq, fileSeq, copies, objects, tasks, saved, condemned>>

\* The connection of an assembly dies: the claim and the row lock are gone,
\* the write to the blob store goes on.
LoseConnection(p) ==
    /\ jobs[p].step \in {"share", "create", "copy", "rename", "mark"}
    /\ jobs[p].op = "send"
    /\ jobs[p].conn
    /\ faults < tasks.fault
    /\ faults' = faults + 1
    /\ jobs' = [jobs EXCEPT ![p].conn = FALSE]
    /\ UNCHANGED <<tableVars, tasks, saved, condemned>>

\* SendMessage and ForwardMessages: the random id once more, then a copy for
\* each side.
insertCopies(p) ==
    /\ At(p, "insert")
    /\ copies' = IF MessageByRandomID(Uploader, jobs[p].rid) # {} THEN copies
                 ELSE copies \cup {[owner |-> o, rid |-> jobs[p].rid, file |-> jobs[p].file,
                                    deleted |-> FALSE] : o \in MediaOwners}
    /\ Done(p)
    /\ UNCHANGED <<uploadParts, partSeq, files, fileSeq, objects, tasks, faults, saved, condemned>>

\* The handler reads the messages to forward before ForwardMessages locks
\* anything.
forwardSources(p) ==
    \E c \in copies :
        /\ c.owner = Uploader /\ ~c.deleted
        /\ Begin(p, "forward", [Free EXCEPT !.op = "forward", !.step = "lockRef",
                                            !.rid = "forwarded", !.file = c.file])
        /\ UNCHANGED <<tableVars, faults, saved, condemned>>

deleteCopy(p) ==
    /\ OwnersFree
    /\ \E c \in copies :
          /\ ~c.deleted
          /\ Begin(p, "delete", Free)
          /\ copies' = (copies \ {c}) \cup {[c EXCEPT !.deleted = TRUE]}
    /\ UNCHANGED <<uploadParts, partSeq, files, fileSeq, objects, faults, saved, condemned>>

\* handleGetFile: one download of a user at a time, the gate, the bytes.
handleGetFile(p, owner) ==
    \E id \in DOMAIN files :
        /\ \A q \in Workers : jobs[q].op # "download"
        /\ Begin(p, "download", IF FileForDownload(id, owner)
                                THEN [Free EXCEPT !.op = "download", !.step = "read", !.file = id]
                                ELSE Free)
        /\ UNCHANGED <<tableVars, faults, saved, condemned>>

readBytes(p) ==
    /\ At(p, "read")
    /\ Done(p)
    /\ UNCHANGED <<tableVars, tasks, faults, saved, condemned>>
-----------------------------------------------------------------------------
(* The pass of sweepMediaErasure: SweepMediaErasure takes the rows nothing *)
(* refers to, SweepBlobErasure the temporaries and the objects no row      *)
(* accounts for. A row goes before its bytes.                              *)

Least(ids) == CHOOSE i \in ids : \A j \in ids : i <= j

\* The candidate is done with: on to the next one, or to the next phase.
NextCandidate(p, step, after) ==
    jobs' = [jobs EXCEPT ![p] = IF @.todo # {} THEN [@ EXCEPT !.step = step, !.file = 0]
                                ELSE IF after = "idle" THEN Free
                                ELSE [@ EXCEPT !.step = after, !.file = 0]]

\* A pass with no row to take and no object to look at does nothing.
SweepMediaErasure(p) ==
    LET named == MediaErasureScan(MaxFileID)
    IN  /\ jobs[p] = Free
        /\ named # {} \/ WalkPrefix("file") # {}
        /\ jobs' = [jobs EXCEPT ![p] = [Free EXCEPT
                        !.op = "erase", !.step = IF named = {} THEN "ceiling" ELSE "erase",
                        !.todo = {<<id, files[id].stored>> : id \in named}]]
        /\ UNCHANGED <<tableVars, tasks, faults, saved, condemned>>

\* Mutant: the row is taken whether a send has it FOR SHARE or not.
LockFileUnshared(id) == id \in DOMAIN files /\ ~Exclusive(id)

\* FOR UPDATE SKIP LOCKED, then the claim without waiting.
LockFileForErase(id) == id \in DOMAIN files /\ ~SharedRow(id) /\ ~Exclusive(id)

tryFileAssemblyClaim(id) == ~Claimed(id)

eraseCandidate(p) ==
    LET id   == Least({c[1] : c \in jobs[p].todo})
        rest == {c \in jobs[p].todo : c[1] # id}
        held == [jobs[p] EXCEPT !.step = "delete", !.file = id, !.todo = rest,
                                !.n = IF <<id, TRUE>> \in jobs[p].todo THEN 1 ELSE 0]
    IN  /\ At(p, "erase")
        /\ jobs' = [jobs EXCEPT ![p] =
                IF LockFileForErase(id) /\ tryFileAssemblyClaim(id) THEN held
                ELSE [@ EXCEPT !.todo = rest, !.step = IF rest = {} THEN "ceiling" ELSE "erase"]]
        /\ UNCHANGED <<tableVars, tasks, faults, saved, condemned>>

\* The conditions of the scan again, under the row lock.
deleteCandidate(p) ==
    LET id == jobs[p].file
        ok == IF jobs[p].n = 1 THEN DeleteUnreferencedFile(id) ELSE DeleteUnassembledFile(id)
    IN  /\ At(p, "delete")
        /\ IF ok THEN files' = DeleteFile(id) /\ Goto(p, "unlink")
                 ELSE UNCHANGED files /\ NextCandidate(p, "erase", "ceiling")
        /\ UNCHANGED <<uploadParts, partSeq, fileSeq, copies, objects, tasks, faults, saved, condemned>>

unlink(p) ==
    /\ At(p, "unlink")
    /\ NextCandidate(p, "erase", "ceiling")
    /\ \/ objects' = Unlink({FileKey(jobs[p].file)}, FALSE) /\ UNCHANGED faults
       \/ faults < tasks.fault /\ faults' = faults + 1 /\ UNCHANGED objects
    /\ UNCHANGED <<uploadParts, partSeq, files, fileSeq, copies, tasks, saved, condemned>>

\* The ceiling is read before the walks, and nothing above it is touched.
walkBlobTemps(p) ==
    LET found == {ParseKey(o) : o \in {x \in WalkPrefix("file") : x.temp /\ x.aged}}
        temps == {id \in found : id <= AllocatedFileIDCeiling}
    IN  /\ At(p, "ceiling")
        /\ jobs' = [jobs EXCEPT ![p].through = AllocatedFileIDCeiling, ![p].todo = temps,
                                ![p].step = IF temps = {} THEN "walkOrphans" ELSE "lockTemp"]
        /\ UNCHANGED <<tableVars, tasks, faults, saved, condemned>>

\* A temporary goes at once when no row has its id, with the row of a dead
\* assembly, and not at all while the row is locked or claimed.
reclaimTempBlob(p) ==
    LET id   == Least(jobs[p].todo)
        rest == jobs[p].todo \ {id}
    IN  /\ At(p, "lockTemp")
        /\ jobs' = [jobs EXCEPT ![p] =
                CASE ~FileExistsForBlob(id) ->
                        [@ EXCEPT !.step = "removeTemp", !.file = id, !.todo = rest]
                  [] LockFileForErase(id) /\ tryFileAssemblyClaim(id) ->
                        [@ EXCEPT !.step = "deleteTemp", !.file = id, !.todo = rest]
                  [] OTHER ->
                        [@ EXCEPT !.todo = rest, !.step = IF rest = {} THEN "walkOrphans" ELSE "lockTemp"]]
        /\ UNCHANGED <<tableVars, tasks, faults, saved, condemned>>

deleteTempRow(p) ==
    LET id == jobs[p].file
    IN  /\ At(p, "deleteTemp")
        /\ IF DeleteUnassembledFile(id)
           THEN files' = DeleteFile(id) /\ Goto(p, "removeTemp")
           ELSE UNCHANGED files /\ NextCandidate(p, "lockTemp", "walkOrphans")
        /\ UNCHANGED <<uploadParts, partSeq, fileSeq, copies, objects, tasks, faults, saved, condemned>>

removeTemp(p) ==
    /\ At(p, "removeTemp")
    /\ NextCandidate(p, "lockTemp", "walkOrphans")
    /\ \/ objects' = Unlink({FileKey(jobs[p].file)}, TRUE) /\ UNCHANGED faults
       \/ faults < tasks.fault /\ faults' = faults + 1 /\ UNCHANGED objects
    /\ UNCHANGED <<uploadParts, partSeq, files, fileSeq, copies, tasks, saved, condemned>>

walkBlobOrphans(p) ==
    LET found == {ParseKey(o) : o \in {x \in WalkPrefix("file") : ~x.temp}}
        below == {id \in found : id <= jobs[p].through}
    IN  /\ At(p, "walkOrphans")
        /\ jobs' = [jobs EXCEPT ![p] = IF below = {} THEN Free
                                       ELSE [@ EXCEPT !.todo = below, !.step = "existing"]]
        /\ UNCHANGED <<tableVars, tasks, faults, saved, condemned>>

SweepBlobErasure(p) ==
    LET orphans == jobs[p].todo \ ExistingFileIDs(jobs[p].todo)
    IN  /\ At(p, "existing")
        /\ jobs' = [jobs EXCEPT ![p] = IF orphans = {} THEN Free
                                       ELSE [@ EXCEPT !.todo = orphans, !.step = "recheck"]]
        /\ UNCHANGED <<tableVars, tasks, faults, saved, condemned>>

reclaimOrphanBlob(p) ==
    LET id   == Least(jobs[p].todo)
        rest == jobs[p].todo \ {id}
    IN  /\ At(p, "recheck")
        /\ jobs' = [jobs EXCEPT ![p] =
                IF ~FileExistsForBlob(id) THEN [@ EXCEPT !.step = "removeOrphan", !.file = id, !.todo = rest]
                ELSE IF rest = {} THEN Free ELSE [@ EXCEPT !.todo = rest]]
        /\ UNCHANGED <<tableVars, tasks, faults, saved, condemned>>

removeOrphan(p) ==
    /\ At(p, "removeOrphan")
    /\ NextCandidate(p, "recheck", "idle")
    /\ \/ objects' = Unlink({FileKey(jobs[p].file)}, FALSE) /\ UNCHANGED faults
       \/ faults < tasks.fault /\ faults' = faults + 1 /\ UNCHANGED objects
    /\ UNCHANGED <<uploadParts, partSeq, files, fileSeq, copies, tasks, saved, condemned>>

-----------------------------------------------------------------------------
(* Faults and time.                                                        *)

\* The process of a job dies: its transactions roll back, its locks are
\* released, nothing it meant to clean up is cleaned up.
MediaCrash(p) ==
    /\ jobs[p] # Free
    /\ faults < tasks.fault
    /\ faults' = faults + 1
    /\ Done(p)
    /\ UNCHANGED <<tableVars, tasks, saved, condemned>>

\* Everything there is grows older than the cutoffs.
TimePasses ==
    LET older(t) == [i \in DOMAIN t |-> [t[i] EXCEPT !.aged = TRUE]]
        aged     == {[o EXCEPT !.aged = TRUE] : o \in objects}
    IN  /\ <<older(uploadParts), older(files), aged>> # <<uploadParts, files, objects>>
        /\ uploadParts' = older(uploadParts)
        /\ files' = older(files)
        /\ objects' = aged
        /\ UNCHANGED <<partSeq, fileSeq, copies, jobs, tasks, faults, saved, condemned>>
-----------------------------------------------------------------------------
MediaTask(p) ==
    \/ \E i \in tasks.parts, size \in tasks.sizes : SaveUploadPart(p, i, size)
    \/ \E n \in {Cardinality(tasks.parts)} : handleSendMedia(p, "sent", n)
    \/ forwardSources(p)
    \/ deleteCopy(p)
    \/ \E o \in MediaOwners : handleGetFile(p, o)

\* Every step that a job under way takes by itself.
MediaStep(p) ==
    /\ jobs[p] # Free
    /\ \/ PutTemp(p) \/ PutRename(p) \/ removeSuperseded(p) \/ dropUnnamedPartBytes(p) \/ removeOwn(p)
       \/ DeleteUploadParts(p) \/ removePartBytes(p) \/ retirePartRows(p) \/ removeRetired(p)
       \/ ReclaimGate(p) \/ ReclaimOrphanedPartBytes(p)
       \/ resendFileID(p) \/ assembleFile(p) \/ readPartRefs(p) \/ AllocateFile(p) \/ lockFileRefs(p)
       \/ copyParts(p) \/ completeAssembly(p) \/ insertCopies(p) \/ readBytes(p)
       \/ eraseCandidate(p) \/ deleteCandidate(p) \/ unlink(p)
       \/ walkBlobTemps(p) \/ reclaimTempBlob(p) \/ deleteTempRow(p) \/ removeTemp(p)
       \/ walkBlobOrphans(p) \/ SweepBlobErasure(p) \/ reclaimOrphanBlob(p) \/ removeOrphan(p)

MediaFault(p) == PutFault(p) \/ CommitUnanswered(p) \/ LoseConnection(p) \/ MediaCrash(p)

MediaSweep(p) ==
    /\ p \in tasks.passes
    /\ \/ p \in PartSweepers /\ deleteExpiredUploadParts(p)
       \/ p \in Reclaimers /\ walkParts(p)
       \/ p \in Erasers /\ SweepMediaErasure(p)

MediaNext ==
    \/ \E p \in MediaClients : MediaTask(p)
    \/ \E p \in Workers : MediaStep(p) \/ MediaFault(p) \/ MediaSweep(p)
    \/ TimePasses

\* Where a scene begins: nothing at all, or a part of s.part bytes that was
\* saved, or a file that was sent.
MediaInit(scenes) ==
    \E s \in scenes :
        /\ tasks = s.tasks
        /\ uploadParts = IF s.part > 0 THEN 0 :> [key |-> <<"part", 1>>, size |-> s.part, aged |-> FALSE] ELSE << >>
        /\ partSeq = IF s.part > 0 THEN 1 ELSE 0
        /\ saved = IF s.part > 0 THEN {<<"part", 1>>} ELSE {}
        /\ files = IF s.file THEN 1 :> [stored |-> TRUE, aged |-> FALSE, size |-> 1] ELSE << >>
        /\ fileSeq = IF s.file THEN 1 ELSE 0
        /\ copies = IF s.file THEN {[owner |-> o, rid |-> "first", file |-> 1, deleted |-> FALSE] : o \in MediaOwners}
                    ELSE {}
        /\ objects = (IF s.part > 0 THEN {[key |-> <<"part", 1>>, temp |-> FALSE, aged |-> FALSE, bytes |-> s.part]}
                      ELSE {})
                     \cup (IF s.file THEN {[key |-> FileKey(1), temp |-> FALSE, aged |-> FALSE, bytes |-> 1]} ELSE {})
        /\ faults = 0
        /\ jobs = [p \in Workers |-> Free]
        /\ condemned = {}

-----------------------------------------------------------------------------
(* What the reports say.                                                   *)

\* blobscan.Scan: temporaries of both kinds, and assembled objects no row
\* has the id of.
ScanTemps == {o \in objects : o.temp /\ o.aged}

ScanOrphans ==
    {o \in WalkPrefix("file") : /\ ~o.temp
                                /\ ParseKey(o) <= AllocatedFileIDCeiling
                                /\ ParseKey(o) \notin ExistingFileIDs({ParseKey(o)})}

BlobErasureSummary ==
    [orphans |-> {o \in WalkPrefix("file") : ~o.temp /\ ParseKey(o) \notin DOMAIN files},
     temps   |-> {o \in WalkPrefix("file") : o.temp /\ o.aged}]

MediaErasureSummary == MediaErasureScan(MaxFileID)

-----------------------------------------------------------------------------
(* Properties.                                                             *)

BytesOutliveReferences ==
    /\ \A id \in DOMAIN files : files[id].stored =>
          \E o \in objects : o.key = FileKey(id) /\ ~o.temp /\ o.bytes = files[id].size
    /\ \A c \in copies : ~c.deleted => c.file \in DOMAIN files /\ files[c.file].stored
    /\ \A i \in DOMAIN uploadParts :
          uploadParts[i].key \in saved \ condemned => ReadAt(uploadParts[i].key)
    /\ \A p \in Workers : At(p, "read") /\ jobs[p].file \in DOMAIN files => ReadAt(FileKey(jobs[p].file))

OrphansTakeAFault ==
    faults = 0 /\ (\A p \in Workers : jobs[p] = Free) =>
        \A o \in objects :
            /\ ~o.temp
            /\ IF o.key[1] = "part" THEN o.key \in LivePartKeys
               ELSE /\ ParseKey(o) \in DOMAIN files
                    /\ files[ParseKey(o)].stored <=> o.bytes = files[ParseKey(o)].size

\* Bytes outlive whatever still leads to them, and little else. A file marked
\* stored has its bytes, as many as its row says, a message that is not deleted has its file, stored,
\* and a part whose save succeeded has its bytes for as long as its row names
\* them and no cleanup has taken it up; so a download the gate admits finds
\* bytes unless the file was erased since. And an orphan takes a fault: while
\* no process died, no connection was lost and no call to the blob store
\* failed, whenever nothing is under way every object is finished and named by
\* a row, however saves of one part, assemblies and sweeps have crossed; the
\* row of an assembled object is stored, unless the parts were saved again
\* with another total between the two reads of assembleFile. This
\* is the interlock of lockFileRefs, LockFileForErase and the assembly claim,
\* the second look of SaveUploadPart, the second delete of retirePartRows and
\* the comparison of what Put wrote with the total of the row.
MediaKeepsBytes == BytesOutliveReferences /\ OrphansTakeAFault

\* Whatever faults happened, once the calls stop the passes, where all of
\* them run, leave nothing but what live messages refer to: no part, no row without a reference, and
\* nothing that blobscan or the erasure reports would still name.
LeftoversAreReclaimed ==
    <>[](tasks.passes = PartSweepers \cup Reclaimers \cup Erasers =>
            /\ uploadParts = << >>
            /\ MediaErasureSummary = {}
            /\ \A id \in DOMAIN files : Referenced(id)
            /\ ScanTemps \cup ScanOrphans = {}
            /\ BlobErasureSummary = [orphans |-> {}, temps |-> {}]
            /\ WalkPrefix("part") = {})
=============================================================================
