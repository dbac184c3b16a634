---------------------------- MODULE ArtifactIngest ----------------------------
(***************************************************************************)
(* POST /artifacts/upload, ingest_artifact: a handler that reads a file    *)
(* chunk by chunk, hashes it and writes it to the artifact storage as it   *)
(* goes, and commits a row at its end.  A large file is spooled to disk,   *)
(* so that every read suspends the handler: uploads interleave between     *)
(* chunks.  Storage and database have no transaction in common; the        *)
(* handler deletes the bytes when something fails.                         *)
(*                                                                         *)
(* A file is the sequence of its chunks, and a SHA-256 digest is the       *)
(* sequence of the chunks that were hashed.                                *)
(***************************************************************************)
EXTENDS Naturals, Sequences, FiniteSets

CONSTANTS
    Uploads,          \* upload requests
    Bodies,           \* what they may carry
    Users, Projects, Versions, FileNames, Chunks, ArtifactIds,
    NoProject, NoVersion, NoName,   \* form fields left out, no usable file name
    Admins,           \* users of role ADMIN
    Members,          \* pairs <<user, project>> of project_members
    ProjectOf,        \* the project of each version, created already or later
    MaxChunks,        \* MAX_ARTIFACT_SIZE_BYTES, in chunks
    Collisions,       \* the generator may repeat an id that is in use, not recorded
    VolatileStorage,  \* STORAGE_BACKEND = "ipfs": bytes buffered in memory
    Faults,           \* kinds of fault that may happen
    MaxFaults,        \* bound on their number
    NoBody, NoId, NoRow, Absent     \* null values

FaultKinds == {"read", "write", "commit", "refresh", "crash"}

UploadBodies ==
    [user : Users, project : Projects \cup {NoProject},
     version : Versions \cup {NoVersion}, name : FileNames \cup {NoName},
     file : Seq(Chunks)]

ASSUME IngestAssumption ==
    /\ Bodies \subseteq UploadBodies
    /\ NoProject \notin Projects /\ NoVersion \notin Versions
    /\ NoName \notin FileNames
    /\ NoBody \notin Bodies /\ NoId \notin ArtifactIds
    /\ Absent \notin Seq(Chunks)
    /\ NoRow \notin [name : FileNames, version : Versions \cup {NoVersion},
                     size : Nat, sha256 : Seq(Chunks)]
    /\ ProjectOf \in [Versions -> Projects]
    /\ Admins \subseteq Users /\ Members \subseteq Users \X Projects
    /\ MaxChunks \in Nat /\ MaxFaults \in Nat
    /\ Collisions \in BOOLEAN /\ VolatileStorage \in BOOLEAN
    /\ Faults \subseteq FaultKinds

VARIABLES
    pc, body, publicId, read,  \* requests: progress and local variables
    artifacts,                 \* rows by public_id, NoRow where there is none
    storage,                   \* contents by storage_key, which the id determines
    faults                     \* faults so far

requestVars == <<pc, body, publicId, read>>
ingestVars == <<requestVars, artifacts, storage, faults>>

Ended == {"created", "refused", "error", "lost"}
Rows == [name : FileNames, version : Versions \cup {NoVersion},
         size : Nat, sha256 : Seq(Chunks)]

Recorded == {i \in ArtifactIds : artifacts[i] # NoRow}
Reading == {u \in Uploads : pc[u] = "reading"}
InUse == {publicId[u] : u \in Reading}

Init ==
    /\ pc = [u \in Uploads |-> "idle"]
    /\ body = [u \in Uploads |-> NoBody]
    /\ publicId = [u \in Uploads |-> NoId]
    /\ read = [u \in Uploads |-> 0]
    /\ artifacts = [i \in ArtifactIds |-> NoRow]
    /\ storage = [i \in ArtifactIds |-> Absent]
    /\ faults = 0
-----------------------------------------------------------------------------
(* Before the first read.                                                  *)

\* ADMIN, or any membership: every role of the enumeration may upload.
CheckUserProjectAccess(user, project) ==
    user \in Admins \/ <<user, project>> \in Members

\* Project and version are both optional; if both are given they must agree,
\* and access is checked once, on the project.
Associated(b) ==
    /\ b.project # NoProject => CheckUserProjectAccess(b.user, b.project)
    /\ b.version # NoVersion =>
         IF b.project # NoProject THEN ProjectOf[b.version] = b.project
         ELSE CheckUserProjectAccess(b.user, ProjectOf[b.version])

\* sanitize_filename raises if nothing is left of the name.
Sanitized(name) == name # NoName

Refuse(u, b) ==
    /\ pc[u] = "idle"
    /\ ~(Associated(b) /\ Sanitized(b.name))
    /\ pc' = [pc EXCEPT ![u] = "refused"]
    /\ body' = [body EXCEPT ![u] = b]
    /\ UNCHANGED <<publicId, read, artifacts, storage, faults>>

\* Each of five candidates was the id of a row.
IdsExhausted(u, b) ==
    /\ pc[u] = "idle"
    /\ Associated(b) /\ Sanitized(b.name)
    /\ Recorded # {}
    /\ pc' = [pc EXCEPT ![u] = "error"]
    /\ body' = [body EXCEPT ![u] = b]
    /\ UNCHANGED <<publicId, read, artifacts, storage, faults>>

\* Mutation: no candidate is compared with the rows.
CandidatesUnchecked == ArtifactIds \ InUse

\* The candidate is compared with the rows, not with the ids of uploads in
\* flight, which have no row yet.
Candidates == ArtifactIds \ (Recorded \cup (IF Collisions THEN {} ELSE InUse))

Begin(u, b) ==
    /\ pc[u] = "idle"
    /\ Associated(b) /\ Sanitized(b.name)
    /\ \E i \in Candidates : publicId' = [publicId EXCEPT ![u] = i]
    /\ pc' = [pc EXCEPT ![u] = "reading"]
    /\ body' = [body EXCEPT ![u] = b]
    /\ UNCHANGED <<read, artifacts, storage, faults>>
-----------------------------------------------------------------------------
(* The loop: what happens between two reads is one step.                   *)

\* Mode "wb" for the first chunk and "ab" for the others; appending to a key
\* that is not there creates it.
WriteChunk(i, chunk, first) ==
    storage' = [storage EXCEPT
      ![i] = IF first \/ @ = Absent THEN <<chunk>> ELSE Append(@, chunk)]

Delete(i) == storage' = [storage EXCEPT ![i] = Absent]

End(u, how) ==
    /\ pc' = [pc EXCEPT ![u] = how]
    /\ UNCHANGED <<body, publicId, read>>

\* Mutation: the size is compared after the chunk was written.
ReadChunkUnbounded(u) ==
    /\ pc[u] = "reading"
    /\ read[u] < Len(body[u].file)
    /\ read' = [read EXCEPT ![u] = @ + 1]
    /\ WriteChunk(publicId[u], body[u].file[read'[u]], read[u] = 0)
    /\ UNCHANGED <<pc, body, publicId, artifacts, faults>>

ReadChunk(u) ==
    /\ pc[u] = "reading"
    /\ read[u] < Len(body[u].file)
    /\ read[u] + 1 <= MaxChunks
    /\ read' = [read EXCEPT ![u] = @ + 1]
    /\ WriteChunk(publicId[u], body[u].file[read'[u]], read[u] = 0)
    /\ UNCHANGED <<pc, body, publicId, artifacts, faults>>

\* The chunk that exceeds the limit is not written; what was is deleted.
TooLarge(u) ==
    /\ pc[u] = "reading"
    /\ read[u] < Len(body[u].file)
    /\ read[u] + 1 > MaxChunks
    /\ Delete(publicId[u])
    /\ End(u, "refused")
    /\ UNCHANGED <<artifacts, faults>>

\* Nothing was read: refused, with nothing to delete.
Empty(u) ==
    /\ pc[u] = "reading"
    /\ Len(body[u].file) = 0
    /\ Delete(publicId[u])
    /\ End(u, "refused")
    /\ UNCHANGED <<artifacts, faults>>

AtEnd(u) == pc[u] = "reading" /\ read[u] = Len(body[u].file) /\ read[u] > 0

Row(b, n) == [name |-> b.name, version |-> b.version, size |-> n,
              sha256 |-> SubSeq(b.file, 1, n)]

Commit(u) ==
    /\ AtEnd(u)
    /\ artifacts[publicId[u]] = NoRow
    /\ artifacts' = [artifacts EXCEPT ![publicId[u]] = Row(body[u], read[u])]
    /\ End(u, "created")
    /\ UNCHANGED <<storage, faults>>

\* UNIQUE (public_id): the id was recorded while this upload was in flight.
InsertConflicts(u) ==
    /\ AtEnd(u)
    /\ artifacts[publicId[u]] # NoRow
    /\ Delete(publicId[u])
    /\ End(u, "error")
    /\ UNCHANGED <<artifacts, faults>>
-----------------------------------------------------------------------------
(* Faults.                                                                 *)

Fault(kind) ==
    /\ kind \in Faults /\ faults < MaxFaults
    /\ faults' = faults + 1

\* Mutation: the handler does not delete what it wrote.
TransferFailsUncleaned(u) ==
    /\ pc[u] = "reading"
    /\ Fault("read") \/ (Fault("write") /\ read[u] < Len(body[u].file))
    /\ End(u, "error")
    /\ UNCHANGED <<artifacts, storage>>

\* The spooled file cannot be read, or the chunk not be written, in part or
\* at all: the outer handler deletes the key.
TransferFails(u) ==
    /\ pc[u] = "reading"
    /\ Fault("read") \/ (Fault("write") /\ read[u] < Len(body[u].file))
    /\ Delete(publicId[u])
    /\ End(u, "error")
    /\ UNCHANGED artifacts

\* commit() raises and the row is not there.
CommitFails(u) ==
    /\ AtEnd(u)
    /\ Fault("commit")
    /\ Delete(publicId[u])
    /\ End(u, "error")
    /\ UNCHANGED artifacts

\* The row is committed, and refresh() raises, or commit() itself does because
\* the answer of the database was lost.  rollback() undoes nothing now.
RefreshFails(u) ==
    /\ AtEnd(u)
    /\ artifacts[publicId[u]] = NoRow
    /\ Fault("refresh")
    /\ artifacts' = [artifacts EXCEPT ![publicId[u]] = Row(body[u], read[u])]
    /\ Delete(publicId[u])
    /\ End(u, "error")

\* The process stops and starts again: uploads in flight are gone, their
\* bytes stay, unless all bytes were in memory.
Crash ==
    /\ Fault("crash")
    /\ pc' = [u \in Uploads |-> IF pc[u] = "reading" THEN "lost" ELSE pc[u]]
    /\ storage' = IF VolatileStorage THEN [i \in ArtifactIds |-> Absent]
                  ELSE storage
    /\ UNCHANGED <<body, publicId, read, artifacts>>
-----------------------------------------------------------------------------
HandlerStep(u) == ReadChunk(u) \/ TooLarge(u) \/ Empty(u) \/ Commit(u) \/ InsertConflicts(u)

Next ==
    \/ \E u \in Uploads :
         \/ \E b \in Bodies : Refuse(u, b) \/ IdsExhausted(u, b) \/ Begin(u, b)
         \/ HandlerStep(u)
         \/ TransferFails(u) \/ CommitFails(u) \/ RefreshFails(u)
    \/ Crash

Spec == Init /\ [][Next]_ingestVars
-----------------------------------------------------------------------------
TypeOK ==
    /\ pc \in [Uploads -> {"idle", "reading"} \cup Ended]
    /\ body \in [Uploads -> Bodies \cup {NoBody}]
    /\ publicId \in [Uploads -> ArtifactIds \cup {NoId}]
    /\ read \in [Uploads -> Nat]
    /\ artifacts \in [ArtifactIds -> Rows \cup {NoRow}]
    /\ storage \in [ArtifactIds -> Seq(Chunks) \cup {Absent}]
    /\ faults \in 0 .. MaxFaults

\* Ids of uploads that were answered with an error.
GivenUp == {publicId[u] : u \in {v \in Uploads : pc[v] = "error"}}

\* The bytes stored for a recorded artifact are the ones its digest covers,
\* whatever other uploads wrote and deleted: get_artifact_content and the
\* snapshot of a version read them by the id alone.  Holds while ids do not
\* collide in flight and the storage survives, and for all but the rows of
\* uploads whose client was told that they failed (RefreshFails).
RecordedIsIntact ==
    \A i \in Recorded \ GivenUp : storage[i] = artifacts[i].sha256

\* Bytes without a row are those of an upload in flight, or were left by a
\* crash: "Automatic cleanup of stored content on any failure"
\* (artifact_service.py:163).
NothingLeftBehind ==
    \A i \in ArtifactIds :
      storage[i] # Absent =>
        \/ i \in Recorded
        \/ \E u \in Uploads : pc[u] \in {"reading", "lost"} /\ publicId[u] = i

\* The verdict on the size, met chunk by chunk, is the one on the whole file:
\* accepted files have 1 .. MaxChunks chunks, and an upload refused after it was
\* admitted had not (artifact_service.py:211, :226).
VerdictFollowsSize ==
    \A u \in Uploads :
      LET fits == Len(body[u].file) \in 1 .. MaxChunks
      IN /\ pc[u] = "created" => fits
         /\ pc[u] = "refused" /\ publicId[u] # NoId => ~fits

\* Nobody adds a file to a version of a project he has no access to, by
\* whichever of the two form fields he names it (artifact_service.py:176-191).
LinkedByMember ==
    \A u \in Uploads :
      pc[u] = "created" /\ body[u].version # NoVersion =>
        CheckUserProjectAccess(body[u].user, ProjectOf[body[u].version])
=============================================================================
