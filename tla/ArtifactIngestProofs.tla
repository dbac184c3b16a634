------------------------- MODULE ArtifactIngestProofs -------------------------
(***************************************************************************)
(* Proofs about uploads, for every number of them, files of any length,    *)
(* any limit and any number of faults.                                     *)
(***************************************************************************)
EXTENDS VersionContent, SequenceTheorems, FiniteSetTheorems, TLAPS

\* The body passed the checks before its first chunk is read.
Admitted(b) == b \in Bodies /\ Associated(b) /\ Sanitized(b.name)

\* What the local variables of one request say of its progress.
RequestOK(u) ==
    /\ pc[u] = "idle" => read[u] = 0 /\ publicId[u] = NoId
    /\ pc[u] = "reading" =>
         /\ Admitted(body[u]) /\ publicId[u] \in ArtifactIds
         /\ read[u] <= Len(body[u].file) /\ read[u] <= MaxChunks
    /\ pc[u] = "created" =>
         Admitted(body[u]) /\ Len(body[u].file) \in 1 .. MaxChunks
    /\ pc[u] = "refused" /\ publicId[u] # NoId =>
         Len(body[u].file) \notin 1 .. MaxChunks

\* Every upload is where its stage says.
RequestInv == TypeOK /\ \A u \in Uploads : RequestOK(u)

\* An admitted body has a file and a name that a row can hold.
LEMMA AdmittedBody ==
    ASSUME NEW b, Admitted(b)
    PROVE  /\ b.file \in Seq(Chunks) /\ Len(b.file) \in Nat
           /\ b.name \in FileNames /\ b.version \in Versions \cup {NoVersion}
           /\ b \in Bodies
<1>1. b \in UploadBodies /\ b.name # NoName
  BY IngestAssumption DEF Admitted, Sanitized
<1>2. b.file \in Seq(Chunks)
  BY <1>1 DEF UploadBodies
<1>. QED
  BY <1>1, <1>2, LenProperties DEF UploadBodies, Admitted

\* A prefix of a file is a sequence of chunks, and the next prefix has one more.
LEMMA Prefix ==
    ASSUME NEW f \in Seq(Chunks), NEW n \in 0 .. Len(f)
    PROVE  /\ SubSeq(f, 1, n) \in Seq(Chunks)
           /\ n < Len(f) => /\ f[n + 1] \in Chunks
                            /\ <<f[n + 1]>> \in Seq(Chunks)
                            /\ n = 0 => SubSeq(f, 1, n + 1) = <<f[n + 1]>>
                            /\ SubSeq(f, 1, n + 1) = Append(SubSeq(f, 1, n), f[n + 1])
<1>0. Len(f) \in Nat
  BY LenProperties
<1>1. \A k \in 1 .. Len(f) : f[k] \in Chunks
  BY ElementOfSeq
<1>2. SubSeq(f, 1, n) \in Seq(Chunks)
  BY <1>0, <1>1, SubSeqProperties
<1>3. ASSUME n < Len(f)
      PROVE  /\ f[n + 1] \in Chunks
             /\ SubSeq(f, 1, n + 1) = SubSeq(f, 1, n) \o <<f[n + 1]>>
  <2>1. 1 \in 1 .. Len(f) /\ n + 1 \in 1 .. Len(f) /\ (n + 1) - 1 = n
    BY <1>0, <1>3
  <2>2. SubSeq(f, 1, n + 1) = SubSeq(f, 1, (n + 1) - 1) \o <<f[n + 1]>>
    BY <1>0, <1>3, <2>1, SubSeqRecursiveSecond
  <2>. QED
    BY <1>1, <2>1, <2>2
<1>4. ASSUME n < Len(f) PROVE <<f[n + 1]>> \in Seq(Chunks)
  BY <1>3, <1>4
<1>5. ASSUME n = 0 PROVE SubSeq(f, 1, n) = <<>>
  BY <1>5, SubSeqEmpty
<1>6. ASSUME n < Len(f), n = 0 PROVE SubSeq(f, 1, n + 1) = <<f[n + 1]>>
  BY <1>3, <1>4, <1>5, <1>6, ConcatEmptySeq
<1>7. ASSUME n < Len(f)
      PROVE SubSeq(f, 1, n + 1) = Append(SubSeq(f, 1, n), f[n + 1])
  BY <1>2, <1>3, <1>7, AppendIsConcat
<1>. QED
  BY <1>2, <1>3, <1>4, <1>6, <1>7

\* A request that does not move, and whose variables stay, stays in order.
LEMMA OthersKeep ==
    ASSUME NEW v \in Uploads, RequestOK(v),
           pc'[v] = pc[v], body'[v] = body[v],
           publicId'[v] = publicId[v], read'[v] = read[v]
    PROVE  RequestOK(v)'
  BY DEF RequestOK, Admitted, Associated, Sanitized, CheckUserProjectAccess

\* A request that ends keeps the invariant if its verdict follows the size.
LEMMA EndStep ==
    ASSUME RequestInv, NEW u \in Uploads, NEW how \in {"refused", "error", "created"},
           pc[u] = "reading", End(u, how),
           how = "refused" => Len(body[u].file) \notin 1 .. MaxChunks,
           how = "created" => Len(body[u].file) \in 1 .. MaxChunks
    PROVE  /\ \A v \in Uploads : RequestOK(v)'
           /\ pc' \in [Uploads -> {"idle", "reading"} \cup Ended]
           /\ UNCHANGED <<body, publicId, read>>
<1>1. pc'[u] = how /\ \A v \in Uploads : v # u => pc'[v] = pc[v]
  BY DEF End, RequestInv, TypeOK
<1>2. RequestOK(u)'
  BY <1>1 DEF End, RequestInv, RequestOK, Admitted, Associated, Sanitized,
     CheckUserProjectAccess
<1>3. ASSUME NEW v \in Uploads, v # u PROVE RequestOK(v)'
  BY <1>1, <1>3, OthersKeep DEF End, RequestInv
<1>4. pc' \in [Uploads -> {"idle", "reading"} \cup Ended]
  BY DEF End, RequestInv, TypeOK, Ended
<1>. QED
  BY <1>2, <1>3, <1>4 DEF End

\* The three ways a request leaves "idle".
LEMMA StartStep ==
    ASSUME RequestInv, NEW u \in Uploads, NEW b \in Bodies,
           Refuse(u, b) \/ IdsExhausted(u, b) \/ Begin(u, b)
    PROVE  RequestInv'
<1>1. pc[u] = "idle" /\ read[u] = 0 /\ publicId[u] = NoId
  BY DEF Refuse, IdsExhausted, Begin, RequestInv, RequestOK
<1>2. UNCHANGED <<read, artifacts, storage, faults>>
  BY DEF Refuse, IdsExhausted, Begin
<1>3. /\ pc' \in [Uploads -> {"idle", "reading"} \cup Ended]
      /\ body' \in [Uploads -> Bodies \cup {NoBody}] /\ body'[u] = b
      /\ \A v \in Uploads : v # u => pc'[v] = pc[v] /\ body'[v] = body[v]
  <2>1. PICK how \in {"refused", "error", "reading"} : pc' = [pc EXCEPT ![u] = how]
    BY DEF Refuse, IdsExhausted, Begin
  <2>2. body' = [body EXCEPT ![u] = b]
    BY DEF Refuse, IdsExhausted, Begin
  <2>3. how \in {"idle", "reading"} \cup Ended
    BY DEF Ended
  <2>. QED
    BY <2>1, <2>2, <2>3 DEF RequestInv, TypeOK
<1>4. CASE Begin(u, b)
  <2>1. PICK i \in Candidates : publicId' = [publicId EXCEPT ![u] = i]
    BY <1>4 DEF Begin
  <2>2. i \in ArtifactIds
    BY DEF Candidates
  <2>3. /\ publicId' \in [Uploads -> ArtifactIds \cup {NoId}] /\ publicId'[u] = i
        /\ \A v \in Uploads : v # u => publicId'[v] = publicId[v]
    BY <2>1, <2>2 DEF RequestInv, TypeOK
  <2>4. pc'[u] = "reading" /\ Admitted(b)
    BY <1>4 DEF Begin, RequestInv, TypeOK, Admitted
  <2>5. RequestOK(u)'
    BY <1>1, <1>2, <1>3, <2>2, <2>3, <2>4, AdmittedBody, IngestAssumption
       DEF RequestOK, Admitted, Associated, Sanitized, CheckUserProjectAccess
  <2>6. ASSUME NEW v \in Uploads, v # u PROVE RequestOK(v)'
    BY <1>2, <1>3, <2>3, <2>6, OthersKeep DEF RequestInv
  <2>. QED
    BY <1>2, <1>3, <2>3, <2>5, <2>6 DEF RequestInv, TypeOK, Rows
<1>5. CASE Refuse(u, b) \/ IdsExhausted(u, b)
  <2>1. pc'[u] \in {"refused", "error"} /\ UNCHANGED publicId
    BY <1>5 DEF Refuse, IdsExhausted, RequestInv, TypeOK
  <2>2. RequestOK(u)'
    BY <1>1, <2>1 DEF RequestOK
  <2>3. ASSUME NEW v \in Uploads, v # u PROVE RequestOK(v)'
    BY <1>2, <1>3, <2>1, <2>3, OthersKeep DEF RequestInv
  <2>. QED
    BY <1>2, <1>3, <2>1, <2>2, <2>3 DEF RequestInv, TypeOK, Rows
<1>. QED
  BY <1>4, <1>5

\* A chunk read within the limit.
LEMMA ReadStep ==
    ASSUME RequestInv, NEW u \in Uploads, ReadChunk(u)
    PROVE  /\ RequestInv'
           /\ publicId[u] \in ArtifactIds
           /\ read[u] \in 0 .. Len(body[u].file) /\ read[u] < Len(body[u].file)
           /\ body[u].file \in Seq(Chunks)
           /\ read' = [read EXCEPT ![u] = read[u] + 1]
           /\ storage' = [storage EXCEPT ![publicId[u]] =
                IF read[u] = 0 \/ storage[publicId[u]] = Absent
                THEN <<body[u].file[read[u] + 1]>>
                ELSE Append(storage[publicId[u]], body[u].file[read[u] + 1])]
<1>1. /\ Admitted(body[u]) /\ publicId[u] \in ArtifactIds
      /\ read[u] \in Nat /\ read[u] < Len(body[u].file) /\ read[u] + 1 <= MaxChunks
      /\ pc[u] = "reading"
  BY DEF ReadChunk, RequestInv, RequestOK, TypeOK
<1>2. body[u].file \in Seq(Chunks) /\ Len(body[u].file) \in Nat
  BY <1>1, AdmittedBody
<1>3. read' = [read EXCEPT ![u] = read[u] + 1] /\ read'[u] = read[u] + 1
  BY DEF ReadChunk, RequestInv, TypeOK
<1>4. storage' = [storage EXCEPT ![publicId[u]] =
                IF read[u] = 0 \/ storage[publicId[u]] = Absent
                THEN <<body[u].file[read[u] + 1]>>
                ELSE Append(storage[publicId[u]], body[u].file[read[u] + 1])]
  BY <1>1, <1>3 DEF ReadChunk, WriteChunk, RequestInv, TypeOK
<1>5. body[u].file[read[u] + 1] \in Chunks /\ <<body[u].file[read[u] + 1]>> \in Seq(Chunks)
  BY <1>1, <1>2, Prefix
<1>6. storage' \in [ArtifactIds -> Seq(Chunks) \cup {Absent}]
  <2>1. storage[publicId[u]] # Absent =>
          Append(storage[publicId[u]], body[u].file[read[u] + 1]) \in Seq(Chunks)
    BY <1>1, <1>5, AppendProperties DEF RequestInv, TypeOK
  <2>. QED
    BY <1>1, <1>4, <1>5, <2>1 DEF RequestInv, TypeOK
<1>7. UNCHANGED <<pc, body, publicId, artifacts, faults>>
  BY DEF ReadChunk
<1>8. RequestOK(u)'
  BY <1>1, <1>2, <1>3, <1>7, IngestAssumption DEF RequestOK, RequestInv, Admitted,
     Associated, Sanitized, CheckUserProjectAccess
<1>9. ASSUME NEW v \in Uploads, v # u PROVE RequestOK(v)'
  BY <1>3, <1>7, <1>9, OthersKeep DEF RequestInv, TypeOK
<1>10. read' \in [Uploads -> Nat]
  BY <1>1, <1>3 DEF RequestInv, TypeOK
<1>. QED
  BY <1>1, <1>2, <1>3, <1>4, <1>6, <1>7, <1>8, <1>9, <1>10 DEF RequestInv, TypeOK, Rows

\* The steps that end an upload.
Finishes(u) ==
    \/ TooLarge(u) \/ Empty(u) \/ Commit(u) \/ InsertConflicts(u)
    \/ TransferFails(u) \/ CommitFails(u) \/ RefreshFails(u)

\* The steps that write the row of an upload.
Records(u) ==
    /\ AtEnd(u) /\ artifacts[publicId[u]] = NoRow
    /\ artifacts' = [artifacts EXCEPT ![publicId[u]] = Row(body[u], read[u])]

\* However a request ends, it either deletes its bytes or records them; only a
\* failing refresh does both.
LEMMA FinishCases ==
    ASSUME RequestInv, NEW u \in Uploads, Finishes(u)
    PROVE  /\ pc[u] = "reading" /\ publicId[u] \in ArtifactIds /\ Admitted(body[u])
           /\ \E how \in {"refused", "error", "created"} :
                /\ End(u, how)
                /\ how = "refused" => Len(body[u].file) \notin 1 .. MaxChunks
                /\ how = "created" => Len(body[u].file) \in 1 .. MaxChunks
           /\ faults' \in 0 .. MaxFaults
           /\ \/ Delete(publicId[u]) /\ UNCHANGED artifacts
              \/ UNCHANGED storage /\ Records(u)
              \/ Delete(publicId[u]) /\ Records(u) /\ End(u, "error")
<1>1. pc[u] = "reading" /\ publicId[u] \in ArtifactIds /\ Admitted(body[u])
  BY DEF Finishes, TooLarge, Empty, Commit, InsertConflicts, TransferFails,
     CommitFails, RefreshFails, AtEnd, RequestInv, RequestOK
<1>2. /\ read[u] \in Nat /\ read[u] <= Len(body[u].file) /\ read[u] <= MaxChunks
      /\ Len(body[u].file) \in Nat /\ MaxChunks \in Nat /\ MaxFaults \in Nat
      /\ faults \in 0 .. MaxFaults
  BY <1>1, AdmittedBody, IngestAssumption DEF RequestInv, RequestOK, TypeOK
<1>3. ASSUME TooLarge(u) \/ Empty(u)
      PROVE  /\ End(u, "refused") /\ Len(body[u].file) \notin 1 .. MaxChunks
             /\ Delete(publicId[u]) /\ UNCHANGED <<artifacts, faults>>
  BY <1>2, <1>3 DEF TooLarge, Empty
<1>4. ASSUME Commit(u)
      PROVE  /\ End(u, "created") /\ Len(body[u].file) \in 1 .. MaxChunks
             /\ Records(u) /\ UNCHANGED <<storage, faults>>
  BY <1>2, <1>4 DEF Commit, AtEnd, Records
<1>5. ASSUME NEW kind, Fault(kind) PROVE faults' \in 0 .. MaxFaults
  BY <1>2, <1>5 DEF Fault
<1>6. ASSUME InsertConflicts(u) \/ TransferFails(u) \/ CommitFails(u)
      PROVE  /\ End(u, "error") /\ faults' \in 0 .. MaxFaults
             /\ Delete(publicId[u]) /\ UNCHANGED artifacts
  BY <1>2, <1>5, <1>6 DEF InsertConflicts, TransferFails, CommitFails
<1>7. ASSUME RefreshFails(u)
      PROVE  /\ End(u, "error") /\ faults' \in 0 .. MaxFaults
             /\ Delete(publicId[u]) /\ Records(u)
  BY <1>5, <1>7 DEF RefreshFails, Records
<1>. QED
  BY <1>1, <1>2, <1>3, <1>4, <1>6, <1>7 DEF Finishes

\* The row of an admitted upload is a row.
LEMMA RowTyped ==
    ASSUME RequestInv, NEW u \in Uploads, pc[u] = "reading"
    PROVE  /\ Row(body[u], read[u]) \in Rows
           /\ Row(body[u], read[u]).sha256 = SubSeq(body[u].file, 1, read[u])
<1>1. /\ Admitted(body[u]) /\ read[u] \in 0 .. Len(body[u].file)
  BY AdmittedBody DEF RequestInv, RequestOK, TypeOK
<1>2. SubSeq(body[u].file, 1, read[u]) \in Seq(Chunks)
  BY <1>1, AdmittedBody, Prefix
<1>. QED
  BY <1>1, <1>2, AdmittedBody DEF Row, Rows, RequestInv, TypeOK

\* The end of an upload keeps RequestInv.
LEMMA FinishStep ==
    ASSUME RequestInv, NEW u \in Uploads, Finishes(u)
    PROVE  RequestInv'
<1>1. PICK how \in {"refused", "error", "created"} :
        /\ End(u, how)
        /\ how = "refused" => Len(body[u].file) \notin 1 .. MaxChunks
        /\ how = "created" => Len(body[u].file) \in 1 .. MaxChunks
  BY FinishCases
<1>2. /\ \A v \in Uploads : RequestOK(v)'
      /\ pc' \in [Uploads -> {"idle", "reading"} \cup Ended]
      /\ UNCHANGED <<body, publicId, read>>
  BY <1>1, EndStep, FinishCases
<1>3. storage' \in [ArtifactIds -> Seq(Chunks) \cup {Absent}]
  BY FinishCases DEF Delete, RequestInv, TypeOK
<1>4. artifacts' \in [ArtifactIds -> Rows \cup {NoRow}]
  <2>1. UNCHANGED artifacts \/ Records(u)
    BY FinishCases
  <2>. QED
    BY <2>1, FinishCases, RowTyped DEF Records, RequestInv, TypeOK
<1>5. faults' \in 0 .. MaxFaults
  BY FinishCases
<1>. QED
  BY <1>2, <1>3, <1>4, <1>5 DEF RequestInv, TypeOK

\* A crash keeps RequestInv.
LEMMA CrashStep ==
    ASSUME RequestInv, Crash
    PROVE  RequestInv'
<1>1. /\ \A u \in Uploads : pc'[u] = IF pc[u] = "reading" THEN "lost" ELSE pc[u]
      /\ pc' \in [Uploads -> {"idle", "reading"} \cup Ended]
  BY DEF Crash, RequestInv, TypeOK, Ended
<1>2. storage' \in [ArtifactIds -> Seq(Chunks) \cup {Absent}]
  BY DEF Crash, RequestInv, TypeOK
<1>3. faults' \in 0 .. MaxFaults
  BY IngestAssumption DEF Crash, Fault, RequestInv, TypeOK
<1>4. ASSUME NEW u \in Uploads PROVE RequestOK(u)'
  <2>1. UNCHANGED <<body, publicId, read, artifacts>> /\ RequestOK(u)
    BY DEF Crash, RequestInv
  <2>2. CASE pc[u] = "reading"
    BY <1>1, <2>2 DEF RequestOK
  <2>3. CASE pc[u] # "reading"
    BY <1>1, <2>1, <2>3, OthersKeep
  <2>. QED
    BY <2>2, <2>3
<1>. QED
  BY <1>1, <1>2, <1>3, <1>4 DEF Crash, RequestInv, TypeOK, Rows

\* A step starts a request, reads a chunk, finishes a request, or is a crash.
LEMMA StepCases ==
    ASSUME Next
    PROVE  \/ \E u \in Uploads, b \in Bodies :
                Refuse(u, b) \/ IdsExhausted(u, b) \/ Begin(u, b)
           \/ \E u \in Uploads : ReadChunk(u) \/ Finishes(u)
           \/ Crash
  BY DEF Next, HandlerStep, Finishes

\* Every step of the uploads keeps RequestInv.
LEMMA RequestInvStep == RequestInv /\ [Next]_ingestVars => RequestInv'
<1> SUFFICES ASSUME RequestInv, [Next]_ingestVars PROVE RequestInv'
  OBVIOUS
<1>1. CASE Next
  BY <1>1, StepCases, StartStep, ReadStep, FinishStep, CrashStep
<1>2. CASE UNCHANGED ingestVars
  <2>1. \A u \in Uploads : RequestOK(u)'
    BY <1>2, OthersKeep DEF RequestInv, ingestVars, requestVars
  <2>. QED
    BY <1>2, <2>1 DEF RequestInv, TypeOK, ingestVars, requestVars, Rows
<1>. QED
  BY <1>1, <1>2

\* RequestInv holds where nothing was uploaded.
LEMMA RequestInvInit == Init => RequestInv
  BY IngestAssumption DEF Init, RequestInv, RequestOK, TypeOK

\* Requests keep their types and their progress is what their locals say.
LEMMA RequestsInOrder == Spec => []RequestInv
  BY RequestInvInit, RequestInvStep, PTL DEF Spec

\* The types hold in every reachable state: in particular no row is ever
\* written for a body that was not admitted.
THEOREM TypeCorrect == Spec => []TypeOK
<1>1. RequestInv => TypeOK
  BY DEF RequestInv
<1>. QED
  BY <1>1, RequestsInOrder, PTL

\* Whatever the limit and the size of a file, counting chunk by chunk accepts
\* it exactly if it fits (artifact_service.py:211, :226).
THEOREM SizeVerdictCorrect == Spec => []VerdictFollowsSize
<1>1. RequestInv => VerdictFollowsSize
  BY DEF RequestInv, RequestOK, VerdictFollowsSize
<1>. QED
  BY <1>1, RequestsInOrder, PTL

\* Nobody links a file to a version of a project he has no access to
\* (artifact_service.py:176-191).
THEOREM OnlyMembersLink == Spec => []LinkedByMember
<1>1. RequestInv => LinkedByMember
  <2> SUFFICES ASSUME RequestInv, NEW u \in Uploads, pc[u] = "created",
                      body[u].version # NoVersion
               PROVE  CheckUserProjectAccess(body[u].user, ProjectOf[body[u].version])
    BY DEF LinkedByMember
  <2>1. Associated(body[u])
    BY DEF RequestInv, RequestOK, Admitted
  <2>. QED
    BY <2>1 DEF Associated
<1>. QED
  BY <1>1, RequestsInOrder, PTL

-----------------------------------------------------------------------------
\* Ids in flight are distinct, and the storage survives.
Reliable == ~Collisions /\ ~VolatileStorage

\* What an upload in flight has written is a prefix of its file, under a key
\* nobody else writes or has a row for.
WritesPrefix(u) ==
    pc[u] = "reading" =>
      /\ artifacts[publicId[u]] = NoRow
      /\ read[u] > 0 => storage[publicId[u]] = SubSeq(body[u].file, 1, read[u])
      /\ \A v \in Uploads : pc[v] = "reading" /\ publicId[v] = publicId[u] => v = u

\* What the storage holds, for rows and for uploads in flight.
StorageInv == RecordedIsIntact /\ \A u \in Uploads : WritesPrefix(u)

\* A chunk is written under a key that has no row, and extends the prefix.
LEMMA ReadKeepsStorage ==
    ASSUME RequestInv, StorageInv, NEW u \in Uploads, ReadChunk(u)
    PROVE  StorageInv'
<1> DEFINE i == publicId[u]
           f == body[u].file
<1>1. /\ i \in ArtifactIds /\ read[u] \in 0 .. Len(f) /\ read[u] < Len(f)
      /\ f \in Seq(Chunks)
      /\ read' = [read EXCEPT ![u] = read[u] + 1]
      /\ storage' = [storage EXCEPT ![i] =
            IF read[u] = 0 \/ storage[i] = Absent THEN <<f[read[u] + 1]>>
            ELSE Append(storage[i], f[read[u] + 1])]
  BY ReadStep
<1>2. pc[u] = "reading" /\ UNCHANGED <<pc, body, publicId, artifacts>>
  BY DEF ReadChunk
<1>3. artifacts[i] = NoRow
  BY <1>2 DEF StorageInv, WritesPrefix
<1>4. storage'[i] = SubSeq(f, 1, read[u] + 1)
  <2>1. CASE read[u] = 0
    <3>1. storage'[i] = <<f[read[u] + 1]>>
      BY <1>1, <2>1 DEF RequestInv, TypeOK
    <3>2. SubSeq(f, 1, read[u] + 1) = <<f[read[u] + 1]>>
      BY <1>1, <2>1, Prefix
    <3>. QED
      BY <3>1, <3>2
  <2>2. CASE read[u] > 0
    <3>0. storage[i] = SubSeq(f, 1, read[u])
      BY <1>2, <2>2 DEF StorageInv, WritesPrefix
    <3>1. storage[i] \in Seq(Chunks) /\ storage[i] # Absent
      <4>1. SubSeq(f, 1, read[u]) \in Seq(Chunks)
        BY <1>1, Prefix
      <4>. QED
        BY <3>0, <4>1, IngestAssumption
    <3>2. storage'[i] = Append(storage[i], f[read[u] + 1])
      BY <1>1, <2>2, <3>1 DEF RequestInv, TypeOK
    <3>. QED
      BY <1>1, <3>0, <3>2, Prefix
  <2>3. read[u] \in Nat
    BY DEF RequestInv, TypeOK
  <2>. QED
    BY <2>1, <2>2, <2>3
<1>5. \A j \in ArtifactIds : j # i => storage'[j] = storage[j]
  BY <1>1 DEF RequestInv, TypeOK
<1>6. ASSUME NEW v \in Uploads PROVE WritesPrefix(v)'
  <2>1. CASE v = u
    BY <1>1, <1>2, <1>4, <2>1 DEF StorageInv, WritesPrefix, RequestInv, TypeOK
  <2>2. CASE v # u
    <3>1. pc[v] = "reading" => publicId[v] \in ArtifactIds /\ publicId[v] # i
      BY <1>2, <2>2 DEF StorageInv, WritesPrefix, RequestInv, RequestOK
    <3>2. read'[v] = read[v]
      BY <1>1, <2>2 DEF RequestInv, TypeOK
    <3>. QED
      BY <1>2, <1>5, <3>1, <3>2 DEF StorageInv, WritesPrefix
  <2>. QED
    BY <2>1, <2>2
<1>7. RecordedIsIntact'
  BY <1>2, <1>3, <1>5 DEF RecordedIsIntact, Recorded, GivenUp, StorageInv
<1>. QED
  BY <1>6, <1>7 DEF StorageInv

\* An upload that ends touches its own key and its own row only; if it records
\* them, the prefix has become the whole.
LEMMA FinishKeepsStorage ==
    ASSUME RequestInv, StorageInv, Reliable, NEW u \in Uploads, Finishes(u)
    PROVE  StorageInv'
<1> DEFINE i == publicId[u]
<1>1. pc[u] = "reading" /\ i \in ArtifactIds
  BY FinishCases
<1>2. \/ Delete(i) /\ UNCHANGED artifacts
      \/ UNCHANGED storage /\ Records(u)
      \/ Delete(i) /\ Records(u) /\ End(u, "error")
  BY FinishCases
<1>3. PICK how \in {"refused", "error", "created"} : End(u, how)
  BY FinishCases
<1>4. /\ pc'[u] # "reading" /\ \A v \in Uploads : v # u => pc'[v] = pc[v]
      /\ UNCHANGED <<body, publicId, read>>
  BY <1>1, <1>3 DEF End, RequestInv, TypeOK
<1>5. artifacts[i] = NoRow
  BY <1>1 DEF StorageInv, WritesPrefix
<1>6. \A j \in ArtifactIds : j # i =>
        storage'[j] = storage[j] /\ artifacts'[j] = artifacts[j]
  BY <1>1, <1>2 DEF Delete, Records, RequestInv, TypeOK
<1>7. ASSUME NEW v \in Uploads PROVE WritesPrefix(v)'
  <2>1. CASE v = u
    BY <1>4, <2>1 DEF WritesPrefix
  <2>2. CASE v # u
    <3>1. pc[v] = "reading" => publicId[v] \in ArtifactIds /\ publicId[v] # i
      BY <1>1, <2>2 DEF StorageInv, WritesPrefix, RequestInv, RequestOK
    <3>2. \A w \in Uploads : pc'[w] = "reading" => pc[w] = "reading"
      BY <1>4
    <3>. QED
      BY <1>4, <1>6, <2>2, <3>1, <3>2 DEF StorageInv, WritesPrefix
  <2>. QED
    BY <2>1, <2>2
<1>8. \/ artifacts'[i] = NoRow
      \/ storage'[i] = artifacts'[i].sha256
      \/ pc'[u] = "error" /\ publicId'[u] = i
  <2>1. CASE Delete(i) /\ UNCHANGED artifacts
    BY <1>5, <2>1
  <2>2. CASE UNCHANGED storage /\ Records(u)
    <3>1. artifacts'[i] = Row(body[u], read[u])
      BY <1>1, <2>2 DEF Records, RequestInv, TypeOK
    <3>2. storage[i] = SubSeq(body[u].file, 1, read[u])
      BY <1>1, <2>2 DEF Records, AtEnd, StorageInv, WritesPrefix
    <3>. QED
      BY <1>1, <2>2, <3>1, <3>2, RowTyped
  <2>3. CASE End(u, "error")
    BY <2>3 DEF End, RequestInv, TypeOK
  <2>. QED
    BY <1>2, <2>1, <2>2, <2>3
<1>9. RecordedIsIntact'
  <2>1. \A v \in Uploads : pc[v] = "error" => pc'[v] = "error" /\ publicId'[v] = publicId[v]
    BY <1>1, <1>4
  <2>2. GivenUp \subseteq GivenUp'
    BY <2>1 DEF GivenUp
  <2>3. i \in Recorded' \ GivenUp' => storage'[i] = artifacts'[i].sha256
    BY <1>8 DEF Recorded, GivenUp
  <2>. QED
    BY <1>6, <2>2, <2>3 DEF RecordedIsIntact, Recorded, StorageInv
<1>. QED
  BY <1>7, <1>9 DEF StorageInv

\* The id of an upload that begins has no row and is nobody else's.
LEMMA StartKeepsStorage ==
    ASSUME RequestInv, StorageInv, Reliable, NEW u \in Uploads, NEW b \in Bodies,
           Refuse(u, b) \/ IdsExhausted(u, b) \/ Begin(u, b)
    PROVE  StorageInv'
<1>1. pc[u] = "idle" /\ read[u] = 0 /\ UNCHANGED <<read, artifacts, storage, faults>>
  BY DEF Refuse, IdsExhausted, Begin, RequestInv, RequestOK
<1>2. \A v \in Uploads : v # u =>
        pc'[v] = pc[v] /\ body'[v] = body[v] /\ publicId'[v] = publicId[v]
  BY DEF Refuse, IdsExhausted, Begin, RequestInv, TypeOK
<1>3. pc'[u] = "reading" =>
        publicId'[u] \in ArtifactIds \ (Recorded \cup InUse)
  BY DEF Refuse, IdsExhausted, Begin, RequestInv, TypeOK, Candidates, Reliable
<1>4. pc'[u] = "reading" => artifacts[publicId'[u]] = NoRow
  BY <1>3 DEF Recorded
<1>5. \A v \in Uploads : v # u /\ pc'[v] = "reading" /\ pc'[u] = "reading" =>
        publicId'[v] # publicId'[u]
  BY <1>2, <1>3 DEF InUse, Reading
<1>6. ASSUME NEW v \in Uploads PROVE WritesPrefix(v)'
  <2>1. CASE v = u
    BY <1>1, <1>4, <1>5, <2>1 DEF WritesPrefix
  <2>2. CASE v # u
    BY <1>1, <1>2, <1>5, <2>2 DEF StorageInv, WritesPrefix
  <2>. QED
    BY <2>1, <2>2
<1>7. RecordedIsIntact'
  <2>1. GivenUp \subseteq GivenUp'
    BY <1>1, <1>2 DEF GivenUp
  <2>. QED
    BY <1>1, <2>1 DEF RecordedIsIntact, Recorded, StorageInv
<1>. QED
  BY <1>6, <1>7 DEF StorageInv

\* Every step of the uploads keeps StorageInv.
LEMMA StorageInvStep ==
    ASSUME Reliable
    PROVE  RequestInv /\ StorageInv /\ [Next]_ingestVars => StorageInv'
<1> SUFFICES ASSUME RequestInv, StorageInv, [Next]_ingestVars PROVE StorageInv'
  OBVIOUS
<1>1. CASE Crash
  <2>1. UNCHANGED <<body, publicId, read, artifacts, storage>>
    BY <1>1 DEF Crash, Reliable
  <2>2. \A u \in Uploads : pc'[u] # "reading"
    BY <1>1 DEF Crash, RequestInv, TypeOK
  <2>3. GivenUp' = GivenUp
    BY <1>1 DEF GivenUp, Crash, RequestInv, TypeOK
  <2>. QED
    BY <2>1, <2>2, <2>3 DEF StorageInv, WritesPrefix, RecordedIsIntact, Recorded
<1>2. CASE UNCHANGED ingestVars
  BY <1>2 DEF StorageInv, WritesPrefix, RecordedIsIntact, Recorded, GivenUp, ingestVars,
              requestVars
<1>. QED
  BY <1>1, <1>2, StepCases, StartKeepsStorage, ReadKeepsStorage, FinishKeepsStorage

\* The bytes under a recorded artifact are the ones its digest covers, however
\* many uploads interleave and fail and however often the process restarts
\* (artifact_service.py:205-266).
THEOREM RecordedStaysIntact ==
    ASSUME Reliable
    PROVE  Spec => []RecordedIsIntact
<1>1. Init => StorageInv
  BY IngestAssumption DEF Init, StorageInv, WritesPrefix, RecordedIsIntact, Recorded
<1>2. RequestInv /\ StorageInv /\ [Next]_ingestVars => StorageInv'
  BY StorageInvStep
<1>3. StorageInv => RecordedIsIntact
  BY DEF StorageInv
<1>. QED
  BY <1>1, <1>2, <1>3, RequestsInOrder, PTL DEF Spec

-----------------------------------------------------------------------------
\* A chunk is written under the key of an upload that is in flight.
LEMMA ReadLeavesNothing ==
    ASSUME RequestInv, NothingLeftBehind, NEW u \in Uploads, ReadChunk(u)
    PROVE  NothingLeftBehind'
<1>1. pc[u] = "reading" /\ UNCHANGED <<pc, publicId, artifacts>>
  BY DEF ReadChunk
<1>2. \A j \in ArtifactIds : j # publicId[u] => storage'[j] = storage[j]
  BY DEF ReadChunk, WriteChunk, RequestInv, TypeOK
<1>. QED
  BY <1>1, <1>2 DEF NothingLeftBehind, Recorded

\* A request that ends leaves no bytes under its key, or a row.
LEMMA FinishLeavesNothing ==
    ASSUME RequestInv, NothingLeftBehind, NEW u \in Uploads, Finishes(u)
    PROVE  NothingLeftBehind'
<1> DEFINE i == publicId[u]
<1>1. /\ pc[u] = "reading" /\ i \in ArtifactIds
      /\ \/ Delete(i) /\ UNCHANGED artifacts
         \/ UNCHANGED storage /\ Records(u)
         \/ Delete(i) /\ Records(u) /\ End(u, "error")
  BY FinishCases
<1>2. PICK how \in {"refused", "error", "created"} : End(u, how)
  BY FinishCases
<1>3. UNCHANGED publicId /\ \A v \in Uploads : v # u => pc'[v] = pc[v]
  BY <1>2 DEF End, RequestInv, TypeOK
<1>4. \A j \in ArtifactIds : j # i =>
        storage'[j] = storage[j] /\ artifacts'[j] = artifacts[j]
  BY <1>1 DEF Delete, Records, RequestInv, TypeOK
<1>5. storage'[i] = Absent \/ i \in Recorded'
  <2>1. CASE Delete(i)
    BY <1>1, <2>1 DEF Delete, RequestInv, TypeOK
  <2>2. CASE UNCHANGED storage /\ Records(u)
    <3>1. artifacts'[i] = Row(body[u], read[u])
      BY <1>1, <2>2 DEF Records, RequestInv, TypeOK
    <3>2. artifacts'[i] # NoRow
      BY <1>1, <3>1, RowTyped, IngestAssumption DEF Rows
    <3>. QED
      BY <1>1, <3>2 DEF Recorded
  <2>. QED
    BY <1>1, <2>1, <2>2
<1>6. ASSUME NEW j \in ArtifactIds, storage'[j] # Absent
      PROVE  \/ j \in Recorded'
             \/ \E v \in Uploads : pc'[v] \in {"reading", "lost"} /\ publicId'[v] = j
  <2>1. CASE j = i
    BY <1>5, <1>6, <2>1
  <2>2. CASE j # i
    BY <1>3, <1>4, <1>6, <2>2 DEF NothingLeftBehind, Recorded
  <2>. QED
    BY <2>1, <2>2
<1>. QED
  BY <1>6 DEF NothingLeftBehind

\* The id of a request that begins is its own; nobody else's changes.
LEMMA StartLeavesNothing ==
    ASSUME RequestInv, NothingLeftBehind, NEW u \in Uploads, NEW b \in Bodies,
           Refuse(u, b) \/ IdsExhausted(u, b) \/ Begin(u, b)
    PROVE  NothingLeftBehind'
<1>1. pc[u] = "idle" /\ UNCHANGED <<artifacts, storage>>
  BY DEF Refuse, IdsExhausted, Begin
<1>2. \A v \in Uploads : v # u => pc'[v] = pc[v] /\ publicId'[v] = publicId[v]
  BY DEF Refuse, IdsExhausted, Begin, RequestInv, TypeOK
<1>. QED
  BY <1>1, <1>2 DEF NothingLeftBehind, Recorded

\* A crash orphans what was in flight, and nothing else.
LEMMA CrashLeavesNothing ==
    ASSUME RequestInv, NothingLeftBehind, Crash
    PROVE  NothingLeftBehind'
<1>1. \A i \in ArtifactIds : storage'[i] # Absent => storage[i] # Absent
  BY DEF Crash, RequestInv, TypeOK
<1>2. \A v \in Uploads : pc[v] \in {"reading", "lost"} =>
        pc'[v] = "lost" /\ publicId'[v] = publicId[v]
  BY DEF Crash, RequestInv, TypeOK
<1>3. UNCHANGED artifacts
  BY DEF Crash
<1>. QED
  BY <1>1, <1>2, <1>3 DEF NothingLeftBehind, Recorded

\* Only uploads in flight or lost have bytes without a row, after every step.
LEMMA LeftBehindStep ==
    ASSUME RequestInv, NothingLeftBehind, [Next]_ingestVars
    PROVE  NothingLeftBehind'
<1>1. CASE UNCHANGED ingestVars
  BY <1>1 DEF NothingLeftBehind, Recorded, ingestVars, requestVars
<1>. QED
  BY <1>1, StepCases, StartLeavesNothing, ReadLeavesNothing, FinishLeavesNothing,
     CrashLeavesNothing

\* Whatever fails and whichever ids collide, bytes without a row belong to an
\* upload in flight or were left by a crash (artifact_service.py:163).
THEOREM CleanupCorrect == Spec => []NothingLeftBehind
<1>1. Init => NothingLeftBehind
  BY DEF Init, NothingLeftBehind
<1>2. RequestInv /\ NothingLeftBehind /\ [Next]_ingestVars => NothingLeftBehind'
  BY LeftBehindStep
<1>. QED
  BY <1>1, <1>2, RequestsInOrder, PTL DEF Spec

-----------------------------------------------------------------------------
(* The creation of versions beside the uploads: it changes which version a *)
(* row belongs to and nothing else that the invariants above speak of.     *)

\* A version takes recorded artifacts: they get its id, and perhaps a CID.
Links(v, ids) ==
    /\ artifacts' = [i \in ArtifactIds |->
         IF i \in ids THEN [artifacts[i] EXCEPT !.version = v] ELSE artifacts[i]]
    /\ UNCHANGED <<requestVars, storage, faults>>

\* A version that is being pinned was given rows, and rows are never deleted.
PlansRecorded ==
    /\ plan = [v \in Snapshots |-> plan[v]]
    /\ vpc = [v \in Snapshots |-> vpc[v]]
    /\ \A v \in Snapshots : vpc[v] = "pinning" => Range(plan[v].ids) \subseteq Recorded

\* What StartVersion does with the rows it was given, in the order they came.
Chosen(v, ids) ==
    \/ /\ DOMAIN FilesPayload(ids) # {}
       /\ plan' = [plan EXCEPT ![v] =
            [ids |-> ids, files |-> FilesPayload(ids),
             composite |-> ComputeCompositeSha256(ids)]]
       /\ vpc' = [vpc EXCEPT ![v] = "pinning"]
       /\ UNCHANGED <<artifacts, projectVersions>>
    \/ /\ DOMAIN FilesPayload(ids) = {}
       /\ CreateVersion(v, ids, ComputeCompositeSha256(ids), FallbackRoot(ids), <<>>)
       /\ UNCHANGED plan

\* Two rows of one file.
SameFile(row, other) ==
    row.name = other.name /\ row.size = other.size /\ row.sha256 = other.sha256

\* A list of the members of a set has no others.
LEMMA ListedMembers ==
    ASSUME NEW S, NEW ids \in SetToSeqs(S)
    PROVE  Range(ids) \subseteq S
  BY DEF SetToSeqs, Range

\* Linking keeps every row, its name, its size and its digest.
LEMMA LinkKeepsRows ==
    ASSUME RequestInv, NEW v \in Snapshots, NEW ids \in SUBSET Recorded, Links(v, ids)
    PROVE  /\ artifacts' \in [ArtifactIds -> Rows \cup {NoRow}]
           /\ Recorded' = Recorded
           /\ \A i \in ArtifactIds : artifacts[i] = NoRow <=> artifacts'[i] = NoRow
           /\ \A i \in Recorded : SameFile(artifacts[i], artifacts'[i])
<1>1. v \in Versions
  BY ContentAssumption
<1>2. ASSUME NEW i \in ArtifactIds
      PROVE  /\ artifacts'[i] \in Rows \cup {NoRow}
             /\ artifacts[i] = NoRow <=> artifacts'[i] = NoRow
             /\ i \in Recorded => SameFile(artifacts[i], artifacts'[i])
  <2>1. CASE i \in ids
    <3>1. artifacts[i] \in Rows /\ artifacts[i] # NoRow
      BY <2>1 DEF Recorded, RequestInv, TypeOK
    <3>2. artifacts'[i] = [artifacts[i] EXCEPT !.version = v]
      BY <2>1 DEF Links
    <3>3. artifacts'[i] \in Rows /\ SameFile(artifacts[i], artifacts'[i])
      BY <1>1, <3>1, <3>2 DEF Rows, SameFile
    <3>4. NoRow \notin Rows
      BY IngestAssumption DEF Rows
    <3>. QED
      BY <3>1, <3>3, <3>4
  <2>2. CASE i \notin ids
    BY <2>2 DEF Links, RequestInv, TypeOK, SameFile
  <2>. QED
    BY <2>1, <2>2
<1>3. artifacts' \in [ArtifactIds -> Rows \cup {NoRow}]
  BY <1>2 DEF Links
<1>. QED
  BY <1>2, <1>3 DEF Recorded

\* A step either is one of the uploads, or links recorded rows to a version.
LEMMA ContentCases ==
    ASSUME PlansRecorded, [ContentNext]_contentVars
    PROVE  \/ [Next]_ingestVars
           \/ \E v \in Snapshots, ids \in SUBSET Recorded : Links(v, ids)
<1>1. ASSUME NEW v \in Snapshots, StartVersion(v)
      PROVE  \/ UNCHANGED ingestVars
             \/ \E ids \in SUBSET Recorded : Links(v, ids)
  <2>0. PICK selected \in (SUBSET Recorded) \ {{}} :
          \E ids \in SetToSeqs(selected) : Chosen(v, ids)
    BY <1>1 DEF StartVersion, Chosen
  <2>1. PICK ids \in SetToSeqs(selected) :
          \/ UNCHANGED artifacts
          \/ CreateVersion(v, ids, ComputeCompositeSha256(ids), FallbackRoot(ids), <<>>)
    BY <2>0 DEF Chosen
  <2>2. Range(ids) \in SUBSET Recorded
    BY ListedMembers
  <2>3. UNCHANGED <<requestVars, storage, faults>>
    BY <1>1 DEF StartVersion
  <2>. QED
    BY <2>1, <2>2, <2>3 DEF CreateVersion, Links, ingestVars
<1>2. ASSUME NEW v \in Snapshots, FinishPin(v)
      PROVE  \E ids \in SUBSET Recorded : Links(v, ids)
  <2>1. Range(plan[v].ids) \in SUBSET Recorded
    BY <1>2 DEF FinishPin, PlansRecorded
  <2>. QED
    BY <1>2, <2>1 DEF FinishPin, CreateVersion, Links
<1>3. ASSUME NEW v \in Snapshots, PinFails(v) PROVE UNCHANGED ingestVars
  BY <1>3 DEF PinFails
<1>4. CASE CrashWhilePinning
  BY <1>4 DEF CrashWhilePinning, Next
<1>5. ASSUME NEW u \in Uploads,
             \/ \E b \in Bodies : Refuse(u, b) \/ IdsExhausted(u, b) \/ Begin(u, b)
             \/ HandlerStep(u)
             \/ TransferFails(u) \/ CommitFails(u) \/ RefreshFails(u)
      PROVE  Next
  BY <1>5 DEF Next
<1>6. CASE UNCHANGED contentVars
  BY <1>6 DEF contentVars
<1>. QED
  BY <1>1, <1>2, <1>3, <1>4, <1>5, <1>6 DEF ContentNext

\* No upload takes a row away or changes one.
LEMMA RowsStay ==
    ASSUME RequestInv, [Next]_ingestVars
    PROVE  \A i \in Recorded : i \in Recorded' /\ artifacts'[i] = artifacts[i]
<1>1. ASSUME NEW u \in Uploads, Finishes(u)
      PROVE  \A i \in Recorded : i \in Recorded' /\ artifacts'[i] = artifacts[i]
  <2>1. pc[u] = "reading" /\ (UNCHANGED artifacts \/ Records(u))
    BY <1>1, FinishCases
  <2>2. Row(body[u], read[u]) # NoRow
    BY <2>1, RowTyped, IngestAssumption DEF Rows
  <2>. QED
    BY <2>1, <2>2 DEF Recorded, Records, RequestInv, TypeOK
<1>2. UNCHANGED artifacts => Recorded' = Recorded
  BY DEF Recorded
<1>3. ASSUME NEW u \in Uploads, ReadChunk(u) PROVE UNCHANGED artifacts
  BY <1>3 DEF ReadChunk
<1>4. ASSUME NEW u \in Uploads, NEW b \in Bodies,
             Refuse(u, b) \/ IdsExhausted(u, b) \/ Begin(u, b)
      PROVE  UNCHANGED artifacts
  BY <1>4 DEF Refuse, IdsExhausted, Begin
<1>5. Crash => UNCHANGED artifacts
  BY DEF Crash
<1>6. UNCHANGED ingestVars => UNCHANGED artifacts
  BY DEF ingestVars
<1>. QED
  BY <1>1, <1>2, <1>3, <1>4, <1>5, <1>6, StepCases

\* Rows given to a version that is being pinned stay rows.
LEMMA PlansStep ==
    ASSUME RequestInv, PlansRecorded, [ContentNext]_contentVars
    PROVE  PlansRecorded'
<1>1. Recorded \subseteq Recorded'
  <2>1. [Next]_ingestVars => Recorded \subseteq Recorded'
    BY RowsStay
  <2>. QED
    BY <2>1, ContentCases, LinkKeepsRows
<1>2. ASSUME NEW v \in Snapshots, StartVersion(v)
      PROVE  PlansRecorded'
  <2>0. PICK selected \in (SUBSET Recorded) \ {{}} :
          \E ids \in SetToSeqs(selected) : Chosen(v, ids)
    BY <1>2 DEF StartVersion, Chosen
  <2>1. PICK ids \in SetToSeqs(selected) :
          \/ /\ plan' = [plan EXCEPT ![v] =
                  [ids |-> ids, files |-> FilesPayload(ids),
                   composite |-> ComputeCompositeSha256(ids)]]
             /\ vpc' = [vpc EXCEPT ![v] = "pinning"]
          \/ UNCHANGED plan /\ vpc' = [vpc EXCEPT ![v] = "done"]
    BY <2>0 DEF Chosen, CreateVersion
  <2>2. Range(ids) \subseteq Recorded'
    BY <1>1, ListedMembers
  <2>3. /\ plan' = [w \in Snapshots |-> plan'[w]] /\ vpc' = [w \in Snapshots |-> vpc'[w]]
        /\ \A w \in Snapshots : w # v => plan'[w] = plan[w] /\ vpc'[w] = vpc[w]
        /\ vpc'[v] = "pinning" => plan'[v].ids = ids
    BY <2>1 DEF PlansRecorded
  <2>4. ASSUME NEW w \in Snapshots, vpc'[w] = "pinning"
        PROVE  Range(plan'[w].ids) \subseteq Recorded'
    BY <1>1, <2>2, <2>3, <2>4 DEF PlansRecorded
  <2>. QED
    BY <2>3, <2>4 DEF PlansRecorded
<1>3. ASSUME UNCHANGED plan, vpc' = [w \in Snapshots |-> vpc'[w]],
             \A w \in Snapshots : vpc'[w] = "pinning" => vpc[w] = "pinning"
      PROVE  PlansRecorded'
  BY <1>1, <1>3 DEF PlansRecorded
<1>4. ASSUME NEW v \in Snapshots, FinishPin(v) \/ PinFails(v) PROVE PlansRecorded'
  BY <1>3, <1>4 DEF FinishPin, CreateVersion, PinFails, PlansRecorded
<1>5. CASE CrashWhilePinning
  BY <1>3, <1>5 DEF CrashWhilePinning, PlansRecorded
<1>6. CASE UNCHANGED versionVars
  BY <1>3, <1>6 DEF versionVars, PlansRecorded
<1>. QED
  BY <1>2, <1>4, <1>5, <1>6 DEF ContentNext, contentVars

\* What a link changes is in none of the invariants of the uploads.
LEMMA LinkKeepsIngest ==
    ASSUME RequestInv, NEW v \in Snapshots, NEW ids \in SUBSET Recorded, Links(v, ids)
    PROVE  /\ RequestInv'
           /\ NothingLeftBehind => NothingLeftBehind'
           /\ StorageInv => StorageInv'
<1>1. /\ artifacts' \in [ArtifactIds -> Rows \cup {NoRow}]
      /\ Recorded' = Recorded
      /\ \A i \in ArtifactIds : artifacts[i] = NoRow <=> artifacts'[i] = NoRow
      /\ \A i \in Recorded : artifacts'[i].sha256 = artifacts[i].sha256
  BY LinkKeepsRows DEF SameFile
<1>2. UNCHANGED <<pc, body, publicId, read, storage, faults>>
  BY DEF Links, requestVars
<1>3. \A u \in Uploads : RequestOK(u)'
  BY <1>2, OthersKeep DEF RequestInv
<1>4. TypeOK'
  BY <1>1, <1>2 DEF RequestInv, TypeOK, Rows
<1>5. RequestInv'
  BY <1>3, <1>4 DEF RequestInv
<1>6. NothingLeftBehind => NothingLeftBehind'
  BY <1>1, <1>2 DEF NothingLeftBehind
<1>7. RecordedIsIntact => RecordedIsIntact'
  BY <1>1, <1>2 DEF RecordedIsIntact, GivenUp
<1>8. ASSUME NEW u \in Uploads, WritesPrefix(u) PROVE WritesPrefix(u)'
  BY <1>1, <1>2, <1>8 DEF WritesPrefix, RequestInv, RequestOK
<1>. QED
  BY <1>5, <1>6, <1>7, <1>8 DEF StorageInv

\* RequestInv and PlansRecorded hold with versions being created.
LEMMA ContentOrder == ContentSpec => [](RequestInv /\ PlansRecorded)
<1>1. ContentInit => RequestInv /\ PlansRecorded
  BY RequestInvInit DEF ContentInit, PlansRecorded
<1>2. RequestInv /\ PlansRecorded /\ [ContentNext]_contentVars =>
        RequestInv' /\ PlansRecorded'
  BY ContentCases, RequestInvStep, LinkKeepsIngest, PlansStep
<1>. QED
  BY <1>1, <1>2, PTL DEF ContentSpec

\* With versions created beside the uploads, and crashes and collisions at any
\* moment: a failed upload leaves no bytes, and the size of a file is judged as
\* a whole (artifact_service.py:163, :211, :226).
THEOREM CleanBesideVersions == ContentSpec => [](NothingLeftBehind /\ VerdictFollowsSize)
<1>1. ContentInit => NothingLeftBehind
  BY DEF ContentInit, Init, NothingLeftBehind
<1>2. RequestInv /\ PlansRecorded /\ NothingLeftBehind /\ [ContentNext]_contentVars =>
        NothingLeftBehind'
  BY ContentCases, LeftBehindStep, LinkKeepsIngest
<1>3. RequestInv => VerdictFollowsSize
  BY DEF RequestInv, RequestOK, VerdictFollowsSize
<1>. QED
  BY <1>1, <1>2, <1>3, ContentOrder, PTL DEF ContentSpec

\* With versions created beside the uploads, which link the rows and read their
\* bytes by id, the bytes of a recorded artifact stay the ones its digest covers
\* (project_version_service.py:355-372 relies on it).
THEOREM IntactBesideVersions ==
    ASSUME Reliable
    PROVE  ContentSpec => []RecordedIsIntact
<1>1. ContentInit => StorageInv
  BY IngestAssumption DEF ContentInit, Init, StorageInv, WritesPrefix, RecordedIsIntact,
     Recorded
<1>2. RequestInv /\ PlansRecorded /\ StorageInv /\ [ContentNext]_contentVars => StorageInv'
  BY ContentCases, StorageInvStep, LinkKeepsIngest
<1>3. StorageInv => RecordedIsIntact
  BY DEF StorageInv
<1>. QED
  BY <1>1, <1>2, <1>3, ContentOrder, PTL DEF ContentSpec

-----------------------------------------------------------------------------
(* The digest: why the order of the rows does not matter.                  *)

\* A stripped name has one position in the byte order.
LEMMA NamesPositioned ==
    ASSUME NEW name \in CleanNames
    PROVE  /\ NamePosition(name) \in Nat
           /\ \A other \in CleanNames :
                NamePosition(other) = NamePosition(name) => other = name
<1>1. \A n \in CleanNames : \E p \in DOMAIN NameOrder : NameOrder[p] = n
  BY ContentAssumption DEF Range
<1>2. \A n \in CleanNames :
        NamePosition(n) \in DOMAIN NameOrder /\ NameOrder[NamePosition(n)] = n
  BY <1>1 DEF NamePosition
<1>3. DOMAIN NameOrder \subseteq Nat
  BY ContentAssumption, LenProperties
<1>. QED
  BY <1>2, <1>3

\* A strict total order of S.
StrictOrder(order, S) ==
    /\ \A x \in S : <<x, x>> \notin order
    /\ \A x, y, z \in S :
         <<x, y>> \in order /\ <<y, z>> \in order => <<x, z>> \in order
    /\ \A x, y \in S : x = y \/ <<x, y>> \in order \/ <<y, x>> \in order

\* How many of S come before x, plus one.
RankIn(S, order, x) == Cardinality({y \in S : <<y, x>> \in order}) + 1

\* The ranks of a finite set in a strict order are 1 .. its size.
LEMMA OrderRanks ==
    ASSUME NEW S, IsFiniteSet(S), NEW order, StrictOrder(order, S)
    PROVE  /\ Cardinality(S) \in Nat
           /\ \A x \in S : RankIn(S, order, x) \in 1 .. Cardinality(S)
           /\ \A x, y \in S : RankIn(S, order, x) = RankIn(S, order, y) => x = y
           /\ \A n \in 1 .. Cardinality(S) : \E x \in S : RankIn(S, order, x) = n
<1> DEFINE below(x) == {y \in S : <<y, x>> \in order}
           ranks == [x \in S |-> Cardinality(below(x)) + 1]
           N == Cardinality(S)
<1>1. N \in Nat
  BY FS_CardinalityType
<1>2. ASSUME NEW x \in S
      PROVE  /\ IsFiniteSet(below(x)) /\ Cardinality(below(x)) \in Nat
             /\ Cardinality(below(x)) + 1 \in 1 .. N
  <2>1. below(x) \in SUBSET S
    OBVIOUS
  <2>2. IsFiniteSet(below(x)) /\ Cardinality(below(x)) <= N
    BY <2>1, FS_Subset
  <2>3. N = Cardinality(below(x)) => S = below(x)
    BY <2>1, FS_Subset
  <2>4. x \notin below(x)
    BY DEF StrictOrder
  <2>5. Cardinality(below(x)) \in Nat
    BY <2>2, FS_CardinalityType
  <2>. HIDE DEF below, N
  <2>. QED
    BY <1>1, <2>2, <2>3, <2>4, <2>5
<1>3. ASSUME NEW x \in S, NEW y \in S, <<x, y>> \in order
      PROVE  Cardinality(below(x)) < Cardinality(below(y))
  <2>1. below(x) \in SUBSET below(y)
    BY <1>3 DEF StrictOrder
  <2>2. x \in below(y) /\ x \notin below(x)
    BY <1>3 DEF StrictOrder
  <2>3. IsFiniteSet(below(y))
    BY <1>2
  <2>4. /\ Cardinality(below(x)) <= Cardinality(below(y))
        /\ Cardinality(below(y)) = Cardinality(below(x)) => below(y) = below(x)
    BY <2>1, <2>3, FS_Subset
  <2>5. Cardinality(below(x)) \in Nat /\ Cardinality(below(y)) \in Nat
    BY <1>2
  <2>. HIDE DEF below
  <2>. QED
    BY <2>2, <2>4, <2>5
<1>4. \A x \in S : ranks[x] \in 1 .. N
  <2>. SUFFICES ASSUME NEW x \in S PROVE Cardinality(below(x)) + 1 \in 1 .. N
    OBVIOUS
  <2>. QED
    BY <1>2
<1>5. ASSUME NEW x \in S, NEW y \in S, x # y PROVE ranks[x] # ranks[y]
  <2>1. <<x, y>> \in order \/ <<y, x>> \in order
    BY <1>5 DEF StrictOrder
  <2>2. Cardinality(below(x)) \in Nat /\ Cardinality(below(y)) \in Nat
    BY <1>2
  <2>3. Cardinality(below(x)) # Cardinality(below(y))
    <3>1. Cardinality(below(x)) < Cardinality(below(y)) \/ Cardinality(below(y)) < Cardinality(below(x))
      BY <1>3, <2>1
    <3>. HIDE DEF below
    <3>. QED
      BY <2>2, <3>1
  <2>4. ranks[x] = Cardinality(below(x)) + 1 /\ ranks[y] = Cardinality(below(y)) + 1
    OBVIOUS
  <2>. HIDE DEF below, ranks
  <2>. QED
    BY <2>2, <2>3, <2>4
<1>6. ranks \in Injection(S, 1 .. N)
  <2>1. ranks \in [S -> 1 .. N]
    BY <1>4
  <2>2. IsInjective(ranks)
    BY <1>5 DEF IsInjective
  <2>. QED
    BY <2>1, <2>2 DEF Injection
<1>7. IsFiniteSet(1 .. N) /\ Cardinality(1 .. N) = N
  <2>. HIDE DEF N
  <2>. QED
    BY <1>1, FS_Interval
<1>8. ranks \in Surjection(S, 1 .. N)
  <2>. HIDE DEF ranks
  <2>. QED
    BY <1>6, <1>7, FS_Injection DEF N
<1>9. \A n \in 1 .. N : \E x \in S : ranks[x] = n
  BY <1>8 DEF Surjection
<1>10. \A x \in S : RankIn(S, order, x) = ranks[x]
  BY DEF RankIn
<1>. HIDE DEF ranks
<1>. QED
  BY <1>1, <1>4, <1>5, <1>9, <1>10

\* How many of S have a smaller key, plus one.
Rank(S, key, x) == Cardinality({y \in S : key[y] < key[x]}) + 1

\* The ranks of a finite set by an injective key are 1 .. its size.
LEMMA RanksOnto ==
    ASSUME NEW S, IsFiniteSet(S), NEW key \in [S -> Nat], IsInjective(key)
    PROVE  /\ Cardinality(S) \in Nat
           /\ \A x \in S : Rank(S, key, x) \in 1 .. Cardinality(S)
           /\ \A x, y \in S : Rank(S, key, x) = Rank(S, key, y) => x = y
           /\ \A n \in 1 .. Cardinality(S) : \E x \in S : Rank(S, key, x) = n
<1> DEFINE order == {pair \in S \X S : key[pair[1]] < key[pair[2]]}
<1>1. \A x, y \in S : <<x, y>> \in order <=> key[x] < key[y]
  OBVIOUS
<1>. HIDE DEF order
<1>2. StrictOrder(order, S)
  BY <1>1 DEF StrictOrder, IsInjective
<1>3. \A x \in S : Rank(S, key, x) = RankIn(S, order, x)
  BY <1>1 DEF Rank, RankIn
<1>. QED
  BY <1>2, <1>3, OrderRanks

\* Two members of one rank are one.
LEMMA RanksDiffer ==
    ASSUME NEW S, IsFiniteSet(S), NEW key \in [S -> Nat], IsInjective(key),
           NEW x \in S, NEW y \in S, Rank(S, key, x) = Rank(S, key, y)
    PROVE  x = y
  BY RanksOnto

\* Every file name is stripped to a name.
LEMMA NamesClean == \A n \in FileNames : CleanName[n] \in CleanNames
  BY ContentAssumption DEF CleanNames, Range

\* How many of these stripped names come before this one, plus one.
PlaceAmong(names, name) ==
    Cardinality({n \in names : NamePosition(n) < NamePosition(name)}) + 1

\* N lines, one for each of these stripped names.
Lists(lines, N, names) ==
    /\ N \in Nat /\ DOMAIN lines = 1 .. N /\ names \subseteq CleanNames
    /\ \A k \in 1 .. N : lines[k].name \in names
    /\ \A n \in names : \E k \in 1 .. N : lines[k].name = n
    /\ \A j, k \in 1 .. N : lines[j].name = lines[k].name => j = k

\* There are as many names as lines.
LEMMA ListedNames ==
    ASSUME NEW lines, NEW N, NEW names, Lists(lines, N, names)
    PROVE  IsFiniteSet(names) /\ Cardinality(names) = N
<1>1. IsFiniteSet(1 .. N) /\ Cardinality(1 .. N) = N
  BY FS_Interval DEF Lists
<1>2. [k \in 1 .. N |-> lines[k].name] \in Bijection(1 .. N, names)
  BY DEF Bijection, Injection, Surjection, IsInjective, Lists
<1>3. ExistsBijection(1 .. N, names)
  BY <1>2 DEF ExistsBijection
<1>. QED
  BY <1>1, <1>3, FS_Bijection

\* The places of the lines are 1 .. their number.
LEMMA PlacesOnto ==
    ASSUME NEW lines, NEW N, NEW names, Lists(lines, N, names)
    PROVE  /\ \A n \in 1 .. N : \E k \in 1 .. N : Place(lines, k) = n
           /\ \A j, k \in 1 .. N : Place(lines, j) = Place(lines, k) => j = k
<1> DEFINE rows == 1 .. N
           position == [k \in rows |-> NamePosition(lines[k].name)]
<1>1. position \in [rows -> Nat] /\ IsInjective(position)
  BY NamesPositioned DEF IsInjective, Lists
<1>2. IsFiniteSet(rows) /\ Cardinality(rows) = N
  BY FS_Interval DEF Lists
<1>3. ASSUME NEW k \in rows PROVE Place(lines, k) = Rank(rows, position, k)
  <2>1. \A j \in rows : Before(lines, j, k) <=> position[j] < position[k]
    BY <1>1 DEF Before, Lists
  <2>. QED
    BY <2>1 DEF Place, Rank, Lists
<1>4. /\ \A n \in 1 .. Cardinality(rows) : \E k \in rows : Rank(rows, position, k) = n
      /\ \A j, k \in rows : Rank(rows, position, j) = Rank(rows, position, k) => j = k
  <2>. HIDE DEF rows, position
  <2>. QED
    BY <1>1, <1>2, RanksOnto
<1>. QED
  BY <1>2, <1>3, <1>4

\* The places of names differ.
LEMMA NamePlacesDiffer ==
    ASSUME NEW names \in SUBSET CleanNames, IsFiniteSet(names),
           NEW m \in names, NEW n \in names, PlaceAmong(names, m) = PlaceAmong(names, n)
    PROVE  m = n
<1> DEFINE order == [x \in names |-> NamePosition(x)]
<1>1. order \in [names -> Nat] /\ IsInjective(order)
  BY NamesPositioned DEF IsInjective
<1>2. Rank(names, order, m) = Rank(names, order, n)
  BY DEF Rank, PlaceAmong
<1>. HIDE DEF order
<1>. QED
  BY <1>1, <1>2, RanksDiffer

\* The place of a line is the place of its name among the names.
LEMMA PlaceOfName ==
    ASSUME NEW lines, NEW N, NEW names, Lists(lines, N, names), NEW k \in 1 .. N
    PROVE  PlaceAmong(names, lines[k].name) = Place(lines, k)
<1> DEFINE rows == 1 .. N
           earlier == {j \in rows : Before(lines, j, k)}
           smaller == {n \in names : NamePosition(n) < NamePosition(lines[k].name)}
<1>1. \A j \in rows :
        Before(lines, j, k) <=> NamePosition(lines[j].name) < NamePosition(lines[k].name)
  BY NamesPositioned DEF Before, Lists
<1>2. /\ \A j \in earlier : lines[j].name \in smaller
      /\ \A n \in smaller : \E j \in earlier : lines[j].name = n
      /\ \A i, j \in earlier : lines[i].name = lines[j].name => i = j
  BY <1>1 DEF Lists
<1>3. IsFiniteSet(earlier)
  <2>1. IsFiniteSet(rows) /\ earlier \in SUBSET rows
    BY FS_Interval DEF Lists
  <2>. HIDE DEF earlier, rows
  <2>. QED
    BY <2>1, FS_Subset
<1>4. PlaceAmong(names, lines[k].name) = Cardinality(smaller) + 1
  BY DEF PlaceAmong
<1>5. Place(lines, k) = Cardinality(earlier) + 1
  BY DEF Place, Lists
<1>. HIDE DEF earlier, smaller
<1>6. [j \in earlier |-> lines[j].name] \in Bijection(earlier, smaller)
  BY <1>2 DEF Bijection, Injection, Surjection, IsInjective
<1>7. ExistsBijection(earlier, smaller)
  BY <1>6 DEF ExistsBijection
<1>8. Cardinality(smaller) = Cardinality(earlier)
  BY <1>3, <1>7, FS_Bijection
<1>. QED
  BY <1>4, <1>5, <1>8

\* The n-th line of the sorted ones is the one with the n-th name.
LEMMA NthLine ==
    ASSUME NEW lines, NEW N, NEW names, Lists(lines, N, names), NEW n \in 1 .. N
    PROVE  \E k \in 1 .. N :
             /\ SortedByName(lines)[n] = lines[k]
             /\ lines[k].name \in names /\ PlaceAmong(names, lines[k].name) = n
             /\ (CHOOSE m \in names : PlaceAmong(names, m) = n) = lines[k].name
<1>1. PICK k \in 1 .. N : Place(lines, k) = n
  BY PlacesOnto
<1>2. \A j \in 1 .. N : Place(lines, j) = n => j = k
  BY <1>1, PlacesOnto
<1>3. SortedByName(lines)[n] = lines[k]
  BY <1>1, <1>2 DEF SortedByName, Lists
<1>4. lines[k].name \in names /\ PlaceAmong(names, lines[k].name) = n
  <2>1. lines[k].name \in names
    BY DEF Lists
  <2>. QED
    BY <1>1, <2>1, PlaceOfName
<1>5. names \in SUBSET CleanNames /\ IsFiniteSet(names)
  <2>1. names \in SUBSET CleanNames
    BY DEF Lists
  <2>. QED
    BY <2>1, ListedNames
<1>6. ASSUME NEW m \in names, PlaceAmong(names, m) = n PROVE m = lines[k].name
  <2>1. PlaceAmong(names, m) = PlaceAmong(names, lines[k].name)
    BY <1>4, <1>6
  <2>. QED
    BY <1>4, <1>5, <2>1, NamePlacesDiffer
<1>. QED
  BY <1>3, <1>4, <1>6

\* These are the names of the files, stripped, and no two of them are the same.
StripTo(files, names) ==
    /\ files \in SUBSET FileNames /\ names \in SUBSET CleanNames
    /\ \A n \in files : CleanName[n] \in names
    /\ \A c \in names : \E n \in files : CleanName[n] = c
    /\ \A m, n \in files : CleanName[m] = CleanName[n] => m = n

\* The places of files whose stripped names differ are those of these names.
LEMMA PlacesOfFiles ==
    ASSUME NEW files, NEW names, IsFiniteSet(names), StripTo(files, names)
    PROVE  /\ Cardinality(files) = Cardinality(names)
           /\ \A n \in files : NamePlace(files, n) = PlaceAmong(names, CleanName[n])
<1>1. ASSUME NEW some \in SUBSET files, NEW kept \in SUBSET names,
             \A n \in some : CleanName[n] \in kept,
             \A c \in kept : \E n \in some : CleanName[n] = c
      PROVE  Cardinality(some) = Cardinality(kept)
  <2> DEFINE file == [c \in kept |-> CHOOSE n \in some : CleanName[n] = c]
  <2>1. \A c \in kept : file[c] \in some /\ CleanName[file[c]] = c
    BY <1>1
  <2>2. \A n \in some : CleanName[n] \in kept /\ file[CleanName[n]] = n
    BY <1>1, <2>1 DEF StripTo
  <2>3. file \in [kept -> some]
    BY <2>1
  <2>. HIDE DEF file
  <2>4. file \in Bijection(kept, some)
    BY <2>1, <2>2, <2>3 DEF Bijection, Injection, Surjection, IsInjective
  <2>5. IsFiniteSet(kept)
    BY FS_Subset
  <2>. QED
    BY <2>4, <2>5, FS_Bijection DEF ExistsBijection
<1>2. ASSUME NEW n \in files PROVE NamePlace(files, n) = PlaceAmong(names, CleanName[n])
  <2> DEFINE before == {m \in files :
                          NamePosition(CleanName[m]) < NamePosition(CleanName[n])}
             below == {c \in names : NamePosition(c) < NamePosition(CleanName[n])}
  <2>1. /\ \A m \in before : CleanName[m] \in below
        /\ \A c \in below : \E m \in before : CleanName[m] = c
    BY DEF StripTo
  <2>2. NamePlace(files, n) = Cardinality(before) + 1
    BY DEF NamePlace
  <2>3. PlaceAmong(names, CleanName[n]) = Cardinality(below) + 1
    BY DEF PlaceAmong
  <2>4. before \in SUBSET files /\ below \in SUBSET names
    OBVIOUS
  <2>. HIDE DEF before, below
  <2>. QED
    BY <1>1, <2>1, <2>2, <2>3, <2>4
<1>3. /\ \A n \in files : CleanName[n] \in names
      /\ \A c \in names : \E n \in files : CleanName[n] = c
  BY DEF StripTo
<1>. QED
  BY <1>1, <1>2, <1>3

\* In whatever order the lines come, sorted they are those of a directory with
\* the same files.
LEMMA SortedLinesOfFiles ==
    ASSUME NEW lines, NEW N, NEW files, NEW names, StripTo(DOMAIN files, names),
           Lists(lines, N, names),
           \A k \in 1 .. N : \E n \in DOMAIN files :
             lines[k] = [name |-> CleanName[n], size |-> Len(files[n]), sha256 |-> files[n]]
    PROVE  SortedByName(lines) = DirectoryLines(files)
<1>1. IsFiniteSet(names) /\ Cardinality(names) = N /\ names \in SUBSET CleanNames
  <2>1. names \in SUBSET CleanNames
    BY DEF StripTo
  <2>. QED
    BY <2>1, ListedNames
<1>2. /\ Cardinality(DOMAIN files) = N
      /\ \A n \in DOMAIN files :
           NamePlace(DOMAIN files, n) = PlaceAmong(names, CleanName[n])
  BY <1>1, PlacesOfFiles
<1>3. ASSUME NEW n \in 1 .. N
      PROVE  SortedByName(lines)[n] = DirectoryLines(files)[n]
  <2>1. PICK k \in 1 .. N :
          SortedByName(lines)[n] = lines[k] /\ PlaceAmong(names, lines[k].name) = n
    BY NthLine
  <2>2. PICK m \in DOMAIN files :
          lines[k] = [name |-> CleanName[m], size |-> Len(files[m]), sha256 |-> files[m]]
    OBVIOUS
  <2>3. NamePlace(DOMAIN files, m) = n
    BY <1>2, <2>1, <2>2
  <2>4. ASSUME NEW other \in DOMAIN files, NamePlace(DOMAIN files, other) = n
        PROVE  other = m
    <3>1. PlaceAmong(names, CleanName[other]) = PlaceAmong(names, CleanName[m])
      BY <1>2, <2>3, <2>4
    <3>2. CleanName[other] \in names /\ CleanName[m] \in names
      BY DEF StripTo
    <3>3. CleanName[other] = CleanName[m]
      BY <1>1, <3>1, <3>2, NamePlacesDiffer
    <3>. QED
      BY <3>3 DEF StripTo
  <2>5. (CHOOSE o \in DOMAIN files : NamePlace(DOMAIN files, o) = n) = m
    BY <2>3, <2>4
  <2>. QED
    BY <1>2, <2>1, <2>2, <2>5 DEF DirectoryLines
<1>4. /\ SortedByName(lines) = [n \in 1 .. N |-> SortedByName(lines)[n]]
      /\ DirectoryLines(files) = [n \in 1 .. N |-> DirectoryLines(files)[n]]
  BY <1>2 DEF SortedByName, DirectoryLines, Lists
<1>. QED
  BY <1>3, <1>4

-----------------------------------------------------------------------------
(* What is pinned under the root of a version.                             *)

\* The size of a row is the length of what its digest covers.
RowsMeasured == \A i \in Recorded : artifacts[i].size = Len(artifacts[i].sha256)

\* The artifacts of a version, or of one being pinned, of different names and
\* none of them given up.
Sound(ids) == ~Namesakes(ids) /\ ids \cap GivenUp = {}

\* Both halves of a version that is being pinned were computed from the same bytes.
PlanReproduces(v) ==
    vpc[v] = "pinning" /\ Sound(Range(plan[v].ids)) =>
      /\ plan[v].files \in Directories
      /\ DigestOfDirectory(plan[v].files) = plan[v].composite

\* Versions are of recorded artifacts, and what is pinned is what was hashed.
RootInv ==
    /\ RowsMeasured
    /\ projectVersions = [v \in Snapshots |-> projectVersions[v]]
    /\ \A v \in Created : projectVersions[v].artifacts \subseteq Recorded
    /\ \A v \in Snapshots : PlanReproduces(v)
    /\ RootReproducesDigest

\* A row that a version was given has a root that reproduces its digest.
Reproduces(row) ==
    Sound(row.artifacts) =>
      /\ row.root # Absent /\ row.root[1] = "directory"
      /\ DigestOfDirectory(row.root[2]) = row.composite

\* The property, version by version.
LEMMA RootByVersion ==
    RootReproducesDigest <=> \A v \in Created : Reproduces(projectVersions[v])
  BY DEF RootReproducesDigest, Reproduces, Sound

\* No upload whose client was told that it failed is taken back.
LEMMA GivenUpGrows ==
    ASSUME RequestInv, [Next]_ingestVars
    PROVE  GivenUp \subseteq GivenUp'
<1>1. ASSUME \A u \in Uploads :
               pc[u] = "error" => pc'[u] = "error" /\ publicId'[u] = publicId[u]
      PROVE  GivenUp \subseteq GivenUp'
  BY <1>1 DEF GivenUp
<1>2. ASSUME NEW u \in Uploads, Finishes(u) PROVE GivenUp \subseteq GivenUp'
  <2>1. PICK how \in {"refused", "error", "created"} : End(u, how)
    BY <1>2, FinishCases
  <2>2. pc[u] = "reading"
    BY <1>2, FinishCases
  <2>. QED
    BY <1>1, <2>1, <2>2 DEF End, RequestInv, TypeOK
<1>3. ASSUME NEW u \in Uploads, NEW b \in Bodies,
             Refuse(u, b) \/ IdsExhausted(u, b) \/ Begin(u, b)
      PROVE  GivenUp \subseteq GivenUp'
  BY <1>1, <1>3 DEF Refuse, IdsExhausted, Begin, RequestInv, TypeOK
<1>4. ASSUME NEW u \in Uploads, ReadChunk(u) PROVE GivenUp \subseteq GivenUp'
  BY <1>4 DEF ReadChunk, GivenUp
<1>5. CASE Crash
  BY <1>1, <1>5 DEF Crash, RequestInv, TypeOK
<1>6. CASE UNCHANGED ingestVars
  BY <1>6 DEF ingestVars, requestVars, GivenUp
<1>. QED
  BY <1>2, <1>3, <1>4, <1>5, <1>6, StepCases

\* A new row is measured.
LEMMA MeasuredStep ==
    ASSUME RequestInv, RowsMeasured, [Next]_ingestVars
    PROVE  RowsMeasured'
<1>1. ASSUME UNCHANGED artifacts PROVE RowsMeasured'
  BY <1>1 DEF RowsMeasured, Recorded
<1>2. ASSUME NEW u \in Uploads, Finishes(u) PROVE RowsMeasured'
  <2>1. CASE UNCHANGED artifacts
    BY <1>1, <2>1
  <2>2. CASE Records(u)
    <3> DEFINE row == Row(body[u], read[u])
    <3>1. /\ read[u] \in 0 .. Len(body[u].file) /\ body[u].file \in Seq(Chunks)
          /\ publicId[u] \in ArtifactIds
      BY <1>2, FinishCases, AdmittedBody DEF RequestInv, RequestOK, TypeOK
    <3>2. Len(SubSeq(body[u].file, 1, read[u])) = read[u]
      BY <3>1, LenProperties, SubSeqProperties
    <3>3. row.size = Len(row.sha256)
      BY <3>2 DEF Row
    <3>4. artifacts' = [artifacts EXCEPT ![publicId[u]] = row]
      BY <2>2 DEF Records
    <3>. HIDE DEF row
    <3>. QED
      BY <3>1, <3>3, <3>4 DEF RowsMeasured, Recorded, RequestInv, TypeOK
  <2>. QED
    BY <1>2, <2>1, <2>2, FinishCases
<1>3. ASSUME NEW u \in Uploads, ReadChunk(u) PROVE UNCHANGED artifacts
  BY <1>3 DEF ReadChunk
<1>4. ASSUME NEW u \in Uploads, NEW b \in Bodies,
             Refuse(u, b) \/ IdsExhausted(u, b) \/ Begin(u, b)
      PROVE  UNCHANGED artifacts
  BY <1>4 DEF Refuse, IdsExhausted, Begin
<1>5. Crash => UNCHANGED artifacts
  BY DEF Crash
<1>6. UNCHANGED ingestVars => UNCHANGED artifacts
  BY DEF ingestVars
<1>. QED
  BY <1>1, <1>2, <1>3, <1>4, <1>5, <1>6, StepCases

\* Whatever happens, recorded files stay what they are, and rows are measured.
LEMMA FilesStay ==
    ASSUME RequestInv, PlansRecorded, RowsMeasured, [ContentNext]_contentVars
    PROVE  /\ \A i \in Recorded : i \in Recorded' /\ SameFile(artifacts[i], artifacts'[i])
           /\ GivenUp \subseteq GivenUp'
           /\ RowsMeasured'
<1>1. CASE [Next]_ingestVars
  BY <1>1, RowsStay, GivenUpGrows, MeasuredStep DEF SameFile
<1>2. ASSUME NEW v \in Snapshots, NEW ids \in SUBSET Recorded, Links(v, ids)
      PROVE  /\ \A i \in Recorded :
                   i \in Recorded' /\ SameFile(artifacts[i], artifacts'[i])
             /\ GivenUp \subseteq GivenUp'
             /\ RowsMeasured'
  <2>1. /\ Recorded' = Recorded
        /\ \A i \in Recorded : SameFile(artifacts[i], artifacts'[i])
    BY <1>2, LinkKeepsRows
  <2>2. GivenUp' = GivenUp
    BY <1>2 DEF Links, requestVars, GivenUp
  <2>3. RowsMeasured'
    BY <2>1 DEF RowsMeasured, SameFile
  <2>. QED
    BY <2>1, <2>2, <2>3
<1>. QED
  BY <1>1, <1>2, ContentCases

\* A set of recorded artifacts that is sound was so before.
LEMMA SoundBefore ==
    ASSUME RequestInv, PlansRecorded, RowsMeasured, [ContentNext]_contentVars,
           NEW ids \in SUBSET Recorded, Sound(ids)'
    PROVE  Sound(ids)
<1>1. /\ \A i \in Recorded : SameFile(artifacts[i], artifacts'[i])
      /\ GivenUp \subseteq GivenUp'
  BY FilesStay
<1>. QED
  BY <1>1 DEF Sound, Namesakes, SameFile

\* The directory that is pinned for sound artifacts has each of their files, and
\* the digest over their rows, in whatever order these come, is the one it gives.
LEMMA SnapshotDigest ==
    ASSUME RequestInv, RecordedIsIntact, RowsMeasured,
           NEW S \in SUBSET Recorded, S # {}, NEW ids \in SetToSeqs(S), Sound(Range(ids))
    PROVE  /\ DOMAIN FilesPayload(ids) # {}
           /\ FilesPayload(ids) \in Directories
           /\ DigestOfDirectory(FilesPayload(ids)) = ComputeCompositeSha256(ids)
<1> DEFINE N == Cardinality(S)
           files == FilesPayload(ids)
           lines == [k \in DOMAIN ids |-> Line(ids[k])]
<1>1. N \in Nat /\ N # 0
  <2>1. S \in SUBSET ArtifactIds
    BY DEF Recorded
  <2>2. IsFiniteSet(S)
    BY <2>1, FS_Subset, ContentAssumption
  <2>. QED
    BY <2>2, FS_CardinalityType, FS_EmptySet
<1>2. /\ ids \in [1 .. N -> S] /\ DOMAIN ids = 1 .. N
      /\ \A j, k \in 1 .. N : j # k => ids[j] # ids[k]
  BY DEF SetToSeqs
<1>. HIDE DEF N, files, lines
<1>3. ASSUME NEW k \in 1 .. N
      PROVE  /\ ids[k] \in Recorded \ GivenUp /\ ids[k] \in Range(ids)
             /\ artifacts[ids[k]] \in Rows
             /\ artifacts[ids[k]].size = Len(artifacts[ids[k]].sha256)
             /\ storage[ids[k]] = artifacts[ids[k]].sha256
             /\ storage[ids[k]] # Absent
  <2>1. ids[k] \in Recorded /\ ids[k] \in Range(ids)
    BY <1>2 DEF Range
  <2>2. ids[k] \notin GivenUp
    BY <2>1 DEF Sound
  <2>3. artifacts[ids[k]] \in Rows
    BY <2>1 DEF Recorded, RequestInv, TypeOK
  <2>4. storage[ids[k]] = artifacts[ids[k]].sha256
    BY <2>1, <2>2 DEF RecordedIsIntact
  <2>5. artifacts[ids[k]].sha256 \in Seq(Chunks)
    BY <2>3 DEF Rows
  <2>. QED
    BY <2>1, <2>2, <2>3, <2>4, <2>5, IngestAssumption DEF RowsMeasured
<1>c. \A j, k \in 1 .. N :
        CleanName[artifacts[ids[j]].name] = CleanName[artifacts[ids[k]].name] => j = k
  BY <1>2, <1>3 DEF Sound, Namesakes
<1>4. \A j, k \in 1 .. N : artifacts[ids[j]].name = artifacts[ids[k]].name => j = k
  BY <1>c
<1>5. DOMAIN files = {artifacts[ids[k]].name : k \in 1 .. N}
  <2>1. {k \in DOMAIN ids : storage[ids[k]] # Absent} = 1 .. N
    BY <1>2, <1>3
  <2>. QED
    BY <2>1 DEF FilesPayload, files
<1>6. ASSUME NEW k \in 1 .. N
      PROVE  files[artifacts[ids[k]].name] = artifacts[ids[k]].sha256
  <2> DEFINE held == {j \in DOMAIN ids : storage[ids[j]] # Absent}
             name == artifacts[ids[k]].name
             named == {j \in held : artifacts[ids[j]].name = name}
  <2>1. held = 1 .. N
    BY <1>2, <1>3
  <2>2. named = {k}
    <3>1. k \in held /\ \A j \in held : artifacts[ids[j]].name = name <=> j = k
      BY <1>4, <2>1
    <3>. HIDE DEF held, name
    <3>. QED
      BY <3>1
  <2>3. files[name] = storage[ids[CHOOSE i \in named : \A j \in named : j <= i]]
    <3>1. name \in {artifacts[ids[j]].name : j \in held}
      BY <2>1
    <3>. QED
      BY <3>1, Zenon DEF FilesPayload, files
  <2>. HIDE DEF held, named, name
  <2>4. (CHOOSE i \in named : \A j \in named : j <= i) = k
    BY <2>2
  <2>5. files[name] = artifacts[ids[k]].sha256
    BY <1>3, <2>3, <2>4
  <2>. QED
    BY <2>5 DEF name
<1>7. files \in Directories
  <2>1. DOMAIN files \in SUBSET FileNames
    BY <1>3, <1>5 DEF Rows
  <2>2. \A n \in DOMAIN files : files[n] \in Seq(Chunks)
    BY <1>3, <1>5, <1>6 DEF Rows
  <2>3. files = [n \in DOMAIN files |-> files[n]]
    BY DEF FilesPayload, files
  <2>4. files \in [DOMAIN files -> Seq(Chunks)]
    BY <2>2, <2>3
  <2>. QED
    BY <2>1, <2>4 DEF Directories
<1>n. \A k \in 1 .. N : lines[k].name = CleanName[artifacts[ids[k]].name]
  BY <1>2 DEF Line, lines
<1>8. ASSUME NEW k \in 1 .. N
      PROVE  \E n \in DOMAIN files :
               lines[k] = [name |-> CleanName[n], size |-> Len(files[n]), sha256 |-> files[n]]
  <2>1. artifacts[ids[k]].name \in DOMAIN files
    BY <1>5
  <2>2. lines[k] = [name |-> CleanName[artifacts[ids[k]].name],
                    size |-> Len(artifacts[ids[k]].sha256), sha256 |-> artifacts[ids[k]].sha256]
    BY <1>2, <1>3 DEF Line, lines
  <2>. QED
    BY <1>6, <2>1, <2>2
<1>9. \E names : StripTo(DOMAIN files, names) /\ Lists(lines, N, names)
  <2>1. PICK names : names = {CleanName[artifacts[ids[k]].name] : k \in 1 .. N}
    OBVIOUS
  <2>2. DOMAIN lines = 1 .. N
    BY <1>2 DEF lines
  <2>3. DOMAIN files \in SUBSET FileNames
    BY <1>3, <1>5 DEF Rows
  <2>4. /\ \A k \in 1 .. N : lines[k].name \in names
        /\ \A c \in names : \E k \in 1 .. N : lines[k].name = c
    BY <1>n, <2>1
  <2>5. names \in SUBSET CleanNames
    BY <1>3, <2>1, NamesClean DEF Rows
  <2>6. StripTo(DOMAIN files, names)
    BY <1>5, <1>c, <2>1, <2>3, <2>5 DEF StripTo
  <2>7. Lists(lines, N, names)
    BY <1>1, <1>c, <1>n, <2>2, <2>4, <2>5 DEF Lists
  <2>. QED
    BY <2>6, <2>7
<1>10. DOMAIN files # {}
  <2>1. 1 \in 1 .. N
    BY <1>1
  <2>. QED
    BY <1>5, <2>1
<1>11. SortedByName(lines) = DirectoryLines(files)
  BY <1>8, <1>9, SortedLinesOfFiles
<1>. QED
  BY <1>7, <1>10, <1>11 DEF ComputeCompositeSha256, DigestOfDirectory, files, lines

\* What the handler computes before the pin is in order when it is written, and
\* a version without a directory is not of sound artifacts.
LEMMA StartRoots ==
    ASSUME Reliable, RequestInv, PlansRecorded, StorageInv, RootInv,
           [ContentNext]_contentVars, NEW v \in Snapshots, StartVersion(v)
    PROVE  /\ \A w \in Snapshots : PlanReproduces(w)'
           /\ projectVersions' = [w \in Snapshots |-> projectVersions'[w]]
           /\ \A w \in Created' : \A row :
                row = projectVersions'[w] => row.artifacts \subseteq Recorded' /\ Reproduces(row)'
<1>1. PICK S \in (SUBSET Recorded) \ {{}} : \E ids \in SetToSeqs(S) : Chosen(v, ids)
  BY DEF StartVersion, Chosen
<1>2. PICK ids \in SetToSeqs(S) : Chosen(v, ids)
  BY <1>1
<1>3. S \in SUBSET Recorded /\ S # {} /\ Range(ids) \subseteq S
  BY ListedMembers
<1>4. RecordedIsIntact /\ RowsMeasured
  BY DEF StorageInv, RootInv
<1>5. Sound(Range(ids)) =>
        /\ DOMAIN FilesPayload(ids) # {}
        /\ FilesPayload(ids) \in Directories
        /\ DigestOfDirectory(FilesPayload(ids)) = ComputeCompositeSha256(ids)
  BY <1>3, <1>4, SnapshotDigest
<1>6. ASSUME NEW taken \in SUBSET Recorded, Sound(taken)' PROVE Sound(taken)
  BY <1>4, <1>6, SoundBefore
<1>7. Recorded \subseteq Recorded'
  BY <1>4, FilesStay
<1>8. ASSUME NEW w \in Snapshots, plan'[w] = plan[w], vpc'[w] = "pinning" => vpc[w] = "pinning"
      PROVE  PlanReproduces(w)'
  BY <1>6, <1>8 DEF PlanReproduces, PlansRecorded, RootInv
<1>9. ASSUME NEW w \in Snapshots, w \in Created', projectVersions'[w] = projectVersions[w],
             NEW row, row = projectVersions'[w]
      PROVE  row.artifacts \subseteq Recorded' /\ Reproduces(row)'
  <2>1. row.artifacts \subseteq Recorded /\ Reproduces(row)
    BY <1>9, RootByVersion DEF RootInv, Created
  <2>2. Reproduces(row)'
    BY <1>6, <2>1 DEF Reproduces
  <2>. QED
    BY <1>7, <2>1, <2>2
<1>10. CASE DOMAIN FilesPayload(ids) # {}
  <2>1. PICK p : p = [ids |-> ids, files |-> FilesPayload(ids),
                      composite |-> ComputeCompositeSha256(ids)]
    OBVIOUS
  <2>2. /\ plan' = [plan EXCEPT ![v] = p] /\ vpc' = [vpc EXCEPT ![v] = "pinning"]
        /\ UNCHANGED projectVersions
    BY <1>2, <1>10, <2>1 DEF Chosen
  <2>3. plan'[v] = p /\ \A w \in Snapshots \ {v} : plan'[w] = plan[w] /\ vpc'[w] = vpc[w]
    BY <2>2 DEF PlansRecorded
  <2>4. Sound(Range(p.ids))' => Sound(Range(p.ids))
    BY <1>3, <1>6, <2>1
  <2>5. PlanReproduces(v)'
    BY <1>5, <2>1, <2>3, <2>4 DEF PlanReproduces
  <2>. QED
    BY <1>8, <1>9, <2>2, <2>3, <2>5 DEF RootInv, Created
<1>11. CASE DOMAIN FilesPayload(ids) = {}
  <2>1. PICK row : row = [artifacts |-> Range(ids), composite |-> ComputeCompositeSha256(ids),
                          root |-> FallbackRoot(ids)]
    OBVIOUS
  <2>2. /\ projectVersions' = [projectVersions EXCEPT ![v] = row]
        /\ vpc' = [vpc EXCEPT ![v] = "done"] /\ UNCHANGED plan
    BY <1>2, <1>11, <2>1 DEF Chosen, CreateVersion
  <2>3. row.artifacts \subseteq Recorded' /\ Reproduces(row)'
    <3>1. ~Sound(Range(ids))'
      BY <1>3, <1>5, <1>6, <1>11
    <3>. QED
      BY <1>3, <1>7, <2>1, <3>1 DEF Reproduces
  <2>4. /\ projectVersions' = [w \in Snapshots |-> projectVersions'[w]]
        /\ projectVersions'[v] = row
        /\ \A w \in Snapshots \ {v} : projectVersions'[w] = projectVersions[w]
    BY <2>2 DEF RootInv
  <2>5. \A w \in Snapshots : vpc'[w] = "pinning" => vpc[w] = "pinning"
    BY <2>2 DEF PlansRecorded
  <2>6. ASSUME NEW w \in Created', NEW other, other = projectVersions'[w]
        PROVE  other.artifacts \subseteq Recorded' /\ Reproduces(other)'
    <3>1. w \in Snapshots
      BY DEF Created
    <3>2. CASE w = v
      BY <2>3, <2>4, <2>6, <3>2
    <3>3. CASE w # v
      BY <1>9, <2>4, <2>6, <3>1, <3>3
    <3>. QED
      BY <3>2, <3>3
  <2>. QED
    BY <1>8, <2>2, <2>4, <2>5, <2>6
<1>. QED
  BY <1>10, <1>11

\* The pin that succeeds writes what was planned, at its root.
LEMMA FinishRoots ==
    ASSUME Reliable, RequestInv, PlansRecorded, RootInv,
           [ContentNext]_contentVars, NEW v \in Snapshots, FinishPin(v)
    PROVE  /\ \A w \in Snapshots : PlanReproduces(w)'
           /\ projectVersions' = [w \in Snapshots |-> projectVersions'[w]]
           /\ \A w \in Created' : \A row :
                row = projectVersions'[w] => row.artifacts \subseteq Recorded' /\ Reproduces(row)'
<1>1. PICK p : p = plan[v]
  OBVIOUS
<1>2. PICK written : written = [artifacts |-> Range(p.ids), composite |-> p.composite,
                                root |-> DirectoryCid(p.files)]
  OBVIOUS
<1>3. /\ vpc[v] = "pinning" /\ vpc' = [vpc EXCEPT ![v] = "done"] /\ UNCHANGED plan
      /\ projectVersions' = [projectVersions EXCEPT ![v] = written]
  BY <1>1, <1>2 DEF FinishPin, CreateVersion
<1>4. ASSUME NEW taken \in SUBSET Recorded, Sound(taken)' PROVE Sound(taken)
  BY <1>4, SoundBefore DEF RootInv
<1>5. Recorded \subseteq Recorded'
  BY FilesStay DEF RootInv
<1>6. Range(p.ids) \subseteq Recorded
  BY <1>1, <1>3 DEF PlansRecorded
<1>7. Reproduces(written)'
  <2>1. Sound(written.artifacts)' => Sound(Range(p.ids))
    BY <1>2, <1>4, <1>6
  <2>2. Sound(Range(p.ids)) =>
          p.files \in Directories /\ DigestOfDirectory(p.files) = p.composite
    BY <1>1, <1>3 DEF RootInv, PlanReproduces
  <2>3. p.files \in Directories => DirectoryCid(p.files) # Absent
    BY ContentAssumption DEF DirectoryCid
  <2>4. written.root[1] = "directory" /\ written.root[2] = p.files
    BY <1>2 DEF DirectoryCid
  <2>. QED
    BY <1>2, <2>1, <2>2, <2>3, <2>4 DEF Reproduces
<1>8. \A w \in Snapshots : vpc'[w] = "pinning" => vpc[w] = "pinning"
  BY <1>3 DEF PlansRecorded
<1>9. ASSUME NEW w \in Snapshots PROVE PlanReproduces(w)'
  BY <1>3, <1>4, <1>8 DEF PlanReproduces, PlansRecorded, RootInv
<1>10. /\ projectVersions' = [w \in Snapshots |-> projectVersions'[w]]
       /\ projectVersions'[v] = written
       /\ \A w \in Snapshots \ {v} : projectVersions'[w] = projectVersions[w]
  BY <1>3 DEF RootInv
<1>11. ASSUME NEW w \in Created', NEW row, row = projectVersions'[w]
       PROVE  row.artifacts \subseteq Recorded' /\ Reproduces(row)'
  <2>1. w \in Snapshots /\ projectVersions'[w] # NoRow
    BY DEF Created
  <2>2. CASE w = v
    BY <1>2, <1>5, <1>6, <1>7, <1>10, <1>11, <2>2
  <2>3. CASE w # v
    <3>1. row.artifacts \subseteq Recorded /\ Reproduces(row)
      BY <1>10, <1>11, <2>1, <2>3, RootByVersion DEF RootInv, Created
    <3>2. Reproduces(row)'
      BY <1>4, <3>1 DEF Reproduces
    <3>. QED
      BY <1>5, <3>1, <3>2
  <2>. QED
    BY <2>2, <2>3
<1>. QED
  BY <1>9, <1>10, <1>11

\* A step that creates no version and plans none disturbs none.
LEMMA OtherRoots ==
    ASSUME RequestInv, PlansRecorded, RootInv, [ContentNext]_contentVars,
           UNCHANGED <<plan, projectVersions>>,
           \A w \in Snapshots : vpc'[w] = "pinning" => vpc[w] = "pinning"
    PROVE  /\ \A w \in Snapshots : PlanReproduces(w)'
           /\ projectVersions' = [w \in Snapshots |-> projectVersions'[w]]
           /\ \A w \in Created' : \A row :
                row = projectVersions'[w] => row.artifacts \subseteq Recorded' /\ Reproduces(row)'
<1>1. ASSUME NEW taken \in SUBSET Recorded, Sound(taken)' PROVE Sound(taken)
  BY <1>1, SoundBefore DEF RootInv
<1>2. Recorded \subseteq Recorded'
  BY FilesStay DEF RootInv
<1>3. ASSUME NEW w \in Snapshots PROVE PlanReproduces(w)'
  BY <1>1 DEF PlanReproduces, PlansRecorded, RootInv
<1>4. ASSUME NEW w \in Created', NEW row, row = projectVersions'[w]
      PROVE  row.artifacts \subseteq Recorded' /\ Reproduces(row)'
  <2>1. row.artifacts \subseteq Recorded /\ Reproduces(row)
    BY <1>4, RootByVersion DEF RootInv, Created
  <2>2. Reproduces(row)'
    BY <1>1, <2>1 DEF Reproduces
  <2>. QED
    BY <1>2, <2>1, <2>2
<1>. QED
  BY <1>3, <1>4 DEF RootInv

\* Every step keeps the roots.
LEMMA RootInvStep ==
    ASSUME Reliable
    PROVE  RequestInv /\ PlansRecorded /\ StorageInv /\ RootInv /\ [ContentNext]_contentVars =>
             RootInv'
<1> SUFFICES ASSUME RequestInv, PlansRecorded, StorageInv, RootInv, [ContentNext]_contentVars
             PROVE  RootInv'
  OBVIOUS
<1>1. RowsMeasured'
  BY FilesStay DEF RootInv
<1>2. /\ \A w \in Snapshots : PlanReproduces(w)'
      /\ projectVersions' = [w \in Snapshots |-> projectVersions'[w]]
      /\ \A w \in Created' : \A row :
           row = projectVersions'[w] => row.artifacts \subseteq Recorded' /\ Reproduces(row)'
  <2>1. CASE \E v \in Snapshots : StartVersion(v)
    BY <2>1, StartRoots
  <2>2. CASE \E v \in Snapshots : FinishPin(v)
    BY <2>2, FinishRoots
  <2>3. CASE \E v \in Snapshots : PinFails(v)
    <3>1. /\ UNCHANGED <<plan, projectVersions>>
          /\ \A w \in Snapshots : vpc'[w] = "pinning" => vpc[w] = "pinning"
      BY <2>3 DEF PinFails, PlansRecorded
    <3>. QED
      BY <3>1, OtherRoots
  <2>4. CASE CrashWhilePinning
    <3>1. /\ UNCHANGED <<plan, projectVersions>>
          /\ \A w \in Snapshots : vpc'[w] = "pinning" => vpc[w] = "pinning"
      BY <2>4 DEF CrashWhilePinning
    <3>. QED
      BY <3>1, OtherRoots
  <2>5. CASE UNCHANGED versionVars
    <3>1. /\ UNCHANGED <<plan, projectVersions>>
          /\ \A w \in Snapshots : vpc'[w] = "pinning" => vpc[w] = "pinning"
      BY <2>5 DEF versionVars
    <3>. QED
      BY <3>1, OtherRoots
  <2>. QED
    BY <2>1, <2>2, <2>3, <2>4, <2>5 DEF ContentNext, contentVars
<1>3. RootReproducesDigest'
  BY <1>2 DEF RootReproducesDigest, Reproduces, Sound
<1>. QED
  BY <1>1, <1>2, <1>3 DEF RootInv

\* From the first chunk of each upload to the root that is anchored, with
\* uploads, crashes and other versions in between: whoever fetches the directory
\* under the root of a version arrives at its composite digest
\* (BLOCKCHAIN_DESIGN.md:25, project_version_service.py:355-396).
THEOREM RootCorrect ==
    ASSUME Reliable
    PROVE  ContentSpec => []RootReproducesDigest
<1>1. ContentInit => StorageInv /\ RootInv
  BY IngestAssumption DEF ContentInit, Init, StorageInv, WritesPrefix, RecordedIsIntact,
     Recorded, RootInv, RowsMeasured, Created, PlanReproduces, RootReproducesDigest
<1>2. RequestInv /\ PlansRecorded /\ StorageInv /\ [ContentNext]_contentVars => StorageInv'
  BY ContentCases, StorageInvStep, LinkKeepsIngest
<1>3. RequestInv /\ PlansRecorded /\ StorageInv /\ RootInv /\ [ContentNext]_contentVars =>
        RootInv'
  BY RootInvStep
<1>4. RootInv => RootReproducesDigest
  BY DEF RootInv
<1>. QED
  BY <1>1, <1>2, <1>3, <1>4, ContentOrder, PTL DEF ContentSpec

\* The digest is one of the artifacts: the order in which the database returns
\* their rows does not enter it.
OrderIrrelevant ==
    \A S \in SUBSET Recorded :
      ~Namesakes(S) =>
        \A ids, others \in SetToSeqs(S) :
          ComputeCompositeSha256(ids) = ComputeCompositeSha256(others)

\* A list of the members of a finite set has them all.
LEMMA ListsAll ==
    ASSUME NEW S, IsFiniteSet(S), NEW ids \in SetToSeqs(S)
    PROVE  \A i \in S : \E k \in 1 .. Cardinality(S) : ids[k] = i
<1> DEFINE N == Cardinality(S)
<1>1. N \in Nat
  BY FS_CardinalityType
<1>2. ids \in Injection(1 .. N, S)
  BY DEF SetToSeqs, Injection, IsInjective
<1>3. Cardinality(1 .. N) = N
  <2>. HIDE DEF N
  <2>. QED
    BY <1>1, FS_Interval
<1>4. ids \in Surjection(1 .. N, S)
  BY <1>2, <1>3, FS_Injection
<1>. QED
  BY <1>4 DEF Surjection

\* The lines of artifacts of different names list these names.
LEMMA LinesListNames ==
    ASSUME RequestInv, NEW S \in SUBSET Recorded, ~Namesakes(S), NEW ids \in SetToSeqs(S)
    PROVE  /\ IsFiniteSet(S) /\ ids \in [1 .. Cardinality(S) -> S]
           /\ Lists([k \in DOMAIN ids |-> Line(ids[k])], Cardinality(S),
                    {CleanName[artifacts[i].name] : i \in S})
<1> DEFINE N == Cardinality(S)
           lines == [k \in DOMAIN ids |-> Line(ids[k])]
           names == {CleanName[artifacts[i].name] : i \in S}
<1>1. IsFiniteSet(S) /\ N \in Nat
  <2>1. S \in SUBSET ArtifactIds
    BY DEF Recorded
  <2>. QED
    BY <2>1, FS_Subset, FS_CardinalityType, ContentAssumption
<1>2. /\ ids \in [1 .. N -> S] /\ DOMAIN ids = 1 .. N
      /\ \A j, k \in 1 .. N : ids[j] = ids[k] => j = k
  BY DEF SetToSeqs
<1>3. \A i \in S : \E k \in 1 .. N : ids[k] = i
  BY <1>1, ListsAll
<1>4. names \subseteq CleanNames
  BY NamesClean DEF Recorded, RequestInv, TypeOK, Rows
<1>5. \A k \in 1 .. N : lines[k].name = CleanName[artifacts[ids[k]].name]
  BY <1>2 DEF Line
<1>6. \A k \in 1 .. N : lines[k].name \in names
  BY <1>2, <1>5
<1>7. \A n \in names : \E k \in 1 .. N : lines[k].name = n
  BY <1>3, <1>5
<1>8. \A j, k \in 1 .. N : lines[j].name = lines[k].name => j = k
  BY <1>2, <1>5 DEF Namesakes
<1>9. DOMAIN lines = 1 .. N
  BY <1>2
<1>. HIDE DEF lines, names, N
<1>10. Lists(lines, N, names)
  BY <1>1, <1>4, <1>6, <1>7, <1>8, <1>9 DEF Lists
<1>. QED
  BY <1>1, <1>2, <1>10 DEF lines, names, N

\* "Computes a deterministic 32-byte composite SHA-256 digest" (hashing.py:9), of
\* rows that are selected without an ORDER BY (project_version_service.py:314).
THEOREM DigestDeterministic == ContentSpec => []OrderIrrelevant
<1>1. RequestInv => OrderIrrelevant
  <2> SUFFICES ASSUME RequestInv, NEW S \in SUBSET Recorded, ~Namesakes(S),
                      NEW ids \in SetToSeqs(S), NEW others \in SetToSeqs(S)
               PROVE  ComputeCompositeSha256(ids) = ComputeCompositeSha256(others)
    BY DEF OrderIrrelevant
  <2> DEFINE N == Cardinality(S)
             names == {CleanName[artifacts[i].name] : i \in S}
             lines == [k \in DOMAIN ids |-> Line(ids[k])]
             lines2 == [k \in DOMAIN others |-> Line(others[k])]
  <2>1. /\ Lists(lines, N, names) /\ Lists(lines2, N, names)
        /\ ids \in [1 .. N -> S] /\ others \in [1 .. N -> S]
    BY LinesListNames, Zenon
  <2>2. \A j, k \in 1 .. N : lines[j].name = lines2[k].name => lines[j] = lines2[k]
    BY <2>1, Zenon DEF Namesakes, Line
  <2>3. DOMAIN lines = 1 .. N /\ DOMAIN lines2 = 1 .. N
    BY <2>1
  <2>. HIDE DEF lines, lines2, names, N
  <2>4. ASSUME NEW n \in 1 .. N PROVE SortedByName(lines)[n] = SortedByName(lines2)[n]
    <3>1. PICK j \in 1 .. N :
            /\ SortedByName(lines)[n] = lines[j]
            /\ (CHOOSE m \in names : PlaceAmong(names, m) = n) = lines[j].name
      BY <2>1, NthLine
    <3>2. PICK k \in 1 .. N :
            /\ SortedByName(lines2)[n] = lines2[k]
            /\ (CHOOSE m \in names : PlaceAmong(names, m) = n) = lines2[k].name
      BY <2>1, NthLine
    <3>. QED
      BY <2>2, <3>1, <3>2
  <2>5. /\ SortedByName(lines) = [n \in 1 .. N |-> SortedByName(lines)[n]]
        /\ SortedByName(lines2) = [n \in 1 .. N |-> SortedByName(lines2)[n]]
    BY <2>3 DEF SortedByName
  <2>6. SortedByName(lines) = SortedByName(lines2)
    BY <2>4, <2>5
  <2>. QED
    BY <2>6 DEF ComputeCompositeSha256, lines, lines2
<1>. QED
  BY <1>1, ContentOrder, PTL
=============================================================================
