-------------------------- MODULE VerificationProofs --------------------------
(***************************************************************************)
(* Proofs about verification and certificates, for every number of         *)
(* versions, artifacts and users, whoever has a wallet.                    *)
(*                                                                         *)
(* The inductive invariant says what the contract and the pool hold of a   *)
(* version, and how much of it the reads of a query still know.            *)
(***************************************************************************)
EXTENDS VerificationHistory, FiniteSetTheorems, SequenceTheorems, TLAPS

\* The pool holds one transaction of a version at most.
PoolShape ==
    /\ mempool \in Seq([id : RegistrationIds, calldata : Calldata])
    /\ \A i, j \in 1 .. Len(mempool) : mempool[i].id = mempool[j].id => i = j

\* Calldata that was computed from a version on the day it was created.
FitsRow(row, sub) ==
    /\ sub.compositeHash = row.content.compositeHash
    /\ sub.ipfsRootCID = row.content.ipfsRootCID
    /\ sub.versionIndex = row.content.versionIndex
    /\ sub.lifecycleStage = row.content.lifecycleStage
    /\ OwnerOf[row.project] \in Wallets => sub.author = OwnerOf[row.project]
    /\ sub.coAuthors = (row.team \cap Wallets) \ {OwnerOf[row.project]}

\* What is on its way and what is on chain fits the row of its version.
ProofsFit ==
    /\ \A i \in 1 .. Len(mempool), g \in RegistrationIds : mempool[i].id = g =>
         FitsRow(projectVersions[g], mempool[i].calldata)
    /\ \A g \in RegistrationIds : Chain!Exists(g) =>
         g \in Recorded /\ FitsRow(projectVersions[g], proofs[g].submission)

\* The versions that are ANCHORED are those with a record, and their proof is
\* the one the record was made for.
RecordsFit ==
    \A g \in RegistrationIds :
      /\ g \notin Recorded => records[g] = NoRecord
      /\ g \in Recorded =>
           (projectVersions[g].status = "ANCHORED" <=> records[g] # NoRecord)
      /\ records[g] # NoRecord =>
           /\ Chain!Exists(g) /\ proofs[g].submission.author = records[g].author
           /\ proofs[g].blockNumber = records[g].block

\* What a query read is what it would read now, but for the team, for a proof
\* that was mined since and for the dispute state.
QueryFits ==
    query # NoQuery => \A g \in RegistrationIds : query.version = g =>
      /\ query.row = projectVersions[g] /\ query.row.status # "FAILED"
      /\ query.record = records[g]
      /\ query.proof # NoProof =>
           /\ Chain!Exists(g) /\ query.proof.submission = proofs[g].submission
           /\ query.proof.blockNumber = proofs[g].blockNumber

\* The inductive invariant.
Base == TypeOK /\ IsFiniteSet(Recorded) /\ PoolShape /\ ProofsFit /\ RecordsFit /\ QueryFits

-----------------------------------------------------------------------------
(* Steps.                                                                  *)

\* The conjuncts of TypeOK, by what they are about.
RowsOK ==
    /\ projectVersions \in [RegistrationIds -> Rows \cup {NoVersion}]
    /\ records \in [RegistrationIds -> Records \cup {NoRecord}]
    /\ Uploaded \subseteq Artifacts
    /\ \A a \in Uploaded : artifactVersion[a] \in Recorded \cup {NoVersion}
    /\ members \in [Projects -> SUBSET Users]

\* The conjunct of TypeOK about the verification under way.
QueryOK ==
    query # NoQuery =>
      query.version \in Recorded /\ query.row = projectVersions[query.version]

\* The conjunct of TypeOK about the pool.
PoolOK ==
    \A i \in 1 .. Len(mempool) :
      /\ mempool[i].id \in Recorded /\ mempool[i].calldata \in Calldata
      /\ ~Chain!Exists(mempool[i].id)

\* TypeOK is the conjunction of these parts, now and after a step.
LEMMA TypeParts ==
    /\ TypeOK <=> RowsOK /\ QueryOK /\ Chain!TypeOK /\ PoolOK
    /\ TypeOK' <=> RowsOK' /\ QueryOK' /\ Chain!TypeOK' /\ PoolOK'
BY DEF TypeOK, RowsOK, QueryOK, PoolOK

\* The calldata of a new version is computed from its row and the team of its
\* project.
LEMMA SubmissionFits ==
    ASSUME RowsOK, NEW p \in Projects, NEW creator \in Users,
           NEW S \in SUBSET Artifacts, S # {}, NEW index \in Nat, NEW status
    PROVE  LET sub == Submission(p, creator, Content(S, index))
               row == [project |-> p, content |-> Content(S, index), status |-> status,
                       team |-> members[p]]
           IN  sub \in Calldata /\ FitsRow(row, sub)
<1>1. S \in Snapshots
  BY DEF Snapshots
<1>2. AuthorOf(p, creator) \in Users \cup {ZeroAddress}
  BY VerificationAssumption DEF AuthorOf
<1>3. CoAuthorsOf(p, creator) \in SUBSET Users
  BY VerificationAssumption DEF CoAuthorsOf
<1>4. Submission(p, creator, Content(S, index)) \in Calldata
  BY <1>1, <1>2, <1>3 DEF Submission, Content, Calldata
<1>5. OwnerOf[p] \in Wallets => AuthorOf(p, creator) = OwnerOf[p]
  BY DEF AuthorOf
<1>6. FitsRow([project |-> p, content |-> Content(S, index), status |-> status,
               team |-> members[p]], Submission(p, creator, Content(S, index)))
  BY <1>5 DEF FitsRow, Submission, Content, CoAuthorsOf
<1>. QED
  BY <1>4, <1>6

\* How the creation of a version ends: with nothing to anchor or the anchoring
\* not begun, anchored, or given up, its transaction not sent, pending or mined.
CreateEffect(g, row, sub) ==
    /\ query = NoQuery /\ query' = query
    /\ g \notin Recorded
    /\ projectVersions' = [projectVersions EXCEPT ![g] = row]
    /\ artifactVersion' = [a \in Uploaded |->
         IF a \in row.content.compositeHash THEN g ELSE artifactVersion[a]]
    /\ members' = members
    /\ \/ /\ row.status = "PENDING"
          /\ UNCHANGED <<records, mempool, contractVars>>
       \/ /\ row.status = "ANCHORED"
          /\ records' = [records EXCEPT ![g] =
                                 [author |-> sub.author, block |-> blockNumber]]
          /\ mempool' = mempool
          /\ Chain!RegisterProjectVersion(Platform, g, sub)
       \/ /\ row.status \in {"FAILED", "ANCHORING"}
          /\ records' = records
          /\ \/ mempool' = mempool /\ UNCHANGED contractVars
             \/ mempool' = Append(mempool, [id |-> g, calldata |-> sub]) /\ UNCHANGED contractVars
             \/ /\ mempool = <<>> /\ mempool' = mempool
                /\ Chain!RegisterProjectVersion(Platform, g, sub)

\* Whatever becomes of the anchoring of a new version, its row and calldata
\* agree.
LEMMA CreateCases ==
    ASSUME Base, NEW g \in RegistrationIds, NEW p \in Projects, NEW S \in SUBSET Artifacts,
           NEW creator \in Users, CreateVersion(g, p, S, creator)
    PROVE  \E row \in Rows : \E sub :
             /\ CreateEffect(g, row, sub)
             /\ row.status # "PENDING" => sub \in Calldata /\ FitsRow(row, sub)
<1>1. IsFiniteSet(VersionsOf(p))
  BY FS_Subset DEF Base, VersionsOf
<1>2. PICK index \in Nat : index = Cardinality(VersionsOf(p)) + 1
  BY <1>1, FS_CardinalityType
<1>3. PICK content : content = Content(S, index)
  OBVIOUS
<1>4. content \in Contents /\ content.compositeHash = S
  BY <1>3 DEF Content, Contents
<1>5. members[p] \in SUBSET Users
  BY TypeParts DEF Base, RowsOK
<1>6. ASSUME NEW status \in {"PENDING", "ANCHORING", "ANCHORED", "FAILED"}
      PROVE  [project |-> p, content |-> content, status |-> status, team |-> members[p]]
               \in Rows
  BY <1>4, <1>5 DEF Rows
<1>7. PICK sub : sub = Submission(p, creator, content)
  OBVIOUS
<1>8. CASE S = {} /\ InsertVersion(g, p, content, "PENDING")
           /\ UNCHANGED <<records, mempool, contractVars>>
  <2>1. PICK row \in Rows : row = [project |-> p, content |-> content,
                                   status |-> "PENDING", team |-> members[p]]
    BY <1>6
  <2>2. row.status = "PENDING" /\ row.content.compositeHash = S
    BY <1>4, <2>1
  <2>3. CreateEffect(g, row, sub)
    BY <1>4, <1>8, <2>1, <2>2 DEF CreateEffect, InsertVersion, CreateVersion
  <2>. QED
    BY <2>2, <2>3
<1>9. ASSUME NEW outcome \in Outcomes, S # {},
             InsertVersion(g, p, content, outcome[1]),
             records' = IF outcome[1] = "ANCHORED"
                        THEN [records EXCEPT ![g] =
                               [author |-> sub.author, block |-> blockNumber]]
                        ELSE records,
             IF outcome[2] = "mined"
             THEN mempool = <<>> /\ Chain!RegisterProjectVersion(Platform, g, sub)
             ELSE UNCHANGED contractVars,
             mempool' = IF outcome[2] = "pending"
                        THEN Append(mempool, [id |-> g, calldata |-> sub]) ELSE mempool
      PROVE  \E row \in Rows :
               /\ CreateEffect(g, row, sub)
               /\ sub \in Calldata /\ FitsRow(row, sub)
  <2>1. PICK status, fate :
          /\ status = outcome[1] /\ fate = outcome[2]
          /\ \/ status = "ANCHORED" /\ fate = "mined"
             \/ status = "PENDING" /\ fate = "unsent"
             \/ status \in {"FAILED", "ANCHORING"} /\ fate \in {"unsent", "pending", "mined"}
    BY <1>9 DEF Outcomes
  <2>2. PICK row \in Rows : row = [project |-> p, content |-> content,
                                   status |-> status, team |-> members[p]]
    BY <1>6, <2>1
  <2>3. row.status = status /\ row.content.compositeHash = S
    BY <1>4, <2>2
  <2>4. sub \in Calldata /\ FitsRow(row, sub)
    BY <1>3, <1>7, <1>9, <2>2, SubmissionFits, TypeParts DEF Base
  <2>5. CreateEffect(g, row, sub)
    BY <1>4, <1>9, <2>1, <2>2, <2>3 DEF CreateEffect, InsertVersion, CreateVersion
  <2>. QED
    BY <2>4, <2>5
<1>10. \/ /\ S = {} /\ InsertVersion(g, p, content, "PENDING")
          /\ UNCHANGED <<records, mempool, contractVars>>
       \/ \E outcome \in Outcomes :
            /\ S # {}
            /\ InsertVersion(g, p, content, outcome[1])
            /\ records' = IF outcome[1] = "ANCHORED"
                          THEN [records EXCEPT ![g] =
                                 [author |-> sub.author, block |-> blockNumber]]
                          ELSE records
            /\ IF outcome[2] = "mined"
               THEN mempool = <<>> /\ Chain!RegisterProjectVersion(Platform, g, sub)
               ELSE UNCHANGED contractVars
            /\ mempool' = IF outcome[2] = "pending"
                          THEN Append(mempool, [id |-> g, calldata |-> sub]) ELSE mempool
  BY <1>2, <1>3, <1>7 DEF CreateVersion
<1>. QED
  BY <1>8, <1>9, <1>10

\* Of the contract: a proof is written once, as it was sent, and a dispute
\* changes nothing of it but its state.
LEMMA RegisterEffect ==
    ASSUME Chain!TypeOK, NEW g \in RegistrationIds, NEW sub \in Calldata,
           Chain!RegisterProjectVersion(Platform, g, sub)
    PROVE  /\ Chain!TypeOK'
           /\ proofs[g] = NoProof
           /\ proofs'[g] # NoProof /\ proofs'[g].submission = sub
           /\ proofs'[g].blockNumber = blockNumber
           /\ \A h \in RegistrationIds : h # g => proofs'[h] = proofs[h]
<1>1. /\ Chain!NewProof(sub) \in Chain!VersionProofs
      /\ Chain!NewProof(sub).submission = sub
      /\ Chain!NewProof(sub).blockNumber = blockNumber
  BY DEF Chain!RegisterProjectVersion, Chain!NewProof, Chain!VersionProofs,
         Chain!TypeOK, Chain!DisputeStatuses
<1>2. proofs' \in [Chain!Strings -> Chain!VersionProofs \cup {NoProof}]
  BY <1>1 DEF Chain!RegisterProjectVersion, Chain!WriteProof, Chain!TypeOK
<1>3. proofs'[{}] = NoProof
  BY DEF Chain!RegisterProjectVersion, Chain!WriteProof, Chain!TypeOK, Chain!Strings
<1>4. recordIndex' \in [1 .. recordCounter' -> RegistrationIds]
  BY DEF Chain!RegisterProjectVersion, Chain!WriteProof, Chain!TypeOK
<1>5. Chain!TypeOK'
  BY <1>1, <1>2, <1>3, <1>4
     DEF Chain!RegisterProjectVersion, Chain!WriteProof, Chain!TypeOK, Chain!authority
<1>6. /\ proofs'[g] = Chain!NewProof(sub)
      /\ \A h \in RegistrationIds : h # g => proofs'[h] = proofs[h]
  BY DEF Chain!RegisterProjectVersion, Chain!WriteProof, Chain!TypeOK, Chain!Strings
<1>7. proofs[g] = NoProof
  BY DEF Chain!RegisterProjectVersion, Chain!Exists
<1>. QED
  BY <1>1, <1>5, <1>6, <1>7, NullAssumption

\* A dispute changes no content on chain.
LEMMA DisputeEffect ==
    ASSUME Chain!TypeOK, NEW g \in RegistrationIds, Chain!Exists(g),
           NEW status \in Chain!DisputeStatuses, Chain!SetDispute(g, status)
    PROVE  /\ Chain!TypeOK'
           /\ proofs'[g] # NoProof /\ proofs'[g].submission = proofs[g].submission
           /\ proofs'[g].blockNumber = proofs[g].blockNumber
           /\ \A h \in RegistrationIds : h # g => proofs'[h] = proofs[h]
<1>1. g \in Chain!Strings /\ proofs[g] \in Chain!VersionProofs /\ g # {}
  BY DEF Chain!TypeOK, Chain!Exists, Chain!Strings
<1>2. proofs' = [proofs EXCEPT ![g] = [proofs[g] EXCEPT !.disputeState = status]]
  BY DEF Chain!SetDispute
<1>3. [proofs[g] EXCEPT !.disputeState = status] \in Chain!VersionProofs
  BY <1>1 DEF Chain!VersionProofs
<1>4. /\ [proofs[g] EXCEPT !.disputeState = status].submission = proofs[g].submission
      /\ [proofs[g] EXCEPT !.disputeState = status].blockNumber = proofs[g].blockNumber
  BY <1>1 DEF Chain!VersionProofs
<1>5. proofs'[g] = [proofs[g] EXCEPT !.disputeState = status]
  BY <1>1, <1>2 DEF Chain!TypeOK
<1>6. /\ proofs' \in [Chain!Strings -> Chain!VersionProofs \cup {NoProof}]
      /\ proofs'[{}] = NoProof
  BY <1>1, <1>2, <1>3 DEF Chain!TypeOK
<1>7. Chain!TypeOK'
  BY <1>6 DEF Chain!TypeOK, Chain!SetDispute, Chain!authority
<1>8. \A h \in RegistrationIds : h # g => proofs'[h] = proofs[h]
  BY <1>2 DEF Chain!TypeOK, Chain!Strings
<1>. QED
  BY <1>3, <1>4, <1>5, <1>7, <1>8, NullAssumption

\* What leaves the contract alone keeps its types.
LEMMA KeepContract ==
    ASSUME Chain!TypeOK, UNCHANGED contractVars
    PROVE  Chain!TypeOK'
BY DEF contractVars, Chain!TypeOK

\* What the database and the contract hold of the versions.
VersionsOK ==
    /\ Chain!TypeOK /\ PoolOK /\ PoolShape /\ ProofsFit /\ RecordsFit
    /\ IsFiniteSet(Recorded)

\* Base by what its parts are about.
LEMMA BaseParts ==
    /\ Base <=> RowsOK /\ QueryOK /\ QueryFits /\ VersionsOK
    /\ Base' <=> RowsOK' /\ QueryOK' /\ QueryFits' /\ VersionsOK'
BY TypeParts DEF Base, VersionsOK

\* Most steps leave the versions alone.
LEMMA KeepVersions ==
    ASSUME VersionsOK, UNCHANGED <<projectVersions, records, mempool, contractVars>>
    PROVE  VersionsOK'
<1> USE DEF VersionsOK
<1>0. Recorded' = Recorded /\ Chain!TypeOK'
  BY KeepContract DEF Recorded
<1>1. PoolOK' /\ PoolShape'
  BY <1>0 DEF PoolOK, PoolShape, Chain!Exists, contractVars
<1>2. ProofsFit'
  BY <1>0 DEF ProofsFit, Chain!Exists, contractVars
<1>3. RecordsFit'
  BY <1>0 DEF RecordsFit, Chain!Exists, contractVars
<1>. QED
  BY <1>0, <1>1, <1>2, <1>3

\* A verification under way stays true to its row while rows and records stay.
LEMMA KeepQuery ==
    ASSUME QueryOK, QueryFits, Recorded' = Recorded,
           UNCHANGED <<projectVersions, records, query>>, Uploaded \subseteq Uploaded',
           \A g \in RegistrationIds : proofs[g] # NoProof =>
             /\ proofs'[g] # NoProof /\ proofs'[g].submission = proofs[g].submission
             /\ proofs'[g].blockNumber = proofs[g].blockNumber
    PROVE  QueryOK' /\ QueryFits'
<1>1. QueryOK'
  BY DEF QueryOK
<1>2. QueryFits'
  BY DEF QueryFits, Chain!Exists
<1>. QED
  BY <1>1, <1>2

\* A member who joins changes no version.
LEMMA AddMemberStep ==
    ASSUME Base, NEW p \in Projects, NEW user \in Users, AddMember(p, user)
    PROVE  Base'
<1>1. RowsOK'
  BY BaseParts DEF RowsOK, AddMember, Uploaded, Recorded
<1>2. VersionsOK'
  BY BaseParts, KeepVersions DEF AddMember
<1>3. QueryOK' /\ QueryFits'
  BY BaseParts, KeepQuery DEF AddMember, Uploaded, Recorded, contractVars
<1>. QED
  BY <1>1, <1>2, <1>3, BaseParts

\* An upload adds an artifact and changes no version.
LEMMA UploadStep ==
    ASSUME Base, NEW a \in Artifacts, NEW g \in Recorded \cup {NoVersion}, Upload(a, g)
    PROVE  Base'
<1>1. Uploaded' = Uploaded \cup {a} /\ Recorded' = Recorded
  BY DEF Upload, Uploaded, Recorded
<1>2. RowsOK'
  BY <1>1, BaseParts DEF RowsOK, Upload, Uploaded
<1>3. VersionsOK'
  BY BaseParts, KeepVersions DEF Upload
<1>4. QueryOK' /\ QueryFits'
  BY <1>1, BaseParts, KeepQuery DEF Upload, contractVars
<1>. QED
  BY <1>2, <1>3, <1>4, BaseParts

\* A verification starts from what the database holds.
LEMMA AskStep ==
    ASSUME Base, NEW g \in Recorded, Ask(g)
    PROVE  Base'
<1>1. UNCHANGED <<databaseVars, mempool, contractVars>>
  BY DEF Ask
<1>2. RowsOK' /\ VersionsOK' /\ Recorded' = Recorded /\ Uploaded' = Uploaded
  BY <1>1, BaseParts, KeepVersions DEF RowsOK, Uploaded, Recorded, databaseVars
<1>3. PICK q : q = [version |-> g, row |-> projectVersions[g], record |-> records[g],
                    team |-> members[projectVersions[g].project],
                    proof |-> GetProjectVersion(g)]
  OBVIOUS
<1>4. /\ q.version = g /\ q.row = projectVersions[g]
      /\ q.record = records[g] /\ q.proof = proofs[g]
  BY <1>3 DEF GetProjectVersion
<1>5. query' = q /\ q.row.status # "FAILED"
  BY <1>3, <1>4 DEF Ask
<1>6. QueryOK'
  BY <1>1, <1>2, <1>4, <1>5 DEF QueryOK, databaseVars
<1>7. QueryFits'
  BY <1>1, <1>4, <1>5 DEF QueryFits, databaseVars, contractVars, Chain!Exists
<1>. QED
  BY <1>2, <1>6, <1>7, BaseParts

\* A dispute keeps Base.
LEMMA DisputeStep ==
    ASSUME Base, Dispute
    PROVE  Base'
<1>1. PICK g \in Recorded, status \in Chain!DisputeStatuses :
        Chain!Exists(g) /\ Chain!SetDispute(g, status)
  BY DEF Dispute, Chain!RaiseDispute, Chain!ResolveDispute, Chain!DisputeStatuses,
         Chain!Resolutions
<1>2. g \in RegistrationIds
  BY DEF Recorded
<1>3. Chain!TypeOK'
  BY <1>1, <1>2, DisputeEffect, BaseParts DEF VersionsOK
<1>4. ASSUME NEW h \in RegistrationIds
      PROVE  /\ proofs[h] # NoProof =>
                  /\ proofs'[h] # NoProof /\ proofs'[h].submission = proofs[h].submission
                  /\ proofs'[h].blockNumber = proofs[h].blockNumber
             /\ proofs[h] = NoProof => proofs'[h] = NoProof
  BY <1>1, <1>2, DisputeEffect, BaseParts DEF VersionsOK, Chain!Exists
<1>5. UNCHANGED databaseVars /\ mempool' = mempool /\ query' = query
  BY DEF Dispute
<1>6. Recorded' = Recorded /\ Uploaded' = Uploaded /\ RowsOK'
  BY <1>5, BaseParts DEF RowsOK, Uploaded, Recorded, databaseVars
<1>7. QueryOK' /\ QueryFits'
  BY <1>4, <1>5, <1>6, BaseParts, KeepQuery DEF databaseVars
<1>8. PoolOK'
  BY <1>4, <1>5, <1>6, BaseParts DEF VersionsOK, PoolOK, Recorded, Chain!Exists
<1>9. PoolShape' /\ IsFiniteSet(Recorded)'
  BY <1>5, <1>6, BaseParts DEF VersionsOK, PoolShape
<1>10. ProofsFit'
  BY <1>4, <1>5, <1>6, BaseParts DEF VersionsOK, ProofsFit, Chain!Exists, databaseVars
<1>11. RecordsFit'
  BY <1>4, <1>5, <1>6, BaseParts DEF VersionsOK, RecordsFit, Chain!Exists, databaseVars
<1>. QED
  BY <1>3, <1>6, <1>7, <1>8, <1>9, <1>10, <1>11, BaseParts DEF VersionsOK

\* A late transaction puts on chain what was sent for its row.
LEMMA MineLateStep ==
    ASSUME Base, MineLate
    PROVE  Base'
<1>0. VersionsOK /\ Len(mempool) \in Nat
  BY BaseParts DEF VersionsOK, PoolShape
<1>1. /\ Len(mempool) # 0 /\ 1 \in 1 .. Len(mempool) /\ Head(mempool) = mempool[1]
      /\ Len(mempool') = Len(mempool) - 1
      /\ \A i \in 1 .. Len(mempool') : mempool'[i] = mempool[i + 1]
      /\ mempool' \in Seq([id : RegistrationIds, calldata : Calldata])
  BY <1>0 DEF VersionsOK, PoolShape, MineLate
<1>2. PICK g \in RegistrationIds, sub \in Calldata :
        g = mempool[1].id /\ sub = mempool[1].calldata
  BY <1>0, <1>1 DEF VersionsOK, PoolOK, Recorded
<1>3. /\ g \in Recorded /\ FitsRow(projectVersions[g], sub)
  BY <1>0, <1>1, <1>2 DEF VersionsOK, PoolOK, ProofsFit
<1>4. /\ Chain!TypeOK' /\ proofs[g] = NoProof
      /\ proofs'[g] # NoProof /\ proofs'[g].submission = sub
      /\ \A h \in RegistrationIds : h # g => proofs'[h] = proofs[h]
  BY <1>0, <1>1, <1>2, RegisterEffect DEF MineLate, VersionsOK
<1>5. UNCHANGED databaseVars /\ query' = query
  BY DEF MineLate
<1>6. Recorded' = Recorded /\ Uploaded' = Uploaded /\ RowsOK'
  BY <1>5, BaseParts DEF RowsOK, Uploaded, Recorded, databaseVars
<1>7. QueryOK' /\ QueryFits'
  BY <1>4, <1>5, <1>6, BaseParts, KeepQuery DEF databaseVars
<1>8. ASSUME NEW i \in 1 .. Len(mempool')
      PROVE  /\ i + 1 \in 1 .. Len(mempool) /\ mempool'[i] = mempool[i + 1]
             /\ mempool[i + 1].id # g
  BY <1>0, <1>1, <1>2 DEF VersionsOK, PoolShape
<1>9. PoolOK'
  <2> SUFFICES ASSUME NEW i \in 1 .. Len(mempool')
               PROVE  /\ mempool'[i].id \in Recorded' /\ mempool'[i].calldata \in Calldata
                      /\ proofs'[mempool'[i].id] = NoProof
    BY DEF PoolOK, Chain!Exists
  <2>1. PICK h \in RegistrationIds : h = mempool[i + 1].id
    BY <1>0, <1>8 DEF VersionsOK, PoolOK, Recorded
  <2>2. h \in Recorded /\ mempool[i + 1].calldata \in Calldata /\ proofs[h] = NoProof
    BY <1>0, <1>8, <2>1 DEF VersionsOK, PoolOK, Chain!Exists
  <2>. QED
    BY <1>4, <1>6, <1>8, <2>1, <2>2
<1>10. PoolShape'
  <2> SUFFICES ASSUME NEW i \in 1 .. Len(mempool'), NEW j \in 1 .. Len(mempool'),
                      mempool'[i].id = mempool'[j].id
               PROVE  i = j
    BY <1>1 DEF PoolShape
  <2>1. i + 1 = j + 1
    BY <1>0, <1>8 DEF VersionsOK, PoolShape
  <2>. QED
    BY <2>1
<1>11. ProofsFit'
  <2>1. ASSUME NEW i \in 1 .. Len(mempool'), NEW h \in RegistrationIds, mempool'[i].id = h
        PROVE  FitsRow(projectVersions'[h], mempool'[i].calldata)
    <3>1. FitsRow(projectVersions[h], mempool[i + 1].calldata)
      BY <1>0, <1>8, <2>1 DEF VersionsOK, ProofsFit
    <3>2. projectVersions' = projectVersions /\ mempool'[i] = mempool[i + 1]
      BY <1>5, <1>8 DEF databaseVars
    <3>. QED
      BY <3>1, <3>2
  <2>2. ASSUME NEW h \in RegistrationIds, proofs'[h] # NoProof
        PROVE  h \in Recorded' /\ FitsRow(projectVersions'[h], proofs'[h].submission)
    <3>1. projectVersions' = projectVersions
      BY <1>5 DEF databaseVars
    <3>2. CASE h = g
      BY <1>3, <1>4, <1>6, <3>1, <3>2
    <3>3. CASE h # g
      BY <1>0, <1>4, <1>6, <2>2, <3>1, <3>3 DEF VersionsOK, ProofsFit, Chain!Exists
    <3>. QED
      BY <3>2, <3>3
  <2>. QED
    BY <2>1, <2>2 DEF ProofsFit, Chain!Exists
<1>12. RecordsFit'
  BY <1>0, <1>4, <1>5, <1>6 DEF VersionsOK, RecordsFit, Chain!Exists, databaseVars
<1>. QED
  BY <1>0, <1>4, <1>6, <1>7, <1>9, <1>10, <1>11, <1>12, BaseParts DEF VersionsOK

\* A block without a record changes nothing but the number of the block.
LEMMA MineBlockStep ==
    ASSUME Base, MineBlock
    PROVE  Base'
<1>1. /\ UNCHANGED <<databaseVars, query, mempool, owner, pendingOwner, relayer>>
      /\ UNCHANGED <<recordCounter, proofs, recordIndex>>
      /\ blockNumber' = blockNumber + 1
  BY DEF MineBlock, Chain!MineBlock, Chain!authority, Chain!records
<1>2. Chain!TypeOK'
  BY <1>1, BaseParts DEF VersionsOK, Chain!TypeOK
<1>3. Recorded' = Recorded /\ Uploaded' = Uploaded /\ RowsOK'
  BY <1>1, BaseParts DEF RowsOK, Uploaded, Recorded, databaseVars
<1>4. QueryOK' /\ QueryFits'
  BY <1>1, <1>3, BaseParts, KeepQuery DEF databaseVars
<1>5. PoolOK' /\ PoolShape' /\ IsFiniteSet(Recorded)'
  BY <1>1, <1>3, BaseParts DEF VersionsOK, PoolOK, PoolShape, Chain!Exists
<1>6. ProofsFit' /\ RecordsFit'
  BY <1>1, <1>3, BaseParts DEF VersionsOK, ProofsFit, RecordsFit, Chain!Exists, databaseVars
<1>. QED
  BY <1>2, <1>3, <1>4, <1>5, <1>6, BaseParts DEF VersionsOK

\* A version is new to the database, to the contract and to the pool.
LEMMA CreateRows ==
    ASSUME Base, NEW g \in RegistrationIds, NEW row \in Rows, NEW sub,
           CreateEffect(g, row, sub), row.status # "PENDING" => sub \in Calldata
    PROVE  /\ Recorded' = Recorded \cup {g} /\ IsFiniteSet(Recorded)'
           /\ projectVersions'[g] = row
           /\ \A h \in RegistrationIds : h # g => projectVersions'[h] = projectVersions[h]
           /\ proofs[g] = NoProof /\ records[g] = NoRecord
           /\ RowsOK'
<1> USE BaseParts
<1>1. /\ projectVersions' \in [RegistrationIds -> Rows \cup {NoVersion}]
      /\ projectVersions'[g] = row
      /\ \A h \in RegistrationIds : h # g => projectVersions'[h] = projectVersions[h]
  BY DEF CreateEffect, RowsOK
<1>2. Recorded' = Recorded \cup {g}
  BY <1>1, NullAssumption DEF Recorded
<1>3. IsFiniteSet(Recorded \cup {g})
  BY FS_AddElement DEF VersionsOK
<1>4. proofs[g] = NoProof /\ records[g] = NoRecord
  BY DEF VersionsOK, ProofsFit, RecordsFit, CreateEffect, Chain!Exists
<1>5. records' \in [RegistrationIds -> Records \cup {NoRecord}]
  BY DEF CreateEffect, RowsOK, VersionsOK, Calldata, Records, Chain!TypeOK
<1>6. /\ Uploaded' = Uploaded
      /\ \A a \in Uploaded : artifactVersion'[a] \in Recorded' \cup {NoVersion}
  BY <1>2 DEF CreateEffect, RowsOK, Uploaded
<1>7. RowsOK'
  BY <1>1, <1>5, <1>6 DEF CreateEffect, RowsOK
<1>. QED
  BY <1>1, <1>2, <1>3, <1>4, <1>7

\* A new version keeps Base.
LEMMA CreateStep ==
    ASSUME Base, NEW g \in RegistrationIds, NEW row \in Rows, NEW sub,
           CreateEffect(g, row, sub),
           row.status # "PENDING" => sub \in Calldata /\ FitsRow(row, sub)
    PROVE  Base'
<1>0. /\ VersionsOK /\ g \notin Recorded /\ Len(mempool) \in Nat
      /\ mempool \in Seq([id : RegistrationIds, calldata : Calldata])
  BY BaseParts DEF CreateEffect, VersionsOK, PoolShape
<1>1. /\ Recorded' = Recorded \cup {g} /\ IsFiniteSet(Recorded)'
      /\ projectVersions'[g] = row
      /\ \A h \in RegistrationIds : h # g => projectVersions'[h] = projectVersions[h]
      /\ proofs[g] = NoProof /\ records[g] = NoRecord
      /\ RowsOK'
  BY CreateRows
<1>2. QueryOK' /\ QueryFits'
  BY DEF CreateEffect, QueryOK, QueryFits
\* A transaction in the pool is about an older version.
<1>3. ASSUME NEW i \in 1 .. Len(mempool)
      PROVE  /\ mempool[i].id \in Recorded /\ mempool[i].id # g
             /\ mempool[i].id \in RegistrationIds
             /\ proofs[mempool[i].id] = NoProof
             /\ mempool[i].calldata \in Calldata
             /\ FitsRow(projectVersions[mempool[i].id], mempool[i].calldata)
  BY <1>0 DEF VersionsOK, PoolOK, ProofsFit, Recorded, Chain!Exists
\* The contract: as it was, or with the proof of this version.
<1>4. \/ proofs' = proofs /\ Chain!TypeOK' /\ row.status # "ANCHORED"
      \/ /\ Chain!TypeOK' /\ FitsRow(row, sub)
         /\ proofs'[g] # NoProof /\ proofs'[g].submission = sub
         /\ proofs'[g].blockNumber = blockNumber
         /\ \A h \in RegistrationIds : h # g => proofs'[h] = proofs[h]
         /\ mempool' = mempool
  BY <1>0, KeepContract, RegisterEffect DEF VersionsOK, CreateEffect, contractVars
<1>5. ASSUME NEW h \in RegistrationIds, h # g
      PROVE  proofs'[h] = proofs[h]
  BY <1>4, <1>5
\* The pool: as it was, or with the transaction of this version.
<1>6. \/ mempool' = mempool
      \/ /\ mempool' = Append(mempool, [id |-> g, calldata |-> sub])
         /\ sub \in Calldata /\ FitsRow(row, sub) /\ proofs' = proofs
  BY DEF CreateEffect, contractVars
<1>7. ASSUME NEW i \in 1 .. Len(mempool')
      PROVE  \/ i \in 1 .. Len(mempool) /\ mempool'[i] = mempool[i]
             \/ /\ i = Len(mempool) + 1 /\ mempool'[i].id = g
                /\ mempool'[i].calldata = sub
                /\ sub \in Calldata /\ FitsRow(row, sub) /\ proofs' = proofs
  BY <1>0, <1>6
<1>8. ASSUME NEW i \in 1 .. Len(mempool')
      PROVE  /\ mempool'[i].id \in Recorded' /\ mempool'[i].calldata \in Calldata
             /\ proofs'[mempool'[i].id] = NoProof
             /\ FitsRow(projectVersions'[mempool'[i].id], mempool'[i].calldata)
  <2>1. CASE i \in 1 .. Len(mempool) /\ mempool'[i] = mempool[i]
    <3>1. PICK h \in RegistrationIds : h = mempool[i].id
      BY <1>3, <2>1
    <3>2. /\ h # g /\ h \in Recorded /\ proofs[h] = NoProof
          /\ mempool[i].calldata \in Calldata
          /\ FitsRow(projectVersions[h], mempool[i].calldata)
      BY <1>3, <2>1, <3>1
    <3>. QED
      BY <1>1, <1>5, <2>1, <3>1, <3>2
  <2>2. CASE /\ mempool'[i].id = g /\ mempool'[i].calldata = sub
             /\ sub \in Calldata /\ FitsRow(row, sub) /\ proofs' = proofs
    BY <1>1, <2>2
  <2>. QED
    BY <1>7, <2>1, <2>2
<1>9. PoolOK'
  BY <1>8 DEF PoolOK, Chain!Exists
<1>10. PoolShape'
  <2>1. mempool' \in Seq([id : RegistrationIds, calldata : Calldata])
    <3>1. ASSUME NEW tx \in [id : RegistrationIds, calldata : Calldata]
          PROVE  Append(mempool, tx) \in Seq([id : RegistrationIds, calldata : Calldata])
      BY <1>0
    <3>2. CASE mempool' = mempool
      BY <1>0, <3>2
    <3>3. CASE mempool' = Append(mempool, [id |-> g, calldata |-> sub]) /\ sub \in Calldata
      BY <3>1, <3>3
    <3>. QED
      BY <1>6, <3>2, <3>3
  <2>2. ASSUME NEW i \in 1 .. Len(mempool'), NEW j \in 1 .. Len(mempool'),
               mempool'[i].id = mempool'[j].id
        PROVE  i = j
    BY <1>0, <1>3, <1>7, <2>2 DEF VersionsOK, PoolShape
  <2>. QED
    BY <2>1, <2>2 DEF PoolShape
<1>11. ProofsFit'
  <2>1. ASSUME NEW h \in RegistrationIds, proofs'[h] # NoProof
        PROVE  h \in Recorded' /\ FitsRow(projectVersions'[h], proofs'[h].submission)
    <3>1. CASE h = g
      BY <1>1, <1>4, <2>1, <3>1
    <3>2. CASE h # g
      BY <1>0, <1>1, <1>5, <2>1, <3>2 DEF VersionsOK, ProofsFit, Chain!Exists
    <3>. QED
      BY <3>1, <3>2
  <2>. QED
    BY <1>8, <2>1 DEF ProofsFit, Chain!Exists
<1>12. RecordsFit'
  <2> SUFFICES ASSUME NEW h \in RegistrationIds
               PROVE  /\ h \notin Recorded' => records'[h] = NoRecord
                      /\ h \in Recorded' =>
                           (projectVersions'[h].status = "ANCHORED" <=> records'[h] # NoRecord)
                      /\ records'[h] # NoRecord =>
                           /\ proofs'[h] # NoProof
                           /\ proofs'[h].submission.author = records'[h].author
                           /\ proofs'[h].blockNumber = records'[h].block
    BY DEF RecordsFit, Chain!Exists
  <2>1. CASE h # g
    <3>1. records'[h] = records[h]
      BY <2>1, BaseParts DEF CreateEffect, RowsOK
    <3>. QED
      BY <1>0, <1>1, <1>5, <2>1, <3>1 DEF VersionsOK, RecordsFit, Chain!Exists
  <2>2. CASE h = g /\ row.status = "ANCHORED"
    <3>1. PICK record : record = [author |-> sub.author, block |-> blockNumber]
      OBVIOUS
    <3>2. records'[g] = record /\ sub \in Calldata /\ blockNumber \in Nat
      BY <1>0, <2>2, <3>1, BaseParts DEF CreateEffect, RowsOK, VersionsOK, Chain!TypeOK
    <3>3. record # NoRecord /\ record.author = sub.author /\ record.block = blockNumber
      BY <3>1, <3>2, NullAssumption DEF Calldata, Records
    <3>4. /\ proofs'[g] # NoProof /\ proofs'[g].submission = sub
          /\ proofs'[g].blockNumber = blockNumber
      BY <1>4, <2>2
    <3>. QED
      BY <1>1, <2>2, <3>2, <3>3, <3>4
  <2>3. CASE h = g /\ row.status # "ANCHORED"
    <3>1. records' = records
      BY <2>3 DEF CreateEffect
    <3>. QED
      BY <1>1, <2>3, <3>1
  <2>. QED
    BY <2>1, <2>2, <2>3
<1>13. Chain!TypeOK'
  BY <1>4
<1>. QED
  BY <1>1, <1>2, <1>9, <1>10, <1>11, <1>12, <1>13, BaseParts DEF VersionsOK

\* Base holds of the empty registry.
LEMMA BaseInit ==
    ASSUME Init
    PROVE  Base
<1> USE DEF Init
<1>1. Recorded = {} /\ Uploaded = {}
  BY DEF Recorded, Uploaded
<1>2. RowsOK /\ QueryOK /\ QueryFits
  BY <1>1, VerificationAssumption DEF RowsOK, QueryOK, QueryFits
<1>3. Chain!TypeOK
  BY DEF Chain!Init, Chain!TypeOK, Chain!Addresses, Chain!Strings
<1>4. PoolOK /\ PoolShape
  BY DEF PoolOK, PoolShape
<1>5. IsFiniteSet(Recorded)
  BY <1>1, FS_EmptySet
<1>6. \A g \in RegistrationIds : proofs[g] = NoProof
  BY DEF Chain!Init, Chain!Strings
<1>7. ProofsFit /\ RecordsFit
  BY <1>1, <1>6 DEF ProofsFit, RecordsFit, Chain!Exists
<1>. QED
  BY <1>2, <1>3, <1>4, <1>5, <1>7, BaseParts DEF VersionsOK

\* What the contract and the pool hold of a version is what its row says, with
\* the author and the team of the day it was created; only what is ANCHORED has
\* a record; and a query's first reads are still true but for what the property
\* allows to change.
THEOREM BaseInvariant == Spec => []Base
<1>1. Init => Base
  BY BaseInit
<1>2. Base /\ [Next]_vars => Base'
  <2> SUFFICES ASSUME Base, [Next]_vars PROVE Base'
    OBVIOUS
  <2>1. ASSUME NEW p \in Projects, NEW g \in RegistrationIds, NEW S \in SUBSET Artifacts,
               NEW creator \in Users, CreateVersion(g, p, S, creator)
        PROVE  Base'
    BY <2>1, CreateCases, CreateStep
  <2>2. ASSUME VerifyById \/ VerifyByHash \/ VerifyByFile
        PROVE  \E g \in Recorded : Ask(g)
    BY <2>2, BaseParts DEF VerifyById, VerifyByHash, VerifyByFile, RowsOK
  <2>3. CASE AnswerQuery
    <3>1. VersionsOK' /\ RowsOK'
      BY <2>3, BaseParts, KeepVersions
         DEF AnswerQuery, RowsOK, databaseVars, Uploaded, Recorded
    <3>2. QueryOK' /\ QueryFits'
      BY <2>3 DEF AnswerQuery, QueryOK, QueryFits
    <3>. QED
      BY <3>1, <3>2, BaseParts
  <2>4. CASE UNCHANGED vars
    <3>1. VersionsOK' /\ RowsOK'
      BY <2>4, BaseParts, KeepVersions DEF vars, RowsOK, databaseVars, Uploaded, Recorded
    <3>2. QueryOK' /\ QueryFits'
      BY <2>4, BaseParts, KeepQuery DEF vars, databaseVars, contractVars, Uploaded, Recorded
    <3>. QED
      BY <3>1, <3>2, BaseParts
  <2>. QED
    BY <2>1, <2>2, <2>3, <2>4, AddMemberStep, UploadStep, MineLateStep, MineBlockStep, DisputeStep, AskStep, VerificationAssumption
       DEF Next
<1>. QED
  BY <1>1, <1>2, PTL DEF Spec

-----------------------------------------------------------------------------
(* What the answers say.                                                   *)

\* Every row, record, link and pending transaction is one the code writes.
THEOREM TypeCorrect == Spec => []TypeOK
<1>1. Base => TypeOK
  BY DEF Base
<1>. QED
  BY <1>1, BaseInvariant, PTL

\* What the property may use of a query that is being answered.
LEMMA Asked ==
    ASSUME Base, query # NoQuery
    PROVE  \E g \in RegistrationIds, row \in Rows :
             /\ query.version = g /\ query.row = row
             /\ row = projectVersions[g] /\ row.status # "FAILED"
             /\ row.content \in Contents
             /\ query.record = records[g]
             /\ row.status = "ANCHORED" <=> query.record # NoRecord
             /\ query.record # NoRecord =>
                  /\ Chain!Exists(g) /\ proofs[g].submission.author = query.record.author
                  /\ proofs[g].blockNumber = query.record.block
             /\ Chain!Exists(g) => FitsRow(row, proofs[g].submission)
             /\ query.proof # NoProof =>
                  /\ Chain!Exists(g) /\ query.proof.submission = proofs[g].submission
                  /\ query.proof.blockNumber = proofs[g].blockNumber
<1>1. PICK g \in RegistrationIds : g = query.version /\ g \in Recorded
  BY BaseParts DEF QueryOK, Recorded
<1>2. PICK row \in Rows : row = projectVersions[g]
  BY <1>1, BaseParts DEF RowsOK, Recorded
<1>3. query.row = row /\ row.status # "FAILED" /\ query.record = records[g]
  BY <1>1, <1>2 DEF Base, QueryFits
<1>4. query.proof # NoProof =>
        /\ Chain!Exists(g) /\ query.proof.submission = proofs[g].submission
        /\ query.proof.blockNumber = proofs[g].blockNumber
  BY <1>1 DEF Base, QueryFits
<1>5. /\ row.status = "ANCHORED" <=> records[g] # NoRecord
      /\ records[g] # NoRecord =>
           /\ Chain!Exists(g) /\ proofs[g].submission.author = records[g].author
           /\ proofs[g].blockNumber = records[g].block
  BY <1>1, <1>2 DEF Base, RecordsFit
<1>6. Chain!Exists(g) => FitsRow(row, proofs[g].submission)
  BY <1>2 DEF Base, ProofsFit
<1>7. row.content \in Contents
  BY DEF Rows
<1>. QED
  BY <1>1, <1>2, <1>3, <1>4, <1>5, <1>6, <1>7

\* The second read is refused for a version without a digest; else it finds a
\* proof if there is one.
LEMMA SecondRead ==
    ASSUME Base, NEW g \in RegistrationIds, query.version = g
    PROVE  /\ Second = HashRefused <=> query.row.content.compositeHash = {}
           /\ Second # HashRefused /\ ~Chain!Exists(g) => Second = NoProof
           /\ Second # HashRefused /\ Chain!Exists(g) =>
                /\ Second # NoProof
                /\ Second.isValid <=> proofs[g].submission.compositeHash
                                        = query.row.content.compositeHash
                /\ Second.ipfsRootCID = proofs[g].submission.ipfsRootCID
                /\ Second.author = proofs[g].submission.author
                /\ Second.disputeState = proofs[g].disputeState
<1>1. CASE query.row.content.compositeHash = {}
  BY <1>1 DEF Second, VerifyProjectVersion
<1>2. CASE query.row.content.compositeHash # {} /\ ~Chain!Exists(g)
  BY <1>2, NullAssumption DEF Second, VerifyProjectVersion
<1>3. CASE query.row.content.compositeHash # {} /\ Chain!Exists(g)
  <2>1. proofs[g] \in Chain!VersionProofs
    BY <1>3 DEF Base, TypeOK, Chain!TypeOK, Chain!Exists, Chain!Strings
  <2>2. PICK result : result =
          [isValid |-> proofs[g].submission.compositeHash = query.row.content.compositeHash,
           ipfsRootCID |-> proofs[g].submission.ipfsRootCID,
           author |-> proofs[g].submission.author, disputeState |-> proofs[g].disputeState]
    OBVIOUS
  <2>3. Second = result
    BY <1>3, <2>2 DEF Second, VerifyProjectVersion
  <2>4. proofs[g].submission \in Calldata /\ proofs[g].disputeState \in Chain!DisputeStatuses
    BY <2>1 DEF Chain!VersionProofs
  <2>5. result \in [isValid : BOOLEAN, ipfsRootCID : Snapshots,
                    author : Users \cup {ZeroAddress},
                    disputeState : Chain!DisputeStatuses]
    BY <2>2, <2>4 DEF Calldata
  <2>6. result # NoProof /\ result # HashRefused
    BY <2>5, NullAssumption
  <2>. QED
    BY <1>3, <2>2, <2>3, <2>6
<1>. QED
  BY <1>1, <1>2, <1>3

\* The content of a row has four fields, and FitsRow compares them.
LEMMA FitsContent ==
    ASSUME NEW row \in Rows, row.content \in Contents, NEW sub, FitsRow(row, sub)
    PROVE  \A field \in DOMAIN row.content : sub[field] = row.content[field]
<1>1. DOMAIN row.content = {"compositeHash", "ipfsRootCID", "versionIndex", "lifecycleStage"}
  BY DEF Contents
<1>. QED
  BY <1>1 DEF FitsRow

\* What is valid has its very content on chain, unless it has no record and
\* awaits its anchoring.
THEOREM ValidProved == Spec => []ValidIsProved
<1>1. Base => ValidIsProved
  <2> SUFFICES ASSUME Base, query # NoQuery, IsValid(query, Second)
               PROVE  \/ /\ Chain!Exists(query.version)
                         /\ \A field \in DOMAIN query.row.content :
                              proofs[query.version].submission[field]
                                = query.row.content[field]
                      \/ /\ query.row.status \in {"PENDING", "ANCHORING"}
                         /\ query.record = NoRecord
    BY DEF ValidIsProved, Answering
  <2>1. PICK g \in RegistrationIds, row \in Rows :
             /\ query.version = g /\ query.row = row
             /\ row.status # "FAILED" /\ row.content \in Contents
             /\ row.status = "ANCHORED" <=> query.record # NoRecord
             /\ query.record # NoRecord => Chain!Exists(g)
             /\ Chain!Exists(g) => FitsRow(row, proofs[g].submission)
    BY Asked
  <2>2. CASE Chain!Exists(g)
    BY <2>1, <2>2, FitsContent
  <2>3. CASE ~Chain!Exists(g)
    BY <2>1, <2>3 DEF Rows
  <2>. QED
    BY <2>2, <2>3
<1>. QED
  BY <1>1, BaseInvariant, PTL

\* The certificate service and the verification service come to the same
\* decision on every ANCHORED version, because each of those has its record.
THEOREM CertifiedCorrect == Spec => []CertifiedExactlyIfValid
<1>1. Base => CertifiedExactlyIfValid
  <2> SUFFICES ASSUME Base, query # NoQuery
               PROVE  Certified(query, Second)
                        <=> query.row.status = "ANCHORED" /\ IsValid(query, Second)
    BY DEF CertifiedExactlyIfValid, Answering
  <2>1. query.row.status = "ANCHORED" => query.record # NoRecord
    BY Asked
  <2>2. EffectiveDispute(query, Second) \notin Disputed
          <=> /\ EffectiveDispute(query, Second) \notin {"OPEN", "UNDER_REVIEW"}
              /\ EffectiveDispute(query, Second) # "RESOLVED"
    BY DEF Disputed
  <2>. QED
    BY <2>1, <2>2 DEF Certified, IsValid
<1>. QED
  BY <1>1, BaseInvariant, PTL

\* The rules that put an author and co-authors on chain and those that expect
\* them there agree on every version that has artifacts, whether its proof was
\* there at the first read, came between the two, or is not there yet; and it is
\* answered for.
THEOREM HonestVerifies == Spec => []HonestVersionVerifies
<1>1. Base => HonestVersionVerifies
  <2> SUFFICES ASSUME Base, query # NoQuery, query.row.content.compositeHash # {},
                      query.team = query.row.team
               PROVE  Second # HashRefused /\ Matches(query, Second)
    BY DEF HonestVersionVerifies, Answering, IsValid
  <2>1. PICK g \in RegistrationIds, row \in Rows :
             /\ query.version = g /\ query.row = row
             /\ row.content \in Contents
             /\ query.record # NoRecord =>
                  /\ Chain!Exists(g) /\ proofs[g].submission.author = query.record.author
                  /\ proofs[g].blockNumber = query.record.block
             /\ Chain!Exists(g) => FitsRow(row, proofs[g].submission)
             /\ query.proof # NoProof =>
                  /\ Chain!Exists(g) /\ query.proof.submission = proofs[g].submission
                  /\ query.proof.blockNumber = proofs[g].blockNumber
    BY Asked
  <2>2. Second # HashRefused
    BY <2>1, SecondRead
  <2>3. ASSUME NEW x, x.author = proofs[g].submission.author, Chain!Exists(g)
        PROVE  AuthorMatches(query, x)
    BY <2>1, <2>3 DEF AuthorMatches, FitsRow
  <2>4. CASE query.proof # NoProof
    <3>1. FitsRow(row, query.proof.submission)
      BY <2>1, <2>4
    <3>2. \A field \in DOMAIN query.row.content :
            query.proof.submission[field] = query.row.content[field]
      BY <2>1, <3>1, FitsContent
    <3>3. ExpectedCoAuthors(query) = query.proof.submission.coAuthors
      BY <2>1, <3>1 DEF ExpectedCoAuthors, FitsRow
    <3>4. AuthorMatches(query, query.proof.submission)
      BY <2>1, <2>3, <2>4
    <3>5. query.record # NoRecord => query.record.block = query.proof.blockNumber
      BY <2>1, <2>4
    <3>. QED
      BY <2>2, <2>4, <3>2, <3>3, <3>4, <3>5 DEF Matches, StructMatches
  <2>5. CASE query.proof = NoProof /\ Chain!Exists(g)
    <3>1. /\ Second # NoProof
          /\ Second.isValid <=> proofs[g].submission.compositeHash
                                  = query.row.content.compositeHash
          /\ Second.ipfsRootCID = proofs[g].submission.ipfsRootCID
          /\ Second.author = proofs[g].submission.author
      BY <2>1, <2>2, <2>5, SecondRead
    <3>2. Second.isValid /\ Second.ipfsRootCID = query.row.content.ipfsRootCID
      BY <2>1, <2>5, <3>1 DEF FitsRow
    <3>3. AuthorMatches(query, Second)
      BY <2>3, <2>5, <3>1
    <3>. QED
      BY <2>2, <2>5, <3>1, <3>2, <3>3 DEF Matches, ResultMatches
  <2>6. CASE query.proof = NoProof /\ ~Chain!Exists(g)
    BY <2>1, <2>2, <2>6, SecondRead DEF Matches
  <2>. QED
    BY <2>1, <2>4, <2>5, <2>6
<1>. QED
  BY <1>1, BaseInvariant, PTL

-----------------------------------------------------------------------------
(* The two reads, and one.                                                 *)

\* An answer whose first read found a proof does not depend on the second.
LEMMA FirstDecides ==
    ASSUME NEW q, NEW second, NEW other, q.proof # NoProof
    PROVE  IsValid(q, second) = IsValid(q, other)
BY DEF IsValid, Matches, EffectiveDispute

\* Two queries that agree on what is compared are answered alike.
LEMMA SameAnswer ==
    ASSUME NEW q, NEW r, NEW second, q.row = r.row, q.record = r.record,
           q.team = r.team, q.proof = r.proof
    PROVE  IsValid(q, second) = IsValid(r, second)
BY DEF IsValid, Matches, EffectiveDispute, StructMatches, ResultMatches, AuthorMatches,
       ExpectedCoAuthors

\* The struct is compared by the stricter rules: what it lets pass, the result of
\* the view lets pass.
LEMMA StructIsStricter ==
    ASSUME Base, Answering, UndividedVerdict
    PROVE  query.proof = NoProof => IsValid(query, Second)
<1> SUFFICES ASSUME query.proof = NoProof PROVE IsValid(query, Second)
  OBVIOUS
<1>1. PICK g \in RegistrationIds, row \in Rows :
        query.version = g /\ query.row = row /\ row.content \in Contents
  BY Asked DEF Answering
<1>2. PICK u : u = Undivided
  OBVIOUS
<1>3. /\ u.row = query.row /\ u.record = query.record /\ u.team = query.team
      /\ u.proof = proofs[g]
  BY <1>1, <1>2 DEF Undivided, GetProjectVersion
<1>4. IsValid(u, Second)
  BY <1>2 DEF UndividedVerdict
<1>5. CASE ~Chain!Exists(g)
  BY <1>3, <1>4, <1>5, SameAnswer DEF Chain!Exists
<1>6. CASE Chain!Exists(g)
  <2>1. /\ Second # NoProof
        /\ Second.isValid <=> proofs[g].submission.compositeHash
                                = query.row.content.compositeHash
        /\ Second.ipfsRootCID = proofs[g].submission.ipfsRootCID
        /\ Second.author = proofs[g].submission.author
        /\ Second.disputeState = proofs[g].disputeState
    BY <1>1, <1>6, SecondRead DEF Answering
  <2>2. /\ StructMatches(u, proofs[g])
        /\ proofs[g].disputeState \notin Disputed
    BY <1>3, <1>4, <1>6 DEF IsValid, Matches, EffectiveDispute, Chain!Exists
  <2>3. {"compositeHash", "ipfsRootCID"} \subseteq DOMAIN row.content
    BY <1>1 DEF Contents
  <2>4. /\ proofs[g].submission.compositeHash = query.row.content.compositeHash
        /\ proofs[g].submission.ipfsRootCID = query.row.content.ipfsRootCID
        /\ AuthorMatches(u, proofs[g].submission)
    BY <1>1, <1>3, <2>2, <2>3 DEF StructMatches
  <2>5. AuthorMatches(query, Second)
    BY <1>3, <2>1, <2>4 DEF AuthorMatches
  <2>. QED
    BY <2>1, <2>2, <2>4, <2>5 DEF IsValid, Matches, ResultMatches, EffectiveDispute
<1>. QED
  BY <1>5, <1>6

\* What the history holds while a question is open: the verdict of a first read
\* that found a proof, the verdict that nothing contradicted a version without
\* one, and the verdict of this moment.
Remembered ==
    Answering =>
      /\ query.proof # NoProof => IsValid(query, Second) \in verdicts
      /\ query.proof = NoProof => TRUE \in verdicts
      /\ UndividedVerdict \in verdicts

\* A question stays as it was asked until it is answered.
LEMMA QueryStays ==
    ASSUME Base, [Next]_vars, query' # NoQuery
    PROVE  query' = query \/ (query = NoQuery /\ \E g \in Recorded : Ask(g))
<1>1. ASSUME NEW p \in Projects, NEW g \in RegistrationIds, NEW S \in SUBSET Artifacts,
             NEW creator \in Users, CreateVersion(g, p, S, creator)
      PROVE  query' = query
  BY <1>1 DEF CreateVersion, InsertVersion
<1>2. ASSUME VerifyById \/ VerifyByHash \/ VerifyByFile
      PROVE  \E g \in Recorded : Ask(g)
  BY <1>2, BaseParts DEF VerifyById, VerifyByHash, VerifyByFile, RowsOK
<1>3. \A g \in Recorded : Ask(g) => query = NoQuery
  BY DEF Ask
<1>4. ASSUME \/ \E p \in Projects, user \in Users : AddMember(p, user)
             \/ \E a \in Artifacts, g \in Recorded \cup {NoVersion} : Upload(a, g)
             \/ MineLate \/ Dispute \/ MineBlock \/ UNCHANGED vars
      PROVE  query' = query
  BY <1>4 DEF AddMember, Upload, MineLate, MineBlock, Dispute, vars
<1>5. ~AnswerQuery
  BY DEF AnswerQuery
<1>. QED
  BY <1>1, <1>2, <1>3, <1>4, <1>5, VerificationAssumption DEF Next

\* The first verdict of a question is that of a handler that reads once; if the
\* contract does not know the version, it is that nothing contradicts it.
LEMMA FirstVerdict ==
    ASSUME NEW g \in Recorded, Ask(g), Answering'
    PROVE  /\ IsValid(query, Second)' = UndividedVerdict'
           /\ query'.proof = NoProof => UndividedVerdict' = TRUE
<1>1. PICK q : q = [version |-> g, row |-> projectVersions[g], record |-> records[g],
                    team |-> members[projectVersions[g].project],
                    proof |-> GetProjectVersion(g)]
  OBVIOUS
<1>2. /\ query' = q /\ q.version = g /\ q.proof = proofs[g] /\ proofs' = proofs
  BY <1>1 DEF Ask, GetProjectVersion, contractVars
<1>3. PICK u : u = Undivided'
  OBVIOUS
<1>4. /\ u.row = q.row /\ u.record = q.record /\ u.team = q.team /\ u.proof = q.proof
  BY <1>2, <1>3 DEF Undivided, GetProjectVersion
<1>5. PICK second : second = Second' /\ second # HashRefused
  BY DEF Answering
<1>6. IsValid(q, second) = IsValid(u, second)
  BY <1>4, SameAnswer
<1>7. UndividedVerdict' = IsValid(u, second) /\ IsValid(query, Second)' = IsValid(q, second)
  BY <1>2, <1>3, <1>5 DEF UndividedVerdict
<1>8. ASSUME q.proof = NoProof
      PROVE  IsValid(u, second) = TRUE
  <2>1. second = NoProof
    BY <1>2, <1>5, <1>8 DEF Second, VerifyProjectVersion, Chain!Exists
  <2>2. IsValid(u, second)
    BY <1>4, <1>8, <2>1 DEF IsValid, Matches, EffectiveDispute, Disputed
  <2>. QED
    BY <2>2
<1>. QED
  BY <1>2, <1>6, <1>7, <1>8

\* The history is kept in every step.
LEMMA RememberedStep ==
    ASSUME Base, Remembered, [HistoryNext]_historyVars
    PROVE  Remembered'
<1> SUFFICES ASSUME Answering'
             PROVE  /\ query'.proof # NoProof => IsValid(query, Second)' \in verdicts'
                    /\ query'.proof = NoProof => TRUE \in verdicts'
                    /\ UndividedVerdict' \in verdicts'
  BY DEF Remembered
<1>1. CASE HistoryNext
  <2>1. verdicts' = verdicts \cup {UndividedVerdict'}
    BY <1>1 DEF HistoryNext
  <2>2. query' # NoQuery /\ [Next]_vars
    BY <1>1 DEF HistoryNext, Answering
  <2>3. CASE query = NoQuery /\ \E g \in Recorded : Ask(g)
    BY <2>1, <2>3, FirstVerdict
  <2>4. CASE query' = query
    <3>1. PICK q : q = query
      OBVIOUS
    <3>2. PICK second, other : second = Second /\ other = Second'
      OBVIOUS
    <3>3. second = HashRefused => other = HashRefused
      <4>1. PICK g \in RegistrationIds : query.version = g
        BY <2>2, <2>4, Asked
      <4>2. second = HashRefused => query.row.content.compositeHash = {}
        BY <3>2, <4>1, SecondRead
      <4>. QED
        BY <2>4, <3>2, <4>2 DEF Second, VerifyProjectVersion
    <3>4. Answering
      BY <2>2, <2>4, <3>2, <3>3 DEF Answering
    <3>5. q.proof # NoProof => IsValid(q, other) = IsValid(q, second)
      BY FirstDecides
    <3>6. q.proof # NoProof => IsValid(q, second) \in verdicts
      BY <3>1, <3>2, <3>4 DEF Remembered
    <3>7. q.proof = NoProof => TRUE \in verdicts
      BY <3>1, <3>4 DEF Remembered
    <3>8. IsValid(query, Second)' = IsValid(q, other) /\ query' = q
      BY <2>4, <3>1, <3>2
    <3>. QED
      BY <2>1, <3>5, <3>6, <3>7, <3>8
  <2>. QED
    BY <2>2, <2>3, <2>4, QueryStays
<1>2. CASE UNCHANGED historyVars
  BY <1>2 DEF historyVars, vars, databaseVars, contractVars, Remembered, Answering, Second,
              VerifyProjectVersion, UndividedVerdict, Undivided, GetProjectVersion, Chain!Exists
<1>. QED
  BY <1>1, <1>2

\* Whatever is mined, disputed or ruled on between the two reads, the verdict is
\* that of one reading at some moment since the question was asked.
THEOREM VerdictOfMoment == HistorySpec => []VerdictOfOneMoment
<1>1. HistoryInit => Init /\ Remembered
  BY DEF HistoryInit, Init, Remembered, Answering
<1>2. [HistoryNext]_historyVars => [Next]_vars
  BY DEF HistoryNext, historyVars
<1>3. HistorySpec => Spec
  BY <1>1, <1>2, PTL DEF HistorySpec, Spec
<1>4. Base /\ Remembered /\ [HistoryNext]_historyVars => Remembered'
  BY RememberedStep
<1>5. Base /\ Remembered => VerdictOfOneMoment
  <2> SUFFICES ASSUME Base, Remembered, Answering
               PROVE  IsValid(query, Second) \in verdicts
    BY DEF VerdictOfOneMoment
  <2>1. PICK valid \in BOOLEAN : valid = IsValid(query, Second)
    BY DEF IsValid
  <2>2. PICK undivided \in BOOLEAN : undivided = UndividedVerdict
    BY DEF UndividedVerdict, IsValid
  <2>3. CASE query.proof # NoProof
    BY <2>3 DEF Remembered
  <2>4. CASE query.proof = NoProof /\ valid = TRUE
    BY <2>1, <2>4 DEF Remembered
  <2>5. CASE query.proof = NoProof /\ valid = FALSE
    <3>1. undivided = FALSE
      BY <2>1, <2>2, <2>5, StructIsStricter
    <3>2. undivided \in verdicts
      BY <2>2 DEF Remembered
    <3>. QED
      BY <2>1, <2>5, <3>1, <3>2
  <2>. QED
    BY <2>1, <2>3, <2>4, <2>5
<1>. QED
  BY <1>1, <1>3, <1>4, <1>5, BaseInvariant, PTL DEF HistorySpec

-----------------------------------------------------------------------------
(* The contract underneath.                                                *)

\* However versions come to be mined and disputed, what happens to the contract
\* is a behaviour of ProjectRegistry.
THEOREM ContractUnderneath == Spec => Chain!Spec
<1>1. Init => Chain!Init
  BY DEF Init
<1>2. Base /\ [Next]_vars => [Chain!Next]_(Chain!registryVars)
  <2> SUFFICES ASSUME Base, [Next]_vars
               PROVE  Chain!Next \/ UNCHANGED contractVars
    BY DEF contractVars, Chain!registryVars, Chain!authority, Chain!records
  <2>1. ASSUME NEW g \in RegistrationIds, NEW p \in Projects, NEW S \in SUBSET Artifacts,
               NEW creator \in Users, CreateVersion(g, p, S, creator)
        PROVE  Chain!Next \/ UNCHANGED contractVars
    <3>1. PICK row \in Rows : \E sub :
            /\ CreateEffect(g, row, sub)
            /\ row.status # "PENDING" => sub \in Calldata /\ FitsRow(row, sub)
      BY <2>1, CreateCases
    <3>. QED
      BY <3>1 DEF CreateEffect, Chain!Next, Chain!Strings
  <2>2. CASE MineLate
    <3>1. mempool \in Seq([id : RegistrationIds, calldata : Calldata]) /\ mempool # <<>>
      BY <2>2 DEF Base, PoolShape, MineLate
    <3>2. Head(mempool) \in [id : RegistrationIds, calldata : Calldata]
      BY <3>1, HeadTailProperties
    <3>. QED
      BY <2>2, <3>2 DEF MineLate, Chain!Next, Chain!Strings
  <2>3. CASE Dispute
    BY <2>3 DEF Dispute, Recorded, Chain!Next, Chain!Strings, Chain!Resolutions,
                Chain!DisputeStatuses
  <2>4. CASE MineBlock
    BY <2>4 DEF MineBlock, Chain!Next
  <2>5. CASE UNCHANGED contractVars
    BY <2>5
  <2>. QED
    BY <2>1, <2>2, <2>3, <2>4, <2>5
       DEF Next, vars, AddMember, Upload, VerifyById, VerifyByHash, VerifyByFile, Ask,
           AnswerQuery
<1>. QED
  BY <1>1, <1>2, BaseInvariant, PTL DEF Spec, Chain!Spec
=============================================================================
