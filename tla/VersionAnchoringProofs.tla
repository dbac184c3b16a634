------------------------ MODULE VersionAnchoringProofs ------------------------
(***************************************************************************)
(* Proofs about the creation and anchoring of versions, for every number   *)
(* of requests, projects, artifacts and faults, and for every set of       *)
(* bodies the clients may send.                                            *)
(*                                                                         *)
(* The inductive invariant is the conjunction of the named parts below.    *)
(* Each group of parts is proved from the types and the groups before it.  *)
(***************************************************************************)
EXTENDS VersionAnchoring, FiniteSetTheorems, SequenceTheorems, TLAPS

\* Past the commit of the version, and the status the row has at each stage.
Past == {"created", "sending", "waiting", "recording", "recorded"}

\* The status of a row while its handler is at this stage.
StatusAt(stage) ==
    IF stage = "created" THEN "PENDING"
    ELSE IF stage = "recorded" THEN "ANCHORED" ELSE "ANCHORING"

\* The row a plan becomes.
RowOf(p, status) ==
    [project |-> p.body.project, index |-> p.index, key |-> p.body.key,
     stage |-> p.body.stage, artifacts |-> p.body.artifacts,
     root |-> p.root, status |-> status]

\* A transaction for g is pending.
InPool(g) == \E i \in 1 .. Len(mempool) : mempool[i].id = g

\* A request that was admitted has a plan.
Planned == \A r \in Requests : pc[r] \in {"pinning"} \cup Holding => plan[r] \in Plans

\* A request past its commit holds in its plan exactly the row it committed.
RowsKept ==
    \A r \in Requests : pc[r] \in Past =>
      projectVersions[plan[r].id] = RowOf(plan[r], StatusAt(pc[r]))

\* The constraints of the table, on the rows it holds.
RowsDistinct ==
    \A g, h \in Recorded :
      \/ g = h
      \/ /\ projectVersions[g].project = projectVersions[h].project
              => projectVersions[g].index # projectVersions[h].index
         /\ projectVersions[g].key = projectVersions[h].key
              => projectVersions[g].key = NoKey

\* The number of versions of a project.
Size(p) == Cardinality(VersionsOf(p))

\* The versions of a project carry the numbers from 1 to their count.
Numbered ==
    \A p \in Projects :
      /\ IsFiniteSet(VersionsOf(p))
      /\ Indexes(p) = 1 .. Size(p)

\* The number a handler drew before the pin is at most one above the count, as
\* versions are only added.
PlansInRange ==
    \A r \in Requests, p \in Projects :
      pc[r] \in {"pinning", "creating"} /\ plan[r].body.project = p =>
        plan[r].index \in 1 .. Size(p) + 1

\* What is stale about a plan does no harm: either its number is taken by now,
\* and the insert will be refused, or no version was committed since the check
\* of the stage, and the check still holds.
StagesStillFit ==
    \A r \in Requests, p \in Projects :
      /\ pc[r] \in {"pinning", "creating"} /\ plan[r].body.project = p
      /\ plan[r].index = Size(p) + 1
      => \A g \in VersionsOf(p) : projectVersions[g].index = Size(p) =>
           /\ projectVersions[g].stage # "FINAL"
           /\ StageIndex(projectVersions[g].stage) <= StageIndex(plan[r].body.stage)

\* No client was told of a version that is not in the table.
RepliesTrue ==
    \A r \in Requests :
      reply[r] # NoReply /\ reply[r].kind \in {"created", "existing"}
        => reply[r].version \in Recorded

\* A version is the latest of its project, and not sent, until its handler
\* sends it.
LatestWhileHeld ==
    \A r \in Requests, g \in RegistrationIds :
      pc[r] \in {"created", "sending"} /\ plan[r].id = g =>
        /\ ~Chain!Exists(g) /\ ~InPool(g)
        /\ \A h \in Recorded :
             projectVersions[h].project = projectVersions[g].project
               => projectVersions[h].index <= projectVersions[g].index

\* The pending transactions stand in the order of the versions, after every
\* version that is on chain.
PoolOrdered ==
    /\ \A i, j \in 1 .. Len(mempool) :
         /\ i < j
         /\ projectVersions[mempool[i].id].project = projectVersions[mempool[j].id].project
         => projectVersions[mempool[i].id].index < projectVersions[mempool[j].id].index
    /\ \A g \in RegistrationIds, i \in 1 .. Len(mempool) :
         /\ Chain!Exists(g)
         /\ projectVersions[g].project = projectVersions[mempool[i].id].project
         => projectVersions[g].index < projectVersions[mempool[i].id].index

\* The calldata of a row: its own content, as the plan of its handler gave it.
SubmissionOf(row) == Submission([body |-> row, root |-> row.root, index |-> row.index])

\* What is sent and what is on chain is the snapshot of the row.
SnapshotsFaithful ==
    /\ \A i \in 1 .. Len(mempool) :
         mempool[i].calldata = SubmissionOf(projectVersions[mempool[i].id])
    /\ \A g \in RegistrationIds : Chain!Exists(g) =>
         /\ proofs[g].recordId \in 1 .. recordCounter
         /\ proofs[g].submission = SubmissionOf(projectVersions[g])

\* A receipt of success stands for a proof on chain.
ReceiptsTrue ==
    /\ \A g \in RegistrationIds : receipts[g] = "success" => Chain!Exists(g)
    /\ \A r \in Requests :
         pc[r] \in {"recording", "recorded"} => Chain!Exists(plan[r].id)

\* The inductive invariant on which the other parts rest.
Base == TypeOK /\ Planned /\ RowsKept /\ ReceiptsTrue /\ Numbered /\ PlansInRange
-----------------------------------------------------------------------------
(* Types.                                                                  *)

\* The conjuncts of TypeOK, by what they are about.
RequestsOK ==
    /\ pc \in [Requests -> {"idle", "pinning", "done", "lost"} \cup Holding]
    /\ plan \in [Requests -> Plans \cup {NoPlan}]
    /\ reply \in [Requests -> Replies \cup {NoReply}]
    /\ loop \in Requests \cup {Free}
    /\ \A r \in Requests : pc[r] \in Holding <=> loop = r

TablesOK ==
    /\ projectVersions \in [RegistrationIds -> Rows \cup {NoVersion}]
    /\ currentStage \in [Projects -> Stages]
    /\ artifactVersion \in [Artifacts -> RegistrationIds \cup {NoVersion}]
    /\ withCid \subseteq Artifacts /\ uploaded \subseteq Artifacts
    /\ stored \subseteq uploaded
    /\ blockchainRecords \in [RegistrationIds -> Nat]

ChainOK ==
    /\ mempool \in Seq([id : RegistrationIds, calldata : Calldata])
    /\ receipts \in [RegistrationIds -> {"none", "success", "reverted"}]
    /\ Chain!TypeOK

\* TypeOK is the conjunction of these parts, now and after a step.
LEMMA TypeParts ==
    /\ TypeOK <=> RequestsOK /\ TablesOK /\ ChainOK /\ faults \in 0 .. MaxFaults
    /\ TypeOK' <=> RequestsOK' /\ TablesOK' /\ ChainOK' /\ faults' \in 0 .. MaxFaults
BY DEF TypeOK, RequestsOK, TablesOK, ChainOK

\* What leaves the tables alone keeps their types.
LEMMA KeepTables ==
    ASSUME TablesOK, UNCHANGED <<databaseVars, stored>>
    PROVE  TablesOK'
BY DEF TablesOK, databaseVars, artifactVars

\* What leaves the chain alone keeps its types.
LEMMA KeepChain ==
    ASSUME ChainOK, UNCHANGED chainVars
    PROVE  ChainOK'
BY DEF ChainOK, chainVars, contractVars, Chain!TypeOK

\* An answer frees the loop, if anybody but r held it before nobody but r did.
LEMMA AnswerTypes ==
    ASSUME RequestsOK, NEW r \in Requests, NEW kind, NEW g, Answer(r, kind, g),
           Reply(kind, g) \in Replies, loop \in {Free, r}
    PROVE  RequestsOK'
BY AnchoringAssumption DEF RequestsOK, Answer, Holding

\* The largest number of a project is the number of its versions.
LEMMA MaxIndexIsSize ==
    ASSUME Numbered, NEW p \in Projects
    PROVE  MaxIndex(p) = Size(p) /\ Size(p) \in Nat
<1>1. Size(p) \in Nat
  BY FS_CardinalityType DEF Numbered, Size
<1>2. Indexes(p) \cup {0} = 0 .. Size(p)
  BY <1>1 DEF Numbered
<1>3. \E x \in 0 .. Size(p) : \A y \in 0 .. Size(p) : x >= y
  BY <1>1
<1>4. MaxIndex(p) \in 0 .. Size(p) /\ \A y \in 0 .. Size(p) : MaxIndex(p) >= y
  BY <1>2, <1>3 DEF MaxIndex, Max
<1>. QED
  BY <1>1, <1>4

\* What Admit draws for a request is a plan.
LEMMA PlanTypes ==
    ASSUME Numbered, NEW body \in Bodies, NEW g \in RegistrationIds,
           NEW root \in Roots(body.artifacts)
    PROVE  [body |-> body, id |-> g, root |-> root,
            index |-> MaxIndex(body.project) + 1] \in Plans
<1>1. body \in RequestBodies /\ body.project \in Projects
      /\ body.artifacts \subseteq Artifacts
  BY AnchoringAssumption DEF RequestBodies
<1>2. root \in SUBSET Artifacts
  BY <1>1 DEF Roots, Payloads
<1>3. MaxIndex(body.project) + 1 \in Nat
  BY <1>1, MaxIndexIsSize
<1>. QED
  BY <1>1, <1>2, <1>3 DEF Plans

\* Types after the checks of a request.
LEMMA AdmitTypes ==
    ASSUME TypeOK, Numbered, NEW r \in Requests, NEW body \in Bodies, Admit(r, body)
    PROVE  TypeOK' /\ plan'[r] \in Plans
<1>1. PICK g \in RegistrationIds, root \in Roots(body.artifacts) :
        plan' = [plan EXCEPT ![r] = [body |-> body, id |-> g, root |-> root,
                                     index |-> MaxIndex(body.project) + 1]]
  BY DEF Admit
<1>2. plan' \in [Requests -> Plans \cup {NoPlan}] /\ plan'[r] \in Plans
  BY <1>1, PlanTypes, TypeParts DEF RequestsOK
<1>3. RequestsOK'
  BY <1>2, TypeParts, AnchoringAssumption DEF RequestsOK, Admit, Holding
<1>. QED
  BY <1>2, <1>3, TypeParts, KeepTables, KeepChain DEF Admit

\* A transaction that is mined leaves the contract well typed.
LEMMA RegisterTypes ==
    ASSUME Chain!TypeOK, NEW g \in RegistrationIds, NEW sub \in Calldata,
           Chain!RegisterProjectVersion(RelayerAccount, g, sub)
    PROVE  /\ Chain!TypeOK'
           /\ Chain!NewProof(sub) \in Chain!VersionProofs
<1>1. Chain!NewProof(sub) \in Chain!VersionProofs
  BY DEF Chain!RegisterProjectVersion, Chain!NewProof, Chain!VersionProofs,
         Chain!TypeOK, Chain!DisputeStatuses
<1>2. proofs' \in [Chain!Strings -> Chain!VersionProofs \cup {NoProof}]
  BY <1>1 DEF Chain!RegisterProjectVersion, Chain!WriteProof, Chain!TypeOK
<1>3. proofs'[{}] = NoProof
  BY DEF Chain!RegisterProjectVersion, Chain!WriteProof, Chain!TypeOK, Chain!Strings
<1>4. recordIndex' \in [1 .. recordCounter' -> RegistrationIds]
  BY DEF Chain!RegisterProjectVersion, Chain!WriteProof, Chain!TypeOK
<1>. QED
  BY <1>1, <1>2, <1>3, <1>4
     DEF Chain!RegisterProjectVersion, Chain!WriteProof, Chain!TypeOK, Chain!authority

\* A reply that names a version or none.
LEMMA ReplyTypes ==
    ASSUME NEW kind \in {"created", "existing", "refused", "conflict", "error"},
           NEW g \in RegistrationIds \cup {NoVersion}
    PROVE  Reply(kind, g) \in Replies
BY DEF Reply, Replies

\* Types after the insertion of a version.
LEMMA CreateTypes ==
    ASSUME TypeOK, Planned, NEW r \in Requests, CreateVersion(r)
    PROVE  TypeOK'
<1>1. /\ pc[r] \in {"pinning", "creating"} /\ plan[r] \in Plans /\ plan[r].id \in RegistrationIds
      /\ loop \in {Free, r}
  BY TypeParts DEF CreateVersion, Resumed, Planned, Plans, Holding, RequestsOK
<1>2. RequestsOK'
  <2>1. CASE Answer(r, "created", plan[r].id)
    BY <2>1, <1>1, AnswerTypes, ReplyTypes, TypeParts
  <2>2. CASE pc' = [pc EXCEPT ![r] = "created"] /\ loop' = r /\ UNCHANGED <<plan, reply>>
    BY <2>2, <1>1, TypeParts, AnchoringAssumption DEF RequestsOK, Holding
  <2>. QED
    BY <2>1, <2>2 DEF CreateVersion
<1>3. plan[r].body \in RequestBodies
      /\ RowOf(plan[r], "PENDING") \in Rows
  BY <1>1 DEF RowOf, Plans, RequestBodies, Rows, AnchoringStatuses
<1>4. projectVersions' = [projectVersions EXCEPT ![plan[r].id] = RowOf(plan[r], "PENDING")]
  BY DEF CreateVersion, RowOf
<1>5. /\ projectVersions' \in [RegistrationIds -> Rows \cup {NoVersion}]
      /\ currentStage' \in [Projects -> Stages]
  BY <1>1, <1>3, <1>4, TypeParts DEF TablesOK, CreateVersion, StageAfter, RequestBodies
<1>6. /\ artifactVersion' \in [Artifacts -> RegistrationIds \cup {NoVersion}]
      /\ withCid' \subseteq Artifacts
  BY <1>1, <1>3, TypeParts DEF TablesOK, CreateVersion, RequestBodies
<1>7. TablesOK'
  BY <1>5, <1>6, TypeParts DEF TablesOK, CreateVersion
<1>. QED
  BY <1>2, <1>7, TypeParts, KeepChain DEF CreateVersion

\* The commits after the creation of the version: they rewrite the status of
\* one row at most, and at most one record.
LEMMA StatusTypes ==
    ASSUME TablesOK, NEW g \in RegistrationIds, NEW status \in AnchoringStatuses,
           projectVersions[g] # NoVersion, SetStatus(g, status)
    PROVE  /\ projectVersions' \in [RegistrationIds -> Rows \cup {NoVersion}]
           /\ projectVersions'[g] = [projectVersions[g] EXCEPT !.status = status]
           /\ \A h \in RegistrationIds : h # g => projectVersions'[h] = projectVersions[h]
<1>1. projectVersions[g] \in Rows
  BY DEF TablesOK
<1>2. [projectVersions[g] EXCEPT !.status = status] \in Rows
  BY <1>1 DEF Rows
<1>. QED
  BY <1>2 DEF TablesOK, SetStatus

\* The handler that holds the loop after its commit, and its row.
LEMMA HolderFacts ==
    ASSUME TypeOK, Planned, RowsKept, NEW r \in Requests, pc[r] \in Past
    PROVE  /\ loop = r /\ pc[r] \in Holding
           /\ plan[r] \in Plans /\ plan[r].id \in RegistrationIds
           /\ projectVersions[plan[r].id] = RowOf(plan[r], StatusAt(pc[r]))
           /\ projectVersions[plan[r].id] \in Rows
           /\ projectVersions[plan[r].id] # NoVersion
<1>1. pc[r] \in Holding
  BY DEF Past, Holding
<1>2. plan[r] \in Plans /\ plan[r].id \in RegistrationIds
  BY <1>1 DEF Planned, Plans
<1>3. RowOf(plan[r], StatusAt(pc[r])) \in Rows
  BY <1>2 DEF RowOf, StatusAt, Plans, RequestBodies, Rows, AnchoringStatuses
<1>. QED
  BY <1>1, <1>2, <1>3, NullAssumption, TypeParts DEF RowsKept, RequestsOK

\* The handler goes from one stage it holds the loop in to the next.
LEMMA AdvanceTypes ==
    ASSUME RequestsOK, NEW r \in Requests, pc[r] \in Holding, NEW stage \in Holding,
           pc' = [pc EXCEPT ![r] = stage], UNCHANGED <<plan, reply, loop>>
    PROVE  RequestsOK'
BY DEF RequestsOK

\* What a handler sends is calldata the contract may be called with.
LEMMA SubmissionTypes ==
    ASSUME NEW p \in Plans
    PROVE  Submission(p) \in Calldata
BY DEF Plans, RequestBodies, Submission, Calldata

\* Types after a transaction is sent.
LEMMA SendTypes ==
    ASSUME TypeOK, Planned, RowsKept, NEW r \in Requests, Send(r)
    PROVE  TypeOK'
<1>1. pc[r] \in Past /\ pc[r] \in Holding
  BY DEF Send, Past, Holding
<1>2. [id |-> plan[r].id, calldata |-> Submission(plan[r])]
        \in [id : RegistrationIds, calldata : Calldata]
  BY <1>1, HolderFacts, SubmissionTypes
<1>3. mempool' \in Seq([id : RegistrationIds, calldata : Calldata])
  BY <1>2, TypeParts DEF ChainOK, Send
<1>4. RequestsOK'
  BY <1>1, AdvanceTypes, TypeParts DEF Send, Holding
<1>5. ChainOK'
  BY <1>3, TypeParts DEF Send, ChainOK, contractVars, Chain!TypeOK
<1>. QED
  BY <1>4, <1>5, KeepTables, TypeParts DEF Send

\* A proof on chain has the fields of one.
LEMMA ProofTypes ==
    ASSUME TypeOK, NEW g \in RegistrationIds, Chain!Exists(g)
    PROVE  proofs[g] \in Chain!VersionProofs /\ proofs[g].recordId \in Nat
BY DEF TypeOK, Chain!TypeOK, Chain!Exists, Chain!Strings, Chain!VersionProofs

\* Types after any other step of a handler.
LEMMA HandlerTypes ==
    ASSUME TypeOK, Planned, RowsKept, ReceiptsTrue, NEW r \in Requests,
           HandlerStep(r) \/ DatabaseFails(r) \/ ReloadFails(r)
    PROVE  TypeOK'
<1> USE TypeParts
<1>1. ASSUME NEW kind \in {"created", "conflict", "error"},
             NEW g \in RegistrationIds \cup {NoVersion},
             Answer(r, kind, g), loop \in {Free, r}
      PROVE  RequestsOK'
  BY <1>1, AnswerTypes, ReplyTypes
<1>2. Resumed(r) => loop \in {Free, r}
  BY DEF Resumed, RequestsOK, Holding
<1>3. ASSUME PinFails(r) PROVE TypeOK'
  BY <1>3, <1>1, KeepTables, KeepChain DEF PinFails
<1>4. ASSUME InsertConflicts(r) PROVE TypeOK'
  BY <1>4, <1>1, <1>2, KeepTables, KeepChain DEF InsertConflicts
<1>5. ASSUME StartAnchoring(r) PROVE TypeOK'
  <2>1. pc[r] \in Past /\ "ANCHORING" \in AnchoringStatuses
    BY <1>5 DEF StartAnchoring, Past, AnchoringStatuses
  <2>2. RequestsOK'
    BY <1>5, <2>1, HolderFacts, AdvanceTypes DEF StartAnchoring, Holding
  <2>3. TablesOK'
    BY <1>5, <2>1, HolderFacts, StatusTypes DEF StartAnchoring, TablesOK, artifactVars
  <2>. QED
    BY <1>5, <2>2, <2>3, KeepChain DEF StartAnchoring
<1>6. ASSUME ReceiptArrives(r) PROVE TypeOK'
  <2>1. RequestsOK'
    BY <1>6, AdvanceTypes DEF ReceiptArrives, Holding
  <2>. QED
    BY <1>6, <2>1, KeepTables, KeepChain DEF ReceiptArrives
<1>7. ASSUME RecordAnchored(r) PROVE TypeOK'
  <2>1. pc[r] \in Past /\ "ANCHORED" \in AnchoringStatuses
    BY <1>7 DEF RecordAnchored, Past, AnchoringStatuses
  <2>2. RequestsOK'
    BY <1>7, <2>1, HolderFacts, AdvanceTypes DEF RecordAnchored, Holding
  <2>3. blockchainRecords' \in [RegistrationIds -> Nat]
    <3>1. plan[r].id \in RegistrationIds /\ proofs[plan[r].id].recordId \in Nat
      BY <1>7, <2>1, HolderFacts, ProofTypes DEF RecordAnchored, ReceiptsTrue
    <3>. QED
      BY <1>7, <3>1 DEF RecordAnchored, TablesOK
  <2>4. TablesOK'
    BY <1>7, <2>1, <2>3, HolderFacts, StatusTypes DEF RecordAnchored, TablesOK, artifactVars
  <2>. QED
    BY <1>7, <2>2, <2>4, KeepChain DEF RecordAnchored
<1>8. ASSUME Finish(r) PROVE TypeOK'
  <2>1. RequestsOK'
    BY <1>8, <1>1, HolderFacts DEF Finish, Past
  <2>. QED
    BY <1>8, <2>1, KeepTables, KeepChain DEF Finish
<1>9. ASSUME pc[r] \in Past, SetStatus(plan[r].id, "FAILED"),
             Answer(r, "error", plan[r].id),
             UNCHANGED <<currentStage, artifactVars, blockchainRecords, stored, chainVars>>
      PROVE  RequestsOK' /\ TablesOK' /\ ChainOK'
  <2>1. RequestsOK'
    BY <1>9, <1>1, HolderFacts
  <2>2. TablesOK'
    BY <1>9, HolderFacts, StatusTypes DEF TablesOK, artifactVars, AnchoringStatuses
  <2>. QED
    BY <1>9, <2>1, <2>2, KeepChain
<1>10. ASSUME AnchoringFails(r) PROVE TypeOK'
  BY <1>10, <1>9 DEF AnchoringFails, Past
<1>11. ASSUME ReloadFails(r) PROVE TypeOK'
  BY <1>11, <1>9, AnchoringAssumption DEF ReloadFails, Past
<1>12. ASSUME DatabaseFails(r) PROVE TypeOK'
  BY <1>12, <1>1, <1>2, KeepTables, KeepChain, AnchoringAssumption DEF DatabaseFails
<1>. QED
  BY <1>3, <1>4, <1>5, <1>6, <1>7, <1>8, <1>10, <1>11, <1>12, CreateTypes, SendTypes
     DEF HandlerStep

\* What the chain does with its next transaction.
LEMMA MineEffect ==
    ASSUME TypeOK, MineTransaction
    PROVE  /\ Head(mempool) \in [id : RegistrationIds, calldata : Calldata]
           /\ Len(mempool) \in Nat /\ Len(mempool) >= 1
           /\ Head(mempool) = mempool[1]
           /\ mempool' \in Seq([id : RegistrationIds, calldata : Calldata])
           /\ Len(mempool') = Len(mempool) - 1
           /\ \A i \in 1 .. Len(mempool') : mempool'[i] = mempool[i + 1]
           /\ \/ /\ Chain!RegisterProjectVersion(RelayerAccount, Head(mempool).id,
                                                 Head(mempool).calldata)
                 /\ receipts' = [receipts EXCEPT ![Head(mempool).id] = "success"]
              \/ /\ UNCHANGED contractVars
                 /\ receipts' = [receipts EXCEPT ![Head(mempool).id] = "reverted"]
<1>1. /\ mempool \in Seq([id : RegistrationIds, calldata : Calldata]) /\ mempool # <<>>
      /\ mempool' = Tail(mempool)
  BY TypeParts DEF MineTransaction, ChainOK
<1>2. /\ Head(mempool) \in [id : RegistrationIds, calldata : Calldata]
      /\ mempool' \in Seq([id : RegistrationIds, calldata : Calldata])
      /\ Len(mempool') = Len(mempool) - 1
      /\ \A i \in 1 .. Len(mempool') : mempool'[i] = mempool[i + 1]
  BY <1>1, HeadTailProperties
<1>3. Len(mempool) \in Nat /\ Len(mempool) >= 1 /\ Head(mempool) = mempool[1]
  BY <1>1
<1>. QED
  BY <1>2, <1>3 DEF MineTransaction

\* Types after a transaction is mined, as a success or as a revert.
LEMMA MineTypes ==
    ASSUME TypeOK, MineTransaction
    PROVE  TypeOK'
<1>1. Head(mempool).id \in RegistrationIds /\ Head(mempool).calldata \in Calldata
  BY MineEffect
<1>2. receipts' \in [RegistrationIds -> {"none", "success", "reverted"}]
  BY <1>1, MineEffect, TypeParts DEF ChainOK
<1>3. Chain!TypeOK'
  BY <1>1, MineEffect, RegisterTypes, TypeParts DEF ChainOK, contractVars, Chain!TypeOK
<1>4. ChainOK'
  BY <1>2, <1>3, MineEffect DEF ChainOK
<1>5. RequestsOK'
  BY TypeParts DEF RequestsOK, MineTransaction, requestVars
<1>. QED
  BY <1>4, <1>5, TypeParts, KeepTables DEF MineTransaction

\* Every step keeps the types.
LEMMA TypeStep ==
    ASSUME TypeOK, Planned, RowsKept, ReceiptsTrue, Numbered, [Next]_vars
    PROVE  TypeOK'
<1> USE TypeParts
<1>1. ASSUME UNCHANGED requestVars PROVE RequestsOK'
  BY <1>1 DEF RequestsOK, requestVars
<1>2. ASSUME NEW r \in Requests, NEW body \in Bodies, ReturnExisting(r, body)
      PROVE  TypeOK'
  <2>1. PICK g \in KeyOwner(body.key) :
          Answer(r, IF projectVersions[g].project = body.project
                    THEN "existing" ELSE "refused", g)
    BY <1>2 DEF ReturnExisting
  <2>2. g \in RegistrationIds
    BY DEF KeyOwner, Recorded
  <2>3. RequestsOK'
    BY <1>2, <2>1, <2>2, AnswerTypes, ReplyTypes DEF ReturnExisting
  <2>. QED
    BY <1>2, <2>3, KeepTables, KeepChain DEF ReturnExisting
<1>3. ASSUME NEW r \in Requests, NEW body \in Bodies, Refuse(r, body)
      PROVE  TypeOK'
  <2>1. RequestsOK'
    BY <1>3, AnswerTypes, ReplyTypes DEF Refuse
  <2>. QED
    BY <1>3, <2>1, KeepTables, KeepChain DEF Refuse
<1>4. ASSUME Crash PROVE TypeOK'
  <2>1. RequestsOK'
    BY <1>4, AnchoringAssumption DEF Crash, RequestsOK, Holding
  <2>2. TablesOK'
    BY <1>4 DEF Crash, TablesOK, databaseVars, artifactVars
  <2>. QED
    BY <1>4, <2>1, <2>2, KeepChain, AnchoringAssumption DEF Crash
<1>5. ASSUME NEW a \in Artifacts, Upload(a) PROVE TypeOK'
  <2>1. TablesOK'
    BY <1>5 DEF Upload, TablesOK, Recorded
  <2>. QED
    BY <1>5, <1>1, <2>1, KeepChain DEF Upload
<1>6. ASSUME DropPool PROVE TypeOK'
  <2>1. ChainOK'
    BY <1>6 DEF DropPool, ChainOK, contractVars, Chain!TypeOK
  <2>. QED
    BY <1>6, <1>1, <2>1, KeepTables DEF DropPool
<1>7. ASSUME ReplaceRelayer PROVE TypeOK'
  <2>1. ChainOK'
    BY <1>7 DEF ReplaceRelayer, Chain!SetRelayer, Chain!records, ChainOK, Chain!TypeOK
  <2>. QED
    BY <1>7, <1>1, <2>1, KeepTables DEF ReplaceRelayer
<1>8. ASSUME UNCHANGED vars PROVE TypeOK'
  BY <1>8, <1>1, KeepTables, KeepChain DEF vars
<1>. QED
  BY <1>2, <1>3, <1>4, <1>5, <1>6, <1>7, <1>8, AdmitTypes, HandlerTypes, MineTypes
     DEF Next, Arrival

-----------------------------------------------------------------------------
(* The steps, as one request and as the table of versions see them.        *)

\* Every step is one of these for a given request: it is admitted, it keeps its
\* place, it ends, or it goes one stage further.
LEMMA RequestCases ==
    ASSUME TypeOK, [Next]_vars, NEW x \in Requests
    PROVE  \/ \E body \in Bodies : Admit(x, body)
           \/ /\ plan'[x] = plan[x]
              /\ \/ pc'[x] = pc[x]
                 \/ pc'[x] \in {"done", "lost"}
                 \/ CreateVersion(x) /\ pc'[x] = "created"
                 \/ StartAnchoring(x) /\ pc'[x] = "sending"
                 \/ Send(x) /\ pc'[x] = "waiting"
                 \/ ReceiptArrives(x) /\ pc'[x] = "recording"
                 \/ RecordAnchored(x) /\ pc'[x] = "recorded"
<1>0. RequestsOK
  BY TypeParts
<1>1. ASSUME NEW r \in Requests, NEW kind, NEW g, Answer(r, kind, g)
      PROVE  plan' = plan /\ pc'[r] = "done" /\ \A y \in Requests \ {r} : pc'[y] = pc[y]
  BY <1>0, <1>1 DEF Answer, RequestsOK
<1>2. ASSUME UNCHANGED requestVars
      PROVE  plan' = plan /\ pc' = pc
  BY <1>2 DEF requestVars
<1>3. ASSUME NEW r \in Requests, Arrival(r) \/ DatabaseFails(r) \/ ReloadFails(r)
      PROVE  \/ \E body \in Bodies : Admit(r, body)
             \/ plan' = plan /\ pc'[r] = "done" /\ \A y \in Requests \ {r} : pc'[y] = pc[y]
  BY <1>1, <1>3 DEF Arrival, ReturnExisting, Refuse, DatabaseFails, ReloadFails
<1>4. ASSUME NEW r \in Requests, NEW body \in Bodies, Admit(r, body)
      PROVE  \A y \in Requests \ {r} : plan'[y] = plan[y] /\ pc'[y] = pc[y]
  BY <1>0, <1>4 DEF Admit, RequestsOK
<1>5. ASSUME NEW r \in Requests, HandlerStep(r)
      PROVE  /\ plan' = plan
             /\ \A y \in Requests \ {r} : pc'[y] = pc[y]
             /\ \/ pc'[r] = "done"
                \/ CreateVersion(r) /\ pc'[r] = "created"
                \/ StartAnchoring(r) /\ pc'[r] = "sending"
                \/ Send(r) /\ pc'[r] = "waiting"
                \/ ReceiptArrives(r) /\ pc'[r] = "recording"
                \/ RecordAnchored(r) /\ pc'[r] = "recorded"
  <2>1. ASSUME NEW stage, pc' = [pc EXCEPT ![r] = stage]
        PROVE  pc'[r] = stage /\ \A y \in Requests \ {r} : pc'[y] = pc[y]
    BY <1>0, <2>1 DEF RequestsOK
  <2>. QED
    BY <1>1, <1>5, <2>1
       DEF HandlerStep, PinFails, InsertConflicts, CreateVersion, StartAnchoring, Send,
           ReceiptArrives, RecordAnchored, Finish, AnchoringFails
<1>6. ASSUME Crash
      PROVE  plan' = plan /\ (pc'[x] = pc[x] \/ pc'[x] = "lost")
  BY <1>6 DEF Crash
<1>7. ASSUME \/ \E a \in Artifacts : Upload(a)
             \/ MineTransaction \/ DropPool \/ ReplaceRelayer \/ UNCHANGED vars
      PROVE  plan' = plan /\ pc' = pc
  BY <1>2, <1>7 DEF Upload, MineTransaction, DropPool, ReplaceRelayer, vars
<1>. QED
  BY <1>3, <1>4, <1>5, <1>6, <1>7 DEF Next

\* Every step commits a version, rewrites the status of the version whose
\* handler holds the loop, or leaves the table of versions as it is.
LEMMA TableCases ==
    ASSUME TypeOK, Planned, RowsKept, [Next]_vars
    PROVE  \/ \E r \in Requests : CreateVersion(r)
           \/ \E r \in Requests, status \in {"ANCHORING", "ANCHORED", "FAILED"} :
                /\ pc[r] \in Past /\ pc'[r] # pc[r]
                /\ SetStatus(plan[r].id, status)
           \/ UNCHANGED projectVersions
<1>1. ASSUME NEW r \in Requests, NEW kind, NEW g, Answer(r, kind, g)
      PROVE  pc'[r] = "done"
  BY <1>1, TypeParts DEF Answer, RequestsOK
<1>2. ASSUME NEW r \in Requests, StartAnchoring(r) \/ RecordAnchored(r)
      PROVE  pc'[r] # pc[r] /\ pc[r] \in Past
  BY <1>2, TypeParts DEF StartAnchoring, RecordAnchored, RequestsOK, Past
<1>3. ASSUME NEW r \in Requests, AnchoringFails(r) \/ ReloadFails(r)
      PROVE  pc'[r] # pc[r] /\ pc[r] \in Past
  BY <1>1, <1>3 DEF AnchoringFails, ReloadFails, Past
<1>4. ASSUME NEW r \in Requests, HandlerStep(r) \/ ReloadFails(r)
      PROVE  \/ CreateVersion(r)
             \/ \E status \in {"ANCHORING", "ANCHORED", "FAILED"} :
                  /\ pc[r] \in Past /\ pc'[r] # pc[r]
                  /\ SetStatus(plan[r].id, status)
             \/ UNCHANGED projectVersions
  BY <1>2, <1>3, <1>4
     DEF HandlerStep, PinFails, InsertConflicts, StartAnchoring, Send, ReceiptArrives,
         RecordAnchored, Finish, AnchoringFails, ReloadFails, databaseVars
<1>5. ASSUME NEW r \in Requests, Arrival(r) \/ DatabaseFails(r)
      PROVE  UNCHANGED projectVersions
  BY <1>5 DEF Arrival, ReturnExisting, Refuse, Admit, DatabaseFails, databaseVars
<1>6. ASSUME \/ \E a \in Artifacts : Upload(a)
             \/ Crash \/ MineTransaction \/ DropPool \/ ReplaceRelayer \/ UNCHANGED vars
      PROVE  UNCHANGED projectVersions
  BY <1>6 DEF Upload, Crash, MineTransaction, DropPool, ReplaceRelayer, vars, databaseVars
<1>. QED
  BY <1>4, <1>5, <1>6 DEF Next

\* What the commit of a version adds to the table.
LEMMA CreateEffect ==
    ASSUME TypeOK, Planned, NEW r \in Requests, CreateVersion(r)
    PROVE  /\ pc[r] \in {"pinning", "creating"}
           /\ plan[r] \in Plans /\ plan[r].id \in RegistrationIds
           /\ ~Conflicts(plan[r]) /\ plan[r].id \notin Recorded
           /\ projectVersions' =
                [projectVersions EXCEPT ![plan[r].id] = RowOf(plan[r], "PENDING")]
           /\ projectVersions'[plan[r].id] = RowOf(plan[r], "PENDING")
           /\ RowOf(plan[r], "PENDING") \in Rows /\ RowOf(plan[r], "PENDING") # NoVersion
           /\ \A g \in RegistrationIds \ {plan[r].id} :
                projectVersions'[g] = projectVersions[g]
           /\ Recorded' = Recorded \cup {plan[r].id}
<1>1. pc[r] \in {"pinning", "creating"} /\ plan[r] \in Plans /\ plan[r].id \in RegistrationIds
  BY DEF CreateVersion, Resumed, Planned, Holding, Plans
<1>2. RowOf(plan[r], "PENDING") \in Rows /\ RowOf(plan[r], "PENDING") # NoVersion
  BY <1>1, NullAssumption DEF RowOf, Plans, RequestBodies, Rows, AnchoringStatuses
<1>3. ~Conflicts(plan[r]) /\ plan[r].id \notin Recorded
  BY DEF CreateVersion, Conflicts
<1>4. projectVersions' =
        [projectVersions EXCEPT ![plan[r].id] = RowOf(plan[r], "PENDING")]
  BY DEF CreateVersion, RowOf
<1>5. /\ projectVersions'[plan[r].id] = RowOf(plan[r], "PENDING")
      /\ \A g \in RegistrationIds \ {plan[r].id} : projectVersions'[g] = projectVersions[g]
  BY <1>1, <1>4, TypeParts DEF TablesOK
<1>6. Recorded' = Recorded \cup {plan[r].id}
  BY <1>1, <1>2, <1>5 DEF Recorded
<1>. QED
  BY <1>1, <1>2, <1>3, <1>4, <1>5, <1>6

\* No step takes a version away or changes anything of it but its status.
SameButStatus(g) ==
    /\ projectVersions'[g].project = projectVersions[g].project
    /\ projectVersions'[g].index = projectVersions[g].index
    /\ projectVersions'[g].key = projectVersions[g].key
    /\ projectVersions'[g].stage = projectVersions[g].stage
    /\ projectVersions'[g].artifacts = projectVersions[g].artifacts
    /\ projectVersions'[g].root = projectVersions[g].root

\* What a change of status does to the table.
LEMMA StatusEffect ==
    ASSUME TypeOK, Planned, RowsKept, NEW r \in Requests, pc[r] \in Past,
           NEW status \in AnchoringStatuses, SetStatus(plan[r].id, status)
    PROVE  /\ loop = r /\ plan[r].id \in Recorded
           /\ projectVersions'[plan[r].id] = RowOf(plan[r], status)
           /\ \A g \in RegistrationIds \ {plan[r].id} :
                projectVersions'[g] = projectVersions[g]
           /\ \A g \in Recorded : SameButStatus(g)
           /\ Recorded' = Recorded
<1>1. /\ loop = r /\ plan[r] \in Plans /\ plan[r].id \in RegistrationIds
      /\ projectVersions[plan[r].id] = RowOf(plan[r], StatusAt(pc[r]))
      /\ projectVersions[plan[r].id] \in Rows /\ projectVersions[plan[r].id] # NoVersion
  BY HolderFacts
<1>2. /\ projectVersions'[plan[r].id] = [projectVersions[plan[r].id] EXCEPT !.status = status]
      /\ \A g \in RegistrationIds \ {plan[r].id} : projectVersions'[g] = projectVersions[g]
  BY <1>1, StatusTypes, TypeParts
<1>3. projectVersions'[plan[r].id] = RowOf(plan[r], status)
  BY <1>1, <1>2 DEF RowOf
<1>4. RowOf(plan[r], status) \in Rows /\ RowOf(plan[r], status) # NoVersion
  BY <1>1, NullAssumption DEF RowOf, Plans, RequestBodies, Rows
<1>5. Recorded' = Recorded
  BY <1>1, <1>2, <1>3, <1>4 DEF Recorded
<1>6. \A g \in Recorded : SameButStatus(g)
  BY <1>1, <1>2, <1>3 DEF Recorded, SameButStatus, RowOf
<1>. QED
  BY <1>1, <1>2, <1>3, <1>5, <1>6 DEF Recorded

\* Nothing of a row but its status ever changes, and rows are only added, one
\* at a time.
LEMMA RowsPersist ==
    ASSUME TypeOK, Planned, RowsKept, [Next]_vars
    PROVE  /\ \A g \in Recorded : SameButStatus(g)
           /\ \/ Recorded' = Recorded
              \/ \E r \in Requests :
                   /\ CreateVersion(r)
                   /\ Recorded' = Recorded \cup {plan[r].id}
<1>1. ASSUME NEW r \in Requests, CreateVersion(r)
      PROVE  (\A g \in Recorded : SameButStatus(g)) /\ Recorded' = Recorded \cup {plan[r].id}
  BY <1>1, CreateEffect DEF SameButStatus, Recorded
<1>2. ASSUME UNCHANGED projectVersions
      PROVE  (\A g \in Recorded : SameButStatus(g)) /\ Recorded' = Recorded
  BY <1>2 DEF SameButStatus, Recorded
<1>. QED
  BY <1>1, <1>2, TableCases, StatusEffect DEF AnchoringStatuses

\* The contract and the pool change when a transaction is mined or sent, or when
\* the pool is dropped.
LEMMA ChainCases ==
    ASSUME [Next]_vars
    PROVE  \/ MineTransaction
           \/ \E r \in Requests : Send(r)
           \/ mempool' \in {mempool, <<>>} /\ UNCHANGED <<receipts, recordCounter, proofs>>
<1>1. ASSUME NEW r \in Requests, HandlerStep(r), ~Send(r)
      PROVE  UNCHANGED chainVars
  BY <1>1 DEF HandlerStep, PinFails, InsertConflicts, CreateVersion, StartAnchoring,
              ReceiptArrives, RecordAnchored, Finish, AnchoringFails
<1>2. ASSUME NEW r \in Requests, Arrival(r) \/ DatabaseFails(r) \/ ReloadFails(r)
      PROVE  UNCHANGED chainVars
  BY <1>2 DEF Arrival, ReturnExisting, Refuse, Admit, DatabaseFails, ReloadFails
<1>3. ASSUME \/ \E a \in Artifacts : Upload(a)
             \/ Crash \/ UNCHANGED vars
      PROVE  UNCHANGED chainVars
  BY <1>3 DEF Upload, Crash, vars
<1>4. ASSUME DropPool \/ ReplaceRelayer
      PROVE  mempool' \in {mempool, <<>>} /\ UNCHANGED <<receipts, recordCounter, proofs>>
  BY <1>4 DEF DropPool, ReplaceRelayer, contractVars, Chain!SetRelayer, Chain!records
<1>. QED
  BY <1>1, <1>2, <1>3, <1>4 DEF Next, chainVars, contractVars

\* A mined transaction adds its proof and no other, or nothing at all.
LEMMA MineProof ==
    ASSUME TypeOK, MineTransaction
    PROVE  LET tx == Head(mempool)
           IN \/ /\ ~Chain!Exists(tx.id) /\ proofs'[tx.id] # NoProof
                 /\ proofs'[tx.id].recordId = recordCounter + 1
                 /\ proofs'[tx.id].submission = tx.calldata
                 /\ \A g \in RegistrationIds \ {tx.id} : proofs'[g] = proofs[g]
                 /\ recordCounter \in Nat /\ recordCounter' = recordCounter + 1
                 /\ receipts' = [receipts EXCEPT ![tx.id] = "success"]
              \/ /\ UNCHANGED <<proofs, recordCounter>>
                 /\ receipts' = [receipts EXCEPT ![tx.id] = "reverted"]
<1> DEFINE tx == Head(mempool)
<1>1. tx.id \in RegistrationIds /\ tx.calldata \in Calldata
  BY MineEffect
<1>2. Chain!TypeOK
  BY TypeParts DEF ChainOK
<1>3. ASSUME Chain!RegisterProjectVersion(RelayerAccount, tx.id, tx.calldata)
      PROVE  /\ ~Chain!Exists(tx.id) /\ proofs'[tx.id] # NoProof
             /\ proofs'[tx.id].recordId = recordCounter + 1
             /\ proofs'[tx.id].submission = tx.calldata
             /\ \A g \in RegistrationIds \ {tx.id} : proofs'[g] = proofs[g]
             /\ recordCounter \in Nat /\ recordCounter' = recordCounter + 1
  <2>1. Chain!NewProof(tx.calldata) \in Chain!VersionProofs
    BY <1>1, <1>2, <1>3, RegisterTypes
  <2>2. /\ proofs \in [Chain!Strings -> Chain!VersionProofs \cup {NoProof}]
        /\ recordCounter \in Nat /\ tx.id \in Chain!Strings
    BY <1>1, <1>2 DEF Chain!TypeOK, Chain!Strings
  <2>3. /\ proofs' = [proofs EXCEPT ![tx.id] = Chain!NewProof(tx.calldata)]
        /\ ~Chain!Exists(tx.id) /\ recordCounter' = recordCounter + 1
    BY <1>3 DEF Chain!RegisterProjectVersion, Chain!WriteProof
  <2>4. proofs'[tx.id] = Chain!NewProof(tx.calldata) /\ proofs'[tx.id] # NoProof
    BY <2>1, <2>2, <2>3, NullAssumption
  <2>. QED
    BY <2>2, <2>3, <2>4 DEF Chain!NewProof, Chain!Strings
<1>. QED
  BY <1>1, <1>3, MineEffect DEF contractVars

\* A proof on chain stays what it was.
LEMMA ProofsPersist ==
    ASSUME TypeOK, [Next]_vars, NEW g \in RegistrationIds, Chain!Exists(g)
    PROVE  Chain!Exists(g)' /\ proofs'[g] = proofs[g]
<1>1. ASSUME NEW r \in Requests, Send(r) PROVE UNCHANGED proofs
  BY <1>1 DEF Send, contractVars
<1>. QED
  BY <1>1, ChainCases, MineProof, MineEffect DEF Chain!Exists

-----------------------------------------------------------------------------
(* The base of every other invariant: plans, rows, receipts and numbers.   *)

\* Every step keeps Planned.
LEMMA PlannedStep ==
    ASSUME TypeOK, Planned, Numbered, [Next]_vars
    PROVE  Planned'
<1> SUFFICES ASSUME NEW x \in Requests, pc'[x] \in {"pinning"} \cup Holding
             PROVE  plan'[x] \in Plans
  BY DEF Planned
<1>1. ASSUME NEW body \in Bodies, Admit(x, body) PROVE plan'[x] \in Plans
  BY <1>1, AdmitTypes
<1>2. CASE plan'[x] = plan[x] /\ pc[x] \in {"pinning"} \cup Holding
  BY <1>2 DEF Planned
<1>3. CreateVersion(x) \/ StartAnchoring(x) \/ Send(x) \/ ReceiptArrives(x)
        \/ RecordAnchored(x) => pc[x] \in {"pinning"} \cup Holding
  BY DEF CreateVersion, Resumed, StartAnchoring, Send, ReceiptArrives, RecordAnchored, Holding
<1>. QED
  BY <1>1, <1>2, <1>3, RequestCases DEF Holding

\* No other request touches the row of the handler that has the event loop.
LEMMA RowsKeptStep ==
    ASSUME TypeOK, Planned, RowsKept, [Next]_vars
    PROVE  RowsKept'
<1> SUFFICES ASSUME NEW x \in Requests, pc'[x] \in Past
             PROVE  projectVersions'[plan'[x].id] = RowOf(plan'[x], StatusAt(pc'[x]))
  BY DEF RowsKept
<1>1. ASSUME CreateVersion(x), plan'[x] = plan[x], pc'[x] = "created"
      PROVE  projectVersions'[plan'[x].id] = RowOf(plan'[x], StatusAt(pc'[x]))
  BY <1>1, CreateEffect DEF StatusAt
<1>2. ASSUME NEW status \in AnchoringStatuses, pc[x] \in Past,
             SetStatus(plan[x].id, status), plan'[x] = plan[x], status = StatusAt(pc'[x])
      PROVE  projectVersions'[plan'[x].id] = RowOf(plan'[x], StatusAt(pc'[x]))
  BY <1>2, StatusEffect
<1>3. ASSUME StartAnchoring(x), plan'[x] = plan[x], pc'[x] = "sending"
      PROVE  projectVersions'[plan'[x].id] = RowOf(plan'[x], StatusAt(pc'[x]))
  BY <1>2, <1>3 DEF StartAnchoring, Past, StatusAt, AnchoringStatuses
<1>4. ASSUME RecordAnchored(x), plan'[x] = plan[x], pc'[x] = "recorded"
      PROVE  projectVersions'[plan'[x].id] = RowOf(plan'[x], StatusAt(pc'[x]))
  BY <1>2, <1>4 DEF RecordAnchored, Past, StatusAt, AnchoringStatuses
<1>5. ASSUME pc[x] \in Past, UNCHANGED projectVersions, plan'[x] = plan[x],
             StatusAt(pc'[x]) = StatusAt(pc[x])
      PROVE  projectVersions'[plan'[x].id] = RowOf(plan'[x], StatusAt(pc'[x]))
  BY <1>5 DEF RowsKept
<1>6. Send(x) \/ ReceiptArrives(x) => UNCHANGED projectVersions /\ pc[x] \in {"sending", "waiting"}
  BY DEF Send, ReceiptArrives, databaseVars
<1>7. ASSUME pc[x] \in Past, pc'[x] = pc[x], plan'[x] = plan[x]
      PROVE  projectVersions'[plan'[x].id] = RowOf(plan'[x], StatusAt(pc'[x]))
  <2>1. projectVersions[plan[x].id] = RowOf(plan[x], StatusAt(pc[x]))
        /\ plan[x].id \in Recorded /\ loop = x
    BY <1>7, HolderFacts DEF Recorded
  <2>2. ASSUME NEW r \in Requests, CreateVersion(r)
        PROVE  projectVersions'[plan[x].id] = projectVersions[plan[x].id]
    BY <2>1, <2>2, CreateEffect DEF Recorded
  <2>3. ASSUME NEW r \in Requests, pc[r] \in Past, pc'[r] # pc[r] PROVE FALSE
    BY <1>7, <2>1, <2>3, HolderFacts
  <2>. QED
    BY <1>7, <2>1, <2>2, <2>3, TableCases
<1>8. ~(\E body \in Bodies : Admit(x, body))
  BY TypeParts DEF Admit, RequestsOK, Past
<1>. QED
  BY <1>1, <1>3, <1>4, <1>5, <1>6, <1>7, <1>8, RequestCases DEF Past, StatusAt

\* A proof stays on chain, so the receipt that told of it stays true.
LEMMA ReceiptsStep ==
    ASSUME TypeOK, Planned, ReceiptsTrue, [Next]_vars
    PROVE  ReceiptsTrue'
<1>1. ASSUME NEW g \in RegistrationIds, receipts'[g] = "success"
      PROVE  Chain!Exists(g)'
  <2>1. ASSUME NEW r \in Requests, Send(r) PROVE UNCHANGED receipts
    BY <2>1 DEF Send
  <2>2. CASE receipts[g] = "success"
    BY <2>2, ProofsPersist DEF ReceiptsTrue, Chain!Exists
  <2>3. CASE receipts[g] # "success"
    <3>1. receipts \in [RegistrationIds -> {"none", "success", "reverted"}]
      BY TypeParts DEF ChainOK
    <3>2. MineTransaction
      BY <1>1, <2>1, <2>3, ChainCases
    <3>. QED
      BY <1>1, <2>3, <3>1, <3>2, MineProof, MineEffect DEF Chain!Exists
  <2>. QED
    BY <2>2, <2>3
<1>2. ASSUME NEW x \in Requests, pc'[x] \in {"recording", "recorded"}
      PROVE  Chain!Exists(plan[x].id)'
  <2>1. ~(\E body \in Bodies : Admit(x, body))
    BY <1>2, TypeParts DEF Admit, RequestsOK
  <2>2. ReceiptArrives(x) => Chain!Exists(plan[x].id)
    <3>1. ReceiptArrives(x) => plan[x].id \in RegistrationIds
      BY DEF ReceiptArrives, Planned, Holding, Plans
    <3>. QED
      BY <3>1 DEF ReceiptArrives, ReceiptsTrue
  <2>3. plan'[x] = plan[x] /\ pc[x] \in Holding /\ Chain!Exists(plan[x].id)
    BY <1>2, <2>1, <2>2, RequestCases
       DEF ReceiptsTrue, ReceiptArrives, RecordAnchored, Holding
  <2>. QED
    BY <2>3, ProofsPersist DEF Planned, Plans, Chain!Exists
<1>. QED
  BY <1>1, <1>2 DEF ReceiptsTrue, Chain!Exists

\* A project no version was committed in has the versions and numbers it had.
LEMMA SizeKept ==
    ASSUME NEW p, Recorded' = Recorded, \A g \in Recorded : SameButStatus(g)
    PROVE  /\ VersionsOf(p)' = VersionsOf(p) /\ Indexes(p)' = Indexes(p)
           /\ Size(p)' = Size(p)
<1>1. VersionsOf(p)' = VersionsOf(p)
  BY DEF VersionsOf, SameButStatus
<1>2. Indexes(p)' = Indexes(p)
  BY <1>1 DEF Indexes, VersionsOf, SameButStatus
<1>. QED
  BY <1>1, <1>2 DEF Size

\* A version is committed with the number after the last, although its number
\* was chosen before the pin; the other projects keep their versions.
LEMMA SizeGrows ==
    ASSUME TypeOK, Planned, Numbered, PlansInRange, NEW r \in Requests, CreateVersion(r),
           NEW new, new = plan[r].body.project, NEW g, g = plan[r].id
    PROVE  /\ new \in Projects
           /\ plan[r].index = Size(new) + 1
           /\ VersionsOf(new)' = VersionsOf(new) \cup {g}
           /\ IsFiniteSet(VersionsOf(new)')
           /\ Size(new)' = Size(new) + 1
           /\ Indexes(new)' = 1 .. Size(new) + 1
           /\ \A p \in Projects \ {new} :
                /\ VersionsOf(p)' = VersionsOf(p) /\ Indexes(p)' = Indexes(p)
                /\ Size(p)' = Size(p)
<1>1. /\ pc[r] \in {"pinning", "creating"} /\ plan[r] \in Plans /\ ~Conflicts(plan[r])
      /\ g \notin Recorded /\ Recorded' = Recorded \cup {g}
      /\ projectVersions'[g] = RowOf(plan[r], "PENDING")
      /\ \A h \in Recorded : projectVersions'[h] = projectVersions[h]
  BY CreateEffect DEF Recorded
<1>2. new \in Projects
  BY <1>1 DEF Plans, RequestBodies
<1>3. Size(new) \in Nat /\ IsFiniteSet(VersionsOf(new)) /\ Indexes(new) = 1 .. Size(new)
  BY <1>2, MaxIndexIsSize DEF Numbered
<1>4. plan[r].index = Size(new) + 1
  BY <1>1, <1>2, <1>3 DEF PlansInRange, Conflicts
<1>5. /\ projectVersions'[g].project = new
      /\ projectVersions'[g].index = Size(new) + 1
  BY <1>1, <1>4 DEF RowOf
<1>6. VersionsOf(new)' = VersionsOf(new) \cup {g} /\ g \notin VersionsOf(new)
  BY <1>1, <1>5 DEF VersionsOf
<1>7. Size(new)' = Size(new) + 1 /\ IsFiniteSet(VersionsOf(new)')
  <2>1. /\ IsFiniteSet(VersionsOf(new) \cup {g})
        /\ Cardinality(VersionsOf(new) \cup {g}) = Cardinality(VersionsOf(new)) + 1
    BY <1>3, <1>6, FS_AddElement
  <2>2. Size(new)' = Cardinality(VersionsOf(new)')
    BY DEF Size
  <2>. QED
    BY <1>6, <2>1, <2>2 DEF Size
<1>8. Indexes(new)' = Indexes(new) \cup {Size(new) + 1}
  <2>1. \A h \in VersionsOf(new) : projectVersions'[h] = projectVersions[h]
    BY <1>1 DEF VersionsOf
  <2>2. Indexes(new)' = {projectVersions'[h].index : h \in VersionsOf(new)'}
    BY DEF Indexes
  <2>. QED
    BY <1>5, <1>6, <2>1, <2>2 DEF Indexes
<1>9. Indexes(new)' = 1 .. Size(new) + 1
  BY <1>3, <1>8
<1>10. ASSUME NEW p \in Projects \ {new}
       PROVE  /\ VersionsOf(p)' = VersionsOf(p) /\ Indexes(p)' = Indexes(p)
           /\ Size(p)' = Size(p)
  <2>1. VersionsOf(p)' = VersionsOf(p)
    BY <1>1, <1>5 DEF VersionsOf
  <2>2. Indexes(p)' = Indexes(p)
    BY <1>1, <2>1 DEF Indexes, VersionsOf
  <2>. QED
    BY <2>1, <2>2 DEF Size
<1>. QED
  BY <1>2, <1>4, <1>6, <1>7, <1>9, <1>10

\* An insertion that the constraints admit takes the next number.
LEMMA NumberedStep ==
    ASSUME TypeOK, Planned, RowsKept, Numbered, PlansInRange, [Next]_vars
    PROVE  Numbered'
<1> SUFFICES ASSUME NEW p \in Projects
             PROVE  IsFiniteSet(VersionsOf(p)') /\ Indexes(p)' = 1 .. Size(p)'
  BY DEF Numbered
<1>1. CASE Recorded' = Recorded
  BY <1>1, RowsPersist, SizeKept DEF Numbered
<1>2. ASSUME NEW r \in Requests, CreateVersion(r)
      PROVE  IsFiniteSet(VersionsOf(p)') /\ Indexes(p)' = 1 .. Size(p)'
  <2>1. PICK new, g : new = plan[r].body.project /\ g = plan[r].id
    OBVIOUS
  <2>. QED
    BY <1>2, <2>1, SizeGrows DEF Numbered
<1>. QED
  BY <1>1, <1>2, RowsPersist

\* The number of versions of a project never shrinks.
LEMMA SizeMonotonic ==
    ASSUME TypeOK, Planned, RowsKept, Numbered, PlansInRange, [Next]_vars, NEW p \in Projects
    PROVE  /\ Size(p) \in Nat /\ Size(p)' \in Nat /\ Size(p)' >= Size(p)
           /\ Size(p)' = Size(p) =>
                /\ VersionsOf(p)' = VersionsOf(p)
                /\ \A g \in VersionsOf(p) : SameButStatus(g)
<1>0. Size(p) \in Nat
  BY MaxIndexIsSize
<1>1. CASE Recorded' = Recorded
  BY <1>0, <1>1, RowsPersist, SizeKept DEF VersionsOf
<1>2. ASSUME NEW r \in Requests, CreateVersion(r)
      PROVE  /\ Size(p)' \in Nat /\ Size(p)' >= Size(p)
             /\ Size(p)' = Size(p) =>
                  /\ VersionsOf(p)' = VersionsOf(p)
                  /\ \A g \in VersionsOf(p) : SameButStatus(g)
  <2>1. PICK new, g : new = plan[r].body.project /\ g = plan[r].id
    OBVIOUS
  <2>2. \A h \in VersionsOf(p) : SameButStatus(h)
    BY RowsPersist DEF VersionsOf
  <2>3. CASE p = new
    <3>1. Size(p)' = Size(p) + 1
      BY <1>2, <2>1, <2>3, SizeGrows
    <3>. QED
      BY <1>0, <3>1
  <2>4. CASE p # new
    <3>1. VersionsOf(p)' = VersionsOf(p) /\ Size(p)' = Size(p)
      BY <1>2, <2>1, <2>4, SizeGrows
    <3>. QED
      BY <1>0, <2>2, <3>1
  <2>. QED
    BY <2>3, <2>4
<1>. QED
  BY <1>0, <1>1, <1>2, RowsPersist

\* A count that grows keeps the stale numbers in range.
LEMMA PlansInRangeStep ==
    ASSUME TypeOK, Planned, RowsKept, Numbered, PlansInRange, [Next]_vars
    PROVE  PlansInRange'
<1> SUFFICES ASSUME NEW x \in Requests, NEW p \in Projects,
                    pc'[x] \in {"pinning", "creating"}, plan'[x].body.project = p
             PROVE  plan'[x].index \in 1 .. Size(p)' + 1
  BY DEF PlansInRange
<1>1. Size(p) \in Nat /\ Size(p)' \in Nat /\ Size(p)' >= Size(p)
  BY SizeMonotonic
<1>2. ASSUME NEW body \in Bodies, Admit(x, body)
      PROVE  plan'[x].index \in 1 .. Size(p)' + 1
  <2>1. plan'[x].body = body /\ plan'[x].index = MaxIndex(body.project) + 1
    BY <1>2, TypeParts DEF Admit, RequestsOK
  <2>. QED
    BY <1>1, <2>1, MaxIndexIsSize
<1>3. CASE plan'[x] = plan[x] /\ pc[x] \in {"pinning", "creating"}
  BY <1>1, <1>3 DEF PlansInRange
<1>. QED
  BY <1>2, <1>3, RequestCases

\* The base of the inductive invariant.
THEOREM BaseInvariant == Spec => []Base
<1>1. Init => Base
  <2> SUFFICES ASSUME Init PROVE Base
    OBVIOUS
  <2>1. \A g \in RegistrationIds : projectVersions[g] = NoVersion
    BY DEF Init
  <2>2. \A p \in Projects : VersionsOf(p) = {} /\ Indexes(p) = {}
    BY <2>1 DEF VersionsOf, Indexes, Recorded
  <2>3. Numbered
    BY <2>2, FS_EmptySet DEF Numbered, Size
  <2>4. Planned /\ RowsKept /\ PlansInRange
    BY DEF Init, Planned, RowsKept, PlansInRange, Past, Holding
  <2>5. ReceiptsTrue
    BY DEF Init, ReceiptsTrue
  <2>6. RequestsOK /\ TablesOK
    BY AnchoringAssumption DEF Init, RequestsOK, TablesOK, Holding, Stages
  <2>7. ChainOK
    BY DEF Init, ChainOK, Chain!Init, Chain!TypeOK, Chain!Strings, Chain!Addresses
  <2>. QED
    BY <2>3, <2>4, <2>5, <2>6, <2>7, TypeParts, AnchoringAssumption DEF Base, Init
<1>2. Base /\ [Next]_vars => Base'
  BY TypeStep, PlannedStep, RowsKeptStep, ReceiptsStep, NumberedStep, PlansInRangeStep
     DEF Base
<1>. QED
  BY <1>1, <1>2, PTL DEF Spec

\* The state has its types whatever the interleaving, and at most one handler
\* is past its suspension: the loop is never held by two.
THEOREM TypeCorrect == Spec => []TypeOK
<1>1. Base => TypeOK
  BY DEF Base
<1>. QED
  BY <1>1, BaseInvariant, PTL

\* The versions of a project are numbered without gap or repetition, although
\* every number is chosen before the pin and committed after it.
THEOREM NumberingCorrect == Spec => []IndexesGapless
<1>1. Base => IndexesGapless
  BY DEF Base, Numbered, IndexesGapless, Size
<1>. QED
  BY <1>1, BaseInvariant, PTL

-----------------------------------------------------------------------------
(* Keys and what the clients are told.                                     *)

\* An insertion is decided by the constraints on rows, in the step that makes it.
LEMMA RowsDistinctStep ==
    ASSUME TypeOK, Planned, RowsKept, RowsDistinct, [Next]_vars
    PROVE  RowsDistinct'
<1> SUFFICES ASSUME NEW g \in Recorded', NEW h \in Recorded', g # h
             PROVE  /\ projectVersions'[g].project = projectVersions'[h].project
                         => projectVersions'[g].index # projectVersions'[h].index
                    /\ projectVersions'[g].key = projectVersions'[h].key
                         => projectVersions'[g].key = NoKey
  BY DEF RowsDistinct
<1>1. CASE g \in Recorded /\ h \in Recorded
  BY <1>1, RowsPersist DEF RowsDistinct, SameButStatus
<1>2. ASSUME NEW r \in Requests, CreateVersion(r), NEW new, new = plan[r].id,
             NEW old \in Recorded
      PROVE  /\ projectVersions'[new].project = projectVersions'[old].project
                  => projectVersions'[new].index # projectVersions'[old].index
             /\ projectVersions'[new].key = projectVersions'[old].key
                  => projectVersions'[new].key = NoKey
  <2>1. /\ ~Conflicts(plan[r]) /\ projectVersions'[new] = RowOf(plan[r], "PENDING")
        /\ projectVersions'[old] = projectVersions[old]
    BY <1>2, CreateEffect DEF Recorded
  <2>2. projectVersions[old].project = plan[r].body.project
          => projectVersions[old].index # plan[r].index
    BY <2>1 DEF Conflicts, Indexes, VersionsOf
  <2>3. projectVersions[old].key = plan[r].body.key => plan[r].body.key = NoKey
    BY <2>1 DEF Conflicts, KeyOwner
  <2>. QED
    BY <2>1, <2>2, <2>3 DEF RowOf
<1>. QED
  BY <1>1, <1>2, RowsPersist

\* A version is in the table when its client is told of it, and stays there.
LEMMA RepliesStep ==
    ASSUME TypeOK, Planned, RowsKept, RepliesTrue, [Next]_vars
    PROVE  RepliesTrue'
<1> SUFFICES ASSUME NEW x \in Requests, NEW g,
                    reply'[x] # NoReply, reply'[x].kind \in {"created", "existing"},
                    reply'[x].version = g
             PROVE  g \in Recorded'
  BY DEF RepliesTrue
<1>1. Recorded \subseteq Recorded'
  BY RowsPersist
<1>2. CASE reply'[x] = reply[x]
  BY <1>1, <1>2 DEF RepliesTrue
<1>3. ASSUME NEW r \in Requests, NEW kind, NEW h, Answer(r, kind, h)
      PROVE  \/ reply'[x] = reply[x]
             \/ x = r /\ kind \in {"created", "existing"} /\ g = h
  BY <1>3, TypeParts DEF Answer, Reply, RequestsOK
<1>4. ASSUME NEW r \in Requests, NEW body \in Bodies, ReturnExisting(r, body)
      PROVE  g \in Recorded'
  BY <1>1, <1>2, <1>3, <1>4 DEF ReturnExisting, KeyOwner
<1>5. ASSUME NEW r \in Requests, CreateVersion(r)
      PROVE  g \in Recorded'
  <2>1. plan[r].id \in Recorded'
    BY <1>5, CreateEffect
  <2>. QED
    BY <1>2, <1>3, <1>5, <2>1 DEF CreateVersion
<1>6. ASSUME NEW r \in Requests, Finish(r)
      PROVE  g \in Recorded'
  <2>1. plan[r].id \in Recorded
    BY <1>6, HolderFacts DEF Finish, Past, Recorded
  <2>. QED
    BY <1>1, <1>2, <1>3, <1>6, <2>1 DEF Finish
<1>7. ASSUME NEW r \in Requests,
             \/ \E body \in Bodies : Refuse(r, body) \/ Admit(r, body)
             \/ PinFails(r) \/ InsertConflicts(r) \/ AnchoringFails(r)
             \/ DatabaseFails(r) \/ ReloadFails(r)
      PROVE  reply'[x] = reply[x]
  BY <1>3, <1>7 DEF Refuse, Admit, PinFails, InsertConflicts, AnchoringFails,
                    DatabaseFails, ReloadFails
<1>8. ASSUME \/ \E r \in Requests : \/ StartAnchoring(r) \/ Send(r)
                                    \/ ReceiptArrives(r) \/ RecordAnchored(r)
             \/ \E a \in Artifacts : Upload(a)
             \/ Crash \/ MineTransaction \/ DropPool \/ ReplaceRelayer \/ UNCHANGED vars
      PROVE  reply'[x] = reply[x]
  BY <1>8 DEF StartAnchoring, Send, ReceiptArrives, RecordAnchored, Upload, Crash,
              MineTransaction, DropPool, ReplaceRelayer, vars, requestVars
<1>. QED
  BY <1>2, <1>4, <1>5, <1>6, <1>7, <1>8 DEF Next, Arrival, HandlerStep

\* Rows with a number or a key in common are one row, and clients are told of
\* rows only.
THEOREM RowsAndReplies == Spec => [](RowsDistinct /\ RepliesTrue)
<1>1. Init => RowsDistinct /\ RepliesTrue
  BY DEF Init, RowsDistinct, RepliesTrue, Recorded
<1>2. Base /\ RowsDistinct /\ RepliesTrue /\ [Next]_vars => (RowsDistinct /\ RepliesTrue)'
  BY RowsDistinctStep, RepliesStep DEF Base
<1>. QED
  BY <1>1, <1>2, BaseInvariant, PTL DEF Spec

\* One key, one version: whatever requests carry the key and however they
\* overlap, all clients that were told of a version were told of the same.
THEOREM IdempotencyCorrect == Spec => []KeyNamesOneVersion
<1>1. RowsDistinct /\ RepliesTrue => KeyNamesOneVersion
  BY DEF RowsDistinct, RepliesTrue, KeyNamesOneVersion
<1>. QED
  BY <1>1, RowsAndReplies, PTL
-----------------------------------------------------------------------------
(* Stages.                                                                 *)

\* The latest version of a project that has one.
LEMMA LatestIs ==
    ASSUME Numbered, RowsDistinct, NEW p \in Projects, VersionsOf(p) # {}
    PROVE  /\ Latest(p) \in VersionsOf(p)
           /\ projectVersions[Latest(p)].index = Size(p)
           /\ \A g \in VersionsOf(p) :
                projectVersions[g].index = Size(p) => g = Latest(p)
<1>1. Size(p) \in Nat /\ MaxIndex(p) = Size(p) /\ Indexes(p) = 1 .. Size(p)
  BY MaxIndexIsSize DEF Numbered
<1>2. PICK h \in VersionsOf(p) : TRUE
  OBVIOUS
<1>3. projectVersions[h].index \in 1 .. Size(p)
  BY <1>1 DEF Indexes
<1>4. Size(p) \in Indexes(p)
  BY <1>1, <1>3
<1>5. \E g \in VersionsOf(p) : projectVersions[g].index = MaxIndex(p)
  BY <1>1, <1>4 DEF Indexes
<1>6. Latest(p) \in VersionsOf(p) /\ projectVersions[Latest(p)].index = MaxIndex(p)
  BY <1>5 DEF Latest
<1>. QED
  BY <1>1, <1>6 DEF VersionsOf, RowsDistinct

\* The four stages have the places 1 to 4.
LEMMA StageIndexType ==
    ASSUME NEW stage \in Stages
    PROVE  StageIndex(stage) \in 1 .. 4
<1>1. \E i \in 1 .. 4 : STAGE_ORDER[i] = stage
  <2>1. /\ STAGE_ORDER[1] = "IDEA" /\ STAGE_ORDER[2] = "DESIGN"
        /\ STAGE_ORDER[3] = "PROTOTYPE" /\ STAGE_ORDER[4] = "FINAL"
    BY DEF STAGE_ORDER
  <2>2. 1 \in 1 .. 4 /\ 2 \in 1 .. 4 /\ 3 \in 1 .. 4 /\ 4 \in 1 .. 4
    OBVIOUS
  <2>. QED
    BY <2>1, <2>2 DEF Stages
<1>. QED
  BY <1>1 DEF StageIndex

\* StagesAdvance without the choice of a latest version.
StagesOrdered ==
    \A g, h \in Recorded :
      /\ projectVersions[g].project = projectVersions[h].project
      /\ projectVersions[g].index < projectVersions[h].index
      => /\ StageIndex(projectVersions[g].stage) <= StageIndex(projectVersions[h].stage)
         /\ projectVersions[g].stage # "FINAL"

\* A project shows the stage of its latest version.
StageShown ==
    \A p \in Projects : \A g \in VersionsOf(p) :
      projectVersions[g].index = Size(p) => currentStage[p] = projectVersions[g].stage

\* What StagesAdvance needs beyond Base.
StageInv == StagesStillFit /\ StagesOrdered /\ StageShown

\* A version in the table has the fields of a row.
LEMMA RowTypes ==
    ASSUME TypeOK, NEW g \in Recorded
    PROVE  /\ projectVersions[g] \in Rows /\ g \in RegistrationIds
           /\ projectVersions[g].project \in Projects
           /\ projectVersions[g].index \in Nat
           /\ projectVersions[g].stage \in Stages
           /\ StageIndex(projectVersions[g].stage) \in 1 .. 4
<1>1. projectVersions[g] \in Rows /\ g \in RegistrationIds
  BY TypeParts DEF TablesOK, Recorded
<1>. QED
  BY <1>1, StageIndexType DEF Rows

\* A version committed while a plan waits takes the number of that plan.
LEMMA StagesStillFitStep ==
    ASSUME Base, RowsDistinct, StagesStillFit, [Next]_vars
    PROVE  StagesStillFit'
<1> USE DEF Base
<1> SUFFICES ASSUME NEW x \in Requests, NEW p \in Projects,
                    pc'[x] \in {"pinning", "creating"}, plan'[x].body.project = p,
                    plan'[x].index = Size(p)' + 1,
                    NEW g \in VersionsOf(p)', projectVersions'[g].index = Size(p)'
             PROVE  /\ projectVersions'[g].stage # "FINAL"
                    /\ StageIndex(projectVersions'[g].stage)
                         <= StageIndex(plan'[x].body.stage)
  BY DEF StagesStillFit
<1>1. /\ Size(p) \in Nat /\ Size(p)' \in Nat /\ Size(p)' >= Size(p)
      /\ Size(p)' = Size(p) =>
           VersionsOf(p)' = VersionsOf(p) /\ \A h \in VersionsOf(p) : SameButStatus(h)
  BY SizeMonotonic
<1>2. ASSUME NEW body \in Bodies, Admit(x, body)
      PROVE  /\ projectVersions'[g].stage # "FINAL"
             /\ StageIndex(projectVersions'[g].stage) <= StageIndex(plan'[x].body.stage)
  <2>1. /\ plan'[x].body = body /\ plan'[x].index = MaxIndex(body.project) + 1
        /\ ~StageRefused(body) /\ UNCHANGED projectVersions
    BY <1>2, TypeParts DEF Admit, RequestsOK, Refused, databaseVars
  <2>2. body.project = p /\ body.stage \in Stages
    BY <2>1, AnchoringAssumption DEF RequestBodies
  <2>3. VersionsOf(p)' = VersionsOf(p) /\ Size(p)' = Size(p)
    BY <2>1 DEF VersionsOf, Recorded, Size
  <2>4. g = Latest(p)
    BY <2>1, <2>3, LatestIs
  <2>5. ~(projectVersions[g].stage = "FINAL"
           \/ StageIndex(body.stage) < StageIndex(projectVersions[g].stage))
    BY <2>1, <2>2, <2>3, <2>4 DEF StageRefused
  <2>6. g \in Recorded
    BY <2>3 DEF VersionsOf
  <2>7. StageIndex(body.stage) \in 1 .. 4 /\ StageIndex(projectVersions[g].stage) \in 1 .. 4
    BY <2>2, <2>6, StageIndexType, RowTypes
  <2>. QED
    BY <2>1, <2>5, <2>7
<1>3. CASE plan'[x] = plan[x] /\ pc[x] \in {"pinning", "creating"}
  <2>1. plan[x].index \in 1 .. Size(p) + 1
    BY <1>3 DEF PlansInRange
  <2>2. Size(p)' = Size(p)
    BY <1>1, <1>3, <2>1
  <2>. QED
    BY <1>1, <1>3, <2>2 DEF StagesStillFit, SameButStatus
<1>. QED
  BY <1>2, <1>3, RequestCases

\* The version that is inserted last has a stage no earlier than all others.
LEMMA StagesOrderedStep ==
    ASSUME Base, StagesStillFit, StagesOrdered, [Next]_vars
    PROVE  StagesOrdered'
<1> USE DEF Base
<1> SUFFICES ASSUME NEW g \in Recorded', NEW h \in Recorded',
                    projectVersions'[g].project = projectVersions'[h].project,
                    projectVersions'[g].index < projectVersions'[h].index
             PROVE  /\ StageIndex(projectVersions'[g].stage)
                         <= StageIndex(projectVersions'[h].stage)
                    /\ projectVersions'[g].stage # "FINAL"
  BY DEF StagesOrdered
<1>1. CASE g \in Recorded /\ h \in Recorded
  BY <1>1, RowsPersist DEF StagesOrdered, SameButStatus
<1>2. ASSUME NEW r \in Requests, CreateVersion(r), ~(g \in Recorded /\ h \in Recorded)
      PROVE  /\ StageIndex(projectVersions'[g].stage)
                  <= StageIndex(projectVersions'[h].stage)
             /\ projectVersions'[g].stage # "FINAL"
  <2>1. PICK new, p : new = plan[r].id /\ p = plan[r].body.project
    OBVIOUS
  <2>2. /\ p \in Projects /\ plan[r].index = Size(p) + 1
        /\ Size(p) \in Nat /\ Indexes(p) = 1 .. Size(p)
    BY <1>2, <2>1, SizeGrows, MaxIndexIsSize DEF Numbered
  <2>3. /\ projectVersions'[new] = RowOf(plan[r], "PENDING")
        /\ Recorded' = Recorded \cup {new}
        /\ \A old \in Recorded : projectVersions'[old] = projectVersions[old]
        /\ pc[r] \in {"pinning", "creating"} /\ plan[r] \in Plans
    BY <1>2, <2>1, CreateEffect DEF Recorded
  <2>4. /\ projectVersions'[new].index = Size(p) + 1
        /\ projectVersions'[new].project = p
        /\ projectVersions'[new].stage = plan[r].body.stage
        /\ plan[r].body.stage \in Stages
    BY <2>1, <2>2, <2>3 DEF RowOf, Plans, RequestBodies
  <2>5. \A old \in VersionsOf(p) : projectVersions[old].index \in 1 .. Size(p)
    BY <2>2 DEF Indexes
  <2>6. h = new /\ g \in VersionsOf(p)
    <3>1. g = new => FALSE
      <4>1. ASSUME g = new, h \in Recorded PROVE FALSE
        <5>1. h \in VersionsOf(p)
          BY <2>3, <2>4, <4>1 DEF VersionsOf
        <5>. QED
          BY <2>2, <2>3, <2>4, <2>5, <4>1, <5>1 DEF VersionsOf
      <4>2. ASSUME g = new, h = new PROVE FALSE
        BY <2>2, <2>4, <4>2
      <4>. QED
        BY <2>3, <4>1, <4>2
    <3>. QED
      BY <1>2, <2>3, <2>4, <3>1 DEF VersionsOf
  <2>7. PICK last \in VersionsOf(p) : projectVersions[last].index = Size(p)
    BY <2>2, <2>5, <2>6 DEF Indexes
  <2>8. /\ projectVersions[last].stage # "FINAL"
        /\ StageIndex(projectVersions[last].stage) <= StageIndex(plan[r].body.stage)
    BY <2>1, <2>2, <2>3, <2>7 DEF StagesStillFit
  <2>9. /\ StageIndex(projectVersions[g].stage) \in 1 .. 4
        /\ StageIndex(projectVersions[last].stage) \in 1 .. 4
        /\ StageIndex(plan[r].body.stage) \in 1 .. 4
    BY <2>4, <2>6, <2>7, RowTypes, StageIndexType DEF VersionsOf
  <2>10. CASE projectVersions[g].index < Size(p)
    <3>1. /\ StageIndex(projectVersions[g].stage) <= StageIndex(projectVersions[last].stage)
          /\ projectVersions[g].stage # "FINAL"
      BY <2>6, <2>7, <2>10 DEF StagesOrdered, VersionsOf
    <3>. QED
      BY <2>3, <2>4, <2>6, <2>8, <2>9, <3>1 DEF VersionsOf
  <2>11. CASE projectVersions[g].index = Size(p)
    <3>1. /\ projectVersions[g].stage # "FINAL"
          /\ StageIndex(projectVersions[g].stage) <= StageIndex(plan[r].body.stage)
      BY <2>1, <2>2, <2>3, <2>6, <2>11 DEF StagesStillFit
    <3>. QED
      BY <2>3, <2>4, <2>6, <3>1 DEF VersionsOf
  <2>. QED
    BY <2>2, <2>5, <2>6, <2>10, <2>11
<1>. QED
  BY <1>1, <1>2, RowsPersist

\* The stage of a project is written with its versions only.
LEMMA StageWritten ==
    ASSUME [Next]_vars, \A r \in Requests : ~CreateVersion(r)
    PROVE  UNCHANGED currentStage
BY DEF Next, Arrival, ReturnExisting, Refuse, Admit, HandlerStep, PinFails, InsertConflicts,
       StartAnchoring, Send, ReceiptArrives, RecordAnchored, Finish, AnchoringFails,
       DatabaseFails, ReloadFails, Crash, Upload, MineTransaction, DropPool, ReplaceRelayer,
       vars, databaseVars

\* The project takes the stage of the version with its insertion.
LEMMA StageShownStep ==
    ASSUME Base, StageShown, [Next]_vars
    PROVE  StageShown'
<1> USE DEF Base
<1> SUFFICES ASSUME NEW p \in Projects, NEW g \in VersionsOf(p)',
                    projectVersions'[g].index = Size(p)'
             PROVE  currentStage'[p] = projectVersions'[g].stage
  BY DEF StageShown
<1>1. CASE \A r \in Requests : ~CreateVersion(r)
  <2>1. Recorded' = Recorded /\ \A h \in Recorded : SameButStatus(h)
    BY <1>1, RowsPersist
  <2>2. VersionsOf(p)' = VersionsOf(p) /\ Size(p)' = Size(p)
    BY <2>1, SizeKept
  <2>. QED
    BY <1>1, <2>1, <2>2, StageWritten DEF StageShown, SameButStatus, VersionsOf
<1>2. ASSUME NEW r \in Requests, CreateVersion(r)
      PROVE  currentStage'[p] = projectVersions'[g].stage
  <2>1. PICK new, project : new = plan[r].id /\ project = plan[r].body.project
    OBVIOUS
  <2>2. /\ project \in Projects /\ plan[r].index = Size(project) + 1
        /\ Size(project) \in Nat /\ Indexes(project) = 1 .. Size(project)
        /\ Size(project)' = Size(project) + 1
        /\ VersionsOf(project)' = VersionsOf(project) \cup {new}
    <3>1. /\ project \in Projects /\ plan[r].index = Size(project) + 1
          /\ Size(project)' = Size(project) + 1
          /\ VersionsOf(project)' = VersionsOf(project) \cup {new}
      BY <1>2, <2>1, SizeGrows
    <3>2. Size(project) \in Nat /\ Indexes(project) = 1 .. Size(project)
      BY <3>1, MaxIndexIsSize DEF Numbered
    <3>. QED
      BY <3>1, <3>2
  <2>3. /\ projectVersions'[new] = RowOf(plan[r], "PENDING")
        /\ \A old \in Recorded : projectVersions'[old] = projectVersions[old]
    BY <1>2, <2>1, CreateEffect DEF Recorded
  <2>4. currentStage' = [currentStage EXCEPT ![project] = plan[r].body.stage]
    BY <1>2, <2>1 DEF CreateVersion, StageAfter
  <2>5. currentStage \in [Projects -> Stages]
    BY TypeParts DEF TablesOK
  <2>6. CASE p = project
    <3>1. g = new
      <4>1. ASSUME g \in VersionsOf(project) PROVE FALSE
        <5>1. projectVersions[g].index \in 1 .. Size(project)
              /\ projectVersions'[g] = projectVersions[g]
          BY <2>2, <2>3, <4>1 DEF Indexes, VersionsOf
        <5>. QED
          BY <2>2, <2>6, <5>1
      <4>. QED
        BY <2>2, <2>6, <4>1
    <3>. QED
      BY <2>2, <2>3, <2>4, <2>5, <2>6, <3>1 DEF RowOf
  <2>7. CASE p # project
    <3>1. VersionsOf(p)' = VersionsOf(p) /\ Size(p)' = Size(p)
      BY <1>2, <2>1, <2>7, SizeGrows
    <3>. QED
      BY <2>3, <2>4, <2>5, <2>7, <3>1 DEF StageShown, VersionsOf
  <2>. QED
    BY <2>6, <2>7
<1>. QED
  BY <1>1, <1>2

\* A later version never has an earlier stage, nothing follows FINAL, and the
\* project shows the stage of its latest version, although the stage of a new
\* version was checked against what was the latest before its pin.
THEOREM StagesCorrect == Spec => []StagesAdvance
<1>1. Init => StageInv
  BY DEF Init, StageInv, StagesStillFit, StagesOrdered, StageShown, Recorded, VersionsOf
<1>2. Base /\ RowsDistinct /\ StageInv /\ [Next]_vars => StageInv'
  BY StagesStillFitStep, StagesOrderedStep, StageShownStep DEF StageInv
<1>3. Base /\ RowsDistinct /\ StageInv => StagesAdvance
  <2> SUFFICES ASSUME Base, RowsDistinct, StageInv PROVE StagesAdvance
    OBVIOUS
  <2>1. \A p \in Projects : VersionsOf(p) # {} =>
          currentStage[p] = projectVersions[Latest(p)].stage
    BY LatestIs DEF Base, StageInv, StageShown
  <2>. QED
    BY <2>1 DEF StageInv, StagesOrdered, StagesAdvance
<1>. QED
  BY <1>1, <1>2, <1>3, BaseInvariant, RowsAndReplies, PTL DEF Spec

-----------------------------------------------------------------------------
(* What is on its way to the chain, and what is on it.                     *)

\* How the pool can change, position by position.
LEMMA PoolCases ==
    ASSUME TypeOK, [Next]_vars
    PROVE  /\ Len(mempool) \in Nat
           /\ \/ /\ MineTransaction
                 /\ Len(mempool) >= 1 /\ Len(mempool') = Len(mempool) - 1
                 /\ \A i \in 1 .. Len(mempool') : mempool'[i] = mempool[i + 1]
              \/ \E r \in Requests :
                   /\ Send(r)
                   /\ Len(mempool') = Len(mempool) + 1
                   /\ \A i \in 1 .. Len(mempool) : mempool'[i] = mempool[i]
                   /\ mempool'[Len(mempool) + 1] =
                        [id |-> plan[r].id, calldata |-> Submission(plan[r])]
              \/ mempool' = mempool \/ Len(mempool') = 0
<1>1. mempool \in Seq([id : RegistrationIds, calldata : Calldata])
  BY TypeParts DEF ChainOK
<1>2. ASSUME NEW r \in Requests, Send(r)
      PROVE  /\ Len(mempool') = Len(mempool) + 1
             /\ \A i \in 1 .. Len(mempool) : mempool'[i] = mempool[i]
             /\ mempool'[Len(mempool) + 1] =
                  [id |-> plan[r].id, calldata |-> Submission(plan[r])]
  BY <1>1, <1>2 DEF Send
<1>3. Len(mempool) \in Nat /\ Len(<<>>) = 0
  BY <1>1
<1>. QED
  BY <1>2, <1>3, ChainCases, MineEffect

\* Types of one pending transaction.
LEMMA PoolTypes ==
    ASSUME TypeOK, NEW i \in 1 .. Len(mempool)
    PROVE  mempool[i].id \in RegistrationIds /\ mempool[i].calldata \in Calldata
<1>1. mempool \in Seq([id : RegistrationIds, calldata : Calldata])
  BY TypeParts DEF ChainOK
<1>2. mempool[i] \in [id : RegistrationIds, calldata : Calldata]
  BY <1>1, ElementOfSeq
<1>. QED
  BY <1>2

\* A version is on chain or on its way only if it was before or is sent now.
LEMMA SentCases ==
    ASSUME TypeOK, [Next]_vars, NEW g \in RegistrationIds,
           proofs'[g] # NoProof \/ \E i \in 1 .. Len(mempool') : mempool'[i].id = g
    PROVE  \/ Chain!Exists(g) \/ InPool(g)
           \/ \E r \in Requests : Send(r) /\ plan[r].id = g
<1>1. ASSUME NEW i \in 1 .. Len(mempool'), mempool'[i].id = g
      PROVE  InPool(g) \/ \E r \in Requests : Send(r) /\ plan[r].id = g
  <2>1. CASE MineTransaction /\ Len(mempool) >= 1 /\ Len(mempool') = Len(mempool) - 1
             /\ mempool'[i] = mempool[i + 1]
    <3>1. i + 1 \in 1 .. Len(mempool)
      BY <2>1, PoolCases
    <3>. QED
      BY <1>1, <2>1, <3>1 DEF InPool
  <2>2. ASSUME NEW r \in Requests, Send(r), Len(mempool') = Len(mempool) + 1,
               \A k \in 1 .. Len(mempool) : mempool'[k] = mempool[k],
               mempool'[Len(mempool) + 1] =
                 [id |-> plan[r].id, calldata |-> Submission(plan[r])]
        PROVE  InPool(g) \/ (Send(r) /\ plan[r].id = g)
    <3>1. i \in 1 .. Len(mempool) \/ i = Len(mempool) + 1
      <4>1. Len(mempool) \in Nat
        BY PoolCases
      <4>. QED
        BY <2>2, <4>1
    <3>2. CASE i \in 1 .. Len(mempool)
      <4>1. mempool'[i] = mempool[i]
        BY <2>2, <3>2
      <4>. QED
        BY <1>1, <3>2, <4>1 DEF InPool
    <3>3. CASE i = Len(mempool) + 1
      <4>1. mempool'[i].id = plan[r].id
        BY <2>2, <3>3
      <4>. QED
        BY <1>1, <2>2, <4>1
    <3>. QED
      BY <3>1, <3>2, <3>3
  <2>3. CASE mempool' = mempool
    BY <1>1, <2>3 DEF InPool
  <2>4. Len(mempool') # 0
    OBVIOUS
  <2>. QED
    BY <2>1, <2>2, <2>3, <2>4, PoolCases
<1>2. ASSUME proofs'[g] # NoProof
      PROVE  Chain!Exists(g) \/ InPool(g)
  <2>1. ASSUME MineTransaction PROVE Chain!Exists(g) \/ InPool(g)
    <3>1. Head(mempool) = mempool[1] /\ 1 \in 1 .. Len(mempool)
      BY <2>1, MineEffect
    <3>. QED
      BY <1>2, <2>1, <3>1, MineProof, MineEffect DEF Chain!Exists, InPool
  <2>2. ASSUME NEW r \in Requests, Send(r) PROVE UNCHANGED proofs
    BY <2>2 DEF Send, contractVars
  <2>. QED
    BY <1>2, <2>1, <2>2, ChainCases DEF Chain!Exists
<1>. QED
  BY <1>1, <1>2

\* The status never goes back to PENDING.
LEMMA NotPendingAgain ==
    ASSUME TypeOK, Planned, RowsKept, [Next]_vars,
           NEW g \in Recorded, projectVersions[g].status # "PENDING"
    PROVE  g \in Recorded' /\ projectVersions'[g].status # "PENDING"
<1>1. g \in Recorded'
  BY RowsPersist
<1>2. ASSUME NEW r \in Requests, CreateVersion(r)
      PROVE  projectVersions'[g] = projectVersions[g]
  BY <1>2, CreateEffect DEF Recorded
<1>3. ASSUME NEW r \in Requests, NEW status \in {"ANCHORING", "ANCHORED", "FAILED"},
             pc[r] \in Past, SetStatus(plan[r].id, status)
      PROVE  projectVersions'[g].status # "PENDING"
  <2>1. projectVersions'[plan[r].id] = RowOf(plan[r], status)
        /\ \A h \in RegistrationIds \ {plan[r].id} : projectVersions'[h] = projectVersions[h]
    BY <1>3, StatusEffect DEF AnchoringStatuses
  <2>. QED
    BY <2>1 DEF RowOf, Recorded
<1>. QED
  BY <1>1, <1>2, <1>3, TableCases

\* Only what is in the table, and no longer PENDING, is ever sent.
LEMMA NoOrphanStep ==
    ASSUME TypeOK, Planned, RowsKept, NoOrphanProof, [Next]_vars
    PROVE  NoOrphanProof'
<1> SUFFICES ASSUME NEW g \in RegistrationIds,
                    proofs'[g] # NoProof \/ \E i \in 1 .. Len(mempool') : mempool'[i].id = g
             PROVE  g \in Recorded' /\ projectVersions'[g].status # "PENDING"
  BY DEF NoOrphanProof, Chain!Exists
<1>1. CASE Chain!Exists(g) \/ InPool(g)
  BY <1>1, NotPendingAgain DEF NoOrphanProof, InPool
<1>2. ASSUME NEW r \in Requests, Send(r), plan[r].id = g
      PROVE  g \in Recorded' /\ projectVersions'[g].status # "PENDING"
  <2>1. pc[r] = "sending" /\ pc[r] \in Past
    BY <1>2 DEF Send, Past
  <2>2. g \in Recorded /\ projectVersions[g].status # "PENDING"
    <3>1. /\ projectVersions[g] = RowOf(plan[r], StatusAt("sending"))
          /\ g \in RegistrationIds /\ projectVersions[g] # NoVersion
      BY <1>2, <2>1, HolderFacts
    <3>. QED
      BY <3>1 DEF Recorded, RowOf, StatusAt
  <2>. QED
    BY <2>2, NotPendingAgain
<1>. QED
  BY <1>1, <1>2, SentCases

\* Nothing is on chain, or on its way, that the database does not know of or
\* still calls PENDING, whatever crashes, fails or comes late.
THEOREM NoOrphans == Spec => []NoOrphanProof
<1>1. Init => NoOrphanProof
  <2>1. Init => \A g \in RegistrationIds : ~Chain!Exists(g)
    BY DEF Init, Chain!Init, Chain!Exists, Chain!Strings
  <2>2. Init => Len(mempool) = 0
    BY DEF Init
  <2>. QED
    BY <2>1, <2>2 DEF NoOrphanProof
<1>2. Base /\ NoOrphanProof /\ [Next]_vars => NoOrphanProof'
  BY NoOrphanStep DEF Base
<1>. QED
  BY <1>1, <1>2, BaseInvariant, PTL DEF Spec

\* What the handler that is about to send knows.
LEMMA SenderFacts ==
    ASSUME TypeOK, Planned, RowsKept, LatestWhileHeld,
           NEW r \in Requests, pc[r] \in {"created", "sending"}
    PROVE  /\ loop = r /\ plan[r].id \in Recorded /\ plan[r].id \in RegistrationIds
           /\ ~Chain!Exists(plan[r].id) /\ ~InPool(plan[r].id)
           /\ \A h \in Recorded :
                projectVersions[h].project = projectVersions[plan[r].id].project
                  => projectVersions[h].index <= projectVersions[plan[r].id].index
           /\ Submission(plan[r]) = SubmissionOf(projectVersions[plan[r].id])
<1>1. /\ loop = r /\ plan[r] \in Plans /\ plan[r].id \in RegistrationIds
      /\ projectVersions[plan[r].id] = RowOf(plan[r], StatusAt(pc[r]))
      /\ projectVersions[plan[r].id] # NoVersion
  BY HolderFacts DEF Past
<1>2. Submission(plan[r]) = SubmissionOf(projectVersions[plan[r].id])
  BY <1>1 DEF Submission, SubmissionOf, RowOf
<1>. QED
  BY <1>1, <1>2 DEF LatestWhileHeld, Recorded

\* While a handler holds the loop after its commit nobody commits a version.
LEMMA HolderExcludes ==
    ASSUME TypeOK, NEW x \in Requests, pc[x] \in Past,
           NEW r \in Requests, CreateVersion(r)
    PROVE  FALSE
BY TypeParts, AnchoringAssumption DEF RequestsOK, CreateVersion, Resumed, Past, Holding

\* No version is inserted while the handler of the latest one has the event
\* loop, and nobody else sends that version.
LEMMA LatestWhileHeldStep ==
    ASSUME Base, NoOrphanProof, LatestWhileHeld, [Next]_vars
    PROVE  LatestWhileHeld'
<1> USE DEF Base
<1> SUFFICES ASSUME NEW x \in Requests, NEW g \in RegistrationIds,
                    pc'[x] \in {"created", "sending"}, plan'[x].id = g
             PROVE  /\ proofs'[g] = NoProof
                    /\ ~\E i \in 1 .. Len(mempool') : mempool'[i].id = g
                    /\ \A h \in Recorded' :
                         projectVersions'[h].project = projectVersions'[g].project
                           => projectVersions'[h].index <= projectVersions'[g].index
  BY DEF LatestWhileHeld, Chain!Exists, InPool
<1>1. ~\E body \in Bodies : Admit(x, body)
  BY TypeParts DEF Admit, RequestsOK
<1>2. ASSUME plan'[x] = plan[x], pc[x] \in {"created", "sending"},
             ~Send(x)
      PROVE  /\ proofs'[g] = NoProof
             /\ ~\E i \in 1 .. Len(mempool') : mempool'[i].id = g
             /\ \A h \in Recorded' :
                  projectVersions'[h].project = projectVersions'[g].project
                    => projectVersions'[h].index <= projectVersions'[g].index
  <2>1. /\ loop = x /\ g \in Recorded /\ ~Chain!Exists(g) /\ ~InPool(g)
        /\ \A h \in Recorded :
             projectVersions[h].project = projectVersions[g].project
               => projectVersions[h].index <= projectVersions[g].index
    BY <1>2, SenderFacts
  <2>2. ~\E r \in Requests : CreateVersion(r)
    BY <1>2, HolderExcludes DEF Past
  <2>3. Recorded' = Recorded /\ \A h \in Recorded : SameButStatus(h)
    BY <2>2, RowsPersist
  <2>4. ~\E r \in Requests : Send(r)
    BY <1>2, <2>1, HolderFacts DEF Send, Past
  <2>5. ~(proofs'[g] # NoProof \/ \E i \in 1 .. Len(mempool') : mempool'[i].id = g)
    BY <2>1, <2>4, SentCases
  <2>. QED
    BY <2>1, <2>3, <2>5 DEF SameButStatus
<1>3. ASSUME CreateVersion(x), plan'[x] = plan[x]
      PROVE  /\ proofs'[g] = NoProof
             /\ ~\E i \in 1 .. Len(mempool') : mempool'[i].id = g
             /\ \A h \in Recorded' :
                  projectVersions'[h].project = projectVersions'[g].project
                    => projectVersions'[h].index <= projectVersions'[g].index
  <2>1. PICK p : p = plan[x].body.project
    OBVIOUS
  <2>2. /\ g \notin Recorded /\ plan[x] \in Plans
        /\ projectVersions'[g] = RowOf(plan[x], "PENDING")
    BY <1>3, CreateEffect
  <2>3. ~Chain!Exists(g) /\ ~InPool(g) /\ UNCHANGED <<proofs, mempool>>
    BY <1>3, <2>2 DEF NoOrphanProof, InPool, CreateVersion, chainVars, contractVars
  <2>4. /\ p \in Projects /\ plan[x].index = Size(p) + 1
        /\ Indexes(p)' = 1 .. Size(p) + 1
    BY <1>3, <2>1, SizeGrows
  <2>5. Size(p) \in Nat
    BY <2>4, MaxIndexIsSize
  <2>6. ASSUME NEW h \in Recorded', projectVersions'[h].project = p
        PROVE  projectVersions'[h].index \in 1 .. Size(p) + 1
    BY <2>4, <2>6 DEF Indexes, VersionsOf
  <2>7. projectVersions'[g].project = p /\ projectVersions'[g].index = Size(p) + 1
    BY <2>1, <2>2, <2>4 DEF RowOf
  <2>. QED
    BY <2>3, <2>5, <2>6, <2>7 DEF Chain!Exists, InPool
<1>4. StartAnchoring(x) => pc[x] = "created" /\ ~Send(x)
  BY DEF StartAnchoring, Send
<1>5. pc'[x] = pc[x] => ~Send(x)
  BY TypeParts DEF Send, RequestsOK
<1>. QED
  BY <1>1, <1>2, <1>3, <1>4, <1>5, RequestCases

\* A transaction is sent after those of all earlier versions of its project that
\* were ever sent: it belongs to the latest version.
LEMMA SendComesLast ==
    ASSUME Base, RowsDistinct, NoOrphanProof, LatestWhileHeld,
           NEW r \in Requests, Send(r), NEW g \in RegistrationIds,
           Chain!Exists(g) \/ InPool(g),
           projectVersions[g].project = projectVersions[plan[r].id].project
    PROVE  projectVersions[g].index < projectVersions[plan[r].id].index
<1> USE DEF Base
<1>1. /\ plan[r].id \in Recorded
      /\ ~Chain!Exists(plan[r].id) /\ ~InPool(plan[r].id)
      /\ \A h \in Recorded :
           projectVersions[h].project = projectVersions[plan[r].id].project
             => projectVersions[h].index <= projectVersions[plan[r].id].index
  BY SenderFacts DEF Send
<1>2. g \in Recorded /\ g # plan[r].id
  BY <1>1 DEF NoOrphanProof, InPool
<1>3. projectVersions[g].index \in Nat /\ projectVersions[plan[r].id].index \in Nat
  BY <1>1, <1>2, RowTypes
<1>4. projectVersions[g].index # projectVersions[plan[r].id].index
  BY <1>1, <1>2 DEF RowsDistinct
<1>. QED
  BY <1>1, <1>2, <1>3, <1>4

\* What is sent joins the end of the queue, behind every older version of its
\* project; mining takes the head.
LEMMA PoolOrderedStep ==
    ASSUME Base, RowsDistinct, NoOrphanProof, LatestWhileHeld, PoolOrdered, [Next]_vars
    PROVE  PoolOrdered'
<1> USE DEF Base
<1>0. Len(mempool) \in Nat
  BY PoolCases
<1>1. \A i \in 1 .. Len(mempool) :
        mempool[i].id \in Recorded /\ SameButStatus(mempool[i].id)
  BY PoolTypes, RowsPersist DEF NoOrphanProof
<1>2. \A g \in RegistrationIds : Chain!Exists(g) => g \in Recorded /\ SameButStatus(g)
  BY RowsPersist DEF NoOrphanProof
<1>3. CASE MineTransaction
  <2>1. /\ Len(mempool) >= 1 /\ Len(mempool') = Len(mempool) - 1
        /\ \A i \in 1 .. Len(mempool') : mempool'[i] = mempool[i + 1]
        /\ Head(mempool) = mempool[1]
    BY <1>3, MineEffect
  <2>2. \A i \in 1 .. Len(mempool') : i + 1 \in 1 .. Len(mempool)
    BY <1>0, <2>1
  <2>3. ASSUME NEW i \in 1 .. Len(mempool'), NEW j \in 1 .. Len(mempool'), i < j,
               projectVersions'[mempool'[i].id].project
                 = projectVersions'[mempool'[j].id].project
        PROVE  projectVersions'[mempool'[i].id].index < projectVersions'[mempool'[j].id].index
    <3>1. /\ i + 1 \in 1 .. Len(mempool) /\ j + 1 \in 1 .. Len(mempool) /\ i + 1 < j + 1
          /\ mempool'[i] = mempool[i + 1] /\ mempool'[j] = mempool[j + 1]
      BY <2>1, <2>2, <2>3
    <3>. QED
      BY <1>1, <2>3, <3>1 DEF PoolOrdered, SameButStatus
  <2>4. ASSUME NEW g \in RegistrationIds, NEW i \in 1 .. Len(mempool'), proofs'[g] # NoProof,
               projectVersions'[g].project = projectVersions'[mempool'[i].id].project
        PROVE  projectVersions'[g].index < projectVersions'[mempool'[i].id].index
    <3>1. i + 1 \in 1 .. Len(mempool) /\ mempool'[i] = mempool[i + 1]
      BY <2>1, <2>2
    <3>2. CASE Chain!Exists(g)
      BY <1>1, <1>2, <2>4, <3>1, <3>2 DEF PoolOrdered, SameButStatus
    <3>3. CASE g = mempool[1].id
      <4>1. 1 \in 1 .. Len(mempool) /\ 1 < i + 1
        BY <1>0, <2>1, <3>1
      <4>. QED
        BY <1>1, <2>4, <3>1, <3>3, <4>1 DEF PoolOrdered, SameButStatus
    <3>. QED
      BY <1>3, <2>1, <2>4, <3>2, <3>3, MineProof DEF Chain!Exists
  <2>. QED
    BY <2>3, <2>4 DEF PoolOrdered, Chain!Exists
<1>4. ASSUME NEW r \in Requests, Send(r),
             Len(mempool') = Len(mempool) + 1,
             \A i \in 1 .. Len(mempool) : mempool'[i] = mempool[i],
             mempool'[Len(mempool) + 1] = [id |-> plan[r].id, calldata |-> Submission(plan[r])]
      PROVE  PoolOrdered'
  <2>1. PICK new : new = plan[r].id
    OBVIOUS
  <2>2. UNCHANGED <<proofs, projectVersions>>
    BY <1>4 DEF Send, contractVars, databaseVars
  <2>3. mempool'[Len(mempool) + 1].id = new
    BY <1>4, <2>1
  <2>4. \A g \in RegistrationIds :
          /\ Chain!Exists(g) \/ InPool(g)
          /\ projectVersions[g].project = projectVersions[new].project
          => projectVersions[g].index < projectVersions[new].index
    BY <1>4, <2>1, SendComesLast
  <2>5. ASSUME NEW i \in 1 .. Len(mempool'), NEW j \in 1 .. Len(mempool'), i < j,
               projectVersions'[mempool'[i].id].project
                 = projectVersions'[mempool'[j].id].project
        PROVE  projectVersions'[mempool'[i].id].index < projectVersions'[mempool'[j].id].index
    <3>1. i \in 1 .. Len(mempool) /\ mempool'[i] = mempool[i]
      BY <1>0, <1>4, <2>5
    <3>2. CASE j \in 1 .. Len(mempool)
      <4>1. mempool'[j] = mempool[j]
        BY <1>4, <3>2
      <4>. QED
        BY <2>2, <2>5, <3>1, <3>2, <4>1 DEF PoolOrdered
    <3>3. CASE j = Len(mempool) + 1
      <4>1. mempool[i].id \in RegistrationIds /\ InPool(mempool[i].id)
        BY <3>1, PoolTypes DEF InPool
      <4>2. mempool'[j].id = new
        BY <2>3, <3>3
      <4>. QED
        BY <2>2, <2>4, <2>5, <3>1, <4>1, <4>2
    <3>. QED
      BY <1>0, <1>4, <3>2, <3>3
  <2>6. ASSUME NEW g \in RegistrationIds, NEW i \in 1 .. Len(mempool'), proofs'[g] # NoProof,
               projectVersions'[g].project = projectVersions'[mempool'[i].id].project
        PROVE  projectVersions'[g].index < projectVersions'[mempool'[i].id].index
    <3>1. Chain!Exists(g)
      BY <2>2, <2>6 DEF Chain!Exists
    <3>2. CASE i \in 1 .. Len(mempool)
      <4>1. mempool'[i] = mempool[i]
        BY <1>4, <3>2
      <4>. QED
        BY <2>2, <2>6, <3>1, <3>2, <4>1 DEF PoolOrdered
    <3>3. CASE i = Len(mempool) + 1
      <4>1. mempool'[i].id = new
        BY <2>3, <3>3
      <4>. QED
        BY <2>2, <2>4, <2>6, <3>1, <4>1
    <3>. QED
      BY <1>0, <1>4, <3>2, <3>3
  <2>. QED
    BY <2>5, <2>6 DEF PoolOrdered, Chain!Exists
<1>5. CASE mempool' \in {mempool, <<>>} /\ UNCHANGED proofs
  <2>1. \A i \in 1 .. Len(mempool') : i \in 1 .. Len(mempool) /\ mempool'[i] = mempool[i]
    BY <1>5
  <2>2. ASSUME NEW i \in 1 .. Len(mempool'), NEW j \in 1 .. Len(mempool'), i < j,
               projectVersions'[mempool'[i].id].project
                 = projectVersions'[mempool'[j].id].project
        PROVE  projectVersions'[mempool'[i].id].index < projectVersions'[mempool'[j].id].index
    <3>1. /\ i \in 1 .. Len(mempool) /\ mempool'[i] = mempool[i]
          /\ j \in 1 .. Len(mempool) /\ mempool'[j] = mempool[j]
      BY <2>1
    <3>. QED
      BY <1>1, <2>2, <3>1 DEF PoolOrdered, SameButStatus
  <2>3. ASSUME NEW g \in RegistrationIds, NEW i \in 1 .. Len(mempool'), proofs'[g] # NoProof,
               projectVersions'[g].project = projectVersions'[mempool'[i].id].project
        PROVE  projectVersions'[g].index < projectVersions'[mempool'[i].id].index
    <3>1. i \in 1 .. Len(mempool) /\ mempool'[i] = mempool[i] /\ Chain!Exists(g)
      BY <1>5, <2>1, <2>3 DEF Chain!Exists
    <3>. QED
      BY <1>1, <1>2, <2>3, <3>1 DEF PoolOrdered, SameButStatus
  <2>. QED
    BY <2>2, <2>3 DEF PoolOrdered, Chain!Exists
<1>6. ASSUME NEW r \in Requests, Send(r) PROVE PoolOrdered'
  <2>1. mempool \in Seq([id : RegistrationIds, calldata : Calldata])
    BY TypeParts DEF ChainOK
  <2>2. mempool' = Append(mempool, [id |-> plan[r].id, calldata |-> Submission(plan[r])])
    BY <1>6 DEF Send
  <2>3. /\ Len(mempool') = Len(mempool) + 1
        /\ \A i \in 1 .. Len(mempool) : mempool'[i] = mempool[i]
        /\ mempool'[Len(mempool) + 1] = [id |-> plan[r].id, calldata |-> Submission(plan[r])]
    BY <2>1, <2>2
  <2>. QED
    BY <1>4, <1>6, <2>3
<1>. QED
  BY <1>3, <1>5, <1>6, ChainCases

\* The later version of a project has the later record.
LEMMA ChainOrderStep ==
    ASSUME Base, NoOrphanProof, PoolOrdered, SnapshotsFaithful, ChainFollowsVersionOrder,
           [Next]_vars
    PROVE  ChainFollowsVersionOrder'
<1> USE DEF Base
<1> SUFFICES ASSUME NEW g \in RegistrationIds, NEW h \in RegistrationIds,
                    proofs'[g] # NoProof, proofs'[h] # NoProof,
                    projectVersions'[g].project = projectVersions'[h].project,
                    projectVersions'[g].index < projectVersions'[h].index
             PROVE  proofs'[g].recordId < proofs'[h].recordId
  BY DEF ChainFollowsVersionOrder, Chain!Exists
<1>1. ASSUME NEW f \in RegistrationIds, Chain!Exists(f) \/ InPool(f)
      PROVE  f \in Recorded /\ SameButStatus(f)
  BY <1>1, RowsPersist DEF NoOrphanProof, InPool
<1>2. ASSUME NEW f \in RegistrationIds, Chain!Exists(f)
      PROVE  proofs'[f] = proofs[f] /\ proofs[f].recordId \in 1 .. recordCounter
  BY <1>2, ProofsPersist DEF SnapshotsFaithful
<1>3. CASE Chain!Exists(g) /\ Chain!Exists(h)
  BY <1>1, <1>2, <1>3 DEF ChainFollowsVersionOrder, SameButStatus
<1>4. CASE ~(Chain!Exists(g) /\ Chain!Exists(h))
  <2>1. MineTransaction
    <3>1. ASSUME NEW r \in Requests, Send(r) PROVE UNCHANGED proofs
      BY <3>1 DEF Send, contractVars
    <3>. QED
      BY <1>4, <3>1, ChainCases DEF Chain!Exists
  <2>2. PICK new \in RegistrationIds :
          /\ new = mempool[1].id /\ 1 \in 1 .. Len(mempool) /\ InPool(new)
          /\ ~Chain!Exists(new) /\ proofs'[new].recordId = recordCounter + 1
          /\ \A f \in RegistrationIds \ {new} : proofs'[f] = proofs[f]
          /\ recordCounter \in Nat
    <3>1. Head(mempool) = mempool[1] /\ 1 \in 1 .. Len(mempool)
          /\ Head(mempool).id \in RegistrationIds
      BY <2>1, MineEffect
    <3>2. InPool(Head(mempool).id)
      BY <3>1 DEF InPool
    <3>. QED
      BY <1>4, <2>1, <3>1, <3>2, MineProof DEF Chain!Exists
  <2>3. CASE g = new
    <3>1. ASSUME Chain!Exists(h) PROVE FALSE
      <4>1. /\ SameButStatus(g) /\ SameButStatus(h) /\ g \in Recorded /\ h \in Recorded
        BY <1>1, <2>2, <2>3, <3>1
      <4>2. projectVersions[h].index < projectVersions[g].index
        BY <2>2, <2>3, <3>1, <4>1 DEF PoolOrdered, SameButStatus
      <4>. QED
        BY <4>1, <4>2, RowTypes DEF SameButStatus
    <3>2. h # g
      <4>1. projectVersions'[g].index \in Nat
        BY <1>1, <2>2, <2>3, RowTypes DEF SameButStatus
      <4>. QED
        BY <4>1
    <3>. QED
      BY <2>2, <2>3, <3>1, <3>2 DEF Chain!Exists
  <2>4. CASE h = new /\ Chain!Exists(g)
    BY <1>2, <2>2, <2>4
  <2>. QED
    BY <1>4, <2>2, <2>3, <2>4 DEF Chain!Exists
<1>. QED
  BY <1>3, <1>4

\* What SubmissionOf reads of a row no step changes.
LEMMA SubmissionKept ==
    ASSUME NEW g, SameButStatus(g)
    PROVE  SubmissionOf(projectVersions'[g]) = SubmissionOf(projectVersions[g])
BY DEF SubmissionOf, Submission, SameButStatus

\* Calldata is computed from the row, which never changes again.
LEMMA SnapshotsStep ==
    ASSUME Base, NoOrphanProof, LatestWhileHeld, SnapshotsFaithful, [Next]_vars
    PROVE  SnapshotsFaithful'
<1> USE DEF Base
<1>0. Len(mempool) \in Nat
  BY PoolCases
<1>1. ASSUME NEW f \in RegistrationIds, Chain!Exists(f) \/ InPool(f)
      PROVE  SubmissionOf(projectVersions'[f]) = SubmissionOf(projectVersions[f])
  BY <1>1, RowsPersist, SubmissionKept DEF NoOrphanProof, InPool
<1>2. ASSUME NEW i \in 1 .. Len(mempool')
      PROVE  mempool'[i].calldata = SubmissionOf(projectVersions'[mempool'[i].id])
  <2>1. ASSUME NEW k \in 1 .. Len(mempool), mempool'[i] = mempool[k]
        PROVE  mempool'[i].calldata = SubmissionOf(projectVersions'[mempool'[i].id])
    <3>1. mempool[k].id \in RegistrationIds /\ InPool(mempool[k].id)
      BY PoolTypes DEF InPool
    <3>2. mempool[k].calldata = SubmissionOf(projectVersions[mempool[k].id])
      BY DEF SnapshotsFaithful
    <3>. QED
      BY <1>1, <2>1, <3>1, <3>2
  <2>2. CASE /\ Len(mempool) >= 1 /\ Len(mempool') = Len(mempool) - 1
             /\ mempool'[i] = mempool[i + 1]
    <3>1. i + 1 \in 1 .. Len(mempool)
      BY <1>0, <2>2
    <3>. QED
      BY <2>1, <2>2, <3>1
  <2>3. ASSUME NEW r \in Requests, Send(r), Len(mempool') = Len(mempool) + 1,
               \A k \in 1 .. Len(mempool) : mempool'[k] = mempool[k],
               mempool'[Len(mempool) + 1] =
                 [id |-> plan[r].id, calldata |-> Submission(plan[r])]
        PROVE  mempool'[i].calldata = SubmissionOf(projectVersions'[mempool'[i].id])
    <3>1. CASE i \in 1 .. Len(mempool)
      BY <2>1, <2>3, <3>1
    <3>2. CASE i = Len(mempool) + 1
      <4>1. mempool'[i].id = plan[r].id /\ mempool'[i].calldata = Submission(plan[r])
        BY <2>3, <3>2
      <4>2. Submission(plan[r]) = SubmissionOf(projectVersions[plan[r].id])
        BY <2>3, SenderFacts DEF Send
      <4>3. UNCHANGED projectVersions
        BY <2>3 DEF Send, databaseVars
      <4>. QED
        BY <4>1, <4>2, <4>3
    <3>. QED
      BY <1>0, <2>3, <3>1, <3>2
  <2>4. CASE mempool' = mempool
    BY <2>1, <2>4
  <2>5. Len(mempool') # 0
    OBVIOUS
  <2>. QED
    BY <2>2, <2>3, <2>4, <2>5, PoolCases
<1>3. ASSUME NEW g \in RegistrationIds, proofs'[g] # NoProof
      PROVE  /\ proofs'[g].recordId \in 1 .. recordCounter'
             /\ proofs'[g].submission = SubmissionOf(projectVersions'[g])
  <2>0. recordCounter \in Nat /\ recordCounter' \in Nat /\ recordCounter' >= recordCounter
    <3>1. recordCounter \in Nat
      BY TypeParts DEF ChainOK, Chain!TypeOK
    <3>2. ASSUME NEW r \in Requests, Send(r) PROVE UNCHANGED recordCounter
      BY <3>2 DEF Send, contractVars
    <3>. QED
      BY <3>1, <3>2, ChainCases, MineProof
  <2>1. CASE Chain!Exists(g)
    <3>1. /\ proofs'[g] = proofs[g] /\ proofs[g].recordId \in 1 .. recordCounter
          /\ proofs[g].submission = SubmissionOf(projectVersions[g])
      BY <2>1, ProofsPersist DEF SnapshotsFaithful
    <3>. QED
      BY <1>1, <2>0, <2>1, <3>1
  <2>2. CASE ~Chain!Exists(g)
    <3>1. MineTransaction
      <4>1. ASSUME NEW r \in Requests, Send(r) PROVE UNCHANGED proofs
        BY <4>1 DEF Send, contractVars
      <4>. QED
        BY <1>3, <2>2, <4>1, ChainCases DEF Chain!Exists
    <3>2. /\ Head(mempool) = mempool[1] /\ 1 \in 1 .. Len(mempool)
          /\ g = mempool[1].id /\ InPool(g)
          /\ proofs'[g].recordId = recordCounter + 1 /\ recordCounter' = recordCounter + 1
          /\ proofs'[g].submission = mempool[1].calldata
      <4>1. Head(mempool) = mempool[1] /\ 1 \in 1 .. Len(mempool)
        BY <3>1, MineEffect
      <4>2. /\ g = Head(mempool).id
            /\ proofs'[g].recordId = recordCounter + 1 /\ recordCounter' = recordCounter + 1
            /\ proofs'[g].submission = Head(mempool).calldata
        BY <1>3, <2>2, <3>1, MineProof DEF Chain!Exists
      <4>. QED
        BY <4>1, <4>2 DEF InPool
    <3>3. mempool[1].calldata = SubmissionOf(projectVersions[g])
      BY <3>2 DEF SnapshotsFaithful
    <3>. QED
      BY <1>1, <2>0, <3>2, <3>3
  <2>. QED
    BY <2>1, <2>2
<1>. QED
  BY <1>2, <1>3 DEF SnapshotsFaithful, Chain!Exists

\* What the order on chain rests on.
ChainInv ==
    /\ LatestWhileHeld /\ PoolOrdered /\ SnapshotsFaithful /\ ChainFollowsVersionOrder

\* The pool and the contract hold the snapshots of the rows, in the order of the
\* versions of each project.
THEOREM ChainInvariant == Spec => []ChainInv
<1>1. Init => ChainInv
  <2> SUFFICES ASSUME Init PROVE ChainInv
    OBVIOUS
  <2>1. \A g \in RegistrationIds : ~Chain!Exists(g)
    BY DEF Init, Chain!Init, Chain!Exists, Chain!Strings
  <2>2. Len(mempool) = 0 /\ \A r \in Requests : pc[r] = "idle"
    BY DEF Init
  <2>. QED
    BY <2>1, <2>2 DEF ChainInv, LatestWhileHeld, PoolOrdered, SnapshotsFaithful,
                      ChainFollowsVersionOrder
<1>2. Base /\ RowsDistinct /\ NoOrphanProof /\ ChainInv /\ [Next]_vars => ChainInv'
  BY LatestWhileHeldStep, PoolOrderedStep, SnapshotsStep, ChainOrderStep DEF ChainInv
<1>. QED
  BY <1>1, <1>2, BaseInvariant, RowsAndReplies, NoOrphans, PTL DEF Spec

\* Precedence on chain is precedence in the project, however late the receipts
\* come and whatever the chain makes of a transaction.
THEOREM ChainOrderCorrect == Spec => []ChainFollowsVersionOrder
<1>1. ChainInv => ChainFollowsVersionOrder
  BY DEF ChainInv
<1>. QED
  BY <1>1, ChainInvariant, PTL

-----------------------------------------------------------------------------
(* The row, the record and the proof.                                      *)

\* AnchoredIsProved but for the snapshot.
RecordsTrue ==
    \A g \in RegistrationIds :
      blockchainRecords[g] # 0 \/ HasStatus(g, {"ANCHORED"}) =>
        /\ g \in Recorded
        /\ \/ projectVersions[g].status = "ANCHORED"
           \/ projectVersions[g].status = "FAILED" /\ faults > 0
        /\ Chain!Exists(g)
        /\ proofs[g].recordId = blockchainRecords[g]

\* Who changes the status of a version, from what to what.
LEMMA StatusCases ==
    ASSUME TypeOK, Planned, RowsKept, [Next]_vars, NEW g \in Recorded
    PROVE  LET before == projectVersions[g].status
               after == projectVersions'[g].status
           IN \/ projectVersions'[g] = projectVersions[g]
              \/ \E r \in Requests :
                   /\ plan[r].id = g
                   /\ \/ StartAnchoring(r) /\ before = "PENDING" /\ after = "ANCHORING"
                      \/ RecordAnchored(r) /\ before = "ANCHORING" /\ after = "ANCHORED"
                      \/ AnchoringFails(r) /\ before = "ANCHORING" /\ after = "FAILED"
                      \/ ReloadFails(r) /\ before = "ANCHORED" /\ after = "FAILED"
<1>1. ASSUME NEW r \in Requests, pc[r] \in Past,
             NEW status \in {"ANCHORING", "ANCHORED", "FAILED"}, SetStatus(plan[r].id, status)
      PROVE  \/ projectVersions'[g] = projectVersions[g]
             \/ /\ plan[r].id = g
                /\ projectVersions[g].status = StatusAt(pc[r])
                /\ projectVersions'[g].status = status
  <2>1. /\ projectVersions'[plan[r].id] = RowOf(plan[r], status)
        /\ \A h \in RegistrationIds \ {plan[r].id} : projectVersions'[h] = projectVersions[h]
    BY <1>1, StatusEffect DEF AnchoringStatuses
  <2>2. projectVersions[plan[r].id] = RowOf(plan[r], StatusAt(pc[r]))
    BY <1>1 DEF RowsKept
  <2>. QED
    BY <2>1, <2>2 DEF RowOf, Recorded
<1>2. ASSUME NEW r \in Requests, StartAnchoring(r)
      PROVE  \/ projectVersions'[g] = projectVersions[g]
             \/ /\ plan[r].id = g /\ projectVersions[g].status = "PENDING"
                /\ projectVersions'[g].status = "ANCHORING"
  BY <1>1, <1>2 DEF StartAnchoring, StatusAt, Past
<1>3. ASSUME NEW r \in Requests, RecordAnchored(r)
      PROVE  \/ projectVersions'[g] = projectVersions[g]
             \/ /\ plan[r].id = g /\ projectVersions[g].status = "ANCHORING"
                /\ projectVersions'[g].status = "ANCHORED"
  BY <1>1, <1>3 DEF RecordAnchored, StatusAt, Past
<1>4. ASSUME NEW r \in Requests, AnchoringFails(r)
      PROVE  \/ projectVersions'[g] = projectVersions[g]
             \/ /\ plan[r].id = g /\ projectVersions[g].status = "ANCHORING"
                /\ projectVersions'[g].status = "FAILED"
  BY <1>1, <1>4 DEF AnchoringFails, StatusAt, Past
<1>5. ASSUME NEW r \in Requests, ReloadFails(r)
      PROVE  \/ projectVersions'[g] = projectVersions[g]
             \/ /\ plan[r].id = g /\ projectVersions[g].status = "ANCHORED"
                /\ projectVersions'[g].status = "FAILED"
  BY <1>1, <1>5 DEF ReloadFails, StatusAt, Past
<1>6. ASSUME NEW r \in Requests, CreateVersion(r)
      PROVE  projectVersions'[g] = projectVersions[g]
  BY <1>6, CreateEffect DEF Recorded
<1>7. ASSUME \A r \in Requests :
               ~(StartAnchoring(r) \/ RecordAnchored(r) \/ AnchoringFails(r) \/ ReloadFails(r)
                   \/ CreateVersion(r))
      PROVE  UNCHANGED projectVersions
  BY <1>7 DEF Next, Arrival, ReturnExisting, Refuse, Admit, HandlerStep, PinFails,
              InsertConflicts, Send, ReceiptArrives, Finish, DatabaseFails, Crash, Upload,
              MineTransaction, DropPool, ReplaceRelayer, vars, databaseVars
<1>. QED
  BY <1>2, <1>3, <1>4, <1>5, <1>6, <1>7

\* Records are written with ANCHORED, and faults are not forgotten.
LEMMA RecordsWritten ==
    ASSUME TypeOK, [Next]_vars
    PROVE  /\ \/ UNCHANGED blockchainRecords
              \/ \E r \in Requests : RecordAnchored(r)
           /\ faults' >= faults
<1>0. faults \in Nat
  BY AnchoringAssumption DEF TypeOK
<1>1. ASSUME ~\E r \in Requests : RecordAnchored(r)
      PROVE  UNCHANGED blockchainRecords
  BY <1>1 DEF Next, Arrival, ReturnExisting, Refuse, Admit, HandlerStep, PinFails,
              InsertConflicts, CreateVersion, StartAnchoring, Send, ReceiptArrives, Finish,
              AnchoringFails, DatabaseFails, ReloadFails, Crash, Upload,
              MineTransaction, DropPool, ReplaceRelayer, vars, databaseVars
<1>2. faults' = faults \/ faults' = faults + 1
  BY DEF Next, Arrival, ReturnExisting, Refuse, Admit, HandlerStep, PinFails,
         InsertConflicts, CreateVersion, StartAnchoring, Send, ReceiptArrives, RecordAnchored,
         Finish, AnchoringFails, DatabaseFails, ReloadFails, Crash, Upload,
         MineTransaction, DropPool, ReplaceRelayer, vars
<1>. QED
  BY <1>0, <1>1, <1>2

\* What the commit of the record does.
LEMMA RecordEffect ==
    ASSUME Base, NEW r \in Requests, RecordAnchored(r), NEW g, g = plan[r].id
    PROVE  /\ g \in Recorded /\ g \in RegistrationIds
           /\ projectVersions[g].status = "ANCHORING"
           /\ projectVersions'[g].status = "ANCHORED"
           /\ Chain!Exists(g) /\ UNCHANGED proofs
           /\ blockchainRecords'[g] = proofs[g].recordId
           /\ \A h \in RegistrationIds \ {g} :
                /\ blockchainRecords'[h] = blockchainRecords[h]
                /\ projectVersions'[h] = projectVersions[h]
<1> USE DEF Base
<1>1. pc[r] = "recording" /\ pc[r] \in Past /\ SetStatus(plan[r].id, "ANCHORED")
      /\ UNCHANGED proofs
  BY DEF RecordAnchored, Past, chainVars, contractVars
<1>2. /\ g \in Recorded /\ projectVersions'[g] = RowOf(plan[r], "ANCHORED")
      /\ \A h \in RegistrationIds \ {g} : projectVersions'[h] = projectVersions[h]
  BY <1>1, StatusEffect DEF AnchoringStatuses
<1>3. projectVersions[g] = RowOf(plan[r], "ANCHORING")
  BY <1>1 DEF RowsKept, StatusAt
<1>4. blockchainRecords' = [blockchainRecords EXCEPT ![g] = proofs[g].recordId]
      /\ blockchainRecords \in [RegistrationIds -> Nat]
  BY TypeParts DEF RecordAnchored, TablesOK
<1>5. Chain!Exists(g)
  BY <1>1 DEF ReceiptsTrue
<1>. QED
  BY <1>1, <1>2, <1>3, <1>4, <1>5 DEF RowOf, Recorded

\* A record is written with the number of the proof, and stays as it is.
LEMMA RecordsTrueStep ==
    ASSUME Base, RecordsTrue, [Next]_vars
    PROVE  RecordsTrue'
<1> USE DEF Base
<1> SUFFICES ASSUME NEW g \in RegistrationIds,
                    \/ blockchainRecords'[g] # 0
                    \/ g \in Recorded' /\ projectVersions'[g].status = "ANCHORED"
             PROVE  /\ g \in Recorded'
                    /\ \/ projectVersions'[g].status = "ANCHORED"
                       \/ projectVersions'[g].status = "FAILED" /\ faults' > 0
                    /\ proofs'[g] # NoProof
                    /\ proofs'[g].recordId = blockchainRecords'[g]
  BY DEF RecordsTrue, HasStatus, Chain!Exists
<1>0. faults \in Nat /\ faults' >= faults /\ faults' \in Nat
  BY RecordsWritten, TypeStep, AnchoringAssumption DEF TypeOK
<1>1. ASSUME NEW r \in Requests, RecordAnchored(r), plan[r].id = g
      PROVE  /\ g \in Recorded'
             /\ projectVersions'[g].status = "ANCHORED"
             /\ proofs'[g] # NoProof
             /\ proofs'[g].recordId = blockchainRecords'[g]
  <2>1. g \in Recorded'
    BY <1>1, RecordEffect, RowsPersist
  <2>. QED
    BY <1>1, <2>1, RecordEffect DEF Chain!Exists
<1>2. ASSUME ~\E r \in Requests : RecordAnchored(r) /\ plan[r].id = g
      PROVE  /\ g \in Recorded'
             /\ \/ projectVersions'[g].status = "ANCHORED"
                \/ projectVersions'[g].status = "FAILED" /\ faults' > 0
             /\ proofs'[g] # NoProof
             /\ proofs'[g].recordId = blockchainRecords'[g]
  <2>1. blockchainRecords'[g] = blockchainRecords[g]
    BY <1>2, RecordsWritten, RecordEffect
  <2>2. CASE g \notin Recorded
    <3>1. blockchainRecords[g] = 0
      BY <2>2 DEF RecordsTrue
    <3>2. ASSUME NEW r \in Requests, CreateVersion(r), plan[r].id = g
          PROVE  projectVersions'[g].status = "PENDING"
      <4>1. projectVersions'[g] = RowOf(plan[r], "PENDING")
        BY <3>2, CreateEffect
      <4>. QED
        BY <4>1 DEF RowOf
    <3>3. g \notin Recorded' \/ projectVersions'[g].status = "PENDING"
      BY <2>2, <3>2, RowsPersist
    <3>. QED
      BY <2>1, <3>1, <3>3
  <2>3. CASE g \in Recorded
    <3>1. blockchainRecords[g] # 0 \/ projectVersions[g].status = "ANCHORED"
      <4>1. ASSUME projectVersions'[g].status = "ANCHORED", blockchainRecords[g] = 0
            PROVE  projectVersions[g].status = "ANCHORED"
        BY <1>2, <2>3, <4>1, StatusCases
      <4>. QED
        BY <2>1, <4>1
    <3>2. /\ \/ projectVersions[g].status = "ANCHORED"
             \/ projectVersions[g].status = "FAILED" /\ faults > 0
          /\ Chain!Exists(g) /\ proofs[g].recordId = blockchainRecords[g]
      BY <2>3, <3>1 DEF RecordsTrue, HasStatus
    <3>3. proofs'[g] # NoProof /\ proofs'[g].recordId = blockchainRecords'[g]
      BY <2>1, <3>2, ProofsPersist DEF Chain!Exists
    <3>4. ASSUME NEW r \in Requests, ReloadFails(r), projectVersions'[g].status = "FAILED"
          PROVE  projectVersions'[g].status = "FAILED" /\ faults' > 0
      BY <1>0, <3>4 DEF ReloadFails
    <3>5. \/ projectVersions'[g].status = "ANCHORED"
          \/ projectVersions'[g].status = "FAILED" /\ faults' > 0
      BY <1>0, <2>3, <3>2, <3>4, StatusCases
    <3>6. g \in Recorded'
      BY <2>3, RowsPersist
    <3>. QED
      BY <3>3, <3>5, <3>6
  <2>. QED
    BY <2>2, <2>3
<1>. QED
  BY <1>1, <1>2

\* The records of the database are true in every reachable state.
LEMMA RecordsInvariant == Spec => []RecordsTrue
<1>1. Init => RecordsTrue
  BY DEF Init, RecordsTrue, HasStatus, Recorded
<1>2. Base /\ RecordsTrue /\ [Next]_vars => RecordsTrue'
  BY RecordsTrueStep
<1>. QED
  BY <1>1, <1>2, BaseInvariant, PTL DEF Spec

\* Row, record and contract agree: what was ever recorded as anchored is on
\* chain, with the snapshot of the row and under the recordId of the record, and
\* only a fault takes the status back.
THEOREM AnchoredCorrect == Spec => []AnchoredIsProved
<1>1. Base /\ RecordsTrue /\ ChainInv => AnchoredIsProved
  BY DEF RecordsTrue, ChainInv, SnapshotsFaithful, SubmissionOf, AnchoredIsProved, HasStatus
<1>. QED
  BY <1>1, BaseInvariant, RecordsInvariant, ChainInvariant, PTL

-----------------------------------------------------------------------------
(* The database implements the write-once ledger.                          *)

\* An identifier's entry of the ledger the database stands for.
Entry(g) == IF g \in Recorded /\ blockchainRecords[g] # 0 THEN AnchoredRow(g) ELSE NoVersion

\* Two versions of a row that differ in the status at most give one entry.
LEMMA AnchoredRowKept ==
    ASSUME TypeOK, TypeOK', NEW g \in Recorded, g \in Recorded', SameButStatus(g)
    PROVE  [projectVersions'[g] EXCEPT !.status = "ANCHORED"]
             = [projectVersions[g] EXCEPT !.status = "ANCHORED"]
<1>1. projectVersions[g] \in Rows /\ projectVersions'[g] \in Rows
  BY TypeParts DEF TablesOK, Recorded
<1>. QED
  BY <1>1 DEF Rows, SameButStatus

\* A step other than the commit of its record leaves the entry of a version.
LEMMA EntryKept ==
    ASSUME Base, TypeOK', RecordsTrue, [Next]_vars, NEW g \in RegistrationIds,
           blockchainRecords'[g] = blockchainRecords[g]
    PROVE  Entry(g)' = Entry(g)
<1> USE DEF Base
<1>1. CASE blockchainRecords[g] = 0
  BY <1>1 DEF Entry
<1>2. CASE blockchainRecords[g] # 0
  <2>1. g \in Recorded /\ g \in Recorded' /\ SameButStatus(g)
    BY <1>2, RowsPersist DEF RecordsTrue
  <2>2. [projectVersions'[g] EXCEPT !.status = "ANCHORED"]
          = [projectVersions[g] EXCEPT !.status = "ANCHORED"]
    BY <2>1, AnchoredRowKept
  <2>. QED
    BY <1>2, <2>1, <2>2 DEF Entry, AnchoredRow
<1>. QED
  BY <1>1, <1>2

\* The commit of a record is the one step that anchors.
LEMMA EntryAnchored ==
    ASSUME Base, TypeOK', RecordsTrue, ChainInv, [Next]_vars,
           NEW r \in Requests, RecordAnchored(r), NEW g, g = plan[r].id
    PROVE  /\ g \in RegistrationIds /\ Entry(g) = NoVersion
           /\ Entry(g)' \in [row : Rows, recordId : Nat]
<1> USE DEF Base
<1>1. /\ g \in Recorded /\ g \in RegistrationIds
      /\ projectVersions[g].status = "ANCHORING" /\ Chain!Exists(g)
      /\ blockchainRecords'[g] = proofs[g].recordId
  BY RecordEffect
<1>2. blockchainRecords[g] = 0
  BY <1>1 DEF RecordsTrue
<1>3. blockchainRecords'[g] \in Nat /\ blockchainRecords'[g] # 0
  BY <1>1 DEF ChainInv, SnapshotsFaithful
<1>4. g \in Recorded' /\ projectVersions'[g] \in Rows
  BY <1>1, RowsPersist, TypeParts DEF TablesOK, Recorded
<1>5. [projectVersions'[g] EXCEPT !.status = "ANCHORED"] \in Rows
  BY <1>4 DEF Rows, AnchoringStatuses
<1>. QED
  BY <1>1, <1>2, <1>3, <1>4, <1>5 DEF Entry, AnchoredRow

\* Every step of the database anchors one identifier in the ledger or leaves it
\* as it is, so no crash, retry or late receipt ever rewrites what was recorded.
THEOREM DatabaseRefinesLedger == Spec => LedgerImplemented
<1> DEFINE ledger == [g \in RegistrationIds |-> Entry(g)]
<1>1. Init => Ledger!Init
  BY DEF Init, Ledger!Init, Recorded
<1>2. Base /\ Base' /\ RecordsTrue /\ ChainInv /\ [Next]_vars
        => [Ledger!Next]_(ledger)
  <2> SUFFICES ASSUME Base, Base', RecordsTrue, ChainInv, [Next]_vars
               PROVE  Ledger!Next \/ ledger' = ledger
    BY DEF Entry
  <2>1. TypeOK'
    BY DEF Base
  <2>2. CASE UNCHANGED blockchainRecords
    <3>1. \A g \in RegistrationIds : Entry(g)' = Entry(g)
      BY <2>1, <2>2, EntryKept
    <3>. QED
      BY <3>1
  <2>3. ASSUME NEW r \in Requests, RecordAnchored(r)
        PROVE  Ledger!Next
    <3>1. PICK g : g = plan[r].id
      OBVIOUS
    <3>2. /\ g \in RegistrationIds /\ Entry(g) = NoVersion
          /\ Entry(g)' \in [row : Rows, recordId : Nat]
      BY <2>1, <2>3, <3>1, EntryAnchored
    <3>3. \A h \in RegistrationIds \ {g} : Entry(h)' = Entry(h)
      BY <2>1, <2>3, <3>1, RecordEffect, EntryKept
    <3>4. ledger' = [ledger EXCEPT ![g] = ledger'[g]]
      BY <3>2, <3>3
    <3>5. Ledger!Anchor(g)
      BY <3>2, <3>4 DEF Ledger!Anchor, Entry
    <3>. QED
      BY <3>2, <3>5 DEF Ledger!Next
  <2>. QED
    BY <2>2, <2>3, RecordsWritten DEF Base
<1>. QED
  BY <1>1, <1>2, BaseInvariant, RecordsInvariant, ChainInvariant, PTL
     DEF Spec, LedgerImplemented, Ledger!Spec, Entry

-----------------------------------------------------------------------------
(* The contract underneath.                                                *)

\* Handlers, clients and faults touch the contract through its functions only,
\* with the relayer's key and calldata a caller may send: what happens to it is
\* a behaviour of ProjectRegistry, whatever becomes of the handlers.
THEOREM ContractUnderneath == Spec => Chain!Spec
<1>1. Init => Chain!Init
  BY DEF Init
<1>2. TypeOK /\ [Next]_vars => [Chain!Next]_(Chain!registryVars)
  <2> SUFFICES ASSUME TypeOK, [Next]_vars
               PROVE  Chain!Next \/ UNCHANGED contractVars
    BY DEF contractVars, Chain!registryVars, Chain!authority, Chain!records
  <2>1. CASE MineTransaction
    <3>1. /\ Head(mempool).id \in Chain!Strings
          /\ Head(mempool).calldata \in Calldata
      BY <2>1, MineEffect DEF Chain!Strings
    <3>. QED
      BY <2>1, <3>1 DEF MineTransaction, Chain!Next
  <2>2. CASE ReplaceRelayer
    BY <2>2 DEF ReplaceRelayer, Chain!Next, Chain!Administer, Chain!Addresses
  <2>3. CASE UNCHANGED contractVars
    BY <2>3
  <2>. QED
    BY <2>1, <2>2, <2>3
       DEF Next, vars, chainVars, Arrival, ReturnExisting, Refuse, Admit, HandlerStep,
           PinFails, InsertConflicts, CreateVersion, StartAnchoring, Send,
           ReceiptArrives, RecordAnchored, Finish, AnchoringFails, DatabaseFails,
           ReloadFails, Crash, Upload, DropPool
<1>. QED
  BY <1>1, <1>2, TypeCorrect, PTL DEF Spec, Chain!Spec

-----------------------------------------------------------------------------
(* The handler of a version until it answers.                              *)

\* From its commit to its answer, a handler has the latest version of its project;
\* its transaction, once sent, is the last of the pool, and with its receipt the
\* pool is empty.
HolderAhead ==
    \A r \in Requests, g \in RegistrationIds :
      pc[r] \in Past /\ plan[r].id = g =>
        /\ \A h \in Recorded :
             projectVersions[h].project = projectVersions[g].project
               => projectVersions[h].index <= projectVersions[g].index
        /\ pc[r] = "waiting" => Len(mempool) = 0 \/ mempool[Len(mempool)].id = g
        /\ pc[r] \in {"recording", "recorded"} => Len(mempool) = 0

\* Nothing that is pending is on chain already.
LEMMA PendingIsNew ==
    ASSUME TypeOK, NoOrphanProof, PoolOrdered, NEW i \in 1 .. Len(mempool)
    PROVE  ~Chain!Exists(mempool[i].id)
<1>1. mempool[i].id \in RegistrationIds
  BY PoolTypes
<1>2. projectVersions[mempool[i].id].index \in Nat
  BY <1>1, RowTypes DEF NoOrphanProof
<1>. QED
  BY <1>1, <1>2 DEF PoolOrdered

\* While a handler past its commit waits, nobody sends: the pool only gets
\* shorter, and keeps its end.
LEMMA PoolWhileHeld ==
    ASSUME TypeOK, [Next]_vars, ~\E r \in Requests : Send(r)
    PROVE  \/ Len(mempool') = 0
           \/ /\ Len(mempool) # 0
              /\ mempool'[Len(mempool')] = mempool[Len(mempool)]
<1>1. ASSUME Len(mempool) \in Nat, Len(mempool) >= 1, Len(mempool') = Len(mempool) - 1,
             \A i \in 1 .. Len(mempool') : mempool'[i] = mempool[i + 1],
             Len(mempool') # 0
      PROVE  mempool'[Len(mempool')] = mempool[Len(mempool)]
  <2>1. Len(mempool') \in 1 .. Len(mempool') /\ Len(mempool') + 1 = Len(mempool)
    BY <1>1
  <2>. QED
    BY <1>1, <2>1
<1>2. Len(mempool) \in Nat
  BY PoolCases
<1>3. \/ /\ Len(mempool) >= 1 /\ Len(mempool') = Len(mempool) - 1
         /\ \A i \in 1 .. Len(mempool') : mempool'[i] = mempool[i + 1]
      \/ mempool' = mempool \/ Len(mempool') = 0
  BY PoolCases
<1>4. CASE mempool' = mempool
  BY <1>4
<1>5. CASE /\ Len(mempool) >= 1 /\ Len(mempool') = Len(mempool) - 1
           /\ \A i \in 1 .. Len(mempool') : mempool'[i] = mempool[i + 1]
  <2>1. Len(mempool) # 0
    BY <1>2, <1>5
  <2>. QED
    BY <1>1, <1>2, <1>5, <2>1
<1>. QED
  BY <1>3, <1>4, <1>5

\* Nobody overtakes a handler that holds the loop, neither in the table nor in
\* the pool, and its receipt is there only after its transaction left the pool.
LEMMA HolderAheadStep ==
    ASSUME Base, NoOrphanProof, LatestWhileHeld, PoolOrdered, HolderAhead, [Next]_vars
    PROVE  HolderAhead'
<1> USE DEF Base
<1> SUFFICES ASSUME NEW x \in Requests, NEW g \in RegistrationIds,
                    pc'[x] \in Past, plan'[x].id = g
             PROVE  /\ \A h \in Recorded' :
                         projectVersions'[h].project = projectVersions'[g].project
                           => projectVersions'[h].index <= projectVersions'[g].index
                    /\ pc'[x] = "waiting" => \/ Len(mempool') = 0
                                             \/ mempool'[Len(mempool')].id = g
                    /\ pc'[x] \in {"recording", "recorded"} => Len(mempool') = 0
  BY DEF HolderAhead
<1>1. ~\E body \in Bodies : Admit(x, body)
  BY TypeParts DEF Admit, RequestsOK, Past
<1>2. CASE CreateVersion(x) /\ pc'[x] = "created"
  <2>1. LatestWhileHeld'
    BY LatestWhileHeldStep
  <2>. QED
    BY <1>2, <2>1 DEF LatestWhileHeld
<1>3. ASSUME pc[x] \in Past, plan'[x] = plan[x],
             \/ pc'[x] = pc[x]
             \/ StartAnchoring(x) /\ pc'[x] = "sending"
             \/ Send(x) /\ pc'[x] = "waiting"
             \/ ReceiptArrives(x) /\ pc'[x] = "recording"
             \/ RecordAnchored(x) /\ pc'[x] = "recorded"
      PROVE  /\ \A h \in Recorded' :
                  projectVersions'[h].project = projectVersions'[g].project
                    => projectVersions'[h].index <= projectVersions'[g].index
             /\ pc'[x] = "waiting" => \/ Len(mempool') = 0
                                      \/ mempool'[Len(mempool')].id = g
             /\ pc'[x] \in {"recording", "recorded"} => Len(mempool') = 0
  <2>1. loop = x /\ g \in Recorded /\ plan[x].id = g
    BY <1>3, HolderFacts DEF Recorded
  <2>2. Recorded' = Recorded /\ \A h \in Recorded : SameButStatus(h)
    BY <1>3, HolderExcludes, RowsPersist
  <2>3. \A h \in Recorded :
          projectVersions[h].project = projectVersions[g].project
            => projectVersions[h].index <= projectVersions[g].index
    BY <1>3, <2>1 DEF HolderAhead
  <2>4. \A h \in Recorded' :
          projectVersions'[h].project = projectVersions'[g].project
            => projectVersions'[h].index <= projectVersions'[g].index
    BY <2>1, <2>2, <2>3 DEF SameButStatus
  <2>5. ASSUME pc[x] # "sending"
        PROVE  ~\E r \in Requests : Send(r)
    BY <1>3, <2>1, <2>5, HolderFacts DEF Send, Past
  <2>6. CASE Send(x)
    <3>1. /\ Len(mempool') = Len(mempool) + 1
          /\ mempool'[Len(mempool) + 1] =
               [id |-> plan[x].id, calldata |-> Submission(plan[x])]
      BY <2>6, TypeParts DEF Send, ChainOK
    <3>2. mempool'[Len(mempool')].id = g
      BY <2>1, <3>1
    <3>3. pc'[x] = "waiting"
      BY <2>6, TypeParts DEF Send, RequestsOK
    <3>. QED
      BY <2>4, <3>2, <3>3
  <2>7. CASE ReceiptArrives(x)
    <3>1. Len(mempool) \in Nat /\ mempool' = mempool /\ pc'[x] = "recording"
      BY <2>7, PoolCases, TypeParts DEF ReceiptArrives, chainVars, RequestsOK
    <3>2. Chain!Exists(g)
      BY <2>1, <2>7 DEF ReceiptArrives, ReceiptsTrue
    <3>3. Len(mempool) = 0 \/ mempool[Len(mempool)].id = g
      BY <1>3, <2>1, <2>7 DEF ReceiptArrives, HolderAhead
    <3>4. Len(mempool) = 0
      <4>1. Len(mempool) # 0 => Len(mempool) \in 1 .. Len(mempool)
        BY <3>1
      <4>. QED
        BY <3>2, <3>3, <4>1, PendingIsNew
    <3>. QED
      BY <2>4, <3>1, <3>4
  <2>8. CASE ~Send(x) /\ ~ReceiptArrives(x)
    <3>1. pc[x] # "sending" =>
            \/ Len(mempool') = 0
            \/ Len(mempool) # 0 /\ mempool'[Len(mempool')] = mempool[Len(mempool)]
      BY <2>5, PoolWhileHeld
    <3>2. /\ pc'[x] = "waiting" => pc[x] = "waiting"
          /\ pc'[x] \in {"recording", "recorded"} => pc[x] \in {"recording", "recorded"}
      BY <1>3, <2>8 DEF RecordAnchored
    <3>3. /\ pc[x] = "waiting" => Len(mempool) = 0 \/ mempool[Len(mempool)].id = g
          /\ pc[x] \in {"recording", "recorded"} => Len(mempool) = 0
      BY <1>3, <2>1 DEF HolderAhead
    <3>. QED
      BY <2>4, <3>1, <3>2, <3>3
  <2>. QED
    BY <2>6, <2>7, <2>8
<1>4. StartAnchoring(x) \/ Send(x) \/ ReceiptArrives(x) \/ RecordAnchored(x) => pc[x] \in Past
  BY DEF StartAnchoring, Send, ReceiptArrives, RecordAnchored, Past
<1>. QED
  BY <1>1, <1>2, <1>3, <1>4, RequestCases DEF Past

\* Whoever is past the commit of a version has the latest of its project.
LEMMA HolderAheadInvariant == Spec => []HolderAhead
<1>1. Init => HolderAhead
  BY DEF Init, HolderAhead, Past
<1>2. Base /\ NoOrphanProof /\ ChainInv /\ HolderAhead /\ [Next]_vars => HolderAhead'
  BY HolderAheadStep DEF ChainInv
<1>. QED
  BY <1>1, <1>2, BaseInvariant, NoOrphans, ChainInvariant, PTL DEF Spec

-----------------------------------------------------------------------------
(* What the modules that anchor in one step take for granted.              *)

\* A version becomes ANCHORED when its proof is on chain, later than every
\* version of its project that is in the table, and with no version of the
\* relayer's left pending: AnchorVersion of DisputeFlow asks for no more.
AnchoredIsLatest ==
    [][\A g \in RegistrationIds :
         ~HasStatus(g, {"ANCHORED"}) /\ HasStatus(g, {"ANCHORED"})' =>
           /\ Chain!Exists(g) /\ Len(mempool) = 0
           /\ \A h \in Recorded :
                projectVersions[h].project = projectVersions[g].project
                  => projectVersions[h].index <= projectVersions[g].index]_vars

\* What has become of the transaction of a version.
Fate(g) ==
    IF Chain!Exists(g) THEN "mined" ELSE IF InPool(g) THEN "pending" ELSE "unsent"

\* Status and transaction of a version agree as Outcomes of Verification lists
\* them, at every moment; a proof has no second transaction behind it, and
\* whatever is pending or mined under a version holds the content of its row.
OutcomesAgree ==
    /\ \A g \in Recorded :
         \/ <<projectVersions[g].status, Fate(g)>>
              \in {<<"ANCHORED", "mined">>, <<"PENDING", "unsent">>}
         \/ projectVersions[g].status \in {"FAILED", "ANCHORING"}
    /\ \A i \in 1 .. Len(mempool) :
         ~Chain!Exists(mempool[i].id)
           /\ mempool[i].calldata = SubmissionOf(projectVersions[mempool[i].id])
    /\ \A g \in RegistrationIds : Chain!Exists(g) =>
         proofs[g].submission = SubmissionOf(projectVersions[g])

\* ANCHORED is written by the handler of the version, with the receipt in hand,
\* before any other handler runs (project_version_service.py 499-541).
THEOREM AnchoredLatest == Spec => AnchoredIsLatest
<1>1. Base /\ HolderAhead /\ [Next]_vars =>
        [\A g \in RegistrationIds :
           ~HasStatus(g, {"ANCHORED"}) /\ HasStatus(g, {"ANCHORED"})' =>
             /\ Chain!Exists(g) /\ Len(mempool) = 0
             /\ \A h \in Recorded :
                  projectVersions[h].project = projectVersions[g].project
                    => projectVersions[h].index <= projectVersions[g].index]_vars
  <2> SUFFICES ASSUME Base, HolderAhead, [Next]_vars, NEW g \in RegistrationIds,
                      ~HasStatus(g, {"ANCHORED"}),
                      g \in Recorded', projectVersions'[g].status = "ANCHORED"
               PROVE  /\ Chain!Exists(g) /\ Len(mempool) = 0
                      /\ \A h \in Recorded :
                           projectVersions[h].project = projectVersions[g].project
                             => projectVersions[h].index <= projectVersions[g].index
    BY DEF HasStatus
  <2>1. ASSUME NEW r \in Requests, CreateVersion(r), plan[r].id = g
        PROVE  FALSE
    <3>1. projectVersions'[g] = RowOf(plan[r], "PENDING")
      BY <2>1, CreateEffect DEF Base
    <3>. QED
      BY <3>1 DEF RowOf
  <2>2. g \in Recorded
    BY <2>1, RowsPersist DEF Base
  <2>3. projectVersions[g].status # "ANCHORED"
    BY <2>2 DEF HasStatus
  <2>4. PICK r \in Requests : plan[r].id = g /\ RecordAnchored(r)
    BY <2>2, <2>3, StatusCases DEF Base
  <2>5. pc[r] = "recording" /\ pc[r] \in Past
    BY <2>4 DEF RecordAnchored, Past
  <2>. QED
    BY <2>4, <2>5 DEF HolderAhead, Base, ReceiptsTrue
<1>. QED
  BY <1>1, BaseInvariant, HolderAheadInvariant, PTL DEF Spec, AnchoredIsLatest

\* However a handler ends and whatever crashes, a version is left in one of the
\* states that the model of verification starts from.
THEOREM OutcomesCorrect == Spec => []OutcomesAgree
<1>1. ASSUME Base, NoOrphanProof, ChainInv, RecordsTrue PROVE OutcomesAgree
  <2>1. ASSUME NEW g \in Recorded
        PROVE  \/ <<projectVersions[g].status, Fate(g)>>
                    \in {<<"ANCHORED", "mined">>, <<"PENDING", "unsent">>}
               \/ projectVersions[g].status \in {"FAILED", "ANCHORING"}
    <3>1. g \in RegistrationIds /\ projectVersions[g].status \in AnchoringStatuses
      BY <1>1, TypeParts, NullAssumption DEF Base, TablesOK, Recorded, Rows
    <3>2. projectVersions[g].status = "ANCHORED" => Fate(g) = "mined"
      BY <1>1, <3>1 DEF RecordsTrue, HasStatus, Fate
    <3>3. projectVersions[g].status = "PENDING" => Fate(g) = "unsent"
      BY <1>1, <3>1 DEF NoOrphanProof, InPool, Fate
    <3>. QED
      BY <3>1, <3>2, <3>3 DEF AnchoringStatuses
  <2>2. ASSUME NEW i \in 1 .. Len(mempool)
        PROVE  ~Chain!Exists(mempool[i].id)
    BY <1>1, PendingIsNew DEF Base, ChainInv
  <2>. QED
    BY <1>1, <2>1, <2>2 DEF OutcomesAgree, ChainInv, SnapshotsFaithful
<1>. QED
  BY <1>1, BaseInvariant, NoOrphans, ChainInvariant, RecordsInvariant, PTL

-----------------------------------------------------------------------------
(* What holds as long as no fault hits.                                    *)

\* A version that anchoring has still to settle: committed with something to
\* anchor, or ANCHORING.
Unsettled(g) ==
    /\ g \in Recorded
    /\ \/ projectVersions[g].status = "ANCHORING"
       \/ /\ projectVersions[g].status = "PENDING"
          /\ projectVersions[g].artifacts # {} /\ projectVersions[g].root # {}

\* The handler that created the version is at work on it and has the loop.
AtWork(g) == \E r \in Requests : loop = r /\ pc[r] \in Past /\ plan[r].id = g

\* As long as no fault hit, no version is forgotten: every one that is not
\* settled has its handler at work, so that AnchoringSettles needs no more than
\* that handlers go on.
UnsettledHasHandler ==
    faults = 0 => \A g \in RegistrationIds : Unsettled(g) => AtWork(g)

\* What DATABASE_DESIGN.md:192 promises holds in every step that is no fault.
AnchoredIsFinalUnlessFault ==
    [][faults' = faults =>
         \A g \in RegistrationIds :
           HasStatus(g, {"ANCHORED"}) => HasStatus(g, {"ANCHORED"})']_vars

\* The ways in which a handler past the commit of its version lets go of it.
LEMMA LeaveCases ==
    ASSUME TypeOK, [Next]_vars, NEW x \in Requests, pc[x] \in Past, pc'[x] \notin Past
    PROVE  \/ Finish(x) \/ AnchoringFails(x)
           \/ ReloadFails(x) \/ DatabaseFails(x) \/ Crash
<1>0. RequestsOK /\ loop = x /\ x # Free
  BY TypeParts, AnchoringAssumption DEF RequestsOK, Past, Holding
<1>1. ASSUME NEW r \in Requests \ {x}, NEW kind, NEW g, Answer(r, kind, g)
      PROVE  pc'[x] = pc[x]
  BY <1>0, <1>1 DEF Answer, RequestsOK
<1>2. ASSUME NEW r \in Requests, NEW stage, pc' = [pc EXCEPT ![r] = stage], r # x \/ stage \in Past
      PROVE  pc'[x] \in Past
  BY <1>0, <1>2 DEF RequestsOK
<1>3. ASSUME NEW r \in Requests, Arrival(r)
      PROVE  FALSE
  BY <1>0, <1>3 DEF Arrival, ReturnExisting, Refuse, Admit
<1>4. ASSUME NEW r \in Requests, HandlerStep(r)
      PROVE  Finish(x) \/ AnchoringFails(x)
  <2>1. CASE r = x
    BY <1>0, <1>2, <1>4, <2>1
       DEF HandlerStep, PinFails, InsertConflicts, Resumed, CreateVersion, StartAnchoring,
           Send, ReceiptArrives, RecordAnchored, Past
  <2>2. CASE r # x
    <3>1. pc[r] \notin Holding
      BY <1>0, <2>2 DEF RequestsOK
    <3>. QED
      BY <1>0, <1>4, <3>1
         DEF HandlerStep, PinFails, InsertConflicts, Resumed, CreateVersion, StartAnchoring,
             Send, ReceiptArrives, RecordAnchored, Finish, AnchoringFails, Holding
  <2>. QED
    BY <2>1, <2>2
<1>5. ASSUME NEW r \in Requests, DatabaseFails(r) \/ ReloadFails(r), r # x
      PROVE  FALSE
  BY <1>1, <1>5 DEF DatabaseFails, ReloadFails
<1>6. ASSUME \/ \E a \in Artifacts : Upload(a)
             \/ MineTransaction \/ DropPool \/ ReplaceRelayer \/ UNCHANGED vars
      PROVE  FALSE
  BY <1>6 DEF Upload, MineTransaction, DropPool, ReplaceRelayer, vars, requestVars
<1>. QED
  BY <1>3, <1>4, <1>5, <1>6 DEF Next

\* A step that is a fault is counted as one.
LEMMA FaultsCounted ==
    ASSUME TypeOK, faults' = faults
    PROVE  ~Crash /\ \A r \in Requests : ~DatabaseFails(r) /\ ~ReloadFails(r)
<1>1. faults \in Nat
  BY AnchoringAssumption DEF TypeOK
<1>. QED
  BY <1>1 DEF Crash, DatabaseFails, ReloadFails

\* A handler that loses no version: it answers after ANCHORED or FAILED only.
LEMMA UnsettledStep ==
    ASSUME Base, TypeOK', UnsettledHasHandler, [Next]_vars
    PROVE  UnsettledHasHandler'
<1> USE DEF Base
<1> SUFFICES ASSUME faults' = 0, NEW g \in RegistrationIds, Unsettled(g)'
             PROVE  AtWork(g)'
  BY DEF UnsettledHasHandler
<1>1. faults = 0 /\ faults' = faults
  BY RecordsWritten, AnchoringAssumption DEF TypeOK
<1>2. ~Crash /\ \A r \in Requests : ~DatabaseFails(r) /\ ~ReloadFails(r)
  BY <1>1, FaultsCounted
<1>3. ASSUME NEW r \in Requests, pc'[r] \in Past, plan'[r].id = g
      PROVE  AtWork(g)'
  <2>1. loop' = r
    BY <1>3, TypeParts DEF RequestsOK, Past, Holding
  <2>. QED
    BY <1>3, <2>1 DEF AtWork
<1>4. ASSUME NEW r \in Requests, CreateVersion(r), plan[r].id = g
      PROVE  AtWork(g)'
  <2>1. projectVersions'[g] = RowOf(plan[r], "PENDING")
    BY <1>4, CreateEffect
  <2>2. plan[r].body.artifacts # {} /\ plan[r].root # {}
    BY <2>1 DEF Unsettled, RowOf
  <2>3. pc'[r] = "created" /\ plan' = plan
    BY <1>4, <2>2, TypeParts DEF CreateVersion, RequestsOK
  <2>. QED
    BY <1>3, <1>4, <2>3 DEF Past
<1>5. ASSUME NEW r \in Requests, pc[r] \in Past, plan[r].id = g,
             ~Finish(r), ~AnchoringFails(r)
      PROVE  AtWork(g)'
  <2>1. pc'[r] \in Past
    BY <1>2, <1>5, LeaveCases
  <2>2. ~\E body \in Bodies : Admit(r, body)
    BY <1>5 DEF Admit, Past
  <2>3. plan'[r] = plan[r]
    BY <2>2, RequestCases
  <2>. QED
    BY <1>3, <1>5, <2>1, <2>3
<1>6. CASE g \in Recorded
  <2>1. CASE projectVersions'[g] = projectVersions[g]
    <3>1. Unsettled(g)
      BY <1>6, <2>1 DEF Unsettled
    <3>2. PICK r \in Requests : pc[r] \in Past /\ plan[r].id = g
      BY <1>1, <3>1 DEF UnsettledHasHandler, AtWork
    <3>3. ~Finish(r)
      <4>1. ASSUME pc[r] = "recorded" PROVE projectVersions[g].status = "ANCHORED"
        <5>1. projectVersions[g] = RowOf(plan[r], "ANCHORED")
          BY <3>2, <4>1 DEF RowsKept, StatusAt
        <5>. QED
          BY <5>1 DEF RowOf
      <4>. QED
        BY <3>1, <4>1 DEF Finish, Unsettled
    <3>4. ~AnchoringFails(r)
      <4>1. ASSUME SetStatus(g, "FAILED") PROVE projectVersions'[g].status = "FAILED"
        BY <1>6, <4>1, TypeParts, NullAssumption DEF SetStatus, TablesOK, Recorded, Rows
      <4>2. projectVersions[g].status # "FAILED"
        BY <3>1 DEF Unsettled
      <4>. QED
        BY <2>1, <3>2, <4>1, <4>2 DEF AnchoringFails
    <3>. QED
      BY <1>5, <3>2, <3>3, <3>4
  <2>2. ASSUME NEW r \in Requests, plan[r].id = g, StartAnchoring(r)
        PROVE  AtWork(g)'
    BY <1>5, <2>2 DEF StartAnchoring, Past, Finish, AnchoringFails
  <2>3. projectVersions'[g].status \notin {"ANCHORED", "FAILED"}
    BY DEF Unsettled
  <2>. QED
    BY <1>6, <2>1, <2>2, <2>3, StatusCases
<1>7. CASE g \notin Recorded
  <2>1. g \in Recorded'
    BY DEF Unsettled
  <2>. QED
    BY <1>4, <1>7, <2>1, RowsPersist
<1>. QED
  BY <1>6, <1>7

\* Whatever the chain does, and however late: short of a crash or a database
\* failure no version is left without a final status by its handler.
THEOREM NothingForgotten == Spec => []UnsettledHasHandler
<1>1. Init => UnsettledHasHandler
  BY DEF Init, UnsettledHasHandler, Unsettled, Recorded
<1>2. Base /\ Base' /\ UnsettledHasHandler /\ [Next]_vars => UnsettledHasHandler'
  BY UnsettledStep DEF Base
<1>. QED
  BY <1>1, <1>2, BaseInvariant, PTL DEF Spec

\* ANCHORED is taken back by a fault or not at all.
THEOREM AnchoredFinal == Spec => AnchoredIsFinalUnlessFault
<1>1. Base /\ [Next]_vars =>
        [faults' = faults =>
           \A g \in RegistrationIds :
             HasStatus(g, {"ANCHORED"}) => HasStatus(g, {"ANCHORED"})']_vars
  <2> SUFFICES ASSUME Base, [Next]_vars, faults' = faults,
                      NEW g \in Recorded, projectVersions[g].status = "ANCHORED"
               PROVE  g \in Recorded' /\ projectVersions'[g].status = "ANCHORED"
    BY DEF HasStatus
  <2>1. g \in Recorded'
    BY RowsPersist DEF Base
  <2>2. ~\E r \in Requests : ReloadFails(r)
    BY FaultsCounted DEF Base
  <2>. QED
    BY <2>1, <2>2, StatusCases DEF Base
<1>. QED
  BY <1>1, BaseInvariant, PTL DEF Spec, AnchoredIsFinalUnlessFault
=============================================================================
