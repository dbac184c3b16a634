--------------------------- MODULE VersionAnchoring ---------------------------
(***************************************************************************)
(* POST /projects/{id}/versions, create_project_version: a handler that    *)
(* reads the project, suspends while IPFS pins the files, commits the      *)
(* version, broadcasts a transaction and commits the outcome.  Handlers    *)
(* share one event loop, as the single uvicorn process of the deployment   *)
(* gives them: another handler runs only while this one is suspended, and  *)
(* the pin is the only suspension.  Between two commits the process may    *)
(* crash, the database may fail, and the chain moves on by itself.         *)
(*                                                                         *)
(* A composite hash is the set of artifacts it was computed from and a     *)
(* root CID the set of artifacts the pinned directory holds; the order in  *)
(* which artifacts of one file name are hashed is left out.                *)
(***************************************************************************)
EXTENDS Integers, FiniteSets, Sequences, FiniteSetsExt

CONSTANTS
    Requests,         \* requests the clients may send, retries included
    Bodies,           \* the bodies they may carry
    Projects, Artifacts, RegistrationIds,
    Keys, NoKey,      \* values of the Idempotency-Key header, and no header
    FileNames, FileName,   \* the file name each artifact was uploaded with
    Uploaded,         \* artifacts uploaded before the behaviour starts
    VolatileStorage,  \* STORAGE_BACKEND = "ipfs": bytes buffered in memory
    Admin, RelayerAccount, OtherAccount, ZeroAddress,  \* accounts on chain
    NoVersion, NoProof, NoReply, NoPlan, Free,   \* null values
    MaxFaults         \* bound on crashes and database failures

STAGE_ORDER == <<"IDEA", "DESIGN", "PROTOTYPE", "FINAL">>
Stages == {"IDEA", "DESIGN", "PROTOTYPE", "FINAL"}
StageIndex(stage) == CHOOSE i \in 1 .. 4 : STAGE_ORDER[i] = stage
AnchoringStatuses == {"PENDING", "ANCHORING", "ANCHORED", "FAILED"}

RequestBodies == [project : Projects, key : Keys \cup {NoKey}, stage : Stages,
                  artifacts : SUBSET Artifacts, authorized : BOOLEAN]

ASSUME AnchoringAssumption ==
    /\ Bodies \subseteq RequestBodies
    /\ NoKey \notin Keys
    /\ Uploaded \subseteq Artifacts
    /\ FileName \in [Artifacts -> FileNames]
    /\ Free \notin Requests
    /\ VolatileStorage \in BOOLEAN
    /\ MaxFaults \in Nat

VARIABLES
    \* requests, their clients and the event loop
    pc, plan, reply, loop,
    \* PostgreSQL
    projectVersions,   \* rows by registration_id, NoVersion where there is none
    currentStage,      \* projects.current_lifecycle_stage
    artifactVersion,   \* artifacts.version_id, as a registration_id
    withCid,           \* artifacts whose ipfs_cid is set
    uploaded,          \* rows of artifacts
    blockchainRecords, \* blockchain_records.onchain_record_id by version, or 0
    \* artifact storage
    stored,            \* artifacts whose bytes the storage service can return
    \* the chain: the relayer's pending transactions in nonce order, receipts,
    \* and the contract
    mempool, receipts,
    owner, pendingOwner, relayer, recordCounter, proofs, recordIndex, blockNumber,
    \* faults so far
    faults

requestVars == <<pc, plan, reply, loop>>
artifactVars == <<artifactVersion, withCid, uploaded>>
databaseVars == <<projectVersions, currentStage, artifactVars, blockchainRecords>>
contractVars == <<owner, pendingOwner, relayer, recordCounter, proofs,
                  recordIndex, blockNumber>>
chainVars == <<mempool, receipts, contractVars>>
vars == <<requestVars, databaseVars, stored, chainVars, faults>>

\* What register_project_version submits: {} stands for the empty string and
\* for the zero hash, neither of which a non-empty snapshot yields.
Calldata == [compositeHash : SUBSET Artifacts, ipfsRootCID : SUBSET Artifacts,
             versionIndex : Nat, lifecycleStage : Stages, author : Projects,
             coAuthors : {{}}]

Chain == INSTANCE ProjectRegistry WITH
    Accounts <- {Admin, RelayerAccount, OtherAccount}, EmptyString <- {},
    ZeroHash <- {}, Hashes <- (SUBSET Artifacts) \ {{}},
    CIDs <- (SUBSET Artifacts) \ {{}}, Submissions <- Calldata,
    InitialOwner <- Admin, InitialRelayer <- RelayerAccount,
    MaxVersionIndex <- 65535, MaxBlock <- 0, versions <- proofs,
    recordIdToRegistrationId <- recordIndex

-----------------------------------------------------------------------------
Recorded == {g \in RegistrationIds : projectVersions[g] # NoVersion}
VersionsOf(p) == {g \in Recorded : projectVersions[g].project = p}
Indexes(p) == {projectVersions[g].index : g \in VersionsOf(p)}
MaxIndex(p) == Max(Indexes(p) \cup {0})
Latest(p) == CHOOSE g \in VersionsOf(p) : projectVersions[g].index = MaxIndex(p)
KeyOwner(key) == {g \in Recorded : projectVersions[g].key = key /\ key # NoKey}

Reply(kind, g) == [kind |-> kind, version |-> g]

Init ==
    /\ pc = [r \in Requests |-> "idle"]
    /\ plan = [r \in Requests |-> NoPlan]
    /\ reply = [r \in Requests |-> NoReply]
    /\ loop = Free
    /\ projectVersions = [g \in RegistrationIds |-> NoVersion]
    /\ currentStage = [p \in Projects |-> "IDEA"]
    /\ artifactVersion = [a \in Artifacts |-> NoVersion]
    /\ withCid = {}
    /\ uploaded = Uploaded
    /\ blockchainRecords = [g \in RegistrationIds |-> 0]
    /\ stored = Uploaded
    /\ mempool = <<>>
    /\ receipts = [g \in RegistrationIds |-> "none"]
    /\ Chain!Init
    /\ faults = 0

\* The handler returns or raises: the client has its answer, the loop is free.
Answer(r, kind, g) ==
    /\ pc' = [pc EXCEPT ![r] = "done"]
    /\ reply' = [reply EXCEPT ![r] = Reply(kind, g)]
    /\ loop' = Free
    /\ UNCHANGED plan
-----------------------------------------------------------------------------
(* The first part of the handler, up to the pin.                           *)

\* An artifact already linked to a version of another project.
Foreign(a, p) ==
    /\ artifactVersion[a] # NoVersion
    /\ projectVersions[artifactVersion[a]].project # p

\* Mutation: FINAL may be followed by FINAL.
StageRegresses(body) ==
    /\ VersionsOf(body.project) # {}
    /\ StageIndex(body.stage)
         < StageIndex(projectVersions[Latest(body.project)].stage)

StageRefused(body) ==
    /\ VersionsOf(body.project) # {}
    /\ LET latest == projectVersions[Latest(body.project)].stage
       IN latest = "FINAL" \/ StageIndex(body.stage) < StageIndex(latest)

Refused(body) ==
    \/ ~body.authorized
    \/ StageRefused(body)
    \/ ~(body.artifacts \subseteq uploaded)
    \/ \E a \in body.artifacts : Foreign(a, body.project)

\* The idempotency key names a version: it is returned whatever its status, or
\* the request is refused if the version is of another project.
ReturnExisting(r, body) ==
    /\ pc[r] = "idle" /\ loop = Free
    /\ \E g \in KeyOwner(body.key) :
         Answer(r, IF projectVersions[g].project = body.project
                   THEN "existing" ELSE "refused", g)
    /\ UNCHANGED <<databaseVars, stored, chainVars, faults>>

Refuse(r, body) ==
    /\ pc[r] = "idle" /\ loop = Free
    /\ KeyOwner(body.key) = {}
    /\ Refused(body)
    /\ Answer(r, "refused", NoVersion)
    /\ UNCHANGED <<databaseVars, stored, chainVars, faults>>

\* The directory add_directory is given: file_name is the key of the payload,
\* so of several files of one name the last one read is kept.
Payloads(artifacts) ==
    {S \in SUBSET (artifacts \cap stored) :
       /\ {FileName[a] : a \in S} = {FileName[a] : a \in artifacts \cap stored}
       /\ \A a, b \in S : FileName[a] = FileName[b] => a = b}

\* With no file content at hand, the CID of one artifact stands for the root.
Roots(artifacts) ==
    IF artifacts \cap stored # {} THEN Payloads(artifacts)
    ELSE IF artifacts \cap withCid # {} THEN {{a} : a \in artifacts \cap withCid}
    ELSE {{}}

\* All checks pass: index and identifier are fixed now, from what is committed
\* now.  The handler suspends only if there is something to pin.
Admit(r, body) ==
    /\ pc[r] = "idle" /\ loop = Free
    /\ KeyOwner(body.key) = {}
    /\ ~Refused(body)
    /\ \E g \in RegistrationIds \ Recorded, root \in Roots(body.artifacts) :
         plan' = [plan EXCEPT ![r] = [body |-> body, id |-> g, root |-> root,
                                      index |-> MaxIndex(body.project) + 1]]
    /\ IF body.artifacts \cap stored # {}
       THEN pc' = [pc EXCEPT ![r] = "pinning"] /\ loop' = Free
       ELSE pc' = [pc EXCEPT ![r] = "creating"] /\ loop' = r
    /\ UNCHANGED <<reply, databaseVars, stored, chainVars, faults>>

\* add_directory raises: nothing was written.
PinFails(r) ==
    /\ pc[r] = "pinning" /\ loop = Free
    /\ Answer(r, "error", NoVersion)
    /\ UNCHANGED <<databaseVars, stored, chainVars, faults>>
-----------------------------------------------------------------------------
(* The second part: the version is committed, then anchored.  The handler  *)
(* holds the loop from here to its answer.                                 *)

Resumed(r) == (pc[r] = "pinning" /\ loop = Free) \/ pc[r] = "creating"

\* Mutations: each of the three constraints is missing.
ConflictsButIndex(p) == p.id \in Recorded \/ KeyOwner(p.body.key) # {}
ConflictsButId(p) ==
    p.index \in Indexes(p.body.project) \/ KeyOwner(p.body.key) # {}
ConflictsButKey(p) == p.index \in Indexes(p.body.project) \/ p.id \in Recorded

\* UNIQUE (project_id, version_index), (registration_id), (idempotency_key).
Conflicts(p) ==
    \/ p.index \in Indexes(p.body.project)
    \/ p.id \in Recorded
    \/ KeyOwner(p.body.key) # {}

InsertConflicts(r) ==
    /\ Resumed(r)
    /\ Conflicts(plan[r])
    /\ Answer(r, "conflict", NoVersion)
    /\ UNCHANGED <<databaseVars, stored, chainVars, faults>>

StageAfter(p) == [currentStage EXCEPT ![p.body.project] = p.body.stage]

\* One commit: the row, the stage of the project, and the artifacts, which it
\* takes over from whatever version they belonged to.  The files the pin covered,
\* by name, have the CID it returned for the name.
CreateVersion(r) ==
    LET p == plan[r]
        row == [project |-> p.body.project, index |-> p.index, key |-> p.body.key,
                stage |-> p.body.stage, artifacts |-> p.body.artifacts,
                root |-> p.root, status |-> "PENDING"]
        anchors == p.body.artifacts # {} /\ p.root # {}
    IN /\ Resumed(r)
       /\ ~Conflicts(p)
       /\ projectVersions' = [projectVersions EXCEPT ![p.id] = row]
       /\ currentStage' = StageAfter(p)
       /\ artifactVersion' = [a \in Artifacts |->
            IF a \in p.body.artifacts THEN p.id ELSE artifactVersion[a]]
       /\ withCid' = IF pc[r] = "pinning"
                     THEN withCid \cup {a \in p.body.artifacts :
                            \E b \in p.root : FileName[b] = FileName[a]}
                     ELSE withCid
       /\ IF anchors
          THEN /\ pc' = [pc EXCEPT ![r] = "created"]
               /\ loop' = r
               /\ UNCHANGED <<plan, reply>>
          ELSE Answer(r, "created", p.id)
       /\ UNCHANGED <<uploaded, blockchainRecords, stored, chainVars, faults>>

SetStatus(g, status) ==
    projectVersions' = [projectVersions EXCEPT ![g].status = status]

\* Mutations: the loop is released while ANCHORING, ANCHORING is not committed.
StartReleased(r) ==
    /\ pc[r] = "created"
    /\ SetStatus(plan[r].id, "ANCHORING")
    /\ pc' = [pc EXCEPT ![r] = "sending"]
    /\ loop' = Free
    /\ UNCHANGED <<plan, reply, currentStage, artifactVars, blockchainRecords,
                   stored, chainVars, faults>>

StartUncommitted(r) ==
    /\ pc[r] = "created"
    /\ pc' = [pc EXCEPT ![r] = "sending"]
    /\ UNCHANGED <<plan, reply, loop, databaseVars, stored, chainVars, faults>>

StartAnchoring(r) ==
    /\ pc[r] = "created"
    /\ SetStatus(plan[r].id, "ANCHORING")
    /\ pc' = [pc EXCEPT ![r] = "sending"]
    /\ UNCHANGED <<plan, reply, loop, currentStage, artifactVars,
                   blockchainRecords, stored, chainVars, faults>>

Submission(p) ==
    [compositeHash |-> p.body.artifacts, ipfsRootCID |-> p.root,
     versionIndex |-> p.index, lifecycleStage |-> p.body.stage,
     author |-> p.body.project, coAuthors |-> {}]

\* Mutation: the nonce of a pending transaction is taken again.
SendFirst(r) ==
    /\ pc[r] = "sending"
    /\ mempool' = <<[id |-> plan[r].id, calldata |-> Submission(plan[r])]>> \o mempool
    /\ pc' = [pc EXCEPT ![r] = "waiting"]
    /\ UNCHANGED <<plan, reply, loop, databaseVars, stored, receipts,
                   contractVars, faults>>

\* The nonce is the relayer's "pending" count: the transaction queues behind
\* every one of the relayer's that is not mined yet.
Send(r) ==
    /\ pc[r] = "sending"
    /\ mempool' = Append(mempool, [id |-> plan[r].id, calldata |-> Submission(plan[r])])
    /\ pc' = [pc EXCEPT ![r] = "waiting"]
    /\ UNCHANGED <<plan, reply, loop, databaseVars, stored, receipts,
                   contractVars, faults>>

\* wait_for_transaction_receipt returns a receipt with status 1; whatever the
\* confirmation depth is, the handler goes on.
ReceiptArrives(r) ==
    /\ pc[r] = "waiting"
    /\ receipts[plan[r].id] = "success"
    /\ pc' = [pc EXCEPT ![r] = "recording"]
    /\ UNCHANGED <<plan, reply, loop, databaseVars, stored, chainVars, faults>>

\* Mutation: the record is committed without the status.
RecordOnly(r) ==
    /\ pc[r] = "recording"
    /\ blockchainRecords' =
         [blockchainRecords EXCEPT ![plan[r].id] = proofs[plan[r].id].recordId]
    /\ pc' = [pc EXCEPT ![r] = "recorded"]
    /\ UNCHANGED <<plan, reply, loop, projectVersions, currentStage, artifactVars,
                   stored, chainVars, faults>>

\* The record and ANCHORED are one commit.
RecordAnchored(r) ==
    /\ pc[r] = "recording"
    /\ SetStatus(plan[r].id, "ANCHORED")
    /\ blockchainRecords' =
         [blockchainRecords EXCEPT ![plan[r].id] = proofs[plan[r].id].recordId]
    /\ pc' = [pc EXCEPT ![r] = "recorded"]
    /\ UNCHANGED <<plan, reply, loop, currentStage, artifactVars, stored,
                   chainVars, faults>>

\* The version is read again and returned.
Finish(r) ==
    /\ pc[r] = "recorded"
    /\ Answer(r, "created", plan[r].id)
    /\ UNCHANGED <<databaseVars, stored, chainVars, faults>>

\* The commit expired the version, and the log line after it, still inside the
\* try block, reads it again: if no connection is to be had, the handler of
\* anchoring failures runs.
ReloadFails(r) ==
    /\ faults < MaxFaults
    /\ pc[r] = "recorded"
    /\ SetStatus(plan[r].id, "FAILED")
    /\ Answer(r, "error", plan[r].id)
    /\ faults' = faults + 1
    /\ UNCHANGED <<currentStage, artifactVars, blockchainRecords, stored, chainVars>>

\* Mutation: FAILED is not committed.
FailsSilently(r) ==
    /\ pc[r] \in {"sending", "waiting", "recording"}
    /\ Answer(r, "error", plan[r].id)
    /\ UNCHANGED <<databaseVars, stored, chainVars, faults>>

\* Any exception of register_project_version or of get_chain_id after it: the
\* simulation reverts, the RPC node is unreachable before or after the node
\* accepted the transaction, the receipt is late, the transaction reverted.
AnchoringFails(r) ==
    /\ pc[r] \in {"sending", "waiting", "recording"}
    /\ SetStatus(plan[r].id, "FAILED")
    /\ Answer(r, "error", plan[r].id)
    /\ UNCHANGED <<currentStage, artifactVars, blockchainRecords, stored,
                   chainVars, faults>>

-----------------------------------------------------------------------------
(* Faults, uploads and the chain.                                          *)

\* A commit raises: the session is left unusable and the exception ends the
\* request, with the database as the last successful commit left it.
DatabaseFails(r) ==
    /\ faults < MaxFaults
    /\ Resumed(r) \/ loop = r
    /\ Answer(r, "error", NoVersion)
    /\ faults' = faults + 1
    /\ UNCHANGED <<databaseVars, stored, chainVars>>

\* The process stops and restarts.  Nothing resumes the requests it served, and
\* the buffers of the IPFS adapter are gone.
Crash ==
    /\ faults < MaxFaults
    /\ pc' = [r \in Requests |->
                IF pc[r] \in {"idle", "done"} THEN pc[r] ELSE "lost"]
    /\ loop' = Free
    /\ stored' = IF VolatileStorage THEN {} ELSE stored
    /\ faults' = faults + 1
    /\ UNCHANGED <<plan, reply, databaseVars, chainVars>>

\* ingest_artifact commits a new artifact, for a version of any status or none.
Upload(a) ==
    /\ loop = Free
    /\ a \notin uploaded
    /\ uploaded' = uploaded \cup {a}
    /\ stored' = stored \cup {a}
    /\ \E g \in Recorded \cup {NoVersion} :
         artifactVersion' = [artifactVersion EXCEPT ![a] = g]
    /\ UNCHANGED <<requestVars, projectVersions, currentStage, withCid,
                   blockchainRecords, chainVars, faults>>

\* The chain executes the relayer's next transaction, at once or long after its
\* handler gave up.
Reverts(tx) ==
    \/ RelayerAccount \notin {relayer, owner}
    \/ Chain!Exists(tx.id)

MineTransaction ==
    /\ mempool # <<>>
    /\ LET tx == Head(mempool)
       IN \/ /\ Chain!RegisterProjectVersion(RelayerAccount, tx.id, tx.calldata)
             /\ receipts' = [receipts EXCEPT ![tx.id] = "success"]
          \/ /\ Reverts(tx)
             /\ receipts' = [receipts EXCEPT ![tx.id] = "reverted"]
             /\ UNCHANGED contractVars
    /\ mempool' = Tail(mempool)
    /\ UNCHANGED <<requestVars, databaseVars, stored, faults>>

\* The node restarts and drops the transactions it has not mined.
DropPool ==
    /\ mempool # <<>>
    /\ mempool' = <<>>
    /\ UNCHANGED <<requestVars, databaseVars, stored, receipts, contractVars, faults>>

\* The owner of the contract replaces the relayer while transactions wait.
ReplaceRelayer ==
    /\ \E account \in {RelayerAccount, OtherAccount} \ {relayer} :
         Chain!SetRelayer(Admin, account)
    /\ UNCHANGED <<requestVars, databaseVars, stored, mempool, receipts, faults>>

Arrival(r) ==
    \E body \in Bodies : ReturnExisting(r, body) \/ Refuse(r, body) \/ Admit(r, body)

HandlerStep(r) ==
    \/ PinFails(r) \/ InsertConflicts(r) \/ CreateVersion(r)
    \/ StartAnchoring(r) \/ Send(r) \/ ReceiptArrives(r)
    \/ RecordAnchored(r) \/ Finish(r) \/ AnchoringFails(r)

Next ==
    \/ \E r \in Requests : Arrival(r) \/ HandlerStep(r) \/ DatabaseFails(r) \/ ReloadFails(r)
    \/ Crash
    \/ \E a \in Artifacts : Upload(a)
    \/ MineTransaction \/ DropPool \/ ReplaceRelayer

Spec == Init /\ [][Next]_vars

\* A handler that can go on does: every await and every receipt has a timeout.
\* Nothing obliges a client to send, the chain to mine or a fault to happen.
HandlersFair == \A r \in Requests : WF_vars(HandlerStep(r))
FairSpec == Spec /\ HandlersFair
LiveChainSpec == FairSpec /\ WF_vars(MineTransaction)
-----------------------------------------------------------------------------
Rows == [project : Projects, index : Nat, key : Keys \cup {NoKey}, stage : Stages,
         artifacts : SUBSET Artifacts, root : SUBSET Artifacts,
         status : AnchoringStatuses]
Plans == [body : RequestBodies, id : RegistrationIds, root : SUBSET Artifacts,
          index : Nat]
Replies == [kind : {"created", "existing", "refused", "conflict", "error"},
            version : RegistrationIds \cup {NoVersion}]
Holding == {"creating", "created", "sending", "waiting", "recording", "recorded"}

\* The null values of the two tables are no rows of theirs.
ASSUME NullAssumption ==
    /\ NoVersion \notin Rows
    /\ NoProof \notin Chain!VersionProofs

\* The handler that holds the loop is the one past its suspension, and there
\* is at most one.
TypeOK ==
    /\ pc \in [Requests -> {"idle", "pinning", "done", "lost"} \cup Holding]
    /\ plan \in [Requests -> Plans \cup {NoPlan}]
    /\ reply \in [Requests -> Replies \cup {NoReply}]
    /\ loop \in Requests \cup {Free}
    /\ \A r \in Requests : pc[r] \in Holding <=> loop = r
    /\ projectVersions \in [RegistrationIds -> Rows \cup {NoVersion}]
    /\ currentStage \in [Projects -> Stages]
    /\ artifactVersion \in [Artifacts -> RegistrationIds \cup {NoVersion}]
    /\ withCid \subseteq Artifacts /\ uploaded \subseteq Artifacts
    /\ stored \subseteq uploaded
    /\ blockchainRecords \in [RegistrationIds -> Nat]
    /\ mempool \in Seq([id : RegistrationIds, calldata : Calldata])
    /\ receipts \in [RegistrationIds -> {"none", "success", "reverted"}]
    /\ Chain!TypeOK
    /\ faults \in 0 .. MaxFaults

\* The index is computed before the pin and inserted after it
\* (project_version_service.py 272 and 420), with other requests in between:
\* the versions of a project are still numbered 1, 2, 3... without gap or
\* repetition.
IndexesGapless ==
    \A p \in Projects :
      /\ Indexes(p) = 1 .. Cardinality(VersionsOf(p))

\* The stage is checked against the version that was the latest before the
\* pin: a later version never has an earlier stage, nothing follows FINAL,
\* and the project shows the stage of its latest version.
StagesAdvance ==
    /\ \A g, h \in Recorded :
         /\ projectVersions[g].project = projectVersions[h].project
         /\ projectVersions[g].index < projectVersions[h].index
         => /\ StageIndex(projectVersions[g].stage) <= StageIndex(projectVersions[h].stage)
            /\ projectVersions[g].stage # "FINAL"
    /\ \A p \in Projects : VersionsOf(p) # {} =>
         currentStage[p] = projectVersions[Latest(p)].stage

\* Whatever requests carry the same key, at whatever moment of one another's
\* handling and across crashes, the clients that were told of a version were
\* told of the same one.
KeyNamesOneVersion ==
    \A r1, r2 \in Requests :
      /\ reply[r1] # NoReply /\ reply[r1].kind \in {"created", "existing"}
      /\ reply[r2] # NoReply /\ reply[r2].kind \in {"created", "existing"}
      => LET g1 == reply[r1].version
             g2 == reply[r2].version
         IN projectVersions[g1].key = projectVersions[g2].key
            /\ projectVersions[g1].key # NoKey => g1 = g2

\* The row, the blockchain_records row and the contract agree: an ANCHORED
\* version has a record, only a version that was ANCHORED has one, and the
\* contract holds its very snapshot, under the recordId of the record.
AnchoredIsProved ==
    \A g \in RegistrationIds :
      LET row == projectVersions[g]
      IN blockchainRecords[g] # 0 \/ (g \in Recorded /\ row.status = "ANCHORED") =>
           /\ g \in Recorded
           /\ row.status = "ANCHORED" \/ (row.status = "FAILED" /\ faults > 0)
           /\ Chain!Exists(g)
           /\ proofs[g].recordId = blockchainRecords[g]
           /\ proofs[g].submission =
                Submission([body |-> row, root |-> row.root, index |-> row.index])

\* The row is committed before its transaction is sent: no crash, database
\* failure or late receipt leaves a proof on chain, or a transaction on its
\* way, that the database knows nothing of.
NoOrphanProof ==
    \A g \in RegistrationIds :
      Chain!Exists(g) \/ (\E i \in 1 .. Len(mempool) : mempool[i].id = g)
        => g \in Recorded /\ projectVersions[g].status # "PENDING"

\* Precedence on chain is precedence in the project: a version that was
\* numbered later is never recorded earlier, even if the receipt of the
\* earlier one timed out and it was mined long after.
ChainFollowsVersionOrder ==
    \A g, h \in RegistrationIds :
      /\ Chain!Exists(g) /\ Chain!Exists(h)
      /\ projectVersions[g].project = projectVersions[h].project
      /\ projectVersions[g].index < projectVersions[h].index
      => proofs[g].recordId < proofs[h].recordId

\* The database, too, implements the write-once ledger: a version that was
\* recorded as anchored keeps its record, number, stage, digest and root; its
\* status is not part of the promise (see AnchoredIsFinal).
AnchoredRow(g) == [row |-> [projectVersions[g] EXCEPT !.status = "ANCHORED"],
                   recordId |-> blockchainRecords[g]]

Ledger == INSTANCE ProofLedger WITH
    Ids <- RegistrationIds,
    Contents <- [row : Rows, recordId : Nat],
    Absent <- NoVersion,
    ledger <- [g \in RegistrationIds |->
                 IF g \in Recorded /\ blockchainRecords[g] # 0
                 THEN AnchoredRow(g) ELSE NoVersion]

LedgerImplemented == Ledger!Spec

HasStatus(g, statuses) == g \in Recorded /\ projectVersions[g].status \in statuses

\* No version is left ANCHORING, unless a fault hits: every exit of the try
\* block of project_version_service.py 499-561 writes a final status, whatever
\* the chain does.
AnchoringSettles ==
    \A g \in RegistrationIds :
      HasStatus(g, {"ANCHORING"}) ~> HasStatus(g, {"ANCHORED", "FAILED"}) \/ faults > 0
-----------------------------------------------------------------------------
(* What the documents say and the code does not do.                        *)

\* INTEGRATION_CONTRACT.md section 4, scenarios C and D: a proof on chain ends
\* up ANCHORED in the database.
ProofReachesDatabase ==
    \A g \in RegistrationIds :
      Chain!Exists(g) ~> HasStatus(g, {"ANCHORED"})

\* DATABASE_DESIGN.md:192 draws ANCHORED as an end, "Immutably locked forever".
AnchoredIsFinal ==
    [][\A g \in RegistrationIds :
         HasStatus(g, {"ANCHORED"}) => projectVersions'[g].status = "ANCHORED"]_vars
=============================================================================
