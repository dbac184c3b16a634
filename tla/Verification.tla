----------------------------- MODULE Verification -----------------------------
(***************************************************************************)
(* GET /verify/{id}, POST /verify/hash and /verify/file, and certificates: *)
(* verification_service.py compares the row of a version and the team of   *)
(* its project with what the contract holds.  It reads the database once   *)
(* and the contract twice, and meanwhile transactions are mined, disputes  *)
(* are raised and members join.                                            *)
(*                                                                         *)
(* A version is created and anchored in one step here: between its commit  *)
(* and its outcome the handler holds the event loop (VersionAnchoring has  *)
(* the steps), and what is left of it is the status it ended with and the  *)
(* fate of its transaction.  Every artifact has content of its own, and    *)
(* the pinned directory holds the whole snapshot.                          *)
(***************************************************************************)
EXTENDS Integers, FiniteSets, Sequences, FiniteSetsExt

CONSTANTS
    Projects, RegistrationIds, Artifacts,
    Users,            \* users; one who has a wallet stands for its address
    Wallets,          \* the users who gave a wallet address when registering
    OwnerOf,          \* the member with is_owner of each project
    Admins,           \* platform administrators
    MayJoin,          \* bound on the teams: who may become a member of each project
    Platform,         \* the account that owns the contract and relays
    MaxBlock,         \* bound on the number of blocks mined
    ZeroAddress, NoVersion, NoProof, NoRecord, NoQuery, EvidenceCID,
    HashRefused       \* BLOCKCHAIN_INVALID_HASH, raised in place of an answer

ASSUME VerificationAssumption ==
    /\ Wallets \subseteq Users /\ Admins \subseteq Users
    /\ OwnerOf \in [Projects -> Users]
    /\ MayJoin \in [Projects -> SUBSET Users]
    /\ Platform \notin Users

VARIABLES
    \* PostgreSQL
    projectVersions,   \* rows by registration_id, NoVersion where there is none
    records,           \* blockchain_records by version: author_wallet, block_number
    artifactVersion,   \* artifacts.version_id of the uploaded artifacts
    members,           \* project_members
    \* the one verification in progress
    query,
    \* the chain: the relayer's pending transactions in nonce order
    mempool,
    owner, pendingOwner, relayer, recordCounter, proofs, recordIndex, blockNumber

databaseVars == <<projectVersions, records, artifactVersion, members>>
contractVars == <<owner, pendingOwner, relayer, recordCounter, proofs,
                  recordIndex, blockNumber>>
vars == <<databaseVars, query, mempool, contractVars>>

Snapshots == (SUBSET Artifacts) \ {{}}
Calldata == [compositeHash : Snapshots, ipfsRootCID : Snapshots, versionIndex : Nat,
             lifecycleStage : {"IDEA"}, author : Users \cup {ZeroAddress},
             coAuthors : SUBSET Users]

Chain == INSTANCE ProjectRegistry WITH
    Accounts <- Users \cup {Platform}, EmptyString <- {}, ZeroHash <- {},
    Hashes <- Snapshots, CIDs <- Snapshots \cup {EvidenceCID},
    Submissions <- Calldata, InitialOwner <- Platform, InitialRelayer <- Platform,
    MaxVersionIndex <- 65535, versions <- proofs,
    recordIdToRegistrationId <- recordIndex

Recorded == {g \in RegistrationIds : projectVersions[g] # NoVersion}
VersionsOf(p) == {g \in Recorded : projectVersions[g].project = p}
Uploaded == DOMAIN artifactVersion

Init ==
    /\ projectVersions = [g \in RegistrationIds |-> NoVersion]
    /\ records = [g \in RegistrationIds |-> NoRecord]
    /\ artifactVersion = [a \in {} |-> NoVersion]
    /\ members = [p \in Projects |-> {OwnerOf[p]}]
    /\ query = NoQuery
    /\ mempool = <<>>
    /\ Chain!Init
-----------------------------------------------------------------------------
(* What verification looks at changes.                                     *)

\* The author of a version is the owner of the project, or whoever creates the
\* version if the owner has no wallet; nobody has the zero address.
AuthorOf(p, creator) ==
    IF OwnerOf[p] \in Wallets THEN OwnerOf[p]
    ELSE IF creator \in Wallets THEN creator ELSE ZeroAddress

\* Mutation: the author is left out of the co-authors, whoever it is.
CoAuthorsButAuthor(p, creator) == (members[p] \cap Wallets) \ {AuthorOf(p, creator)}

CoAuthorsOf(p, creator) == (members[p] \cap Wallets) \ {OwnerOf[p]}

Content(S, index) ==
    [compositeHash |-> S, ipfsRootCID |-> S, versionIndex |-> index,
     lifecycleStage |-> "IDEA"]

Submission(p, creator, content) ==
    [compositeHash |-> content.compositeHash, ipfsRootCID |-> content.ipfsRootCID,
     versionIndex |-> content.versionIndex, lifecycleStage |-> content.lifecycleStage,
     author |-> AuthorOf(p, creator), coAuthors |-> CoAuthorsOf(p, creator)]

\* Mutation: a version is ANCHORED once its transaction is sent.
OutcomesOnceSent ==
    {<<"PENDING", "unsent">>} \cup ({"ANCHORED"} \X {"pending", "mined"}) \cup
    ({"FAILED", "ANCHORING"} \X {"unsent", "pending", "mined"})

\* A snapshot of no artifact is not anchored.  Otherwise the version is ANCHORED,
\* its transaction mined; or, after a crash or a failed commit, still PENDING,
\* with nothing sent; or FAILED or, again after such a fault, still ANCHORING,
\* with its transaction not sent, waiting in the pool, or mined unknown to the
\* database.  A version that FAILED although its record was committed (ReloadFails
\* of VersionAnchoring) is one of these: its record is never read again.
Outcomes == {<<"ANCHORED", "mined">>, <<"PENDING", "unsent">>} \cup
            ({"FAILED", "ANCHORING"} \X {"unsent", "pending", "mined"})

\* Mutation: the artifacts are linked and the row is lost.
LinkOnly(g, p, content, status) ==
    /\ artifactVersion' = [a \in Uploaded |->
         IF a \in content.compositeHash THEN g ELSE artifactVersion[a]]
    /\ UNCHANGED <<projectVersions, members, query>>

InsertVersion(g, p, content, status) ==
    /\ projectVersions' = [projectVersions EXCEPT ![g] =
         [project |-> p, content |-> content, status |-> status, team |-> members[p]]]
    /\ artifactVersion' = [a \in Uploaded |->
         IF a \in content.compositeHash THEN g ELSE artifactVersion[a]]
    /\ UNCHANGED <<members, query>>

\* An administrator, the owner or a lead; any member may be a lead here.
MayCreateVersion(user, p) == user \in Admins \cup members[p]

CreateVersion(g, p, S, creator) ==
    LET content == Content(S, Cardinality(VersionsOf(p)) + 1)
        submission == Submission(p, creator, content)
    IN /\ query = NoQuery
       /\ g \notin Recorded
       /\ MayCreateVersion(creator, p)
       /\ S \subseteq Uploaded
       /\ \A a \in S : artifactVersion[a] \in VersionsOf(p) \cup {NoVersion}
       /\ \/ /\ S = {}
             /\ InsertVersion(g, p, content, "PENDING")
             /\ UNCHANGED <<records, mempool, contractVars>>
          \/ \E outcome \in Outcomes :
               /\ S # {}
               /\ InsertVersion(g, p, content, outcome[1])
               /\ records' = IF outcome[1] = "ANCHORED"
                             THEN [records EXCEPT ![g] =
                                    [author |-> submission.author, block |-> blockNumber]]
                             ELSE records
               /\ IF outcome[2] = "mined"
                  THEN mempool = <<>> /\ Chain!RegisterProjectVersion(Platform, g, submission)
                  ELSE UNCHANGED contractVars
               /\ mempool' = IF outcome[2] = "pending"
                             THEN Append(mempool, [id |-> g, calldata |-> submission])
                             ELSE mempool

\* A transaction whose handler gave up is mined.
MineLate ==
    /\ mempool # <<>>
    /\ Chain!RegisterProjectVersion(Platform, Head(mempool).id, Head(mempool).calldata)
    /\ mempool' = Tail(mempool)
    /\ UNCHANGED <<databaseVars, query>>

\* By way of the back end or not, a dispute is raised and adjudicated on chain.
\* The column dispute_status is consulted only for a version the contract does
\* not know, and no dispute is filed against one, so it is left out.
Dispute ==
    /\ \E g \in Recorded :
         \/ Chain!RaiseDispute(g, EvidenceCID)
         \/ \E status \in Chain!Resolutions : Chain!ResolveDispute(Platform, g, status)
    /\ UNCHANGED <<databaseVars, query, mempool>>

\* Blocks without a record are passed over, and no query looks at the number.
MineBlock ==
    /\ query = NoQuery
    /\ blockNumber < recordCounter
    /\ Chain!MineBlock
    /\ UNCHANGED <<databaseVars, query, mempool>>

\* add_project_member runs in a thread, even while a handler holds the loop.
AddMember(p, user) ==
    /\ user \notin members[p]
    /\ members' = [members EXCEPT ![p] = @ \cup {user}]
    /\ UNCHANGED <<projectVersions, records, artifactVersion, query, mempool,
                   contractVars>>

\* ingest_artifact links the file to a version, whatever its status, or to none.
Upload(a, g) ==
    /\ query = NoQuery
    /\ a \notin Uploaded
    /\ artifactVersion' = [b \in Uploaded \cup {a} |->
                             IF b = a THEN g ELSE artifactVersion[b]]
    /\ UNCHANGED <<projectVersions, records, members, query, mempool, contractVars>>
-----------------------------------------------------------------------------
(* A verification: the row, the team and the first read, then the second.  *)

\* The struct, or None for VersionNotFound.
GetProjectVersion(g) == proofs[g]

\* For a version without artifacts, and so without a digest, the provider asks
\* for the zero hash, which the back end refuses before it calls the contract.
\* A result of the view has neither index, stage nor co-authors, and counts as
\* none if there is neither a match nor a timestamp.
VerifyProjectVersion(g, compositeHash) ==
    IF compositeHash = {} THEN HashRefused
    ELSE IF ~Chain!Exists(g) THEN NoProof
    ELSE LET proof == proofs[g].submission
         IN [isValid |-> proof.compositeHash = compositeHash,
             ipfsRootCID |-> proof.ipfsRootCID, author |-> proof.author,
             disputeState |-> proofs[g].disputeState]

\* FAILED is answered at once, before the contract is asked.
Ask(g) ==
    /\ query = NoQuery
    /\ projectVersions[g].status # "FAILED"
    /\ query' = [version |-> g, row |-> projectVersions[g],
                 record |-> records[g], team |-> members[projectVersions[g].project],
                 proof |-> GetProjectVersion(g)]
    /\ UNCHANGED <<databaseVars, mempool, contractVars>>

VerifyById == \E g \in Recorded : Ask(g)

\* A composite hash matches the versions with that snapshot; the query takes
\* any of them.
VerifyByHash ==
    \E S \in Snapshots :
      \E g \in {h \in Recorded : projectVersions[h].content.compositeHash = S} :
        Ask(g)

\* The hash of a file is no composite hash: it matches the version its artifact
\* is linked to now.
VerifyByFile ==
    \E a \in Uploaded :
      artifactVersion[a] # NoVersion /\ Ask(artifactVersion[a])

ExpectedCoAuthors(q) == (q.team \cap Wallets) \ {OwnerOf[q.row.project]}

\* The author of the record if there is one, else the owner if it has a wallet.
AuthorMatches(q, submission) ==
    LET projectOwner == OwnerOf[q.row.project]
    IN IF q.record # NoRecord THEN submission.author = q.record.author
       ELSE projectOwner \in Wallets => submission.author = projectOwner

\* getProjectVersion: the struct is compared field by field, and its block with
\* that of the record; of block 0 the comparison is skipped.
StructMatches(q, proof) ==
    LET submission == proof.submission
    IN /\ \A field \in DOMAIN q.row.content : submission[field] = q.row.content[field]
       /\ AuthorMatches(q, submission)
       /\ ExpectedCoAuthors(q) \in {{}, submission.coAuthors}
       /\ q.record # NoRecord /\ proof.blockNumber # 0 =>
            q.record.block = proof.blockNumber

\* verifyProjectVersion, if getProjectVersion found nothing.
ResultMatches(q, result) ==
    /\ result.isValid
    /\ result.ipfsRootCID = q.row.content.ipfsRootCID
    /\ result.author # ZeroAddress => AuthorMatches(q, result)

\* Mutation: a version whose proof is there at the second read only does not match.
MatchesIfStable(q, second) ==
    \/ q.proof # NoProof /\ StructMatches(q, q.proof)
    \/ q.proof = NoProof /\ second = NoProof

\* With nothing on chain a version without a record awaits its anchoring, and
\* a record is compared with its version, which was written with it.
Matches(q, second) ==
    \/ q.proof # NoProof /\ StructMatches(q, q.proof)
    \/ q.proof = NoProof /\ second # NoProof /\ ResultMatches(q, second)
    \/ q.proof = NoProof /\ second = NoProof

EffectiveDispute(q, second) ==
    IF q.proof # NoProof THEN q.proof.disputeState
    ELSE IF second # NoProof THEN second.disputeState ELSE "NONE"

Disputed == {"OPEN", "UNDER_REVIEW", "RESOLVED"}

IsValid(q, second) ==
    Matches(q, second) /\ EffectiveDispute(q, second) \notin Disputed

\* Mutation: a certificate is refused for active disputes only.
CertifyUpheld(q, second) ==
    /\ q.row.status = "ANCHORED" /\ q.record # NoRecord
    /\ Matches(q, second)
    /\ EffectiveDispute(q, second) \notin {"OPEN", "UNDER_REVIEW"}

\* get_certificate_metadata makes its own decision from the proof in the answer.
Certified(q, second) ==
    /\ q.row.status = "ANCHORED" /\ q.record # NoRecord
    /\ Matches(q, second)
    /\ EffectiveDispute(q, second) \notin {"OPEN", "UNDER_REVIEW"}
    /\ EffectiveDispute(q, second) # "RESOLVED"

\* The second read, and the answer; or a read raises and there is none.
AnswerQuery ==
    /\ query # NoQuery
    /\ query' = NoQuery
    /\ UNCHANGED <<databaseVars, mempool, contractVars>>

Next ==
    \/ \E p \in Projects :
         \/ \E g \in RegistrationIds, S \in SUBSET Artifacts, creator \in Users :
              CreateVersion(g, p, S, creator)
         \/ \E user \in MayJoin[p] : AddMember(p, user)
    \/ \E a \in Artifacts, g \in Recorded \cup {NoVersion} : Upload(a, g)
    \/ MineLate \/ Dispute \/ MineBlock
    \/ VerifyById \/ VerifyByHash \/ VerifyByFile \/ AnswerQuery

Spec == Init /\ [][Next]_vars
-----------------------------------------------------------------------------
Contents == [compositeHash : SUBSET Artifacts, ipfsRootCID : SUBSET Artifacts,
             versionIndex : Nat, lifecycleStage : {"IDEA"}]
Rows == [project : Projects, content : Contents,
         status : {"PENDING", "ANCHORING", "ANCHORED", "FAILED"}, team : SUBSET Users]
Records == [author : Users \cup {ZeroAddress}, block : Nat]

\* The values that stand for no row, no record and no proof are none.
ASSUME NullAssumption ==
    /\ NoVersion \notin Rows
    /\ NoRecord \notin Records
    /\ NoProof \notin Chain!VersionProofs
    /\ NoProof # HashRefused
    /\ {NoProof, HashRefused} \cap
         [isValid : BOOLEAN, ipfsRootCID : Snapshots, author : Users \cup {ZeroAddress},
          disputeState : Chain!DisputeStatuses] = {}

\* A transaction waits for an identifier that has no proof yet.
TypeOK ==
    /\ projectVersions \in [RegistrationIds -> Rows \cup {NoVersion}]
    /\ records \in [RegistrationIds -> Records \cup {NoRecord}]
    /\ Uploaded \subseteq Artifacts
    /\ \A a \in Uploaded : artifactVersion[a] \in Recorded \cup {NoVersion}
    /\ members \in [Projects -> SUBSET Users]
    /\ query # NoQuery =>
         query.version \in Recorded /\ query.row = projectVersions[query.version]
    /\ Chain!TypeOK
    /\ \A i \in 1 .. Len(mempool) :
         /\ mempool[i].id \in Recorded /\ mempool[i].calldata \in Calldata
         /\ ~Chain!Exists(mempool[i].id)

\* What the second read would return if it came now, and whether the handler
\* would answer at all.
Second == VerifyProjectVersion(query.version, query.row.content.compositeHash)
Answering == query # NoQuery /\ Second # HashRefused

\* create_project_version decides who goes on chain as author and co-authors
\* (project_version_service.py 479), verification who is expected there
\* (verification_service.py 64), each with rules of its own for an owner without
\* a wallet.  They agree: as long as the team is the one of the day and no
\* dispute stands, a version that has artifacts is answered for and verifies,
\* also one whose transaction was mined late or after a crash, or is mined
\* between the two reads.
HonestVersionVerifies ==
    /\ query # NoQuery
    /\ query.row.content.compositeHash # {}
    /\ query.team = query.row.team
    => /\ Answering
       /\ EffectiveDispute(query, Second) \notin Disputed => IsValid(query, Second)

\* The service accepts a version that the contract does not know, and compares
\* a record with nothing but its own version (verification_service.py 412): still
\* whatever is valid has its very content on chain, unless it has no record and
\* awaits its anchoring.
ValidIsProved ==
    Answering /\ IsValid(query, Second) =>
      \/ /\ Chain!Exists(query.version)
         /\ \A field \in DOMAIN query.row.content :
              proofs[query.version].submission[field] = query.row.content[field]
      \/ query.row.status \in {"PENDING", "ANCHORING"} /\ query.record = NoRecord

\* The certificate service decides once more from parts of the answer
\* (certificate_service.py 452): an ANCHORED version has a certificate exactly
\* if it verifies, and no other version has one.
CertifiedExactlyIfValid ==
    Answering =>
      (Certified(query, Second) <=> query.row.status = "ANCHORED" /\ IsValid(query, Second))
=============================================================================
