# The project ownership registry in TLA+

A student project registers its versions (documents, code, reports) with a
back end; the back end pins the files on IPFS, computes one digest over them,
and anchors digest and directory CID in a smart contract. Anybody may verify a
version against the contract, dispute it, and an administrator adjudicates the
dispute. This directory holds TLA+ models of that system, the TLC
configurations that check them on small instances, and proofs that TLAPS checks
for instances of any size.

Paths below are relative to the repository, `sol` is
`blockchain/contracts/ProjectRegistry.sol`, and services are those of
`backend/app/services/`.

## 1. Inventory

### Components

| component | state | operations | hard about it |
|---|---|---|---|
| **ProjectRegistry contract** (`sol`, `IProjectRegistry.sol`) | owner, pending owner, relayer; `_recordCounter`, `_versions`, `_recordIdToRegistrationId`; the event log | `setRelayer`, `registerProjectVersion`, `raiseDispute`, `resolveDispute`, the two-step ownership transfer; views | two indexes written by separate assignments; any interleaving of callers; authority that changes between transactions |
| **Version creation and anchoring** (`project_version_service.py` 207-579, `blockchain_service.py` 266-442) | rows of `project_versions`, `projects.current_lifecycle_stage`, `artifacts.version_id`, `blockchain_records` | `POST /projects/{id}/versions` | checks, then a suspension (the pin), then inserts by stale values; four commits with a chain transaction among them; receipts that time out and are mined later; retries by Idempotency-Key; a read after the last commit |
| **Disputes** (`dispute_service.py`, `blockchain_service.py` 616-840) | rows of `disputes`, `project_versions.dispute_status`, `projects.status` | raise, adjudicate; list and get | the same shape, with rows flushed before the transaction and committed after it; two records of one standing (database, contract) |
| **Artifact ingest and storage** (`artifact_service.py`, `app/storage/`) | rows of `artifacts`, files or memory buffers | upload chunk by chunk, retrieve, add a directory | storage and database without a common transaction: clean-up by hand after every failure; uploads that interleave at every chunk; bytes that are only in memory |
| **Composite digest and content** (`utils/hashing.py`, the pin inside version creation) | `composite_sha256`, `ipfs_root_cid`, `artifacts.ipfs_cid` | digest of rows, directory of stored bytes, CIDs written back | the digest reads rows, the directory reads bytes: two sources of one promise |
| **Verification** (`verification_service.py`) | none | verify by identifier, hash, file | a verdict over rows that change after anchoring, and over two reads of the contract |
| **Certificates** (`certificate_service.py`) | none | metadata, PDF | decides once more what verification decided |
| **Projects and members** (`project_service.py`, `project_member_service.py`, `utils/slug.py`) | rows of `projects`, `project_members` | create, add a member; list, details, members, versions | threads that check, then insert; a search for a free slug; one access rule written four times |
| **Accounts and tokens** (`user_service.py`, `core/security.py`, `dependencies/auth.py`) | rows of `users`; tokens at the clients | register, login, refresh, the dependency of protected endpoints | threads again; a stateless token that outlives the standing of its account |
| **HTTP layer** (`routers/`, `database/session.py`) | who has the event loop, a thread, a connection | every request | asynchronous handlers that block the loop; pools that everyone draws from |
| Schemas and response envelopes; migrations; deployment scripts; HealthCheck contract; frontend | none of the registry's | - | - |

### How they interact

The routers call one service method per request. `create_project_version`
calls the storage service (retrieve, pin), the digest, and the blockchain
service; the dispute service calls the storage service and the blockchain
service; verification and certificates read everything and write nothing of
the registry. The blockchain service signs with one key, the relayer's, and
takes the "pending" transaction count as the nonce: the transactions of all
handlers form **one queue**, mined in order, each possibly long after its
handler gave up.

The deployment runs one uvicorn process (`backend/Dockerfile:29`), in which
requests run in two ways:

* *Asynchronous* handlers (upload, version creation, disputes, verification,
  certificates) run on the event loop. They call the database and Web3
  synchronously, so another handler runs only where they `await`: the IPFS
  client, and the read of an uploaded chunk. The models of version creation and
  disputes have a variable `loop` that says who holds the event loop;
  uploads interleave between chunks.
* *Synchronous* endpoints (accounts, projects, members, lists) run in a pool
  of threads, each in a session of its own. They interleave between any two
  statements, with one another and with the handlers on the loop.

The chain, the clients and the owner of the contract are outside that process
and step whenever they like. `EventLoop` models what all requests share.

### What makes each part correct

* *Contract*: identifiers are registered once; record numbers and identifiers
  are inverse to each other; numbers follow block order; only those entitled at
  the time write; the event log alone tells the same story.
* *Anchoring*: versions are numbered without gaps and their stages never go
  back, although both were read before the pin; a key names one version;
  `ANCHORED` means that the contract has exactly this snapshot; nothing is on
  chain that the database does not know; order on chain is order in the
  project; without a fault nothing stays `ANCHORING`.
* *Disputes*: a dispute on file was logged on chain; adjudication is final;
  database and contract agree in the end; a project's status follows its
  disputes.
* *Content*: the bytes of a recorded artifact are those its digest covers; a
  failed upload leaves nothing; what is pinned under a root reproduces the
  digest that is anchored with it.
* *Verification*: what is valid has its very content on chain; the verdict is
  one that a single look at the contract would have given; an honest version
  verifies, however its transaction came to be mined; certificates follow the
  verdict.
* *Projects*: a project has one owner, its creator; a user joins once, by
  invitation of somebody entitled; four checks of who may read agree.
* *Accounts*: one account per address, with the password of whoever was told
  so; nobody is served as somebody else; a session lives while it is renewed.
* *HTTP layer*: nobody waits for a connection while holding one; every request
  is answered.

## 2. The modules

| module | models | proved |
|---|---|---|
| `ProofLedger` | the promise: a write-once ledger (abstract) | |
| `ProjectRegistry` | the contract, an action per function | `ProjectRegistryProofs` |
| `RegistryEvents` | the contract with its event log | `ProjectRegistryProofs` |
| `VersionAnchoring` | creation and anchoring: handlers, database, storage, relayer queue, over an INSTANCE of `ProjectRegistry` | `VersionAnchoringProofs` |
| `DisputeFlow` | claims and rulings: handlers, database, relayer queue, over an INSTANCE of `ProjectRegistry` | `DisputeFlowProofs` |
| `Verification` | verification and certificates: two reads of the contract and a verdict, over an INSTANCE of `ProjectRegistry` | `VerificationProofs` |
| `VerificationHistory` | the same with a history variable: the verdicts a single read would have given | `VerificationProofs` |
| `ArtifactIngest` | uploads chunk by chunk, the artifact storage, the rows | `ArtifactIngestProofs` |
| `VersionContent` | digest, pinned directory and CIDs of a version, on top of `ArtifactIngest` | `ArtifactIngestProofs` |
| `Projects` | creating projects, adding members, who may read | `ProjectsProofs` |
| `Accounts` | registration, login, refresh, protected and public endpoints | `AccountsProofs` |
| `EventLoop` | event loop, threads and connections under all of these | `EventLoopProofs` |
| `MC*` | the instances TLC checks | |

### ProjectRegistry and RegistryEvents

A variable per storage slot. A call that passes every check is one atomic
action, a call that reverts is not enabled: the EVM gives both. Strings,
addresses and digests are members of small sets, with the empty string,
`address(0)` and `bytes32(0)` distinguished because the contract tests for
them. The sender is a parameter. Blocks are mined by `MineBlock`, bounded by
`MaxBlock`. `Ownable2Step` is a library outside the repository and is modelled
from its documented behaviour (*external* in the map). `versionIndex` is a
`uint16`; its maximum is the constant `MaxVersionIndex` and the contract does
no arithmetic on it. `RegistryEvents` adds the log: what a reader who sees
nothing but events can conclude.

### VersionAnchoring

`pc[r]` is the control state of request `r`:

    idle --Admit--> pinning | creating --CreateVersion--> created
         --StartAnchoring--> sending --Send--> waiting --ReceiptArrives-->
         recording --RecordAnchored--> recorded --Finish--> done

with the exits `ReturnExisting`, `Refuse`, `PinFails`, `InsertConflicts`,
`AnchoringFails`, `ReloadFails` and `DatabaseFails` to `done` and `Crash` to
`lost`. Each arrow is the code between two commits, suspensions or calls to the
chain; in between nothing can be observed. The stage `recorded` exists because
the commit of `ANCHORED` expires the row and the next line reads it again,
inside the `try` block of anchoring failures. `plan[r]` holds the local
variables that survive the pin: the identifier, the index and the root. A
composite hash is the set of artifacts it was computed from and a root CID the
set of artifacts in the pinned directory, so "the root holds what the hash
covers" can be said; how either comes about is the subject of `VersionContent`.
`mempool` is the relayer's queue; `MineTransaction` takes its head and executes
it against the contract, `DropPool` empties it (a node that restarts).

### DisputeFlow

`pc` goes `idle -> pinning | filing -> waiting -> done | failed` for a claim
and `idle -> ruling -> waiting -> done | failed` for a ruling. The rows a claim
flushes before its transaction are visible to nobody until the commit, so they
appear in `CommitClaim`. The session writes a column only if its value changed
against what it loaded: `loadedStatus` in the plan of a claim is that loaded
value. Gas limits of the two dispute calls are given, hence nothing simulates
them and a transaction that will revert is sent all the same. Anchoring is one
step here (`AnchorVersion`), its inside being the other module's subject; it
waits for an empty queue and for a version later than the anchored ones, because
a version is `ANCHORED` only with its receipt, by the handler that has had the
loop since it created it: `AnchoredLatest` of `VersionAnchoringProofs`.

### Verification

The handler loads the row, the record and the team, calls `getProjectVersion`,
then `verifyProjectVersion`, and answers. `Ask` is everything up to the first
answer of the contract, `AnswerQuery` the second and the response; `query`
holds what was loaded. In between the chain may step (`MineLate`, `Dispute`)
and so may threads (`AddMember`), but no other handler. The verdict is the
operators `Matches`, `EffectiveDispute`, `IsValid` and `Certified` over
`GetProjectVersion` and `VerifyProjectVersion`; invariants speak of the answer
the handler would give if its second read came now. One version is verified at
a time, verifications writing nothing.

A version without artifacts has no digest, and for it the provider passes the
zero hash (`blockchain_provider.py:96`), which the back end refuses with 422
before it calls the contract (`blockchain_service.py:65-70`, called at line
458). The error is raised again (`verification_service.py:233`), so such a
version gets no verdict: `VerifyProjectVersion` returns `HashRefused`, and
`Answering` is false. A record keeps author and block; the block is compared
with that of the proof (`verification_service.py:356-360`), and `MineBlock`
makes them differ between versions. `MayJoin` bounds the teams.

`VerificationHistory` adds `verdicts`: in every step in which a question stays
open, the verdict of a handler that reads row, record and team as this one did
and the contract in a single call at that moment. No action reads it.

What this module abstracts is the subject of `VersionAnchoring`: a version is
created (by those who `MayCreateVersion`) and anchored in one step, and
`Outcomes` lists how that step can leave status and transaction, the version
that a crash left `PENDING` before anything was sent included; that no other
pair exists is `OutcomesCorrect` of `VersionAnchoringProofs`. Of the content
only what the comparison reads is kept; an artifact stands for its bytes, and
the pinned directory holds the snapshot. Users with a wallet stand for their
addresses. The column `dispute_status` is read only for a version the contract
does not know, which no dispute is filed against, and is left out.

### ArtifactIngest

A file is the sequence of its chunks, a SHA-256 digest the sequence of the
chunks that were hashed. `Begin` is everything up to the first read; every
`ReadChunk` reads, counts, hashes and writes one chunk; `AtEnd` leads to
`Commit` or `InsertConflicts`. The size is compared before the chunk is
written, in `TooLarge`. Mode `"wb"` replaces and `"ab"` appends or creates:
`WriteChunk` is the local adapter and the buffer of the IPFS adapter alike,
which differ in `VolatileStorage`. Faults are of five kinds: a read or write
that raises, a commit that fails, an error after the commit (the row is there
and its bytes are deleted), and a crash that leaves bytes without a row.
`Collisions` says whether the id generator, which compares with rows only, may
hand one id to two uploads in flight.

### VersionContent

Extends `ArtifactIngest` by version creation as far as content goes.
`ComputeCompositeSha256` strips the names (`CleanName`), sorts by them, and
joins name, size and digest of each row with colons and the rows with newlines
(`CanonicalString`). The string is a sequence of pieces and the digest is that
string. A name is not restricted to text: `sanitize_filename` keeps newlines
and colons, so a name may hold any pieces a line is made of, and nothing here
takes the join to be injective;
`FilesPayload` reads the stored bytes, later rows replacing earlier ones of
their name and missing bytes passed over; `AddDirectory` is what the adapter
makes of the node's answer, with the entries `root` and `wrap*` it treats
specially; `FallbackRoot` is the CID taken when there are no bytes. Rows come in
any order. `DigestOfDirectory` is the independent validator of
`BLOCKCHAIN_DESIGN.md:25`, the reference the digest is compared with.

### Projects

`StartCreation`, `TrySlug` (one statement per candidate) and `CommitProject`;
`StartInvitation`, `ResolveTarget`, `CheckDuplicate` and `CommitMember`. An
insertion that conflicts with an open transaction waits for it, so insertion
and commit are one step, decided by the unique constraints (`Unique`,
`UniqueMembership`). Each commit may also fail before or after it took effect.
`SlugsOf` is what `generate_unique_slug` tries in order for a title; the
random suffixes that follow are cut off by its length. The four readers are the
operators `Listed`, `Detailed`, `MembersReadable` and `VersionsReadable`.

### Accounts

A token is the id of its subject and its age; it is kept by its client alone.
`Tick` makes all tokens older and stops where no check can tell an age from an
older one, which keeps the state finite without a bound. Registration is three
steps, with the unique constraints deciding the last. A refresh may lose its
answer. A call may present either token. `Deactivate` is the row an
administrator changes by hand: no endpoint does it, but every check reads it.

### EventLoop

`pc[r]` is where a request is, `loop` who keeps the event loop, `workers` who
occupies a thread, `conn` who holds a database connection. A session takes a
connection at its first statement (`Checkout`), gives it back when it commits
(and takes one again to read what the commit expired) or is closed. Three
kinds of request: callers of synchronous endpoints, creators of versions, who
are authenticated in a thread, run on the loop, suspend at the pin *with* a
connection and later block the loop while they wait for the receipt, and
verifiers, who block the loop from their first statement to the end. A request
that gets no connection is over with an error, with one exception: a version
that is read again after the commit of its outcome is read inside the `try`
block (`project_version_service.py:541`), whose handler commits `FAILED` and
reads once more for its log line. Each of the two takes a connection (stages
`failing` and `failed`).

### The abstract specification

`ProofLedger` says that an identifier is anchored once, with one content, for
good. The contract implements it (mapping: the immutable part of each proof),
and the database implements it too (mapping: the rows that have a blockchain
record, with its number), with crashes, late receipts and a change of relayer.
Both are checked and proved. The status of a row is not part of that
promise: `MCReload` shows that it may go back.

## 3. The runs

Requests and identifiers are interchangeable and declared symmetric in some runs
of safety properties; runs with a liveness property have no symmetry.

| run | instance | shows |
|---|---|---|
| `MCRegistry` | 3 accounts, 2 identifiers, malformed calldata of each kind, 2 blocks, up to 5 events after the constructor's | exact indexes, precedence, write-once; log and storage agree; writers were entitled |
| `MCRaces` | 3 requests from 5 bodies, 2 projects, 3 identifiers, 1 key, 1 fault | numbers, stages, keys and order on chain survive the pin |
| `MCFaults` | 2 requests, 2 projects, 2 artifacts of one name, 1 uploaded late, volatile buffers, 2 faults, fair handlers | `ANCHORED` is proved, no orphan, write-once database, settling |
| `MCDisputes` | 2 claims, 2 rulings, 2 versions, 1 direct dispute, 1 fault | disputes are backed, serialised, adjudicated once; outcomes agree |
| `MCVerification` | 2 versions of no, 1 or 2 artifacts, 2 projects: an owner with a wallet and one without, blocks 0 and 1 | honest versions verify; valid is proved; the verdict is of one moment; certificates follow |
| `MCContent` | 2 uploads from 7 bodies of 0 to 3 chunks around a limit of 2, under names that strip to one and names with a newline in them, 2 versions, 2 faults of any kind | recorded is intact, failed is gone, verdict on the size, the root reproduces the digest |
| `MCAccounts` | 3 people, 2 of whom claim one address, 3 ids; an access token lives 1 step, a refresh token 2 | accounts are theirs, nobody is served as another, sessions survive |
| `MCProjects` | 2 creations from 4 bodies, 2 invitations from 3, 5 users, slugs that collide in every way | one owner, one membership, a chain of invitations, dense slugs, readers agree |
| `MCEventLoop` | 2 callers, 1 version creation, 1 verification; 2 connections, 1 thread | no hold and wait, nobody waits while requests are few, every request is answered |
| `MCReconcile` | 1 request, a fair chain | **violated**: see section 4 |
| `MCReload` | 1 request, 1 fault | **violated** |
| `MCMisdirectedRuling` | 2 claims, 2 rulings, 2 versions | **violated** |

Why these bounds are enough for what they show. A race at the pin needs two
handlers that are both pinning, a third one to run while they are, and a key
shared across two projects; a late receipt that matters needs a transaction
whose handler is gone and a second one behind it; indexes, stages and order
need two versions of a project, and FINAL after an earlier stage; a verdict
concerns one version, a second one takes its artifacts or shares its digest;
two records suffice to compare two records, which is what every property of the
contract does; a lost ruling that matters needs a second one. An upload meets
every case of the loop with no chunk, fewer than the limit, exactly the limit
and one more; two uploads are what it takes to share a name. Two registrations
race for one address and a third person bears witness. Two threads are what a
check followed by an insertion takes, and titles `foo` and `foo 2` what slugs
take to collide both as titles and as suffixes. One thread and two connections
are fewer than the four requests want, so every kind of wait happens.

Faults are bounded by `MaxFaults`, direct disputes by `MaxDirect`, blocks by
`MaxBlock`, the log by `MaxEvents`; in the modules that compose with the
contract `MaxBlock` is 0 where block numbers play no part, and 1 in
`MCVerification`, where they are compared.

`CHECK_DEADLOCK FALSE` is set where the instance really stops: all requests
answered and all transactions mined, the log full, or every identifier used up
with no version left to verify or to dispute.

### Fairness

* `VersionAnchoring.FairSpec`: a handler that can go on does. The code
  justifies it by its structure: one event loop that runs ready handlers, an
  HTTP timeout on every IPFS call, and a timeout on every receipt
  (`BLOCKCHAIN_TIMEOUT_SECONDS`). Clients, faults and the *chain* owe nothing.
  Only `MCReconcile` adds that the chain mines (`LiveChainSpec`), to show that
  even then the promise it checks is broken.
* `EventLoop.Spec`: weak fairness of each request's next step. The queues of
  the loop, of the thread pool and of the connection pool are first come, first
  served; a receipt or an RPC answer comes or its timeout does; and a request
  for which no connection becomes free times out (`pool_timeout`). The mutant
  without that timeout is found.

All other specifications are without fairness; their properties are about what
may not happen.

## 4. Where the code departs from what the repository says

Each of these is a run that TLC must find violated.

* `MCReconcile` - `INTEGRATION_CONTRACT.md:134-135` describe a reconciler that
  takes a version whose receipt came late to `ANCHORED`. There is none: the
  version stays `FAILED` (or, after a crash, `ANCHORING`) with its proof on
  chain, and its identifier cannot be registered again.
* `MCReload` - `DATABASE_DESIGN.md:192` draws `ANCHORED` as an end. The log
  line after its commit reads the expired row again
  (`project_version_service.py:541`), inside the `try` block whose handler
  writes `FAILED`: if that read fails, an anchored version with its record goes
  back.
* `MCMisdirectedRuling` - a ruling goes to the latest anchored version of the
  project, which need not be the disputed one; the disputed one stays OPEN,
  against `DATABASE_DESIGN.md:213`.

Seen while modelling, and plain enough from the code that no run is spent on
them:

* *Contract.* `resolveDispute` accepts a proof that nobody disputed (sol 289)
  and a resolved one may be disputed again, against `DATABASE_DESIGN.md:211-215`.
  Rulings are signed by the relayer, `resolveDispute` is `onlyOwner`, and the
  deployment script takes a relayer other than the owner unless told otherwise,
  so that every ruling reverts (`MCDisputes` uses the accounts `set_relayer.ts`
  leads to, one for both).
* *Anchoring.* A version is `FAILED` on a timeout although its transaction may
  still be mined, against `INTEGRATION_CONTRACT.md:133`. The check that an
  artifact belongs to no other project (line 333) precedes the pin, the link
  (line 443) follows it: two projects can each anchor it. The artifacts of an
  `ANCHORED` version can be taken over by a later one or added to by an upload.
  The number of confirmations is logged and not enforced, against
  `INTEGRATION_CONTRACT.md:155`; waiting for a receipt blocks the event loop,
  against `INTEGRATION_CONTRACT.md:152`.
* *Disputes.* "Cannot file a concurrent dispute" (`dispute_service.py:198-202`):
  two claims on two versions of a project pass the check while their evidence is
  being pinned; on one version the contract stops the second
  (`ContractSerialisesClaims`). A claim that loaded its project as
  UNDER_DISPUTE does not write the status again; a ruling that cleared it in
  between leaves an ACTIVE project with an open dispute.
* *Content.* Bytes uploaded under `STORAGE_BACKEND=ipfs` do not survive a
  restart and are then left out of the root without an error, while the digest
  covers their rows. The pinned directory is keyed by file name, so of two
  artifacts of one name one is missing under the root (`IPFS_SETUP.md:13`). A
  file named `root` gets the CID of the directory, one whose name begins with
  `wrap` none. The local adapter digests names and contents of a directory
  without separators (`storage/local_adapter.py:139`), so different directories
  can have one root. Two uploads in flight may draw the same id, as candidates
  are compared with rows only, and share a storage key until one of them fails to
  insert (`Collisions`). The string that is hashed does not determine its
  snapshot: a file name may hold a newline and a colon, and a line is read no
  differently if it is part of a name; names that differ in surrounding
  whitespace are hashed as one, though the directory keeps them apart. If `refresh()` fails after the commit of an artifact,
  its row stays and its bytes are deleted.
* *Verification.* By its design: a version that has artifacts and awaits its
  anchoring verifies (`test_verification.py:164` expects it), while one without
  artifacts is answered 422 for ever, `BLOCKCHAIN_INVALID_HASH`; a version the contract does not know but that has a
  record verifies by that record, which a comment means for an unconfigured
  contract only; a member with a wallet who joins makes every older version of
  the project fail, hence the condition on the team in `HonestVersionVerifies`;
  a file uploaded to a version after its digest was anchored verifies as part
  of it, against `hashing.py:14`; of several versions with one digest a lookup
  by hash takes any, a FAILED one included.
* *Projects.* A title's slug is "guaranteed unique" (`slug.py`), but two
  creations may find one free, and the later is answered 409; the same conflict
  of two invitations is caught nowhere and ends with 500. A creation whose
  reload fails is answered with an error and has created the project. An
  upper-case slug finds a project's details and versions, and 404 for its
  members. Nothing sums the contribution percentages of a team.
* *Accounts.* A refresh token stays valid after it was exchanged, against
  `INTEGRATION_CONTRACT.md:145`. A collision of ids alone is answered as a
  conflict of addresses. The frontend defines a call to `/auth/refresh` and
  never makes it.
* *HTTP layer.* Requests between authentication and handler hold connections; a
  handler that waits for one on the event loop stops them. That every request
  is answered rests on `pool_timeout` alone.

## 5. The proofs

Every theorem holds for instances of any size and rests on the named `ASSUME`s
of its module: request bodies are well-formed, bounds are numbers, distinguished
values are not among the values they stand beside (`NullAssumption` where those
values are records, which a model value never equals), and `VersionContent` has
finitely many ids and lists every stripped name once in `NameOrder`. TLC evaluates
them in every run. Three theorems assume `Reliable` besides, which they say.

Each module has an inductive invariant, called `Base` where several theorems
are proved on top of it, as a conjunction of named parts. Every part was checked
by TLC on the instances of section 3 before it was proved. A proof has one lemma
for each part (`...Step`), whose steps are the actions that can disturb it; the
lemmas named `...Cases` say once which actions those are.

### ProjectRegistryProofs

* `TypeCorrect`: `TypeOK` is inductive by itself because it says that the
  reverse index is defined exactly on `1 .. recordCounter`.
* `IndexCorrect`: inductive together with `TypeOK`. A registration writes number
  `recordCounter + 1`, outside the old domain, under an identifier that had no
  proof; so it disturbs neither direction of the old correspondence. A dispute
  rewrites a proof but not its number.
* `PrecedencePreserved`: not inductive: one must know that no proof is younger
  than the current block, so that a new one may be given the current block. The
  strengthening adds that bound.
* `ImplementsLedger`: `Spec => LedgerImplemented`. Initial states map to the
  empty ledger; a registration maps to `Anchor`, every other step to a stutter,
  because `Immutable` drops the only field a dispute writes.

`StepCases` sorts `Next` into the three cases the four proofs distinguish: a
registration, a dispute step on an existing proof, and a step that leaves the
records alone.

About the event log:

* `EventsRefineRegistry`: erasing the log leaves a behaviour of the contract, so
  the theorems above hold with it.
* `LogShowsEntitlement`: an event says who called; that he was entitled is known
  of the storage. `AuthorityInv` carries it over: the owner and relayer that
  the log shows last are those in storage.
* `LogShowsStorage`: inductive with `IndexCorrect` and with `DisputesNameRecords`
  (no dispute event names an identifier that is not registered, so a new proof
  starts without any). It speaks of the *last* event of a proof: that
  a finite set of positions has a greatest one is `GreatestMember`, proved from
  the well-foundedness of the natural numbers.

### The contract underneath

`VersionAnchoring`, `DisputeFlow` and `Verification` each have an INSTANCE of the
contract and call its actions from steps of their own. `ContractUnderneath`, in
each of their proof modules, is `Spec => Chain!Spec`: whatever handlers, faults
and clients do, the contract sees calls of its own functions by accounts that
exist, with an identifier and calldata from the sets of the instance; a step that
calls none leaves it alone. TLC cannot check this, the calldata of a version
having any natural number as its index; it rests on the types of the queue.

### VersionAnchoringProofs

The heart of the matter is that everything a request read before its pin is
stale after it. `Base` says what still holds: who is past the pin has the event
loop alone (in `TypeOK`), its row is as it wrote it (`RowsKept`), a plan is made
of what `Admit` found (`Planned`), numbers are dense and a stale number is at
most one above the count (`Numbered`, `PlansInRange`), and a receipt of success
stands for a proof (`ReceiptsTrue`). These need one another and are proved
together. On `Base` rest

* `NumberingCorrect`, at once; and `RowsAndReplies`, from which
  `IdempotencyCorrect` follows: keys are unique among rows, and whoever was told
  of a version was told of a row.
* `StagesCorrect`. A stale stage does no harm for a reason that is not in any
  line of the code: a version that was committed since the check has taken the
  number of the plan, and the insertion will conflict. That is `StagesStillFit`.
* `NoOrphans`, inductive without further parts: a status never returns to `PENDING`.
* `ChainOrderCorrect`. Versions are sent while they are the latest of their
  project (`LatestWhileHeld`), so that the queue is ordered and behind all that
  is on chain (`PoolOrdered`); nonces do the rest. Whether a transaction belongs
  to a handler or to one that gave up long ago plays no part.
* `AnchoredCorrect`: calldata is the snapshot of its row, in the queue and on
  chain (`SnapshotsFaithful`), and the record copies the number of the proof
  (`RecordsTrue`).
* `DatabaseRefinesLedger`: the initial state maps to the empty ledger;
  `RecordAnchored` maps to `Anchor`, with a row that `AnchoredCorrect` vouches
  for; every other step changes at most the status of a recorded row.

The other modules anchor in one step. What they take for granted is proved here:

* `AnchoredLatest`, an action property, for `DisputeFlow`. It rests on
  `HolderAhead`: between its commit and its answer a handler has the latest
  version of its project, its transaction is the last of the queue, and with its
  receipt the queue is empty.
* `OutcomesCorrect`, for `Verification`: the pairs of status and transaction that
  exist, and that calldata and proofs hold the content of their rows. It is
  drawn from `NoOrphans`, `ChainInvariant` and the records.

And two theorems say what the faults of section 4 are answerable for:

* `NothingForgotten`: before the first fault, every version that is not settled
  has its handler at work on it (`AtWork`). The five ways in which a handler lets
  go of a version past its commit are `LeaveCases`; two settle it, three are
  faults. `AnchoringSettles` adds to this only that a handler goes on.
* `AnchoredFinal`: a step that is no fault leaves `ANCHORED` alone, since failing
  without one happens to a handler whose version is still `ANCHORING`. The run
  `MCReload` is the remaining case.

### DisputeFlowProofs

`Base` says that a plan outlives the pin (`PlansFit`), a row is written in the
step that completes its claim (`FiledWhenDone`), the dispute a ruling is about
stays active from check to commit (`RulingsInForce`: both happen while the
ruling has the event loop), a request sends once (`SentOnce`) and a transaction
is what its request planned (`PoolFaithful`). On it rest

* `DisputeIsBacked`, `AdjudicationFinal` (an action property: the only step that
  writes a filed row is a ruling's commit, on an active dispute) and
  `CauseCorrect`;
* `OutcomeCorrect`: a handler that waits has sent the last transaction of the
  queue (`WaitingIsLast`), so when its receipt is there no older ruling can
  still be mined behind it; `RulingsOnActive` says so of every ruling pending,
  `RulingOnChain` what the contract holds until the commit;
* `SerialCorrect`: while no ruling is lost, an active dispute of a project's only
  version is active on chain (`ActiveOnChain`), where a second notice reverts
  (`NextClaimAlone`);
* `RulingOnDisputed`, the part of `DATABASE_DESIGN.md:213` that does hold: where
  a project has one anchored version and no ruling was lost, a ruling finds the
  version marked (`MarkedWhileActive`), as it ends the only active dispute.
  Neither condition can go: `MCMisdirectedRuling` has two versions, and after
  a lost ruling two disputes of one version may be active, the first ruling
  taking away the mark of both.

### VerificationProofs

`Base` relates four pieces of state: a version has one transaction pending at
most (`PoolShape`); what is pending or on chain was computed from its row and
the team of that day (`ProofsFit`); a record names author and block of the proof
it was made for (`RecordsFit`); and a verification under way holds what it
would read now, but for the team, a proof that was mined since and the dispute
state (`QueryFits`). `ValidProved`, `CertifiedCorrect` and `HonestVerifies`
compare the verdict with that, case by case over what the two reads found.
`HonestVerifies` is about versions that have artifacts, the others having no
verdict, and says that the handler answers for them.

`VerdictOfMoment` needs to know what the past has been. If the first read found
a proof, the answer is settled with it (`FirstDecides`), and the verdict of the
moment of asking is the answer whatever is disputed and ruled on afterwards. If
it found none, a read of that moment would have said valid, which is the answer
if there is still none; and if a proof was mined in between, the answer comes
from the second read, and agrees with a single read of now or with that of then:
the struct is compared more strictly than the result of the view
(`StructIsStricter`), so the answer is either the verdict of a read of now or
`TRUE`. `Remembered` says that the history holds these verdicts, and each step
keeps it (`RememberedStep`) because what was asked stays until it is answered
(`QueryStays`).

### ArtifactIngestProofs

* `TypeCorrect`, `SizeVerdictCorrect`, `OnlyMembersLink` follow from
  `RequestInv`, which says for each upload what its stage implies: an admitted
  body passed the checks of association and name, the number of chunks read is
  at most the length of its file and the limit, a created one has all of them,
  a refused one failed a check or the limit.
* `RecordedStaysIntact` needs to know what the storage holds for ids *in flight*:
  the prefix read so far (`WritesPrefix`), under ids that no two uploads and no
  row share. That is `StorageInv`; a commit turns the prefix of full length into
  the row's digest. It assumes `Reliable`: no collision of ids in flight and a
  storage that survives a crash. Without either the property fails, as section 4
  says.
* `CleanupCorrect` is inductive with `RequestInv`: whoever ends an upload knows
  under which id it wrote.
* `CleanBesideVersions` and `IntactBesideVersions` say the same of `ContentSpec`,
  where versions take up artifacts and write CIDs into their rows between any
  two steps of an upload. `ContentCases` reduces a step of that specification to
  a step of an upload or to a change of rows that keeps their ids and digests
  (`Links`). It needs that a version being pinned lists recorded artifacts only
  (`PlansRecorded`), which stays so because rows are never removed.
* `RootCorrect`, under `Reliable`, for `RootReproducesDigest`. A digest is computed
  when the version starts, the directory read in the same step, and both are
  stored after the pin; `RootInv` says of a plan what the property says of a row
  (`PlanReproduces`). It stays so because neither rows nor digests of recorded
  artifacts change, their sizes are the lengths of what was hashed
  (`RowsMeasured`), and an upload that is given up stays so (`GivenUpGrows`).
  The computation itself is first-order: sorting puts each line in the place
  given by the number of lines before it, and `OrderRanks` proves, without any
  induction over data, that the ranks of a strict total order on a finite set are
  exactly `1 .. Cardinality(S)`: they differ, and an injection between finite
  sets of one size is onto. A stripped name has the same rank among distinct
  lines (`PlaceOfName`) as among the files (`PlacesOfFiles`), so both sequences
  of lines agree, and equal lines make equal strings. The converse, that a
  digest determines its files, is not claimed: see section 4.
* `DigestDeterministic` (`hashing.py:9`): the order in which the database returns
  the rows plays no part, names being distinct. With two rows of one name it does:
  the sort is stable, and nothing else orders them.

### ProjectsProofs

`ProjectsInv` strengthens the types by the stage of each request (what a
creation at `insert` has drawn, what an invitation at `join` was authorised by)
and gives `CreatorOwns`, `MembershipsUnique` and `InvitationsChain`. Two facts
carry it: members are never removed, so who was entitled to invite still is
(`MayInviteKept`), and an insertion is decided by the constraint in the step
that makes it, so the check before it, whose result may be stale, plays no part
in uniqueness. `SameReaders` needs no invariant beyond the types: the four
operators are compared case by case over visibility and viewer. `SlugsCorrect`
is inductive with `Searched`: the candidates a search has passed are taken, and
stay so, as projects are never removed; a candidate that was free and is taken
by the time of the insertion fails there.

### AccountsProofs

`AccountsInv` has, besides the types, that addresses are unique, and for each
client that the tokens it holds and was served with are of accounts it *owns*,
no older than they may be; ownership lasts because no step takes a row away or
changes its address or password (`RowsKept`). `RegistrationHonest` and `NobodyElse` are weaker.
`SessionKept` uses that the age of a refresh token is the time its client was
quiet: a punctual client is never refused for age, so only for the
standing of its account.

### EventLoopProofs

`LoopInv` adds to the types that a request in certain stages (`Unheld`) holds no
connection. Every step of every request has one shape: it moves one request to
one stage and changes loop, workers and connections accordingly (`Shape`);
`ShapeKeeps` is the one preservation proof, and the lemmas of the steps only
find their shape. `NobodyWaitsIfFew` then is a matter of counting: whoever holds
a connection is in progress, and whoever waits is in progress without one.

That every request is answered is liveness, but two facts that make it so are
not. `OnlyForward`: each step takes one request on along `Progress`, a numbering
of the stages, so there are at most thirteen steps to a request. `NobodyStuck`:
as long as one is not answered, some request meets the guards of a step
(`Ready`, read off the actions, `ENABLED` being out of this prover's reach):
whoever has the loop or a thread goes on with a connection or, at
`pool_timeout`, without, and with the loop and a thread free anybody can.
`StagesFit` says which stages a kind of request has.

### What is only model-checked

* `AnchoringSettles` and `EveryRequestAnswered`: liveness under fairness, which
  this prover does not handle. `NothingForgotten`, and `OnlyForward` with
  `NobodyStuck`, are what can be proved of them.
* The three properties of section 4 that are violated.

## 6. What is not modelled, and why

* Schemas, response envelopes, the request-id middleware, logging and the PDF
  layout are formatting; the routers only delegate. Matching a path segment
  with ids and slugs is below the grain of the models.
* Migrations are run once, by hand; nothing writes notifications.
* The frontend keeps no registry state. `HealthCheck.sol` is a constant.
* `cat_stream`, `pin`, `unpin` and `is_pinned` of the IPFS adapter have no
  caller in the back end.
* Reentrancy, gas and reorganisations: the contract makes no external call, and
  nothing in the back end reacts to a reorganisation.

Simplifications inside the models: one relayer key (as in the code); the
relayer's pool is lost as a whole or not at all, so that a nonce gap is never
filled by a younger transaction; in `VersionAnchoring` authors are a function
of the project, and authors and co-authors proper are left to `Verification`;
time is the age of tokens in `Accounts` and otherwise left out, a timeout being
possible whenever its wait is. A receipt whose event cannot be decoded
(`blockchain_service.py:435-440`: the record is stored without its number on
chain) is not modelled. `Verification` takes a configured contract for granted:
without one both reads find nothing, also for a version without artifacts.

## 7. Plan

Done: the contract and its events, the ledger, anchoring, disputes,
verification, ingest and content, projects, accounts, the event loop; proofs of
every safety property the runs check, and of what one module takes for granted
of another where it abstracts a sequence of steps into one.

1. That uploads as one step of `VersionAnchoring` are what `ArtifactIngest` makes
   of them, as a refinement.
2. The theorems of `ProjectRegistryProofs` restated of the instances that the
   handlers write to. `ContractUnderneath` gives them by substitution.
3. The three hazards that no property covers (`PROJECT.json`).
