----------------------------- MODULE DisputeFlow -----------------------------
(***************************************************************************)
(* Disputes: raise_dispute and adjudicate_dispute of dispute_service.py    *)
(* over PostgreSQL and the contract.  A claim suspends while its evidence  *)
(* is pinned, then flushes its rows, waits for the receipt of raiseDispute *)
(* and commits or rolls back; a ruling waits for the receipt of            *)
(* resolveDispute and then commits.  Both transactions are the relayer's   *)
(* and are mined in nonce order, possibly long after the handler gave up   *)
(* on them.  Handlers share one event loop.                                *)
(***************************************************************************)
EXTENDS Integers, FiniteSets, Sequences, FiniteSetsExt

CONSTANTS
    Claims,           \* requests POST /disputes; each files one dispute at most
    Rulings,          \* requests POST /admin/disputes/{id}/adjudicate
    Projects,
    RegistrationIds,
    VersionProject,   \* the project and number of the version under each
    VersionIndex,     \*   registration identifier
    Owner, RelayerAccount, ZeroAddress,   \* accounts on chain
    EvidenceCID, Snapshot,                \* the only evidence and calldata
    NoDispute, NoProof, NoPlan, Free, Empty,
    MaxDirect,        \* bound on disputes raised without the back end
    MaxFaults         \* bound on crashes and database failures

Requests == Claims \cup Rulings
DisputeStatuses == {"NONE", "OPEN", "UNDER_REVIEW", "RESOLVED", "REJECTED"}
Active == {"OPEN", "UNDER_REVIEW"}
Resolutions == {"RESOLVED", "REJECTED"}

ASSUME DisputeAssumption ==
    /\ Claims \cap Rulings = {}
    /\ Free \notin Requests
    /\ VersionProject \in [RegistrationIds -> Projects]
    /\ VersionIndex \in [RegistrationIds -> Nat \ {0}]
    /\ \A g, h \in RegistrationIds :
         VersionProject[g] = VersionProject[h] /\ VersionIndex[g] = VersionIndex[h]
           => g = h
    /\ Owner # ZeroAddress /\ RelayerAccount # ZeroAddress
    /\ MaxDirect \in Nat /\ MaxFaults \in Nat

VARIABLES
    \* requests and the event loop
    pc, plan, loop,
    \* PostgreSQL
    disputes,         \* rows of disputes, by the claim that filed them
    versionDispute,   \* project_versions.dispute_status
    projectStatus,    \* projects.status
    anchored,         \* versions in status ANCHORED
    \* the chain
    mempool, receipts,
    owner, pendingOwner, relayer, recordCounter, proofs, recordIndex, blockNumber,
    \* bounds
    direct, faults

requestVars == <<pc, plan, loop>>
databaseVars == <<disputes, versionDispute, projectStatus, anchored>>
contractVars == <<owner, pendingOwner, relayer, recordCounter, proofs,
                  recordIndex, blockNumber>>
chainVars == <<mempool, receipts, contractVars>>
vars == <<requestVars, databaseVars, chainVars, direct, faults>>

Chain == INSTANCE ProjectRegistry WITH
    Accounts <- {Owner, RelayerAccount}, EmptyString <- Empty,
    ZeroHash <- Empty, Hashes <- {Snapshot.compositeHash}, CIDs <- {EvidenceCID},
    Submissions <- {Snapshot}, InitialOwner <- Owner,
    InitialRelayer <- RelayerAccount, MaxVersionIndex <- 65535, MaxBlock <- 0,
    versions <- proofs, recordIdToRegistrationId <- recordIndex

Init ==
    /\ pc = [r \in Requests |-> "idle"]
    /\ plan = [r \in Requests |-> NoPlan]
    /\ loop = Free
    /\ disputes = [c \in Claims |-> NoDispute]
    /\ versionDispute = [g \in RegistrationIds |-> "NONE"]
    /\ projectStatus = [p \in Projects |-> "ACTIVE"]
    /\ anchored = {}
    /\ mempool = <<>>
    /\ receipts = [r \in Requests |-> "none"]
    /\ Chain!Init
    /\ direct = 0
    /\ faults = 0
-----------------------------------------------------------------------------
\* The values that stand for no row and for no proof are neither.
ASSUME NullAssumption ==
    /\ NoDispute \notin [project : Projects, status : DisputeStatuses]
    /\ NoProof \notin Chain!VersionProofs

Filed == {c \in Claims : disputes[c] # NoDispute}
\* Mutation: the status of the dispute is not looked at.
IsFiled(c) == c \in Filed

IsActive(c) == c \in Filed /\ disputes[c].status \in Active
ActiveDisputes(p) == {c \in Claims : IsActive(c) /\ disputes[c].project = p}
AnchoredOf(p) == {g \in anchored : VersionProject[g] = p}
LatestAnchored(p) ==
    CHOOSE g \in AnchoredOf(p) : \A h \in AnchoredOf(p) : VersionIndex[h] <= VersionIndex[g]

\* A version becomes ANCHORED and its proof is on chain (VersionAnchoring has
\* the steps): it is later than those ANCHORED before, and the transactions the
\* relayer sent before are mined or dropped by then.
AnchorVersion(g) ==
    /\ loop = Free
    /\ mempool = <<>>
    /\ \A h \in AnchoredOf(VersionProject[g]) : VersionIndex[h] < VersionIndex[g]
    /\ Chain!RegisterProjectVersion(RelayerAccount, g, Snapshot)
    /\ anchored' = anchored \cup {g}
    /\ UNCHANGED <<requestVars, disputes, versionDispute, projectStatus, mempool,
                   receipts, direct, faults>>

Finish(r, outcome) ==
    /\ pc' = [pc EXCEPT ![r] = outcome]
    /\ loop' = Free
    /\ UNCHANGED plan
-----------------------------------------------------------------------------
(* raise_dispute                                                           *)

\* The version is not anchored, or a dispute is active in its project.
ClaimRefused(g) ==
    \/ g \notin anchored
    \/ ActiveDisputes(VersionProject[g]) # {}
    \/ versionDispute[g] \in Active

RefuseClaim(c, g) ==
    /\ pc[c] = "idle" /\ loop = Free
    /\ ClaimRefused(g)
    /\ Finish(c, "failed")
    /\ UNCHANGED <<databaseVars, chainVars, direct, faults>>

\* The claim names a version or, naming a project, gets its latest anchored
\* one.  Evidence that is a CID already is not pinned again.  The status of the
\* project is loaded now: the session writes it back only if it then changes.
BeginClaim(c, g) ==
    /\ pc[c] = "idle" /\ loop = Free
    /\ ~ClaimRefused(g)
    /\ plan' = [plan EXCEPT ![c] =
                  [version |-> g, loadedStatus |-> projectStatus[VersionProject[g]]]]
    /\ \/ pc' = [pc EXCEPT ![c] = "pinning"] /\ loop' = Free
       \/ pc' = [pc EXCEPT ![c] = "filing"] /\ loop' = c
    /\ UNCHANGED <<databaseVars, chainVars, direct, faults>>

\* Mutations: the loop is released until the receipt is there, the nonce of a
\* pending transaction is taken again.
BroadcastReleased(r, kind, g, status) ==
    /\ mempool' = Append(mempool, [from |-> r, kind |-> kind, version |-> g,
                                  status |-> status])
    /\ pc' = [pc EXCEPT ![r] = "waiting"]
    /\ loop' = Free
    /\ UNCHANGED <<plan, databaseVars, receipts, contractVars, direct, faults>>

BroadcastFirst(r, kind, g, status) ==
    /\ mempool' = <<[from |-> r, kind |-> kind, version |-> g, status |-> status]>>
                  \o mempool
    /\ pc' = [pc EXCEPT ![r] = "waiting"]
    /\ loop' = r
    /\ UNCHANGED <<plan, databaseVars, receipts, contractVars, direct, faults>>

\* The nonce is the relayer's "pending" count: the transaction queues behind
\* every one of the relayer's that is not mined yet.  The gas limit is given,
\* so nothing simulates the call first and one that will revert is sent, too.
Broadcast(r, kind, g, status) ==
    /\ mempool' = Append(mempool, [from |-> r, kind |-> kind, version |-> g,
                                  status |-> status])
    /\ pc' = [pc EXCEPT ![r] = "waiting"]
    /\ loop' = r
    /\ UNCHANGED <<plan, databaseVars, receipts, contractVars, direct, faults>>

\* Pinned or, if the pin failed, with a made-up CID: flush and broadcast.  The
\* flushed rows are visible to nobody until the commit.
SendClaim(c) ==
    /\ (pc[c] = "pinning" /\ loop = Free) \/ pc[c] = "filing"
    /\ Broadcast(c, "raise", plan[c].version, "OPEN")

FileDispute(c) ==
    LET g == plan[c].version
        p == VersionProject[g]
    IN /\ disputes' = [disputes EXCEPT ![c] = [project |-> p, status |-> "OPEN"]]
       /\ versionDispute' = [versionDispute EXCEPT ![g] = "OPEN"]
       /\ projectStatus' = IF plan[c].loadedStatus = "UNDER_DISPUTE" THEN projectStatus
                           ELSE [projectStatus EXCEPT ![p] = "UNDER_DISPUTE"]
       /\ Finish(c, "done")
       /\ UNCHANGED <<anchored, chainVars, direct, faults>>

\* Mutation: the rows are committed before the receipt is there.
CommitEarly(c) == pc[c] = "waiting" /\ FileDispute(c)

\* The receipt has status 1: commit.
CommitClaim(c) ==
    /\ pc[c] = "waiting"
    /\ receipts[c] = "success"
    /\ FileDispute(c)
-----------------------------------------------------------------------------
(* adjudicate_dispute                                                      *)

RefuseRuling(q, c) ==
    /\ pc[q] = "idle" /\ loop = Free
    /\ ~IsActive(c)
    /\ Finish(q, "failed")
    /\ UNCHANGED <<databaseVars, chainVars, direct, faults>>

\* A row of disputes names a project and no version: the ruling goes to the
\* latest anchored version of the project.
BeginRuling(q, c, status) ==
    /\ pc[q] = "idle" /\ loop = Free
    /\ IsActive(c)
    /\ plan' = [plan EXCEPT ![q] =
                  [dispute |-> c, status |-> status,
                   version |-> LatestAnchored(disputes[c].project)]]
    /\ pc' = [pc EXCEPT ![q] = "ruling"]
    /\ loop' = q
    /\ UNCHANGED <<databaseVars, chainVars, direct, faults>>

SendRuling(q) ==
    /\ pc[q] = "ruling"
    /\ Broadcast(q, "resolve", plan[q].version, plan[q].status)

\* Mutation: the dispute that is being closed counts as active.
StatusOwnCounted(c, status) ==
    LET p == disputes[c].project
    IN IF status = "RESOLVED" THEN "UNDER_DISPUTE"
       ELSE IF ActiveDisputes(p) = {} THEN "ACTIVE" ELSE projectStatus[p]

\* Upheld, the project stays marked; dismissed, it is cleared unless another
\* dispute of it is active.
StatusAfterRuling(c, status) ==
    LET p == disputes[c].project
    IN IF status = "RESOLVED" THEN "UNDER_DISPUTE"
       ELSE IF ActiveDisputes(p) \subseteq {c} THEN "ACTIVE" ELSE projectStatus[p]

CommitRuling(q) ==
    LET c == plan[q].dispute
        p == disputes[c].project
    IN /\ pc[q] = "waiting"
       /\ receipts[q] = "success"
       /\ disputes' = [disputes EXCEPT ![c].status = plan[q].status]
       /\ versionDispute' = [versionDispute EXCEPT ![plan[q].version] = plan[q].status]
       /\ projectStatus' = [projectStatus EXCEPT ![p] = StatusAfterRuling(c, plan[q].status)]
       /\ Finish(q, "done")
       /\ UNCHANGED <<anchored, chainVars, direct, faults>>
-----------------------------------------------------------------------------
\* The RPC node cannot be reached, the receipt is late, or its status is 0: a
\* claim rolls back, a ruling has written nothing yet.
ChainCallFails(r) ==
    /\ loop = r
    /\ pc[r] \in {"filing", "ruling", "waiting"}
    /\ Finish(r, "failed")
    /\ UNCHANGED <<databaseVars, chainVars, direct, faults>>

\* The flush or the commit raises: the exception ends the request, and nothing
\* of it is in the database.
DatabaseFails(r) ==
    /\ faults < MaxFaults
    /\ loop = r \/ (pc[r] = "pinning" /\ loop = Free)
    /\ faults' = faults + 1
    /\ Finish(r, "failed")
    /\ UNCHANGED <<databaseVars, chainVars, direct>>

Crash ==
    /\ faults < MaxFaults
    /\ faults' = faults + 1
    /\ pc' = [r \in Requests |-> IF pc[r] \in {"idle", "done"} THEN pc[r] ELSE "failed"]
    /\ loop' = Free
    /\ UNCHANGED <<plan, databaseVars, chainVars, direct>>

\* The relayer's next transaction is mined: it takes effect, or reverts.
Reverts(tx) ==
    IF tx.kind = "raise" THEN proofs[tx.version].disputeState \in Active
    ELSE RelayerAccount # owner

MineTransaction ==
    /\ mempool # <<>>
    /\ LET tx == Head(mempool)
       IN \/ /\ tx.kind = "raise" /\ Chain!RaiseDispute(tx.version, EvidenceCID)
             /\ receipts' = [receipts EXCEPT ![tx.from] = "success"]
          \/ /\ tx.kind = "resolve"
             /\ Chain!ResolveDispute(RelayerAccount, tx.version, tx.status)
             /\ receipts' = [receipts EXCEPT ![tx.from] = "success"]
          \/ /\ Reverts(tx)
             /\ receipts' = [receipts EXCEPT ![tx.from] = "reverted"]
             /\ UNCHANGED contractVars
    /\ mempool' = Tail(mempool)
    /\ UNCHANGED <<requestVars, databaseVars, direct, faults>>

\* The node restarts and drops the transactions it has not mined.
DropPool ==
    /\ mempool # <<>>
    /\ mempool' = <<>>
    /\ UNCHANGED <<requestVars, databaseVars, receipts, contractVars, direct, faults>>

\* raiseDispute is open to every account, not to the relayer alone.
DirectDispute(g) ==
    /\ direct < MaxDirect
    /\ direct' = direct + 1
    /\ Chain!RaiseDispute(g, EvidenceCID)
    /\ UNCHANGED <<requestVars, databaseVars, mempool, receipts, faults>>

ClaimArrives(c) == \E g \in RegistrationIds : RefuseClaim(c, g) \/ BeginClaim(c, g)
RulingArrives(q) ==
    \E c \in Claims : \/ RefuseRuling(q, c)
                      \/ \E status \in Resolutions : BeginRuling(q, c, status)
ClaimStep(c) == SendClaim(c) \/ CommitClaim(c)
RulingStep(q) == SendRuling(q) \/ CommitRuling(q)

Next ==
    \/ \E g \in RegistrationIds : AnchorVersion(g) \/ DirectDispute(g)
    \/ \E c \in Claims : ClaimArrives(c) \/ ClaimStep(c)
    \/ \E q \in Rulings : RulingArrives(q) \/ RulingStep(q)
    \/ \E r \in Requests : ChainCallFails(r) \/ DatabaseFails(r)
    \/ MineTransaction \/ DropPool \/ Crash

Spec == Init /\ [][Next]_vars
-----------------------------------------------------------------------------
Holding == {"filing", "ruling", "waiting"}
Closed(c) == disputes[c].status \in Resolutions

Plans == [version : RegistrationIds, loadedStatus : {"ACTIVE", "UNDER_DISPUTE"}]
         \cup [dispute : Claims, status : Resolutions, version : RegistrationIds]

\* The handler that holds the loop is the one past its suspension, and there
\* is at most one.
TypeOK ==
    /\ pc \in [Requests -> {"idle", "pinning", "done", "failed"} \cup Holding]
    /\ plan \in [Requests -> Plans \cup {NoPlan}]
    /\ loop \in Requests \cup {Free}
    /\ \A r \in Requests : pc[r] \in Holding <=> loop = r
    /\ disputes \in [Claims -> [project : Projects, status : DisputeStatuses \ {"NONE"}]
                               \cup {NoDispute}]
    /\ versionDispute \in [RegistrationIds -> DisputeStatuses]
    /\ projectStatus \in [Projects -> {"ACTIVE", "UNDER_DISPUTE"}]
    /\ anchored \subseteq RegistrationIds
    /\ mempool \in Seq([from : Requests, kind : {"raise", "resolve"},
                        version : RegistrationIds, status : Resolutions \cup {"OPEN"}])
    /\ receipts \in [Requests -> {"none", "success", "reverted"}]
    /\ Chain!TypeOK
    /\ direct \in 0 .. MaxDirect /\ faults \in 0 .. MaxFaults

\* No dispute without its notice on chain: the rows flushed before the
\* transaction was sent (dispute_service.py 249) are committed only if that very
\* transaction was mined with success, whatever failed on the way.
DisputeBacked ==
    \A c \in Filed :
      /\ receipts[c] = "success"
      /\ disputes[c].project = VersionProject[plan[c].version]

SoleVersion(g) == AnchoredOf(VersionProject[g]) = {g}

\* Rulings that took effect on chain but not in the database: the receipt was
\* late, the commit failed or the process stopped.
LostRulings == {q \in Rulings : receipts[q] = "success" /\ pc[q] = "failed"}

\* The back end looks for an active dispute before the pin and not again after
\* it (dispute_service.py 190 and 227).  It is the check of the contract that
\* keeps two claims on the only version of a project from both being filed,
\* unless a ruling reopened the contract behind the back of the database.
ContractSerialisesClaims ==
    LostRulings = {} =>
      \A g \in anchored : SoleVersion(g) =>
        Cardinality(ActiveDisputes(VersionProject[g])) <= 1

\* Whatever rulings were lost or timed out and were mined later: once no dispute
\* of the project is active, the database and the contract agree on the outcome,
\* or the contract has a newer dispute.  The nonces order the rulings.
OutcomeAgrees ==
    \A g \in anchored :
      /\ SoleVersion(g)
      /\ ActiveDisputes(VersionProject[g]) = {}
      /\ versionDispute[g] \in Resolutions
      => proofs[g].disputeState \in {versionDispute[g], "OPEN"}

\* A project is not left UNDER_DISPUTE for nothing: some dispute of it is active
\* or was upheld.
UnderDisputeHasCause ==
    \A p \in Projects : projectStatus[p] = "UNDER_DISPUTE" =>
      \E c \in Filed : disputes[c].project = p /\ disputes[c].status # "REJECTED"

\* A dispute on file is never withdrawn, and one that was adjudicated is never
\* adjudicated again, whichever administrators rule at the same time.
AdjudicationIsFinal ==
    [][\A c \in Filed :
         /\ disputes'[c] # NoDispute
         /\ Closed(c) => disputes'[c] = disputes[c]]_vars
-----------------------------------------------------------------------------
(* What the documents say and the code does not do.                        *)

\* DATABASE_DESIGN.md section 5: a version is RESOLVED or REJECTED after a
\* dispute of it was opened.
RulingOnDisputedVersion ==
    [][\A g \in RegistrationIds :
         versionDispute'[g] # versionDispute[g] /\ versionDispute'[g] \in Resolutions
           => versionDispute[g] \in Active]_vars
=============================================================================
