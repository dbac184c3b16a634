--------------------------- MODULE ProjectRegistry ---------------------------
(***************************************************************************)
(* The ProjectRegistry contract.  A transaction either satisfies every     *)
(* check of the function it calls and takes effect atomically, or reverts  *)
(* and changes nothing; a call that reverts is an action that is not       *)
(* enabled.  Strings, addresses and digests are members of small sets;     *)
(* the empty string, address(0) and bytes32(0), which the contract tests   *)
(* for, are distinguished values.                                          *)
(***************************************************************************)
EXTENDS Integers

CONSTANTS
    Accounts,         \* externally owned accounts that send transactions
    ZeroAddress,      \* address(0)
    RegistrationIds,  \* non-empty registration identifiers
    EmptyString,      \* ""
    ZeroHash,         \* bytes32(0)
    Hashes,           \* the other composite digests
    CIDs,             \* non-empty IPFS content identifiers
    Submissions,      \* calldata of registerProjectVersion, identifier aside
    NoProof,          \* the struct no call has written: exists = false
    InitialOwner,     \* constructor argument initialOwner
    InitialRelayer,   \* constructor argument initialRelayer
    MaxVersionIndex,  \* type(uint16).max
    MaxBlock          \* bound on the number of blocks mined

Stages == {"IDEA", "DESIGN", "PROTOTYPE", "FINAL"}
DisputeStatuses == {"NONE", "OPEN", "UNDER_REVIEW", "RESOLVED", "REJECTED"}
ActiveDisputes == {"OPEN", "UNDER_REVIEW"}
Resolutions == {"RESOLVED", "REJECTED"}

Strings == RegistrationIds \cup {EmptyString}
Addresses == Accounts \cup {ZeroAddress}

Calldata == [compositeHash : Hashes \cup {ZeroHash},
             ipfsRootCID : CIDs \cup {EmptyString},
             versionIndex : 0 .. MaxVersionIndex,
             lifecycleStage : Stages,
             author : Addresses,
             coAuthors : SUBSET Addresses]

\* What registerProjectVersion accepts of it.
WellFormed(sub) ==
    /\ sub.compositeHash # ZeroHash
    /\ sub.ipfsRootCID # EmptyString
    /\ sub.versionIndex # 0

VersionProofs == [recordId : Nat,
                  submission : {sub \in Submissions : WellFormed(sub)},
                  blockNumber : Nat,
                  disputeState : DisputeStatuses]

ASSUME RegistryAssumption ==
    /\ ZeroAddress \notin Accounts
    /\ EmptyString \notin RegistrationIds
    /\ EmptyString \notin CIDs
    /\ ZeroHash \notin Hashes
    /\ NoProof \notin VersionProofs
    /\ MaxVersionIndex \in Nat /\ MaxBlock \in Nat
    /\ InitialOwner \in Accounts /\ InitialRelayer \in Accounts
    /\ Submissions \subseteq Calldata

VARIABLES
    owner,            \* Ownable
    pendingOwner,     \* Ownable2Step
    relayer,
    recordCounter,    \* _recordCounter
    versions,         \* _versions
    recordIdToRegistrationId,  \* _recordIdToRegistrationId, where written
    blockNumber       \* block.number

authority == <<owner, pendingOwner, relayer>>
records == <<recordCounter, versions, recordIdToRegistrationId>>
registryVars == <<authority, records, blockNumber>>

Exists(id) == versions[id] # NoProof
-----------------------------------------------------------------------------
\* constructor
Init ==
    /\ owner = InitialOwner
    /\ pendingOwner = ZeroAddress
    /\ relayer = InitialRelayer
    /\ recordCounter = 0
    /\ versions = [id \in Strings |-> NoProof]
    /\ recordIdToRegistrationId = [n \in {} |-> EmptyString]
    /\ blockNumber = 0

SetRelayer(sender, newRelayer) ==
    /\ sender = owner
    /\ newRelayer # ZeroAddress
    /\ relayer' = newRelayer
    /\ UNCHANGED <<owner, pendingOwner, records, blockNumber>>

\* Mutation: the counter is read before it is incremented.
LateProof(sub) == [recordId |-> recordCounter,
                   submission |-> sub,
                   blockNumber |-> blockNumber,
                   disputeState |-> "NONE"]

NewProof(sub) == [recordId |-> recordCounter + 1,
                  submission |-> sub,
                  blockNumber |-> blockNumber,
                  disputeState |-> "NONE"]

WriteProof(id, sub) ==
    /\ recordCounter' = recordCounter + 1
    /\ versions' = [versions EXCEPT ![id] = NewProof(sub)]
    /\ recordIdToRegistrationId' =
         [n \in DOMAIN recordIdToRegistrationId \cup {recordCounter + 1} |->
            IF n = recordCounter + 1 THEN id ELSE recordIdToRegistrationId[n]]
    /\ UNCHANGED <<authority, blockNumber>>

\* Mutations: an owner who has not accepted yet, a registered identifier, or
\* malformed calldata is not refused.
RegisterByElect(sender, id, sub) ==
    /\ sender \in {relayer, owner, pendingOwner}
    /\ id # EmptyString
    /\ ~Exists(id)
    /\ WellFormed(sub)
    /\ WriteProof(id, sub)

RegisterAgain(sender, id, sub) ==
    /\ sender \in {relayer, owner}
    /\ id # EmptyString
    /\ WellFormed(sub)
    /\ WriteProof(id, sub)

RegisterProjectVersion(sender, id, sub) ==
    /\ sender \in {relayer, owner}
    /\ id # EmptyString
    /\ ~Exists(id)
    /\ WellFormed(sub)
    /\ WriteProof(id, sub)

\* Mutation: a dispute stamps the proof with the block it was raised in.
RestampDispute(id, status) ==
    /\ versions' = [versions EXCEPT ![id].disputeState = status,
                                   ![id].blockNumber = blockNumber]
    /\ UNCHANGED <<authority, recordCounter, recordIdToRegistrationId,
                   blockNumber>>

SetDispute(id, status) ==
    /\ versions' = [versions EXCEPT ![id].disputeState = status]
    /\ UNCHANGED <<authority, recordCounter, recordIdToRegistrationId,
                   blockNumber>>

\* Mutation: a second dispute is not refused.
RaiseAgain(id, evidenceCID) ==
    /\ Exists(id)
    /\ evidenceCID # EmptyString
    /\ SetDispute(id, "OPEN")

\* Any account may call it: there is no check of the sender.
RaiseDispute(id, evidenceCID) ==
    /\ Exists(id)
    /\ evidenceCID # EmptyString
    /\ versions[id].disputeState \notin ActiveDisputes
    /\ SetDispute(id, "OPEN")

ResolveDispute(sender, id, status) ==
    /\ sender = owner
    /\ Exists(id)
    /\ status \in Resolutions
    /\ SetDispute(id, status)

-----------------------------------------------------------------------------
\* Ownable2Step, inherited from OpenZeppelin.
TransferOwnership(sender, newOwner) ==
    /\ sender = owner
    /\ pendingOwner' = newOwner
    /\ UNCHANGED <<owner, relayer, records, blockNumber>>

AcceptOwnership(sender) ==
    /\ sender = pendingOwner
    /\ owner' = sender
    /\ pendingOwner' = ZeroAddress
    /\ UNCHANGED <<relayer, records, blockNumber>>

RenounceOwnership(sender) ==
    /\ sender = owner
    /\ owner' = ZeroAddress
    /\ pendingOwner' = ZeroAddress
    /\ UNCHANGED <<relayer, records, blockNumber>>

\* The network mines the next block; bounded by MaxBlock.
MineBlock ==
    /\ blockNumber < MaxBlock
    /\ blockNumber' = blockNumber + 1
    /\ UNCHANGED <<authority, records>>

Administer(sender) ==
    \/ \E account \in Addresses : \/ SetRelayer(sender, account)
                                  \/ TransferOwnership(sender, account)
    \/ AcceptOwnership(sender)
    \/ RenounceOwnership(sender)

Next ==
    \/ \E sender \in Accounts :
         \/ Administer(sender)
         \/ \E id \in Strings :
              \/ \E sub \in Submissions : RegisterProjectVersion(sender, id, sub)
              \/ \E status \in DisputeStatuses : ResolveDispute(sender, id, status)
    \/ \E id \in Strings, evidence \in CIDs \cup {EmptyString} :
         RaiseDispute(id, evidence)
    \/ MineBlock

Spec == Init /\ [][Next]_registryVars
-----------------------------------------------------------------------------
\* Every stored proof is one the checks of registerProjectVersion let through,
\* whatever sequence of calls wrote it; the empty identifier holds none.
TypeOK ==
    /\ owner \in Addresses /\ pendingOwner \in Addresses
    /\ relayer \in Accounts
    /\ recordCounter \in Nat /\ blockNumber \in Nat
    /\ versions \in [Strings -> VersionProofs \cup {NoProof}]
    /\ versions[EmptyString] = NoProof
    /\ recordIdToRegistrationId \in [1 .. recordCounter -> RegistrationIds]

\* _versions and _recordIdToRegistrationId are two indexes of the same records
\* (ProjectRegistry.sol 72 and 75), each written by its own assignment: the
\* identifier of record n is the one whose proof carries recordId n, for
\* every n up to totalRecords() and for no other.
RecordIndexExact ==
    /\ \A n \in 1 .. recordCounter :
         /\ Exists(recordIdToRegistrationId[n])
         /\ versions[recordIdToRegistrationId[n]].recordId = n
    /\ \A id \in RegistrationIds : Exists(id) =>
         /\ versions[id].recordId \in 1 .. recordCounter
         /\ recordIdToRegistrationId[versions[id].recordId] = id

\* Precedence, what the registry is for: of two records the one with the
\* smaller recordId was not mined later, and no dispute or change of relayer
\* or owner afterwards alters which came first.
RecordOrderIsBlockOrder ==
    \A id1, id2 \in RegistrationIds :
      Exists(id1) /\ Exists(id2) /\ versions[id1].recordId < versions[id2].recordId
        => versions[id1].blockNumber <= versions[id2].blockNumber

\* What is immutable of a proof: everything but its dispute state.
Immutable(proof) == [recordId |-> proof.recordId,
                     submission |-> proof.submission,
                     blockNumber |-> proof.blockNumber]

LedgerContents == [recordId : Nat, submission : Submissions, blockNumber : Nat]

\* The contract implements the write-once ledger: once registered, the
\* recordId, calldata and block of a proof survive every later call.
Ledger == INSTANCE ProofLedger WITH
    Ids <- RegistrationIds,
    Contents <- LedgerContents,
    Absent <- NoProof,
    ledger <- [id \in RegistrationIds |->
                 IF Exists(id) THEN Immutable(versions[id]) ELSE NoProof]

LedgerImplemented == Ledger!Spec
=============================================================================
