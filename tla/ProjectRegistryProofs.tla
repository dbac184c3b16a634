------------------------ MODULE ProjectRegistryProofs ------------------------
(***************************************************************************)
(* Proofs about the contract, for every set of accounts, identifiers and   *)
(* submissions and for any number of records and blocks.                   *)
(***************************************************************************)
EXTENDS RegistryEvents, SequenceTheorems, FiniteSetTheorems, TLAPS

\* The steps that leave every record as it is.
KeepsRecords == UNCHANGED records

\* Only four operations touch the records: a step of the contract registers
\* one proof, changes the standing of one, mines a block or administers.
LEMMA StepCases ==
    ASSUME TypeOK, [Next]_registryVars
    PROVE  \/ \E sender \in Accounts, id \in Strings, sub \in Submissions :
                RegisterProjectVersion(sender, id, sub)
           \/ \E id \in Strings, status \in DisputeStatuses :
                /\ Exists(id)
                /\ SetDispute(id, status)
           \/ /\ KeepsRecords
              /\ blockNumber' \in Nat /\ blockNumber' >= blockNumber
              /\ owner' \in Addresses /\ pendingOwner' \in Addresses
              /\ relayer' \in Accounts
<1> USE DEF KeepsRecords
<1>1. ASSUME NEW sender \in Accounts, Administer(sender)
      PROVE  /\ UNCHANGED <<records, blockNumber>>
             /\ owner' \in Addresses /\ pendingOwner' \in Addresses
             /\ relayer' \in Accounts
  BY <1>1, RegistryAssumption
     DEF TypeOK, Administer, SetRelayer, TransferOwnership, AcceptOwnership,
         RenounceOwnership, Addresses, records, authority
<1>2. ASSUME NEW sender \in Accounts, NEW id \in Strings,
             NEW status \in DisputeStatuses, ResolveDispute(sender, id, status)
      PROVE  Exists(id) /\ SetDispute(id, status)
  BY <1>2 DEF ResolveDispute
<1>3. ASSUME NEW id \in Strings, NEW evidence, RaiseDispute(id, evidence)
      PROVE  Exists(id) /\ SetDispute(id, "OPEN")
  BY <1>3 DEF RaiseDispute
<1>4. ASSUME MineBlock
      PROVE  /\ UNCHANGED records /\ UNCHANGED authority
             /\ blockNumber' \in Nat /\ blockNumber' >= blockNumber
  BY <1>4 DEF MineBlock, TypeOK
<1>5. ASSUME UNCHANGED registryVars
      PROVE  UNCHANGED records /\ UNCHANGED authority /\ UNCHANGED blockNumber
  BY <1>5 DEF registryVars
<1>6. "OPEN" \in DisputeStatuses
  BY DEF DisputeStatuses
<1>. QED
  BY <1>1, <1>2, <1>3, <1>4, <1>5, <1>6 DEF Next, TypeOK, authority

\* A registration keeps the types: what it stores has passed every check.
LEMMA RegisterTypes ==
    ASSUME TypeOK, NEW sender \in Accounts, NEW id \in Strings,
           NEW sub \in Submissions, RegisterProjectVersion(sender, id, sub)
    PROVE  TypeOK'
<1>1. id \in RegistrationIds /\ id # EmptyString /\ ~Exists(id)
  BY DEF RegisterProjectVersion, WriteProof, Strings
<1>2. NewProof(sub) \in VersionProofs
  BY DEF RegisterProjectVersion, WriteProof, NewProof, VersionProofs, TypeOK, DisputeStatuses
<1>3. versions' \in [Strings -> VersionProofs \cup {NoProof}]
  BY <1>2 DEF RegisterProjectVersion, WriteProof, TypeOK
<1>4. versions'[EmptyString] = NoProof
  BY <1>1 DEF RegisterProjectVersion, WriteProof, TypeOK, Strings
<1>5. recordIdToRegistrationId' \in [1 .. recordCounter' -> RegistrationIds]
  BY <1>1 DEF RegisterProjectVersion, WriteProof, TypeOK
<1>6. recordCounter' \in Nat /\ UNCHANGED <<authority, blockNumber>>
  BY DEF RegisterProjectVersion, WriteProof, TypeOK
<1>. QED
  BY <1>3, <1>4, <1>5, <1>6 DEF TypeOK, authority

\* What a change of the dispute state of id does to _versions.
LEMMA DisputeStep ==
    ASSUME TypeOK, NEW id \in Strings, Exists(id),
           NEW status \in DisputeStatuses, SetDispute(id, status)
    PROVE  /\ id \in RegistrationIds
           /\ versions' \in [Strings -> VersionProofs \cup {NoProof}]
           /\ \A other \in Strings : other # id => versions'[other] = versions[other]
           /\ versions'[id] = [versions[id] EXCEPT !.disputeState = status]
           /\ versions[id] \in VersionProofs /\ versions'[id] \in VersionProofs
           /\ versions'[id] # NoProof
<1>1. versions[id] \in VersionProofs /\ id \in RegistrationIds
  BY DEF TypeOK, Exists, Strings
<1>2. versions' = [versions EXCEPT ![id].disputeState = status]
  BY DEF SetDispute
<1>3. versions'[id] = [versions[id] EXCEPT !.disputeState = status]
  BY <1>2 DEF TypeOK
<1>4. versions'[id] \in VersionProofs
  BY <1>1, <1>3 DEF VersionProofs
<1>5. versions' \in [Strings -> VersionProofs \cup {NoProof}]
  BY <1>2, <1>3, <1>4 DEF TypeOK
<1>6. \A other \in Strings : other # id => versions'[other] = versions[other]
  BY <1>2 DEF TypeOK
<1>. QED
  BY <1>1, <1>3, <1>4, <1>5, <1>6, RegistryAssumption

\* Every step keeps the types.
LEMMA TypeCorrectStep == TypeOK /\ [Next]_registryVars => TypeOK'
<1> SUFFICES ASSUME TypeOK, [Next]_registryVars PROVE TypeOK'
  OBVIOUS
<1>1. ASSUME NEW id \in Strings, NEW status \in DisputeStatuses,
             Exists(id), SetDispute(id, status)
      PROVE  TypeOK'
  <2>1. versions' \in [Strings -> VersionProofs \cup {NoProof}]
        /\ versions'[EmptyString] = NoProof
    BY <1>1, DisputeStep, RegistryAssumption DEF TypeOK, Strings
  <2>. QED
    BY <1>1, <2>1 DEF TypeOK, SetDispute, authority
<1>2. ASSUME KeepsRecords, blockNumber' \in Nat, owner' \in Addresses,
             pendingOwner' \in Addresses, relayer' \in Accounts
      PROVE  TypeOK'
  BY <1>2 DEF KeepsRecords, TypeOK, records
<1>. QED
  BY <1>1, <1>2, StepCases, RegisterTypes

\* The storage of the contract has its types in every reachable state; in
\* particular every stored proof passed the checks of registerProjectVersion.
THEOREM TypeCorrect == Spec => []TypeOK
<1>1. Init => TypeOK
  BY RegistryAssumption DEF Init, TypeOK, Strings, Addresses
<1>. QED
  BY <1>1, TypeCorrectStep, PTL DEF Spec

\* What a registration does to both indexes.
LEMMA RegisterStep ==
    ASSUME TypeOK, NEW sender \in Accounts, NEW id \in Strings,
           NEW sub \in Submissions, RegisterProjectVersion(sender, id, sub)
    PROVE  /\ id \in RegistrationIds /\ ~Exists(id)
           /\ recordCounter' = recordCounter + 1
           /\ UNCHANGED blockNumber
           /\ versions'[id] = NewProof(sub) /\ versions'[id] # NoProof
           /\ \A other \in Strings : other # id => versions'[other] = versions[other]
           /\ recordIdToRegistrationId'[recordCounter + 1] = id
           /\ \A n \in 1 .. recordCounter :
                recordIdToRegistrationId'[n] = recordIdToRegistrationId[n]
<1>1. id \in RegistrationIds /\ ~Exists(id)
  BY DEF RegisterProjectVersion, WriteProof, Strings
<1>2. NewProof(sub) \in VersionProofs
  BY DEF RegisterProjectVersion, WriteProof, NewProof, VersionProofs, TypeOK, DisputeStatuses
<1>3. recordIdToRegistrationId'[recordCounter + 1] = id
  BY DEF RegisterProjectVersion, WriteProof, TypeOK
<1>4. \A n \in 1 .. recordCounter :
        recordIdToRegistrationId'[n] = recordIdToRegistrationId[n]
  BY DEF RegisterProjectVersion, WriteProof, TypeOK
<1>. QED
  BY <1>1, <1>2, <1>3, <1>4, RegistryAssumption DEF RegisterProjectVersion, WriteProof, TypeOK

\* Both indexes of the registry describe the same records, numbered without a
\* gap from 1 to totalRecords(), in every reachable state.
THEOREM IndexCorrect == Spec => []RecordIndexExact
<1>1. Init => RecordIndexExact
  BY DEF Init, RecordIndexExact, Exists, Strings
<1>2. TypeOK /\ RecordIndexExact /\ [Next]_registryVars => RecordIndexExact'
  <2> SUFFICES ASSUME TypeOK, RecordIndexExact, [Next]_registryVars
               PROVE  RecordIndexExact'
    OBVIOUS
  <2>1. ASSUME NEW sender \in Accounts, NEW id \in Strings,
               NEW sub \in Submissions, RegisterProjectVersion(sender, id, sub)
        PROVE  RecordIndexExact'
    <3>0. /\ id \in RegistrationIds /\ ~Exists(id)
          /\ recordCounter' = recordCounter + 1
          /\ versions'[id] = NewProof(sub) /\ versions'[id] # NoProof
          /\ \A other \in Strings : other # id => versions'[other] = versions[other]
          /\ recordIdToRegistrationId'[recordCounter + 1] = id
          /\ \A n \in 1 .. recordCounter :
               recordIdToRegistrationId'[n] = recordIdToRegistrationId[n]
      BY <2>1, RegisterStep
    <3> USE <3>0 DEF Exists
    <3>1. versions'[id].recordId = recordCounter + 1
      BY DEF NewProof
    <3>2. ASSUME NEW n \in 1 .. recordCounter'
          PROVE  /\ Exists(recordIdToRegistrationId[n])'
                 /\ versions'[recordIdToRegistrationId'[n]].recordId = n
      <4>1. CASE n = recordCounter + 1
        BY <4>1, <3>1
      <4>2. CASE n # recordCounter + 1
        <5>1. n \in 1 .. recordCounter
          BY <4>2 DEF TypeOK
        <5>2. recordIdToRegistrationId[n] # id
              /\ recordIdToRegistrationId[n] \in Strings
          BY <5>1 DEF RecordIndexExact, TypeOK, Strings
        <5>. QED
          BY <5>1, <5>2 DEF RecordIndexExact
      <4>. QED
        BY <4>1, <4>2
    <3>3. ASSUME NEW other \in RegistrationIds, Exists(other)'
          PROVE  /\ versions'[other].recordId \in 1 .. recordCounter'
                 /\ recordIdToRegistrationId'[versions'[other].recordId] = other
      <4>1. CASE other = id
        BY <4>1, <3>1 DEF TypeOK
      <4>2. CASE other # id
        <5>1. versions'[other] = versions[other]
          BY <4>2 DEF Strings
        <5>2. versions[other].recordId \in 1 .. recordCounter
              /\ recordIdToRegistrationId[versions[other].recordId] = other
          BY <3>3, <5>1 DEF RecordIndexExact
        <5>. QED
          BY <5>1, <5>2 DEF TypeOK
      <4>. QED
        BY <4>1, <4>2
    <3>. QED
      BY <3>2, <3>3 DEF RecordIndexExact
  <2>2. ASSUME NEW id \in Strings, NEW status \in DisputeStatuses,
               Exists(id), SetDispute(id, status)
        PROVE  RecordIndexExact'
    <3> USE <2>2, DisputeStep
    <3>1. \A other \in RegistrationIds :
            /\ Exists(other)' <=> Exists(other)
            /\ Exists(other) => versions'[other].recordId = versions[other].recordId
      <4>1. versions'[id].recordId = versions[id].recordId
        BY DEF VersionProofs
      <4>. QED
        BY <4>1 DEF Exists, Strings
    <3>2. UNCHANGED <<recordCounter, recordIdToRegistrationId>>
      BY DEF SetDispute
    <3>3. \A n \in 1 .. recordCounter : recordIdToRegistrationId[n] \in RegistrationIds
      BY DEF TypeOK
    <3>. QED
      BY <3>1, <3>2, <3>3 DEF RecordIndexExact
  <2>3. ASSUME KeepsRecords PROVE RecordIndexExact'
    BY <2>3 DEF KeepsRecords, records, RecordIndexExact, Exists
  <2>. QED
    BY <2>1, <2>2, <2>3, StepCases
<1>. QED
  BY <1>1, <1>2, TypeCorrect, PTL DEF Spec

\* The strengthening precedence needs: no proof carries a block number beyond
\* the current block, so a new record, the last in number, is the last in time.
BlocksBounded ==
    \A id \in RegistrationIds :
      Exists(id) => versions[id].blockNumber <= blockNumber

\* Precedence with the bound on block numbers it needs.
OrderInv == RecordOrderIsBlockOrder /\ BlocksBounded

\* The record with the smaller number was mined first, whatever disputes,
\* resolutions and changes of relayer or owner happen in between.
THEOREM PrecedencePreserved == Spec => []RecordOrderIsBlockOrder
<1>1. Init => OrderInv
  BY DEF Init, OrderInv, RecordOrderIsBlockOrder, BlocksBounded, Exists, Strings
<1>2. TypeOK /\ RecordIndexExact /\ OrderInv /\ [Next]_registryVars => OrderInv'
  <2> SUFFICES ASSUME TypeOK, RecordIndexExact, OrderInv, [Next]_registryVars
               PROVE  OrderInv'
    OBVIOUS
  <2>1. ASSUME NEW sender \in Accounts, NEW id \in Strings,
               NEW sub \in Submissions, RegisterProjectVersion(sender, id, sub)
        PROVE  OrderInv'
    <3>1. /\ id \in RegistrationIds /\ UNCHANGED blockNumber
          /\ versions'[id] = NewProof(sub)
          /\ \A other \in RegistrationIds :
               other # id => versions'[other] = versions[other]
      BY <2>1, RegisterStep DEF Strings
    <3>2. /\ versions'[id].recordId = recordCounter + 1
          /\ versions'[id].blockNumber = blockNumber
      BY <3>1 DEF NewProof
    <3>3. ASSUME NEW other \in RegistrationIds, other # id, Exists(other)'
          PROVE  /\ Exists(other) /\ versions'[other] = versions[other]
                 /\ versions[other].recordId \in 1 .. recordCounter
                 /\ versions[other].blockNumber <= blockNumber
      BY <3>1, <3>3 DEF RecordIndexExact, OrderInv, BlocksBounded, Exists
    <3>4. blockNumber \in Nat /\ recordCounter \in Nat
      BY DEF TypeOK
    <3>5. BlocksBounded'
      BY <3>1, <3>2, <3>3, <3>4 DEF BlocksBounded
    <3>6. ASSUME NEW id1 \in RegistrationIds, NEW id2 \in RegistrationIds,
                 Exists(id1)', Exists(id2)',
                 versions'[id1].recordId < versions'[id2].recordId
          PROVE  versions'[id1].blockNumber <= versions'[id2].blockNumber
      <4>1. CASE id1 = id
        <5>1. id2 # id /\ versions'[id2].recordId \in 1 .. recordCounter
          BY <3>2, <3>3, <3>4, <3>6, <4>1
        <5>. QED
          BY <3>2, <3>4, <3>6, <4>1, <5>1
      <4>2. CASE id1 # id /\ id2 = id
        BY <3>2, <3>3, <3>6, <4>2
      <4>3. CASE id1 # id /\ id2 # id
        BY <3>3, <3>6, <4>3 DEF OrderInv, RecordOrderIsBlockOrder
      <4>. QED
        BY <4>1, <4>2, <4>3
    <3>. QED
      BY <3>5, <3>6 DEF OrderInv, RecordOrderIsBlockOrder
  <2>2. ASSUME NEW id \in Strings, NEW status \in DisputeStatuses,
               Exists(id), SetDispute(id, status)
        PROVE  OrderInv'
    <3>1. \A other \in RegistrationIds : Exists(other)' =>
            /\ Exists(other)
            /\ versions'[other].recordId = versions[other].recordId
            /\ versions'[other].blockNumber = versions[other].blockNumber
      <4>1. /\ versions[id] \in VersionProofs
            /\ versions'[id] = [versions[id] EXCEPT !.disputeState = status]
            /\ \A other \in Strings : other # id => versions'[other] = versions[other]
        BY <2>2, DisputeStep
      <4>2. /\ versions'[id].recordId = versions[id].recordId
            /\ versions'[id].blockNumber = versions[id].blockNumber
        BY <4>1 DEF VersionProofs
      <4>. QED
        BY <2>2, <4>1, <4>2 DEF Exists, Strings
    <3>2. UNCHANGED blockNumber
      BY <2>2 DEF SetDispute
    <3>. QED
      BY <3>1, <3>2 DEF OrderInv, RecordOrderIsBlockOrder, BlocksBounded
  <2>3. ASSUME KeepsRecords, blockNumber' \in Nat, blockNumber' >= blockNumber
        PROVE  OrderInv'
    <3>1. \A id \in RegistrationIds :
            Exists(id) => versions[id].blockNumber \in Nat
      BY DEF TypeOK, Exists, VersionProofs, Strings
    <3>2. versions' = versions
      BY <2>3 DEF KeepsRecords, records
    <3>. QED
      BY <2>3, <3>1, <3>2
         DEF TypeOK, OrderInv, RecordOrderIsBlockOrder, BlocksBounded, Exists
  <2>. QED
    BY <2>1, <2>2, <2>3, StepCases
<1>. QED
  BY <1>1, <1>2, TypeCorrect, IndexCorrect, PTL DEF Spec, OrderInv

\* The contract implements the write-once ledger: for every sequence of
\* transactions, what is registered under an identifier stays as it was mined.
THEOREM ImplementsLedger == Spec => LedgerImplemented
<1> DEFINE Mapped == [id \in RegistrationIds |->
                        IF Exists(id) THEN Immutable(versions[id]) ELSE NoProof]
<1>1. Init => Ledger!Init
  BY DEF Init, Ledger!Init, Exists, Strings
<1>2. TypeOK /\ [Next]_registryVars => [Ledger!Next]_Mapped
  <2> SUFFICES ASSUME TypeOK, [Next]_registryVars
               PROVE  [Ledger!Next]_Mapped
    OBVIOUS
  <2>1. ASSUME NEW sender \in Accounts, NEW id \in Strings,
               NEW sub \in Submissions, RegisterProjectVersion(sender, id, sub)
        PROVE  Ledger!Anchor(id) /\ id \in RegistrationIds
    <3>1. /\ id \in RegistrationIds /\ ~Exists(id)
          /\ versions'[id] = NewProof(sub) /\ versions'[id] # NoProof
          /\ \A other \in RegistrationIds :
               other # id => versions'[other] = versions[other]
      BY <2>1, RegisterStep DEF Strings
    <3>2. Mapped[id] = NoProof
      BY <3>1
    <3>3. Immutable(NewProof(sub)) \in LedgerContents
      BY DEF Immutable, NewProof, LedgerContents, TypeOK
    <3>4. Mapped' = [Mapped EXCEPT ![id] = Immutable(NewProof(sub))]
      BY <3>1 DEF Exists
    <3>5. Mapped'[id] = Immutable(NewProof(sub))
      BY <3>1, <3>4
    <3>. QED
      BY <3>1, <3>2, <3>3, <3>4, <3>5 DEF Ledger!Anchor
  <2>2. ASSUME NEW id \in Strings, NEW status \in DisputeStatuses,
               Exists(id), SetDispute(id, status)
        PROVE  UNCHANGED Mapped
    <3>1. /\ versions[id] \in VersionProofs /\ versions'[id] # NoProof
          /\ versions'[id] = [versions[id] EXCEPT !.disputeState = status]
          /\ \A other \in Strings : other # id => versions'[other] = versions[other]
      BY <2>2, DisputeStep
    <3>2. Immutable(versions'[id]) = Immutable(versions[id])
      BY <3>1 DEF Immutable, VersionProofs
    <3>. QED
      BY <2>2, <3>1, <3>2 DEF Exists, Strings
  <2>3. ASSUME KeepsRecords PROVE UNCHANGED Mapped
    BY <2>3 DEF KeepsRecords, records, Exists
  <2>. QED
    BY <2>1, <2>2, <2>3, StepCases DEF Ledger!Next
<1>. QED
  BY <1>1, <1>2, TypeCorrect, PTL DEF Spec, LedgerImplemented, Ledger!Spec

-----------------------------------------------------------------------------
(* The log of events.                                                      *)

\* The names of the events.
EventNames == {"ProjectVersionRegistered", "DisputeLogged", "DisputeResolved",
               "RelayerUpdated", "OwnershipTransferStarted", "OwnershipTransferred"}

\* The entries of the log.
Events == [name : EventNames, by : Addresses, id : Strings,
           value : Nat \cup Addresses \cup DisputeStatuses]

\* The log starts with the two events of the constructor.
LogTyped == log \in Seq(Events) /\ Len(log) >= 2

\* The storage has an owner and a relayer; the log knows them.
AuthorityFollowsLog ==
    \A i \in Nat : i = Len(log) + 1 => OwnerBefore(i) = owner /\ RelayerBefore(i) = relayer

\* The invariant behind LogShowsEntitlement.
AuthorityInv == LogTyped /\ AuthorityFollowsLog /\ WritersWereEntitled

\* No dispute is logged of an identifier that is not registered.
DisputesNameRecords ==
    \A i \in 1 .. Len(log) :
      log[i].name \in {"DisputeLogged", "DisputeResolved"} =>
        log[i].id \in RegistrationIds /\ Exists(log[i].id)

\* The invariant behind LogShowsStorage.
StorageInv == StorageFollowsLog /\ DisputesNameRecords

\* A set of numbers up to n that is not empty has a greatest member: n minus
\* that member is the least of the differences.
LEMMA GreatestMember ==
    ASSUME NEW n \in Nat, NEW S \in SUBSET (1 .. n), S # {}
    PROVE  Max(S) \in S /\ \A k \in S : k <= Max(S)
<1> DEFINE D == {d \in Nat : n - d \in S}
<1>1. PICK k \in S : TRUE
  OBVIOUS
<1>2. n - k \in Nat /\ n - (n - k) = k
  BY <1>1
<1>3. n - k \in D
  BY <1>1, <1>2
<1>4. D \subseteq Nat /\ D # {}
  BY <1>3
<1> HIDE DEF D
<1>5. PICK d \in D : \A c \in D : <<c, d>> \notin OpToRel(<, Nat)
  BY <1>4, NatLessThanWellFounded, WFMin
<1>6. \A c \in D : ~(c < d)
  BY <1>4, <1>5 DEF OpToRel
<1> USE DEF D
<1>7. n - d \in S /\ d \in Nat
  BY <1>5
<1>8. ASSUME NEW j \in S PROVE j <= n - d
  <2>1. n - j \in Nat /\ n - (n - j) = j
    OBVIOUS
  <2>2. n - j \in D
    BY <2>1
  <2>. QED
    BY <1>6, <1>7, <2>1, <2>2
<1>9. \E x \in S : \A y \in S : x >= y
  BY <1>7, <1>8
<1>. QED
  BY <1>9 DEF Max

\* The last of some positions and a later one is the later one.
LEMMA LaterIsGreatest ==
    ASSUME NEW n \in Nat, NEW S \in SUBSET (1 .. n)
    PROVE  Max(S \cup {n + 1}) = n + 1
<1>1. S \cup {n + 1} \in SUBSET (1 .. n + 1) /\ S \cup {n + 1} # {}
  OBVIOUS
<1>2. Max(S \cup {n + 1}) \in S \cup {n + 1} /\ n + 1 <= Max(S \cup {n + 1})
  <2>1. n + 1 \in Nat /\ n + 1 \in S \cup {n + 1}
    OBVIOUS
  <2>. QED
    BY <1>1, <2>1, GreatestMember
<1>3. PICK m : m = Max(S \cup {n + 1})
  OBVIOUS
<1>4. m \in S => m \in 1 .. n
  OBVIOUS
<1>5. m = n + 1
  BY <1>2, <1>3, <1>4
<1>. QED
  BY <1>3, <1>5

\* What an appended event does to the value of the last event of a kind.
LEMMA LastValueAppended ==
    ASSUME NEW s \in Seq(Events), NEW e \in Events, NEW default,
           NEW S \in SUBSET (1 .. Len(s))
    PROVE  /\ LastValue(Append(s, e), S, default) = LastValue(s, S, default)
           /\ LastValue(Append(s, e), S \cup {Len(s) + 1}, default) = e.value
<1>1. Len(s) \in Nat
  OBVIOUS
<1>2. LastValue(Append(s, e), S \cup {Len(s) + 1}, default) = e.value
  <2>1. Max(S \cup {Len(s) + 1}) = Len(s) + 1
    BY <1>1, LaterIsGreatest
  <2>2. Append(s, e)[Len(s) + 1] = e
    OBVIOUS
  <2>3. S \cup {Len(s) + 1} # {}
    OBVIOUS
  <2>. QED
    BY <2>1, <2>2, <2>3 DEF LastValue
<1>3. LastValue(Append(s, e), S, default) = LastValue(s, S, default)
  <2>1. S # {} => Max(S) \in 1 .. Len(s)
    BY <1>1, GreatestMember
  <2>2. S # {} => Append(s, e)[Max(S)] = s[Max(S)]
    BY <2>1
  <2>. QED
    BY <2>2 DEF LastValue
<1>. QED
  BY <1>2, <1>3

\* The positions of the events of a kind, in a log and in the longer one.
LEMMA Appended ==
    ASSUME LogTyped, NEW e \in Events, log' = Append(log, e)
    PROVE  /\ Len(log) \in Nat /\ Len(log') = Len(log) + 1
           /\ log'[Len(log) + 1] = e
           /\ \A k \in 1 .. Len(log) : log'[k] = log[k] /\ log[k] \in Events
           /\ LogTyped'
  BY DEF LogTyped

\* The contract with its log is the contract.
LEMMA EventsStepIsStep ==
    ASSUME [EventsNext]_logVars
    PROVE  [Next]_registryVars
<1>1. ASSUME NEW sender \in Accounts, LoggedAdminister(sender)
      PROVE  Administer(sender)
  BY <1>1 DEF LoggedAdminister, Administer
<1>. QED
  BY <1>1 DEF EventsNext, LoggedRegister, LoggedRaise, LoggedResolve, Next, logVars

\* Every theorem about the contract holds of the contract with its log.
THEOREM EventsRefineRegistry == EventsSpec => Spec
<1>1. EventsInit => Init
  BY DEF EventsInit
<1>2. [EventsNext]_logVars => [Next]_registryVars
  BY EventsStepIsStep
<1>. QED
  BY <1>1, <1>2, PTL DEF EventsSpec, Spec

\* What an event says of the call that emitted it: who was entitled to make
\* it, and what it wrote.
Entitled(e) ==
    /\ e.name = "ProjectVersionRegistered" => e.by \in {owner, relayer}
    /\ e.name \in {"DisputeResolved", "RelayerUpdated", "OwnershipTransferStarted"} =>
         e.by = owner

\* Owner and relayer after the call that logs e.
ChangesAuthority(e) ==
    /\ owner' = IF e.name = "OwnershipTransferred" THEN e.value ELSE owner
    /\ relayer' = IF e.name = "RelayerUpdated" THEN e.value ELSE relayer

\* The records after the call that logs e.
ChangesRecords(e) ==
    \/ /\ e.name = "ProjectVersionRegistered" /\ e.value = recordCounter + 1
       /\ \E sender \in Accounts, sub \in Submissions :
            RegisterProjectVersion(sender, e.id, sub)
    \/ /\ e.name \in {"DisputeLogged", "DisputeResolved"}
       /\ Exists(e.id) /\ e.value \in DisputeStatuses /\ SetDispute(e.id, e.value)
    \/ /\ e.name \notin {"ProjectVersionRegistered", "DisputeLogged", "DisputeResolved"}
       /\ KeepsRecords

\* An administrative call names the new owner or relayer in its event.
LEMMA AdministerEvent ==
    ASSUME TypeOK, NEW sender \in Accounts, LoggedAdminister(sender)
    PROVE  \E e \in Events :
             /\ log' = Append(log, e)
             /\ Entitled(e) /\ ChangesAuthority(e) /\ ChangesRecords(e)
<1>1. sender \in Addresses /\ ZeroAddress \in Addresses /\ EmptyString \in Strings
  BY DEF Addresses, Strings
<1>2. ASSUME NEW account \in Addresses, SetRelayer(sender, account),
             Emit(Event("RelayerUpdated", sender, EmptyString, account))
      PROVE  \E e \in Events :
               /\ log' = Append(log, e)
               /\ Entitled(e) /\ ChangesAuthority(e) /\ ChangesRecords(e)
  <2> DEFINE e == Event("RelayerUpdated", sender, EmptyString, account)
  <2>1. e \in Events /\ e.name = "RelayerUpdated" /\ e.by = sender /\ e.value = account
    BY <1>1 DEF Event, Events, EventNames
  <2>2. log' = Append(log, e)
    BY <1>2 DEF Emit
  <2> HIDE DEF e
  <2>3. Entitled(e) /\ ChangesAuthority(e) /\ ChangesRecords(e)
    BY <1>2, <2>1 DEF SetRelayer, Entitled, ChangesAuthority, ChangesRecords, KeepsRecords
  <2>. QED
    BY <2>1, <2>2, <2>3
<1>3. ASSUME NEW account \in Addresses, TransferOwnership(sender, account),
             Emit(Event("OwnershipTransferStarted", sender, EmptyString, account))
      PROVE  \E e \in Events :
               /\ log' = Append(log, e)
               /\ Entitled(e) /\ ChangesAuthority(e) /\ ChangesRecords(e)
  <2> DEFINE e == Event("OwnershipTransferStarted", sender, EmptyString, account)
  <2>1. e \in Events /\ e.name = "OwnershipTransferStarted" /\ e.by = sender
    BY <1>1 DEF Event, Events, EventNames
  <2>2. log' = Append(log, e)
    BY <1>3 DEF Emit
  <2> HIDE DEF e
  <2>3. Entitled(e) /\ ChangesAuthority(e) /\ ChangesRecords(e)
    BY <1>3, <2>1 DEF TransferOwnership, Entitled, ChangesAuthority, ChangesRecords,
       KeepsRecords
  <2>. QED
    BY <2>1, <2>2, <2>3
<1>4. ASSUME NEW new \in Addresses, AcceptOwnership(sender) \/ RenounceOwnership(sender),
             owner' = new, Emit(Event("OwnershipTransferred", sender, EmptyString, new))
      PROVE  \E e \in Events :
               /\ log' = Append(log, e)
               /\ Entitled(e) /\ ChangesAuthority(e) /\ ChangesRecords(e)
  <2> DEFINE e == Event("OwnershipTransferred", sender, EmptyString, new)
  <2>1. e \in Events /\ e.name = "OwnershipTransferred" /\ e.by = sender /\ e.value = new
    BY <1>1 DEF Event, Events, EventNames
  <2>2. log' = Append(log, e)
    BY <1>4 DEF Emit
  <2> HIDE DEF e
  <2>3. Entitled(e) /\ ChangesAuthority(e) /\ ChangesRecords(e)
    BY <1>4, <2>1 DEF AcceptOwnership, RenounceOwnership, Entitled, ChangesAuthority,
       ChangesRecords, KeepsRecords
  <2>. QED
    BY <2>1, <2>2, <2>3
<1>. QED
  BY <1>1, <1>2, <1>3, <1>4 DEF LoggedAdminister, AcceptOwnership, RenounceOwnership

\* A call of the record functions names the identifier and what it wrote.
LEMMA RecordEvent ==
    ASSUME TypeOK, NEW sender \in Accounts, NEW id \in Strings,
           \/ \E sub \in Submissions : LoggedRegister(sender, id, sub)
           \/ \E evidence : LoggedRaise(sender, id, evidence)
           \/ \E status \in DisputeStatuses : LoggedResolve(sender, id, status)
    PROVE  \E e \in Events :
             /\ log' = Append(log, e)
             /\ Entitled(e) /\ ChangesAuthority(e) /\ ChangesRecords(e)
<1>1. sender \in Addresses /\ recordCounter + 1 \in Nat /\ "OPEN" \in DisputeStatuses
  BY DEF Addresses, TypeOK, DisputeStatuses
<1>2. CASE \E sub \in Submissions : LoggedRegister(sender, id, sub)
  <2> DEFINE e == Event("ProjectVersionRegistered", sender, id, recordCounter + 1)
  <2>1. /\ e \in Events /\ e.name = "ProjectVersionRegistered" /\ e.by = sender
        /\ e.id = id /\ e.value = recordCounter + 1
    BY <1>1 DEF Event, Events, EventNames
  <2>2. log' = Append(log, e)
    BY <1>2 DEF LoggedRegister, Emit
  <2> HIDE DEF e
  <2>3. PICK sub \in Submissions : RegisterProjectVersion(sender, id, sub)
    BY <1>2 DEF LoggedRegister
  <2>4. sender \in {relayer, owner} /\ UNCHANGED <<owner, relayer>>
    BY <2>3 DEF RegisterProjectVersion, WriteProof, authority
  <2>5. Entitled(e) /\ ChangesAuthority(e)
    BY <2>1, <2>4 DEF Entitled, ChangesAuthority
  <2>6. ChangesRecords(e)
    BY <2>1, <2>3 DEF ChangesRecords
  <2>. QED
    BY <2>1, <2>2, <2>5, <2>6
<1>3. ASSUME NEW name \in {"DisputeLogged", "DisputeResolved"},
             NEW status \in DisputeStatuses, Exists(id), SetDispute(id, status),
             name = "DisputeResolved" => sender = owner,
             Emit(Event(name, sender, id, status))
      PROVE  \E e \in Events :
               /\ log' = Append(log, e)
               /\ Entitled(e) /\ ChangesAuthority(e) /\ ChangesRecords(e)
  <2> DEFINE e == Event(name, sender, id, status)
  <2>1. /\ e \in Events /\ e.name = name /\ e.by = sender
        /\ e.id = id /\ e.value = status
    BY <1>1 DEF Event, Events, EventNames
  <2>2. log' = Append(log, e)
    BY <1>3 DEF Emit
  <2> HIDE DEF e
  <2>3. UNCHANGED <<owner, relayer>>
    BY <1>3 DEF SetDispute, authority
  <2>4. Entitled(e) /\ ChangesAuthority(e)
    BY <1>3, <2>1, <2>3 DEF Entitled, ChangesAuthority
  <2>5. ChangesRecords(e)
    BY <1>3, <2>1 DEF ChangesRecords
  <2>. QED
    BY <2>1, <2>2, <2>4, <2>5
<1>. QED
  BY <1>1, <1>2, <1>3 DEF LoggedRaise, RaiseDispute, LoggedResolve, ResolveDispute

\* A step of the contract with its log emits one event that says what was
\* called, or leaves log, authority and records alone.
LEMMA EventCases ==
    ASSUME TypeOK, [EventsNext]_logVars
    PROVE  \/ UNCHANGED log /\ UNCHANGED <<owner, relayer>> /\ KeepsRecords
           \/ \E e \in Events :
                /\ log' = Append(log, e)
                /\ Entitled(e) /\ ChangesAuthority(e) /\ ChangesRecords(e)
<1>1. CASE MineBlock /\ UNCHANGED log
  BY <1>1 DEF MineBlock, authority, KeepsRecords
<1>2. CASE UNCHANGED logVars
  BY <1>2 DEF logVars, registryVars, authority, KeepsRecords
<1>. QED
  BY <1>1, <1>2, AdministerEvent, RecordEvent DEF EventsNext

\* An appended event changes what was true before an earlier position of the
\* log in no way.
LEMMA BeforeKept ==
    ASSUME LogTyped, NEW e \in Events, log' = Append(log, e),
           NEW i \in 1 .. Len(log) + 1
    PROVE  OwnerBefore(i)' = OwnerBefore(i) /\ RelayerBefore(i)' = RelayerBefore(i)
<1> DEFINE O == {k \in 1 .. i - 1 : log[k].name = "OwnershipTransferred"}
           R == {k \in 1 .. i - 1 : log[k].name = "RelayerUpdated"}
<1>1. Len(log) \in Nat /\ log \in Seq(Events)
  BY DEF LogTyped
<1>2. O \in SUBSET (1 .. Len(log)) /\ R \in SUBSET (1 .. Len(log))
  BY <1>1
<1>3. \A k \in 1 .. i - 1 : log'[k] = log[k]
  BY <1>1, Appended
<1>4. O' = O /\ R' = R
  BY <1>3
<1>5. /\ OwnerBefore(i) = LastValue(log, O, ZeroAddress)
      /\ OwnerBefore(i)' = LastValue(log', O', ZeroAddress)
      /\ RelayerBefore(i) = LastValue(log, R, ZeroAddress)
      /\ RelayerBefore(i)' = LastValue(log', R', ZeroAddress)
  BY DEF OwnerBefore, RelayerBefore
<1> HIDE DEF O, R
<1>. QED
  BY <1>1, <1>2, <1>4, <1>5, LastValueAppended

\* After it, the owner and the relayer are those the event names, if it names
\* one.
LEMMA AfterAppended ==
    ASSUME LogTyped, NEW e \in Events, log' = Append(log, e),
           NEW n \in Nat, n = Len(log) + 1
    PROVE  /\ OwnerBefore(n + 1)' =
                IF e.name = "OwnershipTransferred" THEN e.value ELSE OwnerBefore(n)
           /\ RelayerBefore(n + 1)' =
                IF e.name = "RelayerUpdated" THEN e.value ELSE RelayerBefore(n)
<1> DEFINE O == {k \in 1 .. n - 1 : log[k].name = "OwnershipTransferred"}
           R == {k \in 1 .. n - 1 : log[k].name = "RelayerUpdated"}
           O2 == {k \in 1 .. n : log'[k].name = "OwnershipTransferred"}
           R2 == {k \in 1 .. n : log'[k].name = "RelayerUpdated"}
<1>1. Len(log) \in Nat /\ log \in Seq(Events) /\ (n + 1) - 1 = n /\ n - 1 = Len(log)
  BY DEF LogTyped
<1>2. O \in SUBSET (1 .. Len(log)) /\ R \in SUBSET (1 .. Len(log))
  BY <1>1
<1>3. log'[n] = e /\ \A k \in 1 .. n - 1 : log'[k] = log[k]
  BY <1>1, Appended
<1>4. /\ O2 = IF e.name = "OwnershipTransferred" THEN O \cup {n} ELSE O
      /\ R2 = IF e.name = "RelayerUpdated" THEN R \cup {n} ELSE R
  <2>1. \A k : k \in 1 .. n <=> k \in 1 .. n - 1 \/ k = n
    BY <1>1
  <2>2. \A k \in 1 .. n - 1 : k # n
    BY <1>1
  <2>. QED
    BY <1>3, <2>1, <2>2
<1>5. /\ OwnerBefore(n) = LastValue(log, O, ZeroAddress)
      /\ OwnerBefore(n + 1)' = LastValue(log', O2, ZeroAddress)
      /\ RelayerBefore(n) = LastValue(log, R, ZeroAddress)
      /\ RelayerBefore(n + 1)' = LastValue(log', R2, ZeroAddress)
  BY <1>1 DEF OwnerBefore, RelayerBefore
<1> HIDE DEF O, R, O2, R2
<1>. QED
  BY <1>1, <1>2, <1>4, <1>5, LastValueAppended

\* The constructor names the owner and the relayer.
LEMMA AuthorityInit == EventsInit => AuthorityInv
<1> SUFFICES ASSUME EventsInit PROVE AuthorityInv
  OBVIOUS
<1> DEFINE e == Event("OwnershipTransferred", ZeroAddress, EmptyString, InitialOwner)
           f == Event("RelayerUpdated", ZeroAddress, EmptyString, InitialRelayer)
<1>1. log = <<e, f>> /\ owner = InitialOwner /\ relayer = InitialRelayer
  BY DEF EventsInit, Init
<1>2. /\ e \in Events /\ e.name = "OwnershipTransferred" /\ e.value = InitialOwner
      /\ f \in Events /\ f.name = "RelayerUpdated" /\ f.value = InitialRelayer
  BY RegistryAssumption DEF Event, Events, EventNames, Addresses, Strings
<1> HIDE DEF e, f
<1>3. /\ log \in Seq(Events) /\ Len(log) = 2 /\ log[1] = e /\ log[2] = f
  BY <1>1, <1>2
<1>4. \A k : k \in 1 .. 2 <=> k = 1 \/ k = 2
  OBVIOUS
<1>5. {k \in 1 .. 2 : log[k].name = "OwnershipTransferred"} = {1}
  BY <1>2, <1>3, <1>4
<1>6. {k \in 1 .. 2 : log[k].name = "RelayerUpdated"} = {2}
  BY <1>2, <1>3, <1>4
<1>7. Max({1}) = 1 /\ Max({2}) = 2
  BY DEF Max
<1>8. /\ LastValue(log, {1}, ZeroAddress) = InitialOwner
      /\ LastValue(log, {2}, ZeroAddress) = InitialRelayer
  BY <1>2, <1>3, <1>7 DEF LastValue
<1>9. ASSUME NEW i \in Nat, i = Len(log) + 1
      PROVE  OwnerBefore(i) = owner /\ RelayerBefore(i) = relayer
  <2>1. i - 1 = 2
    BY <1>3, <1>9
  <2>. QED
    BY <1>1, <1>5, <1>6, <1>8, <2>1 DEF OwnerBefore, RelayerBefore
<1>10. WritersWereEntitled
  BY <1>2, <1>3, <1>4 DEF WritersWereEntitled
<1>. QED
  BY <1>3, <1>9, <1>10 DEF AuthorityInv, LogTyped, AuthorityFollowsLog

\* An event that the owner or relayer of the day was entitled to keeps the log
\* in step with the storage.
LEMMA AuthorityAppended ==
    ASSUME AuthorityInv, NEW e \in Events, log' = Append(log, e),
           Entitled(e), ChangesAuthority(e)
    PROVE  AuthorityInv'
<1>1. /\ Len(log) \in Nat /\ Len(log) >= 2 /\ Len(log') = Len(log) + 1
      /\ log'[Len(log) + 1] = e
      /\ \A k \in 1 .. Len(log) : log'[k] = log[k]
      /\ LogTyped /\ LogTyped'
  BY Appended DEF AuthorityInv, LogTyped
<1>2. PICK n \in Nat : n = Len(log) + 1
  BY <1>1
<1>3. OwnerBefore(n) = owner /\ RelayerBefore(n) = relayer
  BY <1>2 DEF AuthorityInv, AuthorityFollowsLog
<1>4. ASSUME NEW i \in Nat, i = Len(log') + 1
      PROVE  OwnerBefore(i)' = owner' /\ RelayerBefore(i)' = relayer'
  <2>1. i = n + 1
    BY <1>1, <1>2, <1>4
  <2>2. OwnerBefore(n + 1)' = owner' /\ RelayerBefore(n + 1)' = relayer'
    BY <1>1, <1>2, <1>3, AfterAppended DEF ChangesAuthority
  <2>. QED
    BY <2>1, <2>2
<1>5. ASSUME NEW i \in 1 .. n
      PROVE  /\ log'[i].name = "ProjectVersionRegistered" =>
                  log'[i].by \in {OwnerBefore(i)', RelayerBefore(i)'}
             /\ log'[i].name = "DisputeResolved" => log'[i].by = OwnerBefore(i)'
             /\ log'[i].name \in {"RelayerUpdated", "OwnershipTransferStarted"} /\ i > 2 =>
                  log'[i].by = OwnerBefore(i)'
  <2>1. OwnerBefore(i)' = OwnerBefore(i) /\ RelayerBefore(i)' = RelayerBefore(i)
    BY <1>1, <1>2, BeforeKept
  <2>2. CASE i = n
    BY <1>1, <1>2, <1>3, <2>1, <2>2 DEF Entitled
  <2>3. CASE i # n
    <3>1. i \in 1 .. Len(log) /\ log'[i] = log[i]
      BY <1>1, <1>2, <2>3
    <3>. QED
      BY <2>1, <3>1 DEF AuthorityInv, WritersWereEntitled
  <2>. QED
    BY <2>2, <2>3
<1>6. WritersWereEntitled'
  BY <1>1, <1>2, <1>5 DEF WritersWereEntitled
<1>7. AuthorityFollowsLog'
  BY <1>4 DEF AuthorityFollowsLog
<1>. QED
  BY <1>1, <1>6, <1>7 DEF AuthorityInv

\* The types hold of the contract with its log.
LEMMA EventsTyped == EventsSpec => [](TypeOK /\ RecordIndexExact)
  BY EventsRefineRegistry, TypeCorrect, IndexCorrect, PTL

\* The authority part holds in every reachable state.
LEMMA AuthorityInvariant == EventsSpec => []AuthorityInv
<1>1. ASSUME TypeOK, AuthorityInv, [EventsNext]_logVars PROVE AuthorityInv'
  <2>1. CASE UNCHANGED log /\ UNCHANGED <<owner, relayer>>
    BY <1>1, <2>1 DEF AuthorityInv, LogTyped, AuthorityFollowsLog, WritersWereEntitled,
       OwnerBefore, RelayerBefore
  <2>. QED
    BY <1>1, <2>1, EventCases, AuthorityAppended
<1>. QED
  BY <1>1, AuthorityInit, EventsTyped, PTL DEF EventsSpec

\* Judged from the log alone, every registration was sent by the relayer or the
\* owner of the day and every ruling and every appointment by the owner of the
\* day, however often either was replaced (ProjectRegistry.sol:90-100, :122).
THEOREM LogShowsEntitlement == EventsSpec => []WritersWereEntitled
<1>1. AuthorityInv => WritersWereEntitled
  BY DEF AuthorityInv
<1>. QED
  BY <1>1, AuthorityInvariant, PTL

\* A registration is the next in the log and the next in the storage.
LEMMA RegistrationLogged ==
    ASSUME TypeOK, RecordIndexExact, LogTyped, StorageInv, NEW e \in Events,
           log' = Append(log, e), e.name = "ProjectVersionRegistered",
           e.value = recordCounter + 1, NEW sender \in Accounts, NEW sub \in Submissions,
           RegisterProjectVersion(sender, e.id, sub)
    PROVE  StorageInv'
<1> DEFINE id == e.id
           n == Len(log) + 1
           Rank(i) == {j \in Registrations : j <= i}
<1>1. /\ Len(log) \in Nat /\ Len(log') = n /\ log'[n] = e
      /\ \A k \in 1 .. Len(log) : log'[k] = log[k] /\ k # n /\ k < n
      /\ \A k : k \in 1 .. n <=> k \in 1 .. Len(log) \/ k = n
  BY Appended
<1>2. /\ id \in RegistrationIds /\ id \in Strings /\ ~Exists(id)
      /\ recordCounter' = recordCounter + 1
      /\ versions'[id] = NewProof(sub) /\ versions'[id] # NoProof
      /\ \A other \in Strings : other # id => versions'[other] = versions[other]
      /\ recordIdToRegistrationId'[recordCounter + 1] = id
      /\ \A k \in 1 .. recordCounter :
           recordIdToRegistrationId'[k] = recordIdToRegistrationId[k]
  <2>1. e.id \in Strings
    BY DEF Events
  <2>. QED
    BY <2>1, RegisterStep
<1>3. versions'[id].recordId = recordCounter + 1 /\ versions'[id].disputeState = "NONE"
  BY <1>2 DEF NewProof
<1>4. /\ Registrations' = Registrations \cup {n}
      /\ n \notin Registrations /\ IsFiniteSet(Registrations)
      /\ \A i \in Registrations : i \in 1 .. Len(log)
  <2>1. Registrations \subseteq 1 .. Len(log)
    BY DEF Registrations
  <2>2. IsFiniteSet(1 .. Len(log))
    BY <1>1, FS_Interval
  <2>3. IsFiniteSet(Registrations)
    BY <2>1, <2>2, FS_Subset
  <2>4. Registrations' = Registrations \cup {n}
    BY <1>1 DEF Registrations
  <2>. QED
    BY <1>1, <2>1, <2>3, <2>4
<1>5. /\ Cardinality(Registrations) = recordCounter /\ recordCounter \in Nat
      /\ Cardinality(Registrations') = recordCounter + 1
  <2>1. Cardinality(Registrations) = recordCounter
    BY DEF StorageInv, StorageFollowsLog
  <2>. QED
    BY <1>4, <2>1, FS_AddElement DEF TypeOK
<1>6. ASSUME NEW i \in Registrations'
      PROVE  /\ log'[i].value = Cardinality({j \in Registrations' : j <= i})
             /\ recordIdToRegistrationId'[log'[i].value] = log'[i].id
             /\ versions'[log'[i].id].recordId = log'[i].value
  <2>1. CASE i = n
    <3>1. {j \in Registrations' : j <= i} = Registrations'
      <4>1. ASSUME NEW j \in Registrations'
            PROVE  j <= i
        <5>1. CASE j = n
          BY <1>1, <2>1, <5>1
        <5>2. CASE j \in Registrations
          <6>1. j \in 1 .. Len(log)
            BY <1>4, <5>2
          <6>. QED
            BY <1>1, <2>1, <6>1
        <5>. QED
          BY <1>4, <5>1, <5>2
      <4>. QED
        BY <4>1
    <3>. QED
      BY <1>1, <1>2, <1>3, <1>5, <2>1, <3>1
  <2>2. CASE i # n
    <3>1. i \in Registrations /\ log'[i] = log[i]
      BY <1>1, <1>4, <2>2
    <3>2. {j \in Registrations' : j <= i} = Rank(i)
      BY <1>1, <1>4, <3>1
    <3>3. /\ log[i].value = Cardinality(Rank(i))
          /\ recordIdToRegistrationId[log[i].value] = log[i].id
          /\ versions[log[i].id].recordId = log[i].value
      BY <3>1 DEF StorageInv, StorageFollowsLog
    <3>4. log[i].value \in 1 .. recordCounter
      <4>1. i \in Rank(i) /\ Rank(i) \subseteq Registrations
        BY <1>4, <3>1
      <4>2. /\ IsFiniteSet(Rank(i))
            /\ Cardinality(Rank(i)) <= Cardinality(Registrations)
        BY <1>4, <4>1, FS_Subset
      <4>3. Cardinality(Rank(i)) \in Nat /\ Cardinality(Rank(i)) # 0
        BY <4>1, <4>2, FS_CardinalityType, FS_EmptySet
      <4>. QED
        BY <1>5, <3>3, <4>2, <4>3
    <3>5. log[i].id \in RegistrationIds /\ Exists(log[i].id)
      BY <3>3, <3>4 DEF RecordIndexExact, TypeOK
    <3>6. versions'[log[i].id] = versions[log[i].id]
      BY <1>2, <3>5 DEF Strings
    <3>. QED
      BY <1>2, <3>1, <3>2, <3>3, <3>4, <3>6
  <2>. QED
    BY <2>1, <2>2
<1>7. ASSUME NEW other \in RegistrationIds, Exists(other)'
      PROVE  versions'[other].disputeState = LastValue(log', DisputeEvents(other)', "NONE")
  <2>1. DisputeEvents(other)' = DisputeEvents(other)
        /\ DisputeEvents(other) \in SUBSET (1 .. Len(log))
    BY <1>1 DEF DisputeEvents
  <2>2. LastValue(log', DisputeEvents(other)', "NONE")
          = LastValue(log, DisputeEvents(other), "NONE")
    <3>1. log \in Seq(Events)
      BY DEF LogTyped
    <3>2. LastValue(Append(log, e), DisputeEvents(other), "NONE")
            = LastValue(log, DisputeEvents(other), "NONE")
      BY <2>1, <3>1, LastValueAppended
    <3>. QED
      BY <2>1, <3>2
  <2>3. CASE other = id
    <3>1. DisputeEvents(other) = {}
      BY <1>2, <2>3 DEF DisputeEvents, StorageInv, DisputesNameRecords
    <3>. QED
      BY <1>3, <2>2, <2>3, <3>1 DEF LastValue
  <2>4. CASE other # id
    <3>1. versions'[other] = versions[other]
      BY <1>2, <2>4 DEF Strings
    <3>2. Exists(other)
      BY <1>7, <3>1 DEF Exists
    <3>. QED
      BY <2>2, <3>1, <3>2 DEF StorageInv, StorageFollowsLog
  <2>. QED
    BY <2>3, <2>4
<1>8. StorageFollowsLog'
  BY <1>2, <1>5, <1>6, <1>7 DEF StorageFollowsLog
<1>9. DisputesNameRecords'
  <2>1. ASSUME NEW other \in RegistrationIds, Exists(other) PROVE Exists(other)'
    BY <1>2, <2>1 DEF Exists, Strings
  <2>2. ASSUME NEW i \in 1 .. Len(log'),
               log'[i].name \in {"DisputeLogged", "DisputeResolved"}
        PROVE  /\ i \in 1 .. Len(log) /\ log'[i] = log[i]
               /\ log[i].id \in RegistrationIds /\ Exists(log[i].id)
    BY <1>1, <2>2 DEF StorageInv, DisputesNameRecords
  <2>3. ASSUME NEW i \in 1 .. Len(log'),
               log'[i].name \in {"DisputeLogged", "DisputeResolved"}
        PROVE  log'[i].id \in RegistrationIds /\ versions'[log'[i].id] # NoProof
    <3>1. PICK other \in RegistrationIds : other = log[i].id
      BY <2>2, <2>3
    <3>2. versions'[other] # NoProof
      BY <2>1, <2>2, <2>3, <3>1 DEF Exists
    <3>. QED
      BY <2>2, <2>3, <3>1, <3>2 DEF Exists
  <2>. QED
    BY <2>3 DEF DisputesNameRecords, Exists
<1>. QED
  BY <1>8, <1>9 DEF StorageInv

\* A call that keeps every recordId, and the events that it emits of no
\* registration, leave the registrations where they are.
LEMMA RegistrationsKept ==
    ASSUME TypeOK, RecordIndexExact, LogTyped, StorageInv, NEW e \in Events,
           log' = Append(log, e), e.name # "ProjectVersionRegistered",
           UNCHANGED <<recordCounter, recordIdToRegistrationId>>,
           \A other \in RegistrationIds : Exists(other) =>
             versions'[other].recordId = versions[other].recordId
    PROVE  /\ Cardinality(Registrations') = recordCounter'
           /\ \A i \in Registrations' :
                /\ log'[i].value = Cardinality({j \in Registrations' : j <= i})
                /\ recordIdToRegistrationId'[log'[i].value] = log'[i].id
                /\ versions'[log'[i].id].recordId = log'[i].value
<1> DEFINE Rank(i) == {j \in Registrations : j <= i}
<1>1. /\ Len(log) \in Nat /\ Len(log') = Len(log) + 1 /\ log'[Len(log) + 1] = e
      /\ \A k \in 1 .. Len(log) : log'[k] = log[k]
      /\ \A k : k \in 1 .. Len(log) + 1 <=> k \in 1 .. Len(log) \/ k = Len(log) + 1
  BY Appended
<1>2. Registrations' = Registrations
  BY <1>1 DEF Registrations
<1>3. IsFiniteSet(Registrations) /\ Cardinality(Registrations) = recordCounter
  <2>1. IsFiniteSet(1 .. Len(log)) /\ Registrations \subseteq 1 .. Len(log)
    BY <1>1, FS_Interval DEF Registrations
  <2>. QED
    BY <2>1, FS_Subset DEF StorageInv, StorageFollowsLog
<1>4. ASSUME NEW i \in Registrations
      PROVE  /\ log'[i].value = Cardinality(Rank(i))
             /\ recordIdToRegistrationId'[log'[i].value] = log'[i].id
             /\ versions'[log'[i].id].recordId = log'[i].value
  <2>1. log'[i] = log[i]
    BY <1>1 DEF Registrations
  <2>2. /\ log[i].value = Cardinality(Rank(i))
        /\ recordIdToRegistrationId[log[i].value] = log[i].id
        /\ versions[log[i].id].recordId = log[i].value
    BY DEF StorageInv, StorageFollowsLog
  <2>3. log[i].value \in 1 .. recordCounter
    <3>1. i \in Rank(i) /\ Rank(i) \subseteq Registrations
      BY <1>1 DEF Registrations
    <3>2. /\ IsFiniteSet(Rank(i)) /\ Cardinality(Rank(i)) <= Cardinality(Registrations)
      BY <1>3, <3>1, FS_Subset
    <3>3. Cardinality(Rank(i)) \in Nat /\ Cardinality(Rank(i)) # 0
      BY <3>1, <3>2, FS_CardinalityType, FS_EmptySet
    <3>. QED
      BY <1>3, <2>2, <3>2, <3>3 DEF TypeOK
  <2>4. log[i].id \in RegistrationIds /\ Exists(log[i].id)
    BY <2>2, <2>3 DEF RecordIndexExact, TypeOK
  <2>. QED
    BY <2>1, <2>2, <2>4
<1>. QED
  BY <1>2, <1>3, <1>4

\* A dispute event carries the standing that it leaves behind.
LEMMA DisputeLogged ==
    ASSUME TypeOK, RecordIndexExact, LogTyped, StorageInv, NEW e \in Events,
           log' = Append(log, e), e.name \in {"DisputeLogged", "DisputeResolved"},
           Exists(e.id), e.value \in DisputeStatuses, SetDispute(e.id, e.value)
    PROVE  StorageInv'
<1> DEFINE id == e.id
           n == Len(log) + 1
<1>1. /\ Len(log) \in Nat /\ Len(log') = n /\ log'[n] = e
      /\ \A k \in 1 .. Len(log) : log'[k] = log[k] /\ k # n
      /\ \A k : k \in 1 .. n <=> k \in 1 .. Len(log) \/ k = n
  BY Appended
<1>2. /\ id \in RegistrationIds /\ id \in Strings
      /\ \A other \in Strings : other # id => versions'[other] = versions[other]
      /\ versions'[id] = [versions[id] EXCEPT !.disputeState = e.value]
      /\ versions[id] \in VersionProofs /\ versions'[id] # NoProof
  <2>1. e.id \in Strings
    BY DEF Events
  <2>. QED
    BY <2>1, DisputeStep
<1>3. /\ versions'[id].recordId = versions[id].recordId
      /\ versions'[id].disputeState = e.value
  BY <1>2 DEF VersionProofs
<1>4. \A other \in RegistrationIds : Exists(other) =>
        versions'[other].recordId = versions[other].recordId /\ versions'[other] # NoProof
  BY <1>2, <1>3 DEF Exists, Strings
<1>5. ASSUME NEW other \in RegistrationIds, Exists(other)'
      PROVE  versions'[other].disputeState = LastValue(log', DisputeEvents(other)', "NONE")
  <2>1. DisputeEvents(other) \in SUBSET (1 .. Len(log)) /\ log \in Seq(Events)
    BY DEF DisputeEvents, LogTyped
  <2>2. CASE other = id
    <3>1. DisputeEvents(other)' = DisputeEvents(other) \cup {n}
      BY <1>1, <2>2 DEF DisputeEvents
    <3>2. LastValue(Append(log, e), DisputeEvents(other) \cup {Len(log) + 1}, "NONE")
            = e.value
      BY <2>1, LastValueAppended
    <3>. QED
      BY <1>3, <2>2, <3>1, <3>2
  <2>3. CASE other # id
    <3>1. DisputeEvents(other)' = DisputeEvents(other)
      BY <1>1, <2>3 DEF DisputeEvents
    <3>2. versions'[other] = versions[other]
      BY <1>2, <2>3 DEF Strings
    <3>3. Exists(other)
      BY <1>5, <3>2 DEF Exists
    <3>4. LastValue(Append(log, e), DisputeEvents(other), "NONE")
            = LastValue(log, DisputeEvents(other), "NONE")
      BY <2>1, LastValueAppended
    <3>5. versions[other].disputeState = LastValue(log, DisputeEvents(other), "NONE")
      BY <3>3 DEF StorageInv, StorageFollowsLog
    <3>. QED
      BY <3>1, <3>2, <3>4, <3>5
  <2>. QED
    BY <2>2, <2>3
<1>6. StorageFollowsLog'
  <2>1. UNCHANGED <<recordCounter, recordIdToRegistrationId>>
    BY DEF SetDispute
  <2>2. /\ Cardinality(Registrations') = recordCounter'
        /\ \A i \in Registrations' :
             /\ log'[i].value = Cardinality({j \in Registrations' : j <= i})
             /\ recordIdToRegistrationId'[log'[i].value] = log'[i].id
             /\ versions'[log'[i].id].recordId = log'[i].value
    BY <1>4, <2>1, RegistrationsKept
  <2>. QED
    BY <1>5, <2>2 DEF StorageFollowsLog
<1>7. DisputesNameRecords'
  <2>1. ASSUME NEW i \in 1 .. Len(log'),
               log'[i].name \in {"DisputeLogged", "DisputeResolved"}
        PROVE  log'[i].id \in RegistrationIds /\ versions'[log'[i].id] # NoProof
    <3>1. CASE i = n
      BY <1>1, <1>2, <3>1
    <3>2. CASE i # n
      <4>1. i \in 1 .. Len(log) /\ log'[i] = log[i]
        BY <1>1, <3>2
      <4>2. log[i].id \in RegistrationIds /\ Exists(log[i].id)
        BY <2>1, <4>1 DEF StorageInv, DisputesNameRecords
      <4>. QED
        BY <1>4, <4>1, <4>2
    <3>. QED
      BY <3>1, <3>2
  <2>. QED
    BY <2>1 DEF DisputesNameRecords, Exists
<1>. QED
  BY <1>6, <1>7 DEF StorageInv

\* Administration is logged, and leaves the records alone.
LEMMA AdministrationLogged ==
    ASSUME TypeOK, RecordIndexExact, LogTyped, StorageInv, NEW e \in Events,
           log' = Append(log, e), KeepsRecords,
           e.name \notin {"ProjectVersionRegistered", "DisputeLogged", "DisputeResolved"}
    PROVE  StorageInv'
<1>1. /\ Len(log) \in Nat /\ Len(log') = Len(log) + 1 /\ log'[Len(log) + 1] = e
      /\ \A k \in 1 .. Len(log) : log'[k] = log[k]
      /\ \A k : k \in 1 .. Len(log) + 1 <=> k \in 1 .. Len(log) \/ k = Len(log) + 1
  BY Appended
<1>2. UNCHANGED <<recordCounter, versions, recordIdToRegistrationId>>
  BY DEF KeepsRecords, records
<1>3. ASSUME NEW id \in RegistrationIds, Exists(id)
      PROVE  versions[id].disputeState = LastValue(log', DisputeEvents(id)', "NONE")
  <2>1. DisputeEvents(id)' = DisputeEvents(id)
        /\ DisputeEvents(id) \in SUBSET (1 .. Len(log)) /\ log \in Seq(Events)
    BY <1>1 DEF DisputeEvents, LogTyped
  <2>2. LastValue(Append(log, e), DisputeEvents(id), "NONE")
          = LastValue(log, DisputeEvents(id), "NONE")
    BY <2>1, LastValueAppended
  <2>3. versions[id].disputeState = LastValue(log, DisputeEvents(id), "NONE")
    BY <1>3 DEF StorageInv, StorageFollowsLog
  <2>. QED
    BY <2>1, <2>2, <2>3
<1>4. /\ Cardinality(Registrations') = recordCounter'
      /\ \A i \in Registrations' :
           /\ log'[i].value = Cardinality({j \in Registrations' : j <= i})
           /\ recordIdToRegistrationId'[log'[i].value] = log'[i].id
           /\ versions'[log'[i].id].recordId = log'[i].value
  BY <1>2, RegistrationsKept
<1>5. StorageFollowsLog'
  BY <1>2, <1>3, <1>4 DEF StorageFollowsLog, Exists
<1>6. DisputesNameRecords'
  BY <1>1, <1>2 DEF StorageInv, DisputesNameRecords, Exists
<1>. QED
  BY <1>5, <1>6 DEF StorageInv

\* The log and the storage tell the same story: whoever reads only events
\* knows every record, their number and the standing of each
\* (ProjectRegistry.sol:188, :274, :303).
THEOREM LogShowsStorage == EventsSpec => []StorageFollowsLog
<1>1. EventsInit => StorageInv
  <2> SUFFICES ASSUME EventsInit PROVE StorageInv
    OBVIOUS
  <2>1. /\ Len(log) = 2 /\ log[1].name = "OwnershipTransferred"
        /\ log[2].name = "RelayerUpdated"
    BY DEF EventsInit, Event
  <2>2. \A k \in 1 .. Len(log) : k = 1 \/ k = 2
    BY <2>1
  <2>3. Registrations = {}
    BY <2>1, <2>2 DEF Registrations
  <2>4. recordCounter = 0 /\ \A id \in RegistrationIds : ~Exists(id)
    BY DEF EventsInit, Init, Exists, Strings
  <2>. QED
    BY <2>1, <2>2, <2>3, <2>4, FS_EmptySet
    DEF StorageInv, StorageFollowsLog, DisputesNameRecords
<1>2. ASSUME TypeOK, RecordIndexExact, AuthorityInv, StorageInv, [EventsNext]_logVars
      PROVE  StorageInv'
  <2>1. LogTyped
    BY <1>2 DEF AuthorityInv
  <2>2. CASE UNCHANGED log /\ KeepsRecords
    BY <1>2, <2>2 DEF KeepsRecords, records, StorageInv, StorageFollowsLog,
       DisputesNameRecords, Registrations, DisputeEvents, Exists
  <2>3. ASSUME NEW e \in Events, log' = Append(log, e), ChangesRecords(e)
        PROVE  StorageInv'
    BY <1>2, <2>1, <2>3, RegistrationLogged, DisputeLogged, AdministrationLogged
    DEF ChangesRecords
  <2>. QED
    BY <1>2, <2>2, <2>3, EventCases
<1>3. StorageInv => StorageFollowsLog
  BY DEF StorageInv
<1>. QED
  BY <1>1, <1>2, <1>3, EventsTyped, AuthorityInvariant, PTL DEF EventsSpec
=============================================================================
