---------------------------- MODULE RegistryEvents ----------------------------
(***************************************************************************)
(* ProjectRegistry together with the log of the events it emits.  An       *)
(* indexer, a certificate verifier or an auditor reads the log and never   *)
(* the storage; what it must be able to conclude from the log is stated    *)
(* here.                                                                   *)
(***************************************************************************)
EXTENDS ProjectRegistry, Sequences, FiniteSetsExt

CONSTANT MaxEvents   \* bound on the length of the log

ASSUME EventsAssumption == MaxEvents \in Nat

VARIABLE log

logVars == <<registryVars, log>>

\* by: msg.sender; id: the registrationId, if the event has one; value: the
\* recordId, dispute status or new address the event carries.
Event(name, by, id, value) == [name |-> name, by |-> by, id |-> id, value |-> value]

Emit(event) ==
    /\ Len(log) < MaxEvents
    /\ log' = Append(log, event)

EventsInit ==
    /\ Init
    /\ log = <<Event("OwnershipTransferred", ZeroAddress, EmptyString, InitialOwner),
               Event("RelayerUpdated", ZeroAddress, EmptyString, InitialRelayer)>>

LoggedAdminister(sender) ==
    \/ \E account \in Addresses :
         \/ /\ SetRelayer(sender, account)
            /\ Emit(Event("RelayerUpdated", sender, EmptyString, account))
         \/ /\ TransferOwnership(sender, account)
            /\ Emit(Event("OwnershipTransferStarted", sender, EmptyString, account))
    \/ /\ AcceptOwnership(sender)
       /\ Emit(Event("OwnershipTransferred", sender, EmptyString, sender))
    \/ /\ RenounceOwnership(sender)
       /\ Emit(Event("OwnershipTransferred", sender, EmptyString, ZeroAddress))

LoggedRegister(sender, id, sub) ==
    /\ RegisterProjectVersion(sender, id, sub)
    /\ Emit(Event("ProjectVersionRegistered", sender, id, recordCounter + 1))

LoggedRaise(sender, id, evidenceCID) ==
    /\ RaiseDispute(id, evidenceCID)
    /\ Emit(Event("DisputeLogged", sender, id, "OPEN"))

LoggedResolve(sender, id, status) ==
    /\ ResolveDispute(sender, id, status)
    /\ Emit(Event("DisputeResolved", sender, id, status))

EventsNext ==
    \/ \E sender \in Accounts :
         \/ LoggedAdminister(sender)
         \/ \E id \in Strings :
              \/ \E sub \in Submissions : LoggedRegister(sender, id, sub)
              \/ \E evidence \in CIDs \cup {EmptyString} :
                   LoggedRaise(sender, id, evidence)
              \/ \E status \in DisputeStatuses : LoggedResolve(sender, id, status)
    \/ MineBlock /\ UNCHANGED log

EventsSpec == EventsInit /\ [][EventsNext]_logVars
-----------------------------------------------------------------------------
\* The value of the last of the events at the given positions of a log.
LastValue(events, positions, default) ==
    IF positions = {} THEN default ELSE events[Max(positions)].value

OwnerBefore(i) ==
    LastValue(log, {k \in 1 .. i - 1 : log[k].name = "OwnershipTransferred"}, ZeroAddress)
RelayerBefore(i) ==
    LastValue(log, {k \in 1 .. i - 1 : log[k].name = "RelayerUpdated"}, ZeroAddress)

Registrations == {i \in 1 .. Len(log) : log[i].name = "ProjectVersionRegistered"}
DisputeEvents(id) ==
    {i \in 1 .. Len(log) :
       log[i].name \in {"DisputeLogged", "DisputeResolved"} /\ log[i].id = id}

\* Whoever wrote to the registry was entitled to at that moment, judged from
\* the log alone: a replaced relayer, a former owner or an owner-elect that
\* has not accepted yet never appears as the sender of a registration, nor
\* anyone but the owner of the day as an adjudicator.
WritersWereEntitled ==
    \A i \in 1 .. Len(log) :
      /\ log[i].name = "ProjectVersionRegistered" =>
           log[i].by \in {OwnerBefore(i), RelayerBefore(i)}
      /\ log[i].name = "DisputeResolved" => log[i].by = OwnerBefore(i)
      /\ log[i].name \in {"RelayerUpdated", "OwnershipTransferStarted"} /\ i > 2 =>
           log[i].by = OwnerBefore(i)

\* A verifier who reads only events arrives at the storage: the n-th
\* registration is the one of record n in both indexes, counting them gives
\* totalRecords(), and the last dispute event of a proof is its standing, though
\* disputes are raised and resolved again and again by different callers.
StorageFollowsLog ==
    /\ Cardinality(Registrations) = recordCounter
    /\ \A i \in Registrations :
         LET n == log[i].value
         IN  /\ n = Cardinality({j \in Registrations : j <= i})
             /\ recordIdToRegistrationId[n] = log[i].id
             /\ versions[log[i].id].recordId = n
    /\ \A id \in RegistrationIds : Exists(id) =>
         versions[id].disputeState = LastValue(log, DisputeEvents(id), "NONE")
=============================================================================
