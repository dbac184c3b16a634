------------------------------ MODULE MCRegistry ------------------------------
(***************************************************************************)
(* The contract and its event log on three accounts and two identifiers,   *)
(* one well-formed submission and one for every check that rejects a       *)
(* submission.                                                             *)
(***************************************************************************)
EXTENDS RegistryEvents, TLC

CONSTANTS a1, a2, a3, h1, c1

MCSubmission(hash, cid, index) ==
    [compositeHash |-> hash, ipfsRootCID |-> cid, versionIndex |-> index,
     lifecycleStage |-> "IDEA", author |-> a3, coAuthors |-> {a2}]

MCSubmissions == {MCSubmission(h1, c1, 1), MCSubmission(ZeroHash, c1, 1),
                  MCSubmission(h1, EmptyString, 1), MCSubmission(h1, c1, 0)}

MCAccounts == {a1, a2, a3}
MCHashes == {h1}
MCCIDs == {c1}

\* Every property is one of safety, and none tells the identifiers apart.
MCSymmetry == Permutations(RegistrationIds)
=============================================================================
