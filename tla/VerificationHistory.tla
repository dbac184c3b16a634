-------------------------- MODULE VerificationHistory --------------------------
(***************************************************************************)
(* Verification with a history variable: the verdicts that a handler which *)
(* read the contract in one call would have given, at every moment since   *)
(* the question was asked.  It is set in every step and read by no action, *)
(* so it restricts nothing that Verification may do.                       *)
(***************************************************************************)
EXTENDS Verification

VARIABLE verdicts

historyVars == <<vars, verdicts>>

\* The query as it would be, had its first read been of this moment.
Undivided ==
    [version |-> query.version, row |-> query.row, record |-> query.record,
     team |-> query.team, proof |-> GetProjectVersion(query.version)]

UndividedVerdict == IsValid(Undivided, Second)

HistoryInit ==
    /\ Init
    /\ verdicts = {}

HistoryNext ==
    /\ Next
    /\ verdicts' = IF Answering' THEN verdicts \cup {UndividedVerdict'} ELSE {}

HistorySpec == HistoryInit /\ [][HistoryNext]_historyVars
-----------------------------------------------------------------------------
\* The reads are two calls (verification_service.py 204 and 229), and between
\* them a proof may be mined, disputed and ruled on; the second read is compared
\* by laxer rules than the first.  Whatever happens between them, the verdict is
\* one that reading the contract once would have given, at some moment since
\* the question was asked.
VerdictOfOneMoment ==
    Answering => IsValid(query, Second) \in verdicts
=============================================================================
