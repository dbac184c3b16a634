---------------------------- MODULE MCVerification ----------------------------
(***************************************************************************)
(* Instances of Verification: a project whose owner has no wallet and one  *)
(* whose owner has, with teams of up to two.                               *)
(***************************************************************************)
EXTENDS VerificationHistory, TLC

CONSTANTS p1, p2, u1, u2

Owners == [p \in Projects |-> IF p = p1 THEN u1 ELSE u2]

\* The user without a wallet would change nothing by joining the other project.
Joining == [p \in Projects |-> IF p = p1 THEN Users ELSE {}]

\* Identifiers are interchangeable, and so are artifacts.
Symmetry == Permutations(RegistrationIds) \cup Permutations(Artifacts)
=============================================================================
