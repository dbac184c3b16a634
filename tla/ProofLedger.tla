----------------------------- MODULE ProofLedger -----------------------------
(***************************************************************************)
(* What the registry promises its users, without saying how: a write-once  *)
(* ledger.  An identifier is anchored at most once, with one content, and  *)
(* the content anchored under it never changes or disappears afterwards.   *)
(*                                                                         *)
(* ProjectRegistry (the contract) and VersionAnchoring (the database of    *)
(* the back end) both implement it, each with its own refinement mapping.  *)
(***************************************************************************)
CONSTANTS Ids,        \* registration identifiers
          Contents,   \* everything that can be anchored under one
          Absent      \* what an identifier not anchored yet maps to; no content

VARIABLE ledger

LedgerTypeOK == ledger \in [Ids -> Contents \cup {Absent}]

Init == ledger = [id \in Ids |-> Absent]

\* The content is tested for membership and not enumerated, so that Contents
\* may be infinite.
Anchor(id) ==
    /\ ledger[id] = Absent
    /\ ledger'[id] \in Contents
    /\ ledger' = [ledger EXCEPT ![id] = ledger'[id]]

Next == \E id \in Ids : Anchor(id)

Spec == Init /\ [][Next]_ledger
=============================================================================
