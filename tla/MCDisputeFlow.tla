---------------------------- MODULE MCDisputeFlow ----------------------------
(***************************************************************************)
(* Instances of DisputeFlow: one project with one or two versions.         *)
(***************************************************************************)
EXTENDS DisputeFlow, TLC

CONSTANTS p1, g1, g2, h1

OneProject == [g \in RegistrationIds |-> p1]
Numbers == [g \in RegistrationIds |-> IF g = g1 THEN 1 ELSE 2]

MCSnapshot == [compositeHash |-> h1, ipfsRootCID |-> EvidenceCID,
               versionIndex |-> 1, lifecycleStage |-> "IDEA",
               author |-> Owner, coAuthors |-> {}]

\* Claims are interchangeable, and so are rulings; used in runs of safety
\* properties only.
Symmetry == Permutations(Claims) \cup Permutations(Rulings)
=============================================================================
