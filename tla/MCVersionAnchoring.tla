-------------------------- MODULE MCVersionAnchoring --------------------------
(***************************************************************************)
(* Instances of VersionAnchoring: two projects and three requests at most. *)
(* Each set of bodies is chosen for the race it makes possible.            *)
(***************************************************************************)
EXTENDS VersionAnchoring, TLC

CONSTANTS p1, p2, x1, x2, k1

Body(project, key, stage, artifacts) ==
    [project |-> project, key |-> key, stage |-> stage,
     artifacts |-> artifacts, authorized |-> TRUE]

\* Three stages with and without artifacts in one project, two of them under one
\* key, which the other project uses as well, and a request by somebody who may
\* not create versions.
RaceBodies ==
    {Body(p1, k1, "DESIGN", {x1}), Body(p1, k1, "PROTOTYPE", {}),
     Body(p1, NoKey, "FINAL", {x2}), Body(p2, k1, "IDEA", {x2}),
     [Body(p1, NoKey, "DESIGN", {x1}) EXCEPT !.authorized = FALSE]}

\* Snapshots that grow: the second one takes an artifact of the first along.  The
\* other project may be handed the same identifier meanwhile.
GrowingBodies ==
    {Body(p1, NoKey, "IDEA", {x1}), Body(p1, NoKey, "DESIGN", {x1, x2}),
     Body(p2, NoKey, "IDEA", {x1})}

OneBody == {Body(p1, k1, "IDEA", {x1})}

\* Requests and identifiers are interchangeable; used in runs of safety
\* properties only.
Symmetry == Permutations(Requests) \cup Permutations(RegistrationIds)

OwnNames == [a \in {x1, x2} |-> a]
OneName == [a \in {x1, x2} |-> x1]
=============================================================================
