\* Two claims and two rulings over two versions of a project, a fault and a dispute
\* raised without the back end; the chain may mine late or never;
\* every request ends, so the instance stops.
SPECIFICATION Spec
CHECK_DEADLOCK FALSE
CONSTANTS
    p1 = p1  g1 = g1  g2 = g2  h1 = h1
    Claims = {c1, c2}
    Rulings = {q1, q2}
    Projects = {p1}
    RegistrationIds = {g1, g2}
    VersionProject <- OneProject
    VersionIndex <- Numbers
    Owner = Owner
    RelayerAccount = Owner
    ZeroAddress = ZeroAddress
    EvidenceCID = EvidenceCID
    Snapshot <- MCSnapshot
    NoDispute = NoDispute  NoProof = NoProof  NoPlan = NoPlan
    Free = Free  Empty = Empty
    MaxDirect = 1
    MaxFaults = 1
INVARIANTS
    ContractSerialisesClaims
    OutcomeAgrees
    TypeOK
    DisputeBacked
    UnderDisputeHasCause
PROPERTIES
    AdjudicationIsFinal
