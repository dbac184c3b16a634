\* A document, comment or test of the repository states the property; the code
\* violates it.
SPECIFICATION Spec
CHECK_DEADLOCK FALSE
CONSTANTS
    p1 = p1  g1 = g1  g2 = g2  h1 = h1
    Claims = {c1, c2}
    Rulings = {q1, q2}
    Projects = {p1}
    RegistrationIds = {g1, g2}
    VersionProject <- OneProject
    VersionIndex <- Numbers
    Owner = Owner
    RelayerAccount = Owner
    ZeroAddress = ZeroAddress
    EvidenceCID = EvidenceCID
    Snapshot <- MCSnapshot
    NoDispute = NoDispute  NoProof = NoProof  NoPlan = NoPlan
    Free = Free  Empty = Empty
    MaxDirect = 0
    MaxFaults = 0
PROPERTIES
    RulingOnDisputedVersion
SYMMETRY Symmetry
