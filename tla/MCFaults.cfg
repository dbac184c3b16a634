\* Two versions, of one project or two, sharing an artifact, two faults, an upload at
\* any moment, buffers that do not survive a crash; handlers are fair, the chain owes
\* them nothing; every request ends, so the instance stops.
SPECIFICATION FairSpec
CHECK_DEADLOCK FALSE
CONSTANTS
    p1 = p1  p2 = p2  x1 = x1  x2 = x2  k1 = k1
    Requests = {r1, r2}
    Bodies <- GrowingBodies
    Projects = {p1, p2}
    Artifacts = {x1, x2}
    RegistrationIds = {g1, g2}
    Keys = {k1}
    NoKey = NoKey
    FileNames = {x1}
    FileName <- OneName
    Uploaded = {x1}
    VolatileStorage = TRUE
    Admin = Admin  RelayerAccount = RelayerAccount  OtherAccount = OtherAccount
    ZeroAddress = ZeroAddress
    NoVersion = NoVersion  NoProof = NoProof  NoReply = NoReply  NoPlan = NoPlan
    Free = Free
    MaxFaults = 2
INVARIANTS
    AnchoredIsProved
    NoOrphanProof
PROPERTIES
    LedgerImplemented
    AnchoringSettles
