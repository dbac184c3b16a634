\* Three requests race for the indexes, the stages and a key, in two projects, with a
\* crash or a database failure at any moment; every request ends, so the instance
\* stops.
SPECIFICATION Spec
CHECK_DEADLOCK FALSE
CONSTANTS
    p1 = p1  p2 = p2  x1 = x1  x2 = x2  k1 = k1
    Requests = {r1, r2, r3}
    Bodies <- RaceBodies
    Projects = {p1, p2}
    Artifacts = {x1, x2}
    RegistrationIds = {g1, g2, g3}
    Keys = {k1}
    NoKey = NoKey
    FileNames = {x1, x2}
    FileName <- OwnNames
    Uploaded = {x1, x2}
    VolatileStorage = FALSE
    Admin = Admin  RelayerAccount = RelayerAccount  OtherAccount = OtherAccount
    ZeroAddress = ZeroAddress
    NoVersion = NoVersion  NoProof = NoProof  NoReply = NoReply  NoPlan = NoPlan
    Free = Free
    MaxFaults = 1
INVARIANTS
    TypeOK
    IndexesGapless
    StagesAdvance
    ChainFollowsVersionOrder
    KeyNamesOneVersion
SYMMETRY Symmetry
