\* A document of the repository states the property; the code violates it.
SPECIFICATION FairSpec
CHECK_DEADLOCK FALSE
CONSTANTS
    p1 = p1  p2 = p2  x1 = x1  x2 = x2  k1 = k1
    Requests = {r1}
    Bodies <- OneBody
    Projects = {p1, p2}
    Artifacts = {x1, x2}
    RegistrationIds = {g1}
    Keys = {k1}
    NoKey = NoKey
    FileNames = {x1, x2}
    FileName <- OwnNames
    Uploaded = {x1, x2}
    VolatileStorage = FALSE
    Admin = Admin  RelayerAccount = RelayerAccount  OtherAccount = OtherAccount
    ZeroAddress = ZeroAddress
    NoVersion = NoVersion  NoProof = NoProof  NoReply = NoReply  NoPlan = NoPlan
    Free = Free
    MaxFaults = 1
PROPERTIES
    AnchoredIsFinal
