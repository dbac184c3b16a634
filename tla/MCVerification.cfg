\* Two versions and two artifacts, of an owner with a wallet and one without.
\* Every identifier may be used up with no version left to verify or to dispute.
CHECK_DEADLOCK FALSE
SPECIFICATION HistorySpec
CONSTANTS
    p1 = p1  p2 = p2  u1 = u1  u2 = u2
    Projects = {p1, p2}
    RegistrationIds = {g1, g2}
    Artifacts = {x1, x2}
    Users = {u1, u2}
    Wallets = {u2}
    OwnerOf <- Owners
    MayJoin <- Joining
    Admins = {u2}
    Platform = Platform
    ZeroAddress = ZeroAddress
    NoVersion = NoVersion  NoProof = NoProof  NoRecord = NoRecord
    NoQuery = NoQuery  EvidenceCID = EvidenceCID
    HashRefused = HashRefused
    MaxBlock = 1
INVARIANTS
    TypeOK
    HonestVersionVerifies
    ValidIsProved
    VerdictOfOneMoment
    CertifiedExactlyIfValid
SYMMETRY Symmetry
