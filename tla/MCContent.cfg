\* Two uploads, two versions, and up to two faults of any kind.
\* Every request ends and the instance stops there.
CHECK_DEADLOCK FALSE
SPECIFICATION ContentSpec
CONSTANTS
    alice = alice  bob = bob  p1 = p1  p2 = p2  v1 = v1  w1 = w1  w2 = w2  c1 = c1  c2 = c2
    Uploads = {u1, u2}
    Snapshots = {w1, w2}
    Users <- MCUsers
    Projects <- MCProjects
    Versions <- MCVersions
    FileNames <- MCFileNames
    Chunks <- MCChunks
    ArtifactIds = {i1, i2}
    NoProject = NoProject
    NoVersion = NoVersion
    NoName = NoName
    Bodies <- MCBodies
    Admins = {}
    Members <- MCMembers
    ProjectOf <- MCProjectOf
    CleanName <- MCCleanName
    NameOrder <- MCNameOrder
    WrapNames <- MCWrapNames
    MaxChunks = 2
    Collisions = FALSE
    VolatileStorage = FALSE
    Faults = {"read", "write", "commit", "refresh", "crash"}
    MaxFaults = 2
    NoBody = NoBody
    NoId = NoId
    NoRow = NoRow
    Absent = Absent
INVARIANTS
    RecordedIsIntact
    NothingLeftBehind
    VerdictFollowsSize
    RootReproducesDigest
