\* Every sequence of up to five events after the two of the constructor, in two
\* blocks.  The log is full at MaxEvents and the instance stops there.
CHECK_DEADLOCK FALSE
SPECIFICATION EventsSpec
CONSTANTS
    a1 = a1  a2 = a2  a3 = a3  h1 = h1  c1 = c1
    Accounts <- MCAccounts
    ZeroAddress = ZeroAddress
    RegistrationIds = {g1, g2}
    EmptyString = EmptyString
    ZeroHash = ZeroHash
    Hashes <- MCHashes
    CIDs <- MCCIDs
    Submissions <- MCSubmissions
    NoProof = NoProof
    InitialOwner = a1
    InitialRelayer = a2
    MaxVersionIndex = 2
    MaxBlock = 1
    MaxEvents = 7
SYMMETRY MCSymmetry
INVARIANTS
    RecordIndexExact
    RecordOrderIsBlockOrder
    WritersWereEntitled
    StorageFollowsLog
PROPERTIES
    LedgerImplemented
