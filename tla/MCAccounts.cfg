\* An access token lives one step of the clock and a refresh token two.
SPECIFICATION Spec
CONSTANTS
    Clients = {"alice", "bob", "carol"}
    Credentials <- MCCredentials
    UserIds = {i1, i2, i3}
    AccessLife = 1
    RefreshLife = 2
    Punctual = {"alice", "carol"}
    NoUser = NoUser
    NoId = NoId
    NoToken = NoToken
    Anonymous = Anonymous
    Refused = Refused
SYMMETRY MCSymmetry
INVARIANTS
    CreatedIsTheirs
    ServedAsOneself
PROPERTIES
    SessionSurvives
