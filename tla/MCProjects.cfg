\* Every request ends, and with it the system.
SPECIFICATION Spec
CHECK_DEADLOCK FALSE
CONSTANTS
    Creations = {c1, c2}
    Invitations = {v1, v2}
    CreateBodies <- MCCreateBodies
    InviteBodies <- MCInviteBodies
    Users <- MCUsers
    Admins = {"ada"}
    Verifiers = {"vera"}
    Leavers = {"ben"}
    ProjectIds = {"p1", "p2"}
    Slugs = {"foo", "foo-2", "foo-3", "foo-2-2", "foo-2-3"}
    Titles = {"foo", "foo 2"}
    SlugsOf <- MCSlugsOf
    NoBody = NoBody
    NoId = NoId
    NoProject = NoProject
    Anonymous = Anonymous
INVARIANTS
    ProjectOwned
    OneMembershipPerUser
    MembersInvited
    SlugsDense
    ReadersAgree
