------------------------------- MODULE Projects -------------------------------
(***************************************************************************)
(* Creating projects, adding members to them, and who may read them.  The  *)
(* endpoints run in a pool of threads, each in a session of its own, and   *)
(* see what others committed between any two of their statements.  Only    *)
(* the unique constraints hold across statements: an insertion that        *)
(* conflicts with an open transaction waits for it, so that insertion and  *)
(* commit are one step.                                                    *)
(***************************************************************************)
EXTENDS Naturals, Sequences, FiniteSets

CONSTANTS
    Creations, Invitations,    \* requests
    CreateBodies, InviteBodies,   \* what they may carry
    Users, Admins, Verifiers,  \* users, those of role ADMIN and of role VERIFIER
    Leavers,                   \* users whose account may be deactivated
    ProjectIds, Slugs, Titles,
    SlugsOf,                   \* what generate_unique_slug tries for a title, in order
    NoBody, NoId, NoProject, Anonymous

Visibilities == {"PUBLIC", "INSTITUTIONAL", "PRIVATE"}
ProjectMemberRoles == {"LEAD", "CONTRIBUTOR", "FACULTY_MENTOR"}
Requests == Creations \cup Invitations

ASSUME ProjectsAssumption ==
    /\ CreateBodies \subseteq [user : Users, title : Titles, visibility : Visibilities]
    /\ InviteBodies \subseteq [user : Users, project : ProjectIds, target : Users,
                               role : ProjectMemberRoles]
    /\ Creations \cap Invitations = {}
    /\ Leavers \subseteq Users
    /\ Admins \subseteq Users /\ Verifiers \subseteq Users \ Admins
    /\ SlugsOf \in [Titles -> Seq(Slugs) \ {<<>>}]
    /\ NoBody \notin CreateBodies \cup InviteBodies
    /\ NoId \notin ProjectIds /\ Anonymous \notin Users
    /\ NoProject \notin [slug : Slugs, title : Titles, visibility : Visibilities]

Rows == [slug : Slugs, title : Titles, visibility : Visibilities]
Memberships == [project : ProjectIds, user : Users, role : ProjectMemberRoles,
                is_owner : BOOLEAN]

VARIABLES
    pc, body,      \* requests: progress and payload
    publicId,      \* the id a creation drew
    counter,       \* the slug it tries
    projects,      \* rows by public_id, NoProject where there is none
    members,       \* rows of project_members
    is_active      \* users.is_active

requestVars == <<pc, body, publicId, counter>>
projectsVars == <<requestVars, projects, members, is_active>>

Ended == {"created", "refused", "conflict", "error"}
Stages == {"idle", "slug", "insert", "target", "duplicate", "join"} \cup Ended

Existing == {p \in ProjectIds : projects[p] # NoProject}
Taken == {projects[p].slug : p \in Existing}
MembersOf(p) == {m.user : m \in {n \in members : n.project = p}}

Init ==
    /\ pc = [r \in Requests |-> "idle"]
    /\ body = [r \in Requests |-> NoBody]
    /\ publicId = [r \in Creations |-> NoId]
    /\ counter = [r \in Creations |-> 1]
    /\ projects = [p \in ProjectIds |-> NoProject]
    /\ members = {}
    /\ is_active = Users

Moves(r, stage) == pc' = [pc EXCEPT ![r] = stage]
Reads(r, b) == pc[r] = "idle" /\ body' = [body EXCEPT ![r] = b]
-----------------------------------------------------------------------------
(* create_project.                                                         *)

\* STUDENT, FACULTY and ADMIN.
MayCreate(user) == user \notin Verifiers

StartCreation(r, b) ==
    /\ Reads(r, b) /\ b.user \in is_active
    /\ \/ MayCreate(b.user) /\ Moves(r, "slug")
            /\ \E p \in ProjectIds \ Existing : publicId' = [publicId EXCEPT ![r] = p]
       \/ ~MayCreate(b.user) /\ Moves(r, "refused") /\ UNCHANGED publicId
       \* each of five ids was taken
       \/ MayCreate(b.user) /\ Existing # {} /\ Moves(r, "error") /\ UNCHANGED publicId
    /\ UNCHANGED <<counter, projects, members, is_active>>

Slug(r) == SlugsOf[body[r].title][counter[r]]

\* Mutation: the counter advances before the first suffix is built.
NextCandidateSkips(r) ==
    IF Slug(r) \in Taken THEN counter[r] + (IF counter[r] = 1 THEN 2 ELSE 1)
    ELSE counter[r]

NextCandidate(r) == IF Slug(r) \in Taken THEN counter[r] + 1 ELSE counter[r]

\* One statement per candidate.  SlugsOf bounds the search; the code goes on
\* with random suffixes.
TrySlug(r) ==
    /\ pc[r] = "slug"
    /\ NextCandidate(r) \in DOMAIN SlugsOf[body[r].title]
    /\ counter' = [counter EXCEPT ![r] = NextCandidate(r)]
    /\ Moves(r, IF Slug(r) \in Taken THEN "slug" ELSE "insert")
    /\ UNCHANGED <<body, publicId, projects, members, is_active>>

\* UNIQUE (public_id), UNIQUE (slug).
Unique(r) == projects[publicId[r]] = NoProject /\ Slug(r) \notin Taken

Row(r) == [slug |-> Slug(r), title |-> body[r].title, visibility |-> body[r].visibility]

\* Mutation: the creator is stored as an ordinary member.
OwnershipForgotten(r) ==
    [project |-> publicId[r], user |-> body[r].user, role |-> "LEAD", is_owner |-> FALSE]

Ownership(r) ==
    [project |-> publicId[r], user |-> body[r].user, role |-> "LEAD", is_owner |-> TRUE]

InsertProject(r) ==
    /\ projects' = [projects EXCEPT ![publicId[r]] = Row(r)]
    /\ members' = members \cup {Ownership(r)}

\* The project and the membership of its creator are one transaction.
CommitProject(r) ==
    /\ pc[r] = "insert"
    /\ IF Unique(r) THEN InsertProject(r) /\ Moves(r, "created")
       ELSE Moves(r, "conflict") /\ UNCHANGED <<projects, members>>
    /\ UNCHANGED <<body, publicId, counter, is_active>>

\* DATABASE_ERROR: before the commit, or when the project is read again after it.
CreationFails(r) ==
    /\ pc[r] = "insert"
    /\ UNCHANGED <<projects, members>> \/ (Unique(r) /\ InsertProject(r))
    /\ Moves(r, "error")
    /\ UNCHANGED <<body, publicId, counter, is_active>>
-----------------------------------------------------------------------------
(* add_project_member.                                                     *)

\* Mutation: any member may add members.
MayInviteAnyMember(user, p) == user \in Admins \/ user \in MembersOf(p)

MayInvite(user, p) ==
    \/ user \in Admins
    \/ \E m \in members : m.project = p /\ m.user = user /\ (m.is_owner \/ m.role = "LEAD")

\* The project is loaded with its members.
StartInvitation(r, b) ==
    /\ Reads(r, b) /\ b.user \in is_active
    /\ Moves(r, IF b.project \in Existing /\ MayInvite(b.user, b.project)
                THEN "target" ELSE "refused")
    /\ UNCHANGED <<publicId, counter, projects, members, is_active>>

ResolveTarget(r) ==
    /\ pc[r] = "target"
    /\ Moves(r, IF body[r].target \in is_active THEN "duplicate" ELSE "refused")
    /\ UNCHANGED <<body, publicId, counter, projects, members, is_active>>

IsMember(r) == body[r].target \in MembersOf(body[r].project)

CheckDuplicate(r) ==
    /\ pc[r] = "duplicate"
    /\ Moves(r, IF IsMember(r) THEN "conflict" ELSE "join")
    /\ UNCHANGED <<body, publicId, counter, projects, members, is_active>>

\* Mutation: uq_project_user_membership is missing.
UniqueNot(r) == TRUE

\* uq_project_user_membership.
UniqueMembership(r) == ~IsMember(r)

InsertMember(r) ==
    members' = members \cup
      {[project |-> body[r].project, user |-> body[r].target, role |-> body[r].role,
        is_owner |-> FALSE]}

\* Nothing catches the IntegrityError here: the request ends with 500.
CommitMember(r) ==
    /\ pc[r] = "join"
    /\ IF UniqueMembership(r) THEN InsertMember(r) /\ Moves(r, "created")
       ELSE Moves(r, "error") /\ UNCHANGED members
    /\ UNCHANGED <<body, publicId, counter, projects, is_active>>

\* The database fails before the commit, or in refresh() after it.
InvitationFails(r) ==
    /\ pc[r] = "join"
    /\ UNCHANGED members \/ (UniqueMembership(r) /\ InsertMember(r))
    /\ Moves(r, "error")
    /\ UNCHANGED <<body, publicId, counter, projects, is_active>>

\* No endpoint does it: an administrator changes the row.
Deactivate(user) ==
    /\ user \in is_active
    /\ is_active' = is_active \ {user}
    /\ UNCHANGED <<requestVars, projects, members>>
-----------------------------------------------------------------------------
CreationStep(r) == TrySlug(r) \/ CommitProject(r)
InvitationStep(r) == ResolveTarget(r) \/ CheckDuplicate(r) \/ CommitMember(r)

Next ==
    \/ \E r \in Creations :
         \/ \E b \in CreateBodies : StartCreation(r, b)
         \/ CreationStep(r) \/ CreationFails(r)
    \/ \E r \in Invitations :
         \/ \E b \in InviteBodies : StartInvitation(r, b)
         \/ InvitationStep(r) \/ InvitationFails(r)
    \/ \E user \in Leavers : Deactivate(user)

Spec == Init /\ [][Next]_projectsVars
-----------------------------------------------------------------------------
(* Who reads what: four handlers, each with a check of its own.            *)

Viewers == Users \cup {Anonymous}

\* list_projects: the filter of the query.
Listed(viewer) ==
    {p \in Existing :
      \/ projects[p].visibility = "PUBLIC"
      \/ viewer \in Admins
      \/ viewer # Anonymous /\ projects[p].visibility = "INSTITUTIONAL"
      \/ projects[p].visibility = "PRIVATE" /\ viewer \in MembersOf(p)}

\* get_project_by_identifier.
Detailed(viewer) ==
    {p \in Existing :
      CASE projects[p].visibility = "PUBLIC" -> TRUE
        [] projects[p].visibility = "INSTITUTIONAL" -> viewer # Anonymous
        [] projects[p].visibility = "PRIVATE" -> viewer \in Admins \cup MembersOf(p)}

\* Mutation: any user who has signed in reads the members of a project.
MembersReadableBySignedIn(viewer) ==
    {p \in Existing : projects[p].visibility = "PUBLIC" \/ viewer # Anonymous}

\* list_project_members.
MembersReadable(viewer) ==
    {p \in Existing :
      \/ projects[p].visibility = "PUBLIC"
      \/ /\ viewer # Anonymous
         /\ \/ viewer \in Admins
            \/ projects[p].visibility = "INSTITUTIONAL"
            \/ viewer \in MembersOf(p)}

\* list_project_versions.
VersionsReadable(viewer) ==
    {p \in Existing :
      \/ projects[p].visibility = "PUBLIC"
      \/ viewer \in Users /\ (viewer \in Admins \/ projects[p].visibility = "INSTITUTIONAL")
      \/ viewer \in MembersOf(p)}

\* get_project_owner_summary: the owner, else a lead, else nobody.
OwnersOf(p) == {m \in members : m.project = p /\ m.is_owner}
LeadsOf(p) == {m \in members : m.project = p /\ m.role = "LEAD"}

Owner(p) == {m.user : m \in IF OwnersOf(p) # {} THEN OwnersOf(p) ELSE LeadsOf(p)}
-----------------------------------------------------------------------------
(* Properties.                                                             *)

TypeOK ==
    /\ pc \in [Requests -> Stages]
    /\ body \in [Requests -> CreateBodies \cup InviteBodies \cup {NoBody}]
    /\ publicId \in [Creations -> ProjectIds \cup {NoId}]
    /\ counter \in [Creations -> Nat]
    /\ projects \in [ProjectIds -> Rows \cup {NoProject}]
    /\ members \subseteq Memberships
    /\ is_active \subseteq Users

\* Whatever requests cross or fail (project_service.py:126-181), a project is
\* never without its owner and never has two, the owner shown is who created
\* it, and a creation answered with 201 exists under its own slug and title.
ProjectOwned ==
    /\ \A p \in Existing :
         \E r \in Creations :
           /\ pc[r] \in {"created", "error"} /\ publicId[r] = p
           /\ OwnersOf(p) = {Ownership(r)}
           /\ Owner(p) = {body[r].user}
    /\ \A r \in Creations : pc[r] = "created" => projects[publicId[r]] = Row(r)
    /\ \A m \in members : m.project \in Existing

\* Two invitations of one user that pass the check at
\* project_member_service.py:195 together leave one membership, and the one
\* answered with 201 is the one that is stored, with its role.
OneMembershipPerUser ==
    /\ \A m, n \in members : m.project = n.project /\ m.user = n.user => m = n
    /\ \A r \in Invitations :
         pc[r] = "created" => \E m \in members :
           /\ m.project = body[r].project /\ m.user = body[r].target
           /\ m.role = body[r].role /\ ~m.is_owner
    /\ \A q, r \in Invitations :
         /\ pc[q] = "created" /\ pc[r] = "created"
         /\ body[q].project = body[r].project /\ body[q].target = body[r].target
         => q = r

\* Members other than the owner were added by an administrator or by a lead
\* of that project who had joined before them: the chain of invitations
\* (project_member_service.py:155-169) leads back to the owner or an
\* administrator.
MembersInvited ==
    \A m \in members : ~m.is_owner =>
      \E r \in Invitations :
        /\ pc[r] \in {"created", "error"}
        /\ body[r].project = m.project /\ body[r].target = m.user
        /\ body[r].role = m.role
        /\ \/ body[r].user \in Admins
           \/ \E n \in members :
                /\ n # m /\ n.project = m.project /\ n.user = body[r].user
                /\ n.is_owner \/ n.role = "LEAD"

\* Slugs name one project each, and a suffix is used only when the slugs
\* before it are: slug.py:43 "If 'my-project' exists, attempts
\* 'my-project-2', 'my-project-3'", whatever was created meanwhile.
SlugsDense ==
    /\ \A p, q \in Existing : projects[p].slug = projects[q].slug => p = q
    /\ \A p \in Existing :
         LET tried == SlugsOf[projects[p].title]
         IN  \E n \in DOMAIN tried :
               /\ tried[n] = projects[p].slug
               /\ \A k \in 1..n-1 : tried[k] \in Taken

\* Who finds a project in the list reads its details, its members and its
\* versions, and nobody else does: the four checks
\* (project_service.py:200, :298, project_member_service.py:95,
\* project_version_service.py:181) are written four times and agree.
ReadersAgree ==
    \A viewer \in Viewers :
      /\ Detailed(viewer) = Listed(viewer)
      /\ MembersReadable(viewer) = Listed(viewer)
      /\ VersionsReadable(viewer) = Listed(viewer)
=============================================================================
