---------------------------- MODULE ProjectsProofs ----------------------------
(***************************************************************************)
(* Proofs about projects and their members, for every number of requests,  *)
(* users and projects.                                                     *)
(***************************************************************************)
EXTENDS Projects, TLAPS

\* What a creation has drawn at each stage.
CreationOK(r) ==
    /\ pc[r] = "idle" => counter[r] = 1
    /\ pc[r] # "idle" => body[r] \in CreateBodies
    /\ pc[r] \in {"slug", "insert", "created"} =>
         publicId[r] \in ProjectIds /\ counter[r] \in DOMAIN SlugsOf[body[r].title]

\* What an invitation has resolved at each stage.
InvitationOK(r) ==
    /\ pc[r] # "idle" => body[r] \in InviteBodies
    /\ pc[r] \in {"target", "duplicate", "join"} =>
         body[r].project \in Existing /\ MayInvite(body[r].user, body[r].project)

\* Types, with the stages of the requests.
TypeInv ==
    /\ TypeOK
    /\ \A r \in Creations : CreationOK(r)
    /\ \A r \in Invitations : pc[r] # "idle" => body[r] \in InviteBodies

\* The row an invitation inserts.
InvitedRow(r) ==
    [project |-> body[r].project, user |-> body[r].target, role |-> body[r].role,
     is_owner |-> FALSE]

\* No two rows of a project are of one user.
MembershipUnique ==
    \A m, n \in members : m.project = n.project /\ m.user = n.user => m = n

\* No two invitations to a project succeeded for one user.
InvitedOnce ==
    \A q, r \in Invitations :
      /\ pc[q] = "created" /\ pc[r] = "created"
      /\ body[q].project = body[r].project /\ body[q].target = body[r].target
      => q = r

\* The inductive invariant.
ProjectsInv ==
    /\ TypeInv
    /\ \A r \in Invitations : InvitationOK(r)
    /\ \A r \in Invitations : pc[r] = "created" => InvitedRow(r) \in members
    /\ MembershipUnique
    /\ InvitedOnce
    /\ ProjectOwned
    /\ MembersInvited
-----------------------------------------------------------------------------
\* What generate_unique_slug tries is a slug.
LEMMA SlugTyped ==
    ASSUME NEW t \in Titles
    PROVE  /\ SlugsOf[t] \in Seq(Slugs) /\ 1 \in DOMAIN SlugsOf[t]
           /\ \A n \in DOMAIN SlugsOf[t] : n \in Nat /\ SlugsOf[t][n] \in Slugs
<1>1. SlugsOf[t] \in Seq(Slugs) /\ SlugsOf[t] # <<>>
  BY ProjectsAssumption
<1>2. Len(SlugsOf[t]) \in Nat /\ DOMAIN SlugsOf[t] = 1..Len(SlugsOf[t])
  BY <1>1
<1>3. Len(SlugsOf[t]) # 0
  BY <1>1
<1>. QED
  BY <1>1, <1>2, <1>3

\* The row and the membership that a creation inserts are well formed.
LEMMA RowTyped ==
    ASSUME TypeInv, NEW r \in Creations, pc[r] = "insert"
    PROVE  /\ Row(r) \in Rows /\ Row(r) # NoProject
           /\ Ownership(r) \in Memberships
           /\ publicId[r] \in ProjectIds
<1>1. /\ body[r] \in CreateBodies /\ publicId[r] \in ProjectIds
      /\ counter[r] \in DOMAIN SlugsOf[body[r].title]
  BY DEF TypeInv, CreationOK
<1>2. /\ body[r].user \in Users /\ body[r].title \in Titles
      /\ body[r].visibility \in Visibilities
  BY <1>1, ProjectsAssumption
<1>3. Slug(r) \in Slugs
  BY <1>1, <1>2, SlugTyped DEF Slug
<1>4. Row(r) \in Rows
  BY <1>2, <1>3 DEF Row, Rows
<1>5. Row(r) # NoProject
  BY <1>4, ProjectsAssumption DEF Rows
<1>6. Ownership(r) \in Memberships
  BY <1>1, <1>2 DEF Ownership, Memberships, ProjectMemberRoles
<1>. QED
  BY <1>1, <1>4, <1>5, <1>6

\* So is the membership that an invitation inserts.
LEMMA InvitedTyped ==
    ASSUME TypeInv, NEW r \in Invitations, pc[r] = "join"
    PROVE  InvitedRow(r) \in Memberships
<1>1. body[r] \in InviteBodies
  BY DEF TypeInv
<1>2. /\ body[r].user \in Users /\ body[r].target \in Users
      /\ body[r].project \in ProjectIds /\ body[r].role \in ProjectMemberRoles
  BY <1>1, ProjectsAssumption
<1>. QED
  BY <1>2 DEF InvitedRow, Memberships

\* Types hold before any request.
LEMMA TypeInit == Init => TypeInv
<1>. SUFFICES ASSUME Init PROVE TypeInv
  OBVIOUS
<1>1. TypeOK
  BY DEF Init, TypeOK, Stages, Ended, Requests
<1>2. \A r \in Requests : pc[r] = "idle"
  BY DEF Init
<1>3. \A r \in Creations : counter[r] = 1
  BY DEF Init
<1>. QED
  BY <1>1, <1>2, <1>3 DEF TypeInv, CreationOK, Requests

\* A step of a creation keeps the types.
LEMMA CreationTypeStep ==
    ASSUME TypeInv, NEW r \in Creations,
           \/ \E b \in CreateBodies : StartCreation(r, b)
           \/ CreationStep(r) \/ CreationFails(r)
    PROVE  TypeInv'
<1>1. r \in Requests /\ \A q \in Invitations : q # r
  BY ProjectsAssumption DEF Requests
<1>2. /\ \A q \in Requests : q # r => pc'[q] = pc[q] /\ body'[q] = body[q]
      /\ \A q \in Creations : q # r => publicId'[q] = publicId[q] /\ counter'[q] = counter[q]
      /\ is_active' = is_active
  BY DEF StartCreation, CreationStep, TrySlug, CommitProject, CreationFails, Reads, Moves,
         TypeInv, TypeOK
<1>3. /\ pc' \in [Requests -> Stages]
      /\ body' \in [Requests -> CreateBodies \cup InviteBodies \cup {NoBody}]
      /\ publicId' \in [Creations -> ProjectIds \cup {NoId}]
      /\ counter' \in [Creations -> Nat]
      /\ CreationOK(r)'
  <2>1. CASE \E b \in CreateBodies : StartCreation(r, b)
    <3>1. PICK b \in CreateBodies : StartCreation(r, b)
      BY <2>1
    <3>2. b.title \in Titles /\ counter[r] = 1
      BY <3>1, ProjectsAssumption DEF TypeInv, CreationOK, StartCreation, Reads
    <3>3. 1 \in DOMAIN SlugsOf[b.title]
      BY <3>2, SlugTyped
    <3>4. body' \in [Requests -> CreateBodies \cup InviteBodies \cup {NoBody}] /\ body'[r] = b
      BY <1>1, <3>1 DEF StartCreation, Reads, TypeInv, TypeOK
    <3>5. /\ pc' \in [Requests -> Stages] /\ pc'[r] \in {"slug", "refused", "error"}
          /\ publicId' \in [Creations -> ProjectIds \cup {NoId}]
          /\ pc'[r] = "slug" => publicId'[r] \in ProjectIds
      BY <1>1, <3>1 DEF StartCreation, Moves, TypeInv, TypeOK, Stages, Ended, Existing
    <3>6. counter' = counter
      BY <3>1 DEF StartCreation
    <3>. QED
      BY <3>2, <3>3, <3>4, <3>5, <3>6 DEF CreationOK, TypeInv, TypeOK
  <2>2. CASE TrySlug(r)
    <3>1. body[r] \in CreateBodies /\ publicId[r] \in ProjectIds
      BY <2>2 DEF TrySlug, TypeInv, CreationOK
    <3>2. body[r].title \in Titles
      BY <3>1, ProjectsAssumption
    <3>3. NextCandidate(r) \in Nat /\ NextCandidate(r) \in DOMAIN SlugsOf[body[r].title]
      BY <2>2, <3>2, SlugTyped DEF TrySlug
    <3>. QED
      BY <1>1, <2>2, <3>1, <3>3
      DEF TrySlug, Moves, TypeInv, TypeOK, CreationOK, Stages, Ended
  <2>3. CASE CommitProject(r) \/ CreationFails(r)
    BY <1>1, <2>3
    DEF CommitProject, CreationFails, Moves, TypeInv, TypeOK, CreationOK, Stages, Ended
  <2>. QED
    BY <2>1, <2>2, <2>3 DEF CreationStep
<1>4. projects' \in [ProjectIds -> Rows \cup {NoProject}] /\ members' \subseteq Memberships
  <2>1. CASE UNCHANGED <<projects, members>>
    BY <2>1 DEF TypeInv, TypeOK
  <2>2. CASE pc[r] = "insert" /\ InsertProject(r)
    BY <2>2, RowTyped DEF InsertProject, TypeInv, TypeOK
  <2>. QED
    BY <2>1, <2>2 DEF StartCreation, CreationStep, TrySlug, CommitProject, CreationFails
<1>5. \A q \in Creations : CreationOK(q)'
  BY <1>2, <1>3 DEF TypeInv, CreationOK, Requests
<1>6. \A q \in Invitations : pc'[q] # "idle" => body'[q] \in InviteBodies
  BY <1>1, <1>2 DEF TypeInv, Requests
<1>. QED
  BY <1>2, <1>3, <1>4, <1>5, <1>6 DEF TypeInv, TypeOK

\* A step of an invitation keeps the types.
LEMMA InvitationTypeStep ==
    ASSUME TypeInv, NEW r \in Invitations,
           \/ \E b \in InviteBodies : StartInvitation(r, b)
           \/ InvitationStep(r) \/ InvitationFails(r)
    PROVE  TypeInv'
<1>1. r \in Requests /\ \A q \in Creations : q # r
  BY ProjectsAssumption DEF Requests
<1>2. /\ \A q \in Requests : q # r => pc'[q] = pc[q] /\ body'[q] = body[q]
      /\ UNCHANGED <<publicId, counter, projects, is_active>>
  BY DEF StartInvitation, InvitationStep, ResolveTarget, CheckDuplicate, CommitMember,
         InvitationFails, Reads, Moves, TypeInv, TypeOK
<1>3. /\ pc' \in [Requests -> Stages]
      /\ body' \in [Requests -> CreateBodies \cup InviteBodies \cup {NoBody}]
      /\ body'[r] \in InviteBodies
  <2>1. CASE \E b \in InviteBodies : StartInvitation(r, b)
    BY <1>1, <2>1 DEF StartInvitation, Reads, Moves, TypeInv, TypeOK, Stages, Ended
  <2>2. CASE InvitationStep(r) \/ InvitationFails(r)
    BY <1>1, <2>2
    DEF InvitationStep, ResolveTarget, CheckDuplicate, CommitMember, InvitationFails, Moves,
        TypeInv, TypeOK, Stages, Ended
  <2>. QED
    BY <2>1, <2>2
<1>4. members' \subseteq Memberships
  <2>1. CASE UNCHANGED members
    BY <2>1 DEF TypeInv, TypeOK
  <2>2. CASE pc[r] = "join" /\ InsertMember(r)
    BY <2>2, InvitedTyped DEF InsertMember, InvitedRow, TypeInv, TypeOK
  <2>. QED
    BY <2>1, <2>2 DEF StartInvitation, InvitationStep, ResolveTarget, CheckDuplicate,
                      CommitMember, InvitationFails
<1>5. \A q \in Creations : CreationOK(q)'
  BY <1>1, <1>2 DEF TypeInv, CreationOK, Requests
<1>6. \A q \in Invitations : pc'[q] # "idle" => body'[q] \in InviteBodies
  BY <1>2, <1>3 DEF TypeInv, Requests
<1>. QED
  BY <1>2, <1>3, <1>4, <1>5, <1>6 DEF TypeInv, TypeOK

\* Every step keeps the types.
LEMMA TypeStep == TypeInv /\ [Next]_projectsVars => TypeInv'
<1>. SUFFICES ASSUME TypeInv, [Next]_projectsVars PROVE TypeInv'
  OBVIOUS
<1>1. ASSUME NEW r \in Creations,
             \/ \E b \in CreateBodies : StartCreation(r, b)
             \/ CreationStep(r) \/ CreationFails(r)
      PROVE  TypeInv'
  BY <1>1, CreationTypeStep
<1>2. ASSUME NEW r \in Invitations,
             \/ \E b \in InviteBodies : StartInvitation(r, b)
             \/ InvitationStep(r) \/ InvitationFails(r)
      PROVE  TypeInv'
  BY <1>2, InvitationTypeStep
<1>3. ASSUME NEW user \in Leavers, Deactivate(user) PROVE TypeInv'
  BY <1>3 DEF Deactivate, requestVars, TypeInv, TypeOK, CreationOK
<1>4. CASE UNCHANGED projectsVars
  BY <1>4 DEF projectsVars, requestVars, TypeInv, TypeOK, CreationOK
<1>. QED
  BY <1>1, <1>2, <1>3, <1>4 DEF Next

\* Requests keep to their stages and rows to their columns (project.py:18,
\* project_member.py:17), whatever runs beside them.
THEOREM TypeCorrect == Spec => []TypeOK
<1>1. TypeInv => TypeOK
  BY DEF TypeInv
<1>. QED
  BY TypeInit, TypeStep, <1>1, PTL DEF Spec

-----------------------------------------------------------------------------
\* Of a project that exists the row never changes, and a membership stays.
LEMMA MayInviteKept ==
    ASSUME members \subseteq members', NEW user, NEW p, MayInvite(user, p)
    PROVE  MayInvite(user, p)'
  BY DEF MayInvite

\* A step that writes neither projects nor members, and answers nobody with
\* 201, needs only the request it moves to be in order.
LEMMA NothingWritten ==
    ASSUME ProjectsInv, TypeInv', NEW r \in Requests,
           UNCHANGED <<projects, members>>,
           pc[r] \notin {"created", "error"}, pc'[r] # "created",
           \A q \in Requests : q # r => pc'[q] = pc[q] /\ body'[q] = body[q],
           \A q \in Creations : q # r =>
             publicId'[q] = publicId[q] /\ counter'[q] = counter[q],
           r \in Invitations => InvitationOK(r)'
    PROVE  ProjectsInv'
<1>1. \A q \in Requests : pc[q] \in {"created", "error"} =>
        q # r /\ pc'[q] = pc[q] /\ body'[q] = body[q]
  OBVIOUS
<1>2. \A q \in Requests : pc'[q] = "created" =>
        q # r /\ pc[q] = "created" /\ body'[q] = body[q]
  OBVIOUS
<1>3. \A q \in Invitations : InvitationOK(q)'
  BY DEF ProjectsInv, InvitationOK, Requests, Existing, MayInvite
<1>4. \A q \in Invitations : pc'[q] = "created" => InvitedRow(q)' \in members'
  BY <1>2 DEF ProjectsInv, InvitedRow, Requests
<1>5. InvitedOnce'
  BY <1>2 DEF ProjectsInv, InvitedOnce, Requests
<1>6. MembershipUnique'
  BY DEF ProjectsInv, MembershipUnique
<1>7. ProjectOwned'
  <2>1. \A q \in Creations : pc[q] \in {"created", "error"} =>
          /\ pc'[q] = pc[q] /\ body'[q] = body[q] /\ publicId'[q] = publicId[q]
          /\ counter'[q] = counter[q]
    BY <1>1 DEF Requests
  <2>2. /\ Existing' = Existing
        /\ \A p : OwnersOf(p)' = OwnersOf(p) /\ Owner(p)' = Owner(p)
    BY DEF Existing, OwnersOf, Owner, LeadsOf
  <2>3. \A q \in Creations : pc[q] \in {"created", "error"} =>
          Ownership(q)' = Ownership(q) /\ Row(q)' = Row(q)
    BY <2>1 DEF Ownership, Row, Slug
  <2>4. \A p \in Existing' : \E q \in Creations :
          /\ pc'[q] \in {"created", "error"} /\ publicId'[q] = p
          /\ OwnersOf(p)' = {Ownership(q)'} /\ Owner(p)' = {body'[q].user}
    <3>. SUFFICES ASSUME NEW p \in Existing
                  PROVE  \E q \in Creations :
                           /\ pc'[q] \in {"created", "error"} /\ publicId'[q] = p
                           /\ OwnersOf(p)' = {Ownership(q)'} /\ Owner(p)' = {body'[q].user}
      BY <2>2
    <3>1. PICK q \in Creations :
            /\ pc[q] \in {"created", "error"} /\ publicId[q] = p
            /\ OwnersOf(p) = {Ownership(q)} /\ Owner(p) = {body[q].user}
      BY DEF ProjectsInv, ProjectOwned
    <3>. QED
      BY <2>1, <2>2, <2>3, <3>1
  <2>5. \A q \in Creations : pc'[q] = "created" => projects'[publicId'[q]] = Row(q)'
    BY <1>2, <2>1, <2>3 DEF ProjectsInv, ProjectOwned, Requests
  <2>6. \A m \in members' : m.project \in Existing'
    BY <2>2 DEF ProjectsInv, ProjectOwned
  <2>. QED
    BY <2>4, <2>5, <2>6 DEF ProjectOwned
<1>8. MembersInvited'
  <2>. SUFFICES ASSUME NEW m \in members, ~m.is_owner
                PROVE  \E q \in Invitations :
                         /\ pc'[q] \in {"created", "error"}
                         /\ body'[q].project = m.project /\ body'[q].target = m.user
                         /\ body'[q].role = m.role
                         /\ \/ body'[q].user \in Admins
                            \/ \E n \in members' :
                                 /\ n # m /\ n.project = m.project /\ n.user = body'[q].user
                                 /\ n.is_owner \/ n.role = "LEAD"
    BY DEF MembersInvited
  <2>1. PICK q \in Invitations :
          /\ pc[q] \in {"created", "error"}
          /\ body[q].project = m.project /\ body[q].target = m.user
          /\ body[q].role = m.role
          /\ \/ body[q].user \in Admins
             \/ \E n \in members :
                  /\ n # m /\ n.project = m.project /\ n.user = body[q].user
                  /\ n.is_owner \/ n.role = "LEAD"
    BY DEF ProjectsInv, MembersInvited
  <2>2. pc'[q] = pc[q] /\ body'[q] = body[q]
    BY <1>1, <2>1 DEF Requests
  <2>. QED
    BY <2>1, <2>2
<1>. QED
  BY <1>3, <1>4, <1>5, <1>6, <1>7, <1>8 DEF ProjectsInv

\* A creation that inserts its project: nobody was a member of it yet.
LEMMA ProjectInserted ==
    ASSUME ProjectsInv, TypeInv', NEW r \in Creations, pc[r] = "insert",
           Unique(r), InsertProject(r), NEW s \in {"created", "error"}, Moves(r, s),
           UNCHANGED <<body, publicId, counter, is_active>>
    PROVE  ProjectsInv'
<1> DEFINE p == publicId[r]
<1>1. /\ p \in ProjectIds /\ Row(r) # NoProject /\ projects[p] = NoProject
      /\ r \in Requests /\ \A q \in Invitations : q # r
  BY RowTyped, ProjectsAssumption DEF ProjectsInv, Unique, Requests
<1>2. /\ pc'[r] = s /\ \A q \in Requests : q # r => pc'[q] = pc[q]
      /\ \A q \in Invitations : pc'[q] = pc[q]
  BY <1>1 DEF Moves, ProjectsInv, TypeInv, TypeOK, Requests
<1>3. /\ projects'[p] = Row(r) /\ \A q \in ProjectIds : q # p => projects'[q] = projects[q]
      /\ Existing' = Existing \cup {p} /\ p \notin Existing
  BY <1>1 DEF InsertProject, ProjectsInv, TypeInv, TypeOK, Existing
<1>4. /\ members' = members \cup {Ownership(r)}
      /\ \A m \in members : m.project \in Existing /\ m.project # p
  BY <1>3 DEF InsertProject, ProjectsInv, ProjectOwned
<1>5. Ownership(r).project = p /\ Ownership(r).user = body[r].user /\ Ownership(r).is_owner
  BY DEF Ownership
<1>6. \A q \in Invitations : InvitationOK(q)'
  <2>1. \A q \in Invitations : InvitationOK(q) => InvitationOK(q)'
    BY <1>2, <1>3, <1>4, MayInviteKept DEF InvitationOK
  <2>. QED
    BY <2>1 DEF ProjectsInv
<1>7. \A q \in Invitations : pc'[q] = "created" => InvitedRow(q)' \in members'
  BY <1>2, <1>4 DEF ProjectsInv, InvitedRow
<1>8. InvitedOnce'
  BY <1>2 DEF ProjectsInv, InvitedOnce
<1>9. MembershipUnique'
  BY <1>4, <1>5 DEF ProjectsInv, MembershipUnique
<1>10. ProjectOwned'
  <2>1. \A q \in Creations : Ownership(q)' = Ownership(q) /\ Row(q)' = Row(q)
    BY DEF Ownership, Row, Slug
  <2>2. OwnersOf(p)' = {Ownership(r)} /\ Owner(p)' = {body[r].user}
    <3>1. OwnersOf(p)' = {Ownership(r)}
      BY <1>4, <1>5 DEF OwnersOf
    <3>. QED
      BY <3>1, <1>5 DEF Owner
  <2>3. \A o : o # p => OwnersOf(o)' = OwnersOf(o) /\ LeadsOf(o)' = LeadsOf(o)
    BY <1>4, <1>5 DEF OwnersOf, LeadsOf
  <2>4. \A o : o # p => Owner(o)' = Owner(o)
    BY <2>3 DEF Owner
  <2>5. ASSUME NEW o \in Existing'
        PROVE  \E q \in Creations :
                 /\ pc'[q] \in {"created", "error"} /\ publicId'[q] = o
                 /\ OwnersOf(o)' = {Ownership(q)'} /\ Owner(o)' = {body'[q].user}
    <3>1. CASE o = p
      BY <1>2, <2>1, <2>2, <3>1
    <3>2. CASE o # p
      <4>1. PICK q \in Creations :
              /\ pc[q] \in {"created", "error"} /\ publicId[q] = o
              /\ OwnersOf(o) = {Ownership(q)} /\ Owner(o) = {body[q].user}
        BY <1>3, <3>2 DEF ProjectsInv, ProjectOwned
      <4>2. pc'[q] = pc[q]
        BY <1>2, <4>1 DEF Requests
      <4>. QED
        BY <2>1, <2>3, <2>4, <3>2, <4>1, <4>2
    <3>. QED
      BY <3>1, <3>2
  <2>6. ASSUME NEW q \in Creations, pc'[q] = "created"
        PROVE  projects'[publicId'[q]] = Row(q)'
    <3>1. CASE q = r
      BY <1>3, <2>1, <3>1
    <3>2. CASE q # r
      <4>1. pc[q] = "created" /\ publicId[q] \in ProjectIds
        BY <1>2, <2>6, <3>2 DEF Requests, ProjectsInv, TypeInv, CreationOK
      <4>2. projects[publicId[q]] = Row(q) /\ Row(q) \in Rows
        <5>1. projects[publicId[q]] = Row(q)
          BY <4>1 DEF ProjectsInv, ProjectOwned
        <5>2. body[q].title \in Titles /\ body[q].visibility \in Visibilities
          BY <4>1, ProjectsAssumption DEF ProjectsInv, TypeInv, CreationOK
        <5>3. Slug(q) \in Slugs
          BY <4>1, <5>2, SlugTyped DEF Slug, ProjectsInv, TypeInv, CreationOK
        <5>. QED
          BY <5>1, <5>2, <5>3 DEF Row, Rows
      <4>3. publicId[q] # p
        BY <1>1, <4>2, ProjectsAssumption DEF Rows
      <4>. QED
        BY <1>3, <2>1, <4>1, <4>2, <4>3
    <3>. QED
      BY <3>1, <3>2
  <2>7. \A m \in members' : m.project \in Existing'
    BY <1>3, <1>4, <1>5
  <2>. QED
    BY <2>5, <2>6, <2>7 DEF ProjectOwned
<1>11. MembersInvited'
  <2>. SUFFICES ASSUME NEW m \in members', ~m.is_owner
                PROVE  \E q \in Invitations :
                         /\ pc'[q] \in {"created", "error"}
                         /\ body'[q].project = m.project /\ body'[q].target = m.user
                         /\ body'[q].role = m.role
                         /\ \/ body'[q].user \in Admins
                            \/ \E n \in members' :
                                 /\ n # m /\ n.project = m.project /\ n.user = body'[q].user
                                 /\ n.is_owner \/ n.role = "LEAD"
    BY DEF MembersInvited
  <2>1. m \in members
    BY <1>4, <1>5
  <2>2. PICK q \in Invitations :
          /\ pc[q] \in {"created", "error"}
          /\ body[q].project = m.project /\ body[q].target = m.user
          /\ body[q].role = m.role
          /\ \/ body[q].user \in Admins
             \/ \E n \in members :
                  /\ n # m /\ n.project = m.project /\ n.user = body[q].user
                  /\ n.is_owner \/ n.role = "LEAD"
    BY <2>1 DEF ProjectsInv, MembersInvited
  <2>. QED
    BY <1>2, <1>4, <2>2
<1>. QED
  BY <1>6, <1>7, <1>8, <1>9, <1>10, <1>11 DEF ProjectsInv

\* An invitation that inserts its member: the constraint saw no such row, and
\* the author was a member before.
LEMMA MemberInserted ==
    ASSUME ProjectsInv, TypeInv', NEW r \in Invitations, pc[r] = "join",
           UniqueMembership(r), InsertMember(r), NEW s \in {"created", "error"}, Moves(r, s),
           UNCHANGED <<body, publicId, counter, projects, is_active>>
    PROVE  ProjectsInv'
<1> DEFINE new == InvitedRow(r)
<1>1. r \in Requests /\ \A q \in Creations : q # r
  BY ProjectsAssumption DEF Requests
<1>2. /\ pc'[r] = s /\ \A q \in Requests : q # r => pc'[q] = pc[q]
      /\ \A q \in Creations : pc'[q] = pc[q]
  BY <1>1 DEF Moves, ProjectsInv, TypeInv, TypeOK, Requests
<1>3. members' = members \cup {new}
  BY DEF InsertMember, InvitedRow
<1>4. /\ new.project = body[r].project /\ new.user = body[r].target
      /\ new.role = body[r].role /\ new.is_owner = FALSE
  BY DEF InvitedRow
<1>5. \A m \in members : ~(m.project = new.project /\ m.user = new.user)
  BY <1>4 DEF UniqueMembership, IsMember, MembersOf
<1>6. Existing' = Existing /\ new.project \in Existing
        /\ MayInvite(body[r].user, body[r].project)
  BY <1>4 DEF Existing, ProjectsInv, InvitationOK
<1>7. \A q \in Invitations : InvitationOK(q)'
  <2>1. \A q \in Invitations : InvitationOK(q) => q = r \/ InvitationOK(q)'
    BY <1>2, <1>3, <1>6, MayInviteKept DEF InvitationOK, Requests
  <2>2. InvitationOK(r)'
    BY <1>2 DEF InvitationOK, TypeInv
  <2>. QED
    BY <2>1, <2>2 DEF ProjectsInv
<1>8. \A q \in Invitations : pc'[q] = "created" => InvitedRow(q)' \in members'
  BY <1>2, <1>3 DEF ProjectsInv, InvitedRow, Requests
<1>9. MembershipUnique'
  BY <1>3, <1>5 DEF ProjectsInv, MembershipUnique
<1>10. InvitedOnce'
  <2>. SUFFICES ASSUME NEW o \in Invitations, NEW q \in Invitations,
                       pc'[o] = "created", pc'[q] = "created",
                       body[o].project = body[q].project, body[o].target = body[q].target,
                       o # q
                PROVE  FALSE
    BY DEF InvitedOnce
  <2>1. \A i \in Invitations : i # r /\ pc'[i] = "created" =>
          pc[i] = "created" /\ InvitedRow(i) \in members
    BY <1>2 DEF ProjectsInv, Requests
  <2>2. \A i \in Invitations : i # r /\ pc'[i] = "created" =>
          ~(body[i].project = body[r].project /\ body[i].target = body[r].target)
    BY <1>4, <1>5, <2>1 DEF InvitedRow
  <2>3. o # r /\ q # r
    BY <2>2
  <2>. QED
    BY <2>1, <2>3 DEF ProjectsInv, InvitedOnce
<1>11. ProjectOwned'
  <2>1. \A q \in Creations : Ownership(q)' = Ownership(q) /\ Row(q)' = Row(q)
    BY DEF Ownership, Row, Slug
  <2>2. \A o : OwnersOf(o)' = OwnersOf(o)
    BY <1>3, <1>4 DEF OwnersOf
  <2>3. \A o : OwnersOf(o) # {} => Owner(o)' = Owner(o)
    BY <2>2 DEF Owner
  <2>4. ASSUME NEW o \in Existing'
        PROVE  \E q \in Creations :
                 /\ pc'[q] \in {"created", "error"} /\ publicId'[q] = o
                 /\ OwnersOf(o)' = {Ownership(q)'} /\ Owner(o)' = {body'[q].user}
    <3>1. PICK q \in Creations :
            /\ pc[q] \in {"created", "error"} /\ publicId[q] = o
            /\ OwnersOf(o) = {Ownership(q)} /\ Owner(o) = {body[q].user}
      BY <1>6 DEF ProjectsInv, ProjectOwned
    <3>. QED
      BY <1>2, <2>1, <2>2, <2>3, <3>1
  <2>5. \A q \in Creations : pc'[q] = "created" => projects'[publicId'[q]] = Row(q)'
    BY <1>2, <2>1 DEF ProjectsInv, ProjectOwned
  <2>6. \A m \in members' : m.project \in Existing'
    BY <1>3, <1>6 DEF ProjectsInv, ProjectOwned
  <2>. QED
    BY <2>4, <2>5, <2>6 DEF ProjectOwned
<1>12. MembersInvited'
  <2>. SUFFICES ASSUME NEW m \in members', ~m.is_owner
                PROVE  \E q \in Invitations :
                         /\ pc'[q] \in {"created", "error"}
                         /\ body'[q].project = m.project /\ body'[q].target = m.user
                         /\ body'[q].role = m.role
                         /\ \/ body'[q].user \in Admins
                            \/ \E n \in members' :
                                 /\ n # m /\ n.project = m.project /\ n.user = body'[q].user
                                 /\ n.is_owner \/ n.role = "LEAD"
    BY DEF MembersInvited
  <2>1. CASE m \in members
    <3>1. PICK q \in Invitations :
            /\ pc[q] \in {"created", "error"}
            /\ body[q].project = m.project /\ body[q].target = m.user
            /\ body[q].role = m.role
            /\ \/ body[q].user \in Admins
               \/ \E n \in members :
                    /\ n # m /\ n.project = m.project /\ n.user = body[q].user
                    /\ n.is_owner \/ n.role = "LEAD"
      BY <2>1 DEF ProjectsInv, MembersInvited
    <3>2. pc'[q] = pc[q]
      BY <1>2, <3>1 DEF Requests
    <3>. QED
      BY <1>3, <3>1, <3>2
  <2>2. CASE m = new
    <3>1. \/ body[r].user \in Admins
          \/ \E n \in members : n.project = body[r].project /\ n.user = body[r].user
                                /\ (n.is_owner \/ n.role = "LEAD")
      BY <1>6 DEF MayInvite
    <3>2. \A n \in members : n # new
      BY <1>5
    <3>. QED
      BY <1>2, <1>3, <1>4, <2>2, <3>1, <3>2
  <2>. QED
    BY <1>3, <2>1, <2>2
<1>. QED
  BY <1>7, <1>8, <1>9, <1>10, <1>11, <1>12 DEF ProjectsInv

-----------------------------------------------------------------------------

\* The invariant holds before any request.
LEMMA ProjectsInit == Init => ProjectsInv
<1>. SUFFICES ASSUME Init PROVE ProjectsInv
  OBVIOUS
<1>1. TypeInv
  BY TypeInit
<1>2. /\ \A r \in Requests : pc[r] = "idle"
      /\ members = {} /\ Existing = {}
  BY DEF Init, Existing
<1>3. \A r \in Creations \cup Invitations : pc[r] = "idle"
  BY <1>2 DEF Requests
<1>. QED
  BY <1>1, <1>2, <1>3 DEF ProjectsInv, InvitationOK, MembershipUnique, InvitedOnce, ProjectOwned,
     MembersInvited

\* A step of a creation keeps the invariant.
LEMMA CreationInvStep ==
    ASSUME ProjectsInv, TypeInv', NEW r \in Creations,
           \/ \E b \in CreateBodies : StartCreation(r, b)
           \/ CreationStep(r) \/ CreationFails(r)
    PROVE  ProjectsInv'
<1>1. r \in Requests /\ r \notin Invitations
  BY ProjectsAssumption DEF Requests
<1>2. CASE pc[r] = "insert" /\ Unique(r) /\ InsertProject(r)
  <2>1. /\ UNCHANGED <<body, publicId, counter, is_active>>
        /\ Moves(r, "created") \/ Moves(r, "error")
    BY <1>2 DEF StartCreation, Reads, CreationStep, TrySlug, CommitProject, CreationFails
  <2>. QED
    BY <1>2, <2>1, ProjectInserted
<1>3. CASE ~(pc[r] = "insert" /\ Unique(r) /\ InsertProject(r))
  <2>1. UNCHANGED <<projects, members>>
    BY <1>3 DEF StartCreation, CreationStep, TrySlug, CommitProject, CreationFails
  <2>2. /\ pc[r] \notin {"created", "error"} /\ pc'[r] # "created"
        /\ \A q \in Requests : q # r => pc'[q] = pc[q] /\ body'[q] = body[q]
        /\ \A q \in Creations : q # r =>
             publicId'[q] = publicId[q] /\ counter'[q] = counter[q]
    BY <1>1, <1>3 DEF StartCreation, Reads, Moves, CreationStep, TrySlug, CommitProject,
       CreationFails, ProjectsInv, TypeInv, TypeOK
  <2>. QED
    BY <1>1, <2>1, <2>2, NothingWritten
<1>. QED
  BY <1>2, <1>3

\* A step of an invitation keeps the invariant.
LEMMA InvitationInvStep ==
    ASSUME ProjectsInv, TypeInv', NEW r \in Invitations,
           \/ \E b \in InviteBodies : StartInvitation(r, b)
           \/ InvitationStep(r) \/ InvitationFails(r)
    PROVE  ProjectsInv'
<1>1. r \in Requests /\ r \notin Creations
  BY ProjectsAssumption DEF Requests
<1>2. CASE pc[r] = "join" /\ UniqueMembership(r) /\ InsertMember(r)
  <2>1. /\ UNCHANGED <<body, publicId, counter, projects, is_active>>
        /\ Moves(r, "created") \/ Moves(r, "error")
    BY <1>2 DEF StartInvitation, Reads, InvitationStep, ResolveTarget, CheckDuplicate,
       CommitMember, InvitationFails
  <2>. QED
    BY <1>2, <2>1, MemberInserted
<1>3. CASE ~(pc[r] = "join" /\ UniqueMembership(r) /\ InsertMember(r))
  <2>1. UNCHANGED <<projects, members, publicId, counter>>
    BY <1>3 DEF StartInvitation, InvitationStep, ResolveTarget, CheckDuplicate, CommitMember,
       InvitationFails
  <2>2. /\ pc[r] \notin {"created", "error"} /\ pc'[r] # "created"
        /\ \A q \in Requests : q # r => pc'[q] = pc[q] /\ body'[q] = body[q]
    BY <1>1, <1>3 DEF StartInvitation, Reads, Moves, InvitationStep, ResolveTarget,
       CheckDuplicate, CommitMember, InvitationFails, ProjectsInv, TypeInv, TypeOK
  <2>3. InvitationOK(r)'
    <3>1. body'[r] \in InviteBodies \/ pc'[r] = "idle"
      BY DEF TypeInv
    <3>2. CASE \E b \in InviteBodies : StartInvitation(r, b)
      BY <1>1, <2>1, <3>1, <3>2
      DEF StartInvitation, Reads, Moves, InvitationOK, Existing, MayInvite, ProjectsInv,
          TypeInv, TypeOK
    <3>3. CASE InvitationStep(r) \/ InvitationFails(r)
      BY <1>1, <2>1, <3>1, <3>3
      DEF InvitationStep, ResolveTarget, CheckDuplicate, CommitMember, InvitationFails, Moves,
          InvitationOK, Existing, MayInvite, ProjectsInv, TypeInv, TypeOK
    <3>. QED
      BY <3>2, <3>3
  <2>. QED
    BY <1>1, <2>1, <2>2, <2>3, NothingWritten
<1>. QED
  BY <1>2, <1>3

\* Every step keeps the invariant.
LEMMA ProjectsStep == ProjectsInv /\ [Next]_projectsVars => ProjectsInv'
<1>. SUFFICES ASSUME ProjectsInv, [Next]_projectsVars PROVE ProjectsInv'
  OBVIOUS
<1>1. TypeInv'
  BY TypeStep DEF ProjectsInv
<1>2. ASSUME NEW r \in Creations,
             \/ \E b \in CreateBodies : StartCreation(r, b)
             \/ CreationStep(r) \/ CreationFails(r)
      PROVE  ProjectsInv'
  BY <1>1, <1>2, CreationInvStep
<1>3. ASSUME NEW r \in Invitations,
             \/ \E b \in InviteBodies : StartInvitation(r, b)
             \/ InvitationStep(r) \/ InvitationFails(r)
      PROVE  ProjectsInv'
  BY <1>1, <1>3, InvitationInvStep
<1>4. CASE UNCHANGED <<requestVars, projects, members>>
  <2>1. UNCHANGED <<pc, body, publicId, counter, projects, members>>
    BY <1>4 DEF requestVars
  <2>2. (\A r \in Invitations : InvitationOK(r))'
    BY <2>1 DEF ProjectsInv, InvitationOK, Existing, MayInvite
  <2>3. (\A r \in Invitations : pc[r] = "created" => InvitedRow(r) \in members)'
    BY <2>1 DEF ProjectsInv, InvitedRow
  <2>4. MembershipUnique' /\ InvitedOnce' /\ MembersInvited'
    BY <2>1 DEF ProjectsInv, MembershipUnique, InvitedOnce, MembersInvited
  <2>5. ProjectOwned'
    <3>1. /\ Existing' = Existing
          /\ \A p : OwnersOf(p)' = OwnersOf(p) /\ LeadsOf(p)' = LeadsOf(p)
          /\ \A r : Ownership(r)' = Ownership(r) /\ Slug(r)' = Slug(r)
      BY <2>1 DEF Existing, OwnersOf, LeadsOf, Ownership, Slug
    <3>2. /\ \A p : Owner(p)' = Owner(p)
          /\ \A r : Row(r)' = Row(r)
      BY <2>1, <3>1 DEF Owner, Row
    <3>3. \A p \in Existing : \E r \in Creations :
            /\ pc[r] \in {"created", "error"} /\ publicId[r] = p
            /\ OwnersOf(p)' = {Ownership(r)'} /\ Owner(p)' = {body[r].user}
      BY <3>1, <3>2 DEF ProjectsInv, ProjectOwned
    <3>. QED
      BY <2>1, <3>1, <3>2, <3>3 DEF ProjectsInv, ProjectOwned
  <2>. QED
    BY <1>1, <2>2, <2>3, <2>4, <2>5 DEF ProjectsInv
<1>. QED
  BY <1>2, <1>3, <1>4 DEF Next, Deactivate, projectsVars

\* The invariant holds in every reachable state.
LEMMA ProjectsInvariant == Spec => []ProjectsInv
  BY ProjectsInit, ProjectsStep, PTL DEF Spec

\* Every project belongs to the one who created it, and to nobody else, for
\* ever (project_service.py:126-181).
THEOREM CreatorOwns == Spec => []ProjectOwned
<1>1. ProjectsInv => ProjectOwned
  BY DEF ProjectsInv
<1>. QED
  BY <1>1, ProjectsInvariant, PTL

\* However many invitations of one user pass the check at
\* project_member_service.py:195 together, one of them is answered with 201
\* and its membership is the one there is.
THEOREM MembershipsUnique == Spec => []OneMembershipPerUser
<1>1. ProjectsInv => OneMembershipPerUser
  <2>. SUFFICES ASSUME ProjectsInv PROVE OneMembershipPerUser
    OBVIOUS
  <2>1. \A r \in Invitations : pc[r] = "created" => \E m \in members :
          /\ m.project = body[r].project /\ m.user = body[r].target
          /\ m.role = body[r].role /\ ~m.is_owner
    BY DEF ProjectsInv, InvitedRow
  <2>. QED
    BY <2>1 DEF ProjectsInv, MembershipUnique, InvitedOnce, OneMembershipPerUser
<1>. QED
  BY <1>1, ProjectsInvariant, PTL

\* Nobody joins a project but by an administrator or by a lead who was there
\* before (project_member_service.py:155-169).
THEOREM InvitationsChain == Spec => []MembersInvited
<1>1. ProjectsInv => MembersInvited
  BY DEF ProjectsInv
<1>. QED
  BY <1>1, ProjectsInvariant, PTL

\* The four checks of who reads a project agree, for every viewer and every
\* state of its rows.
THEOREM SameReaders == Spec => []ReadersAgree
<1>1. TypeOK => ReadersAgree
  <2>. SUFFICES ASSUME TypeOK, NEW viewer \in Viewers
                PROVE  /\ Detailed(viewer) = Listed(viewer)
                       /\ MembersReadable(viewer) = Listed(viewer)
                       /\ VersionsReadable(viewer) = Listed(viewer)
    BY DEF ReadersAgree
  <2>1. \A p \in Existing : projects[p].visibility \in Visibilities
    BY DEF Existing, TypeOK, Rows
  <2>2. \A p : Anonymous \notin MembersOf(p)
    BY ProjectsAssumption DEF MembersOf, TypeOK, Memberships
  <2>3. Anonymous \notin Admins /\ (viewer # Anonymous => viewer \in Users)
    BY ProjectsAssumption DEF Viewers
  <2>4. Detailed(viewer) = Listed(viewer)
    BY <2>1, <2>2, <2>3 DEF Detailed, Listed, Visibilities
  <2>5. MembersReadable(viewer) = Listed(viewer)
    BY <2>1, <2>2, <2>3 DEF MembersReadable, Listed, Visibilities
  <2>6. VersionsReadable(viewer) = Listed(viewer)
    BY <2>1, <2>2, <2>3, ProjectsAssumption DEF VersionsReadable, Listed, Visibilities
  <2>. QED
    BY <2>4, <2>5, <2>6
<1>. QED
  BY <1>1, TypeCorrect, PTL

-----------------------------------------------------------------------------
\* Every candidate before the n-th is the slug of some project.
TakenBefore(t, n) == \A k \in 1..n-1 : SlugsOf[t][k] \in Taken

\* A creation has found the candidates before its own taken, and a slug once
\* taken stays so.
Searched == \A r \in Creations :
    pc[r] \in {"slug", "insert"} => TakenBefore(body[r].title, counter[r])

\* Dense slugs, and what a search under way has passed.
SlugInv == SlugsDense /\ Searched

\* Slugs are never given up: what was taken before a candidate still is.
LEMMA TakenBeforeKept ==
    ASSUME NEW t, NEW n, TakenBefore(t, n), Taken \subseteq Taken'
    PROVE  TakenBefore(t, n)'
  BY DEF TakenBefore

\* The slugs stay as dense while no row is written.
LEMMA NoSlugWritten ==
    ASSUME SlugInv, UNCHANGED projects
    PROVE  SlugsDense' /\ Taken' = Taken
  BY DEF SlugInv, SlugsDense, Existing, Taken

\* A creation whose constraints hold takes a slug that was free, after the
\* candidates that it found taken.
LEMMA SlugInserted ==
    ASSUME TypeInv, SlugInv, NEW r \in Creations, pc[r] = "insert", Unique(r),
           InsertProject(r)
    PROVE  SlugsDense' /\ Taken \subseteq Taken'
<1> DEFINE new == publicId[r]
           t == body[r].title
           n == counter[r]
<1>1. /\ Row(r) # NoProject /\ new \in ProjectIds
      /\ Row(r).slug = Slug(r) /\ Row(r).title = t
  BY RowTyped DEF Row
<1>2. /\ projects'[new] = Row(r)
      /\ \A p \in ProjectIds : p # new => projects'[p] = projects[p]
  BY <1>1 DEF InsertProject, TypeInv, TypeOK
<1>3. /\ new \notin Existing /\ new \in Existing'
      /\ \A p \in ProjectIds : p # new => (p \in Existing' <=> p \in Existing)
  BY <1>1, <1>2 DEF Existing, Unique
<1>4. \A p \in Existing : p # new /\ p \in Existing' /\ projects'[p] = projects[p]
  BY <1>2, <1>3 DEF Existing
<1>5. Taken \subseteq Taken'
  BY <1>4 DEF Taken
<1>6. \A p \in Existing' : p = new \/ p \in Existing
  BY <1>3 DEF Existing
<1>7. \A p \in Existing : projects[p].slug # projects'[new].slug
  BY <1>1, <1>2 DEF Unique, Taken
<1>8. \A p, q \in Existing' : projects'[p].slug = projects'[q].slug => p = q
  BY <1>4, <1>6, <1>7 DEF SlugInv, SlugsDense
<1>9. ASSUME NEW p \in Existing'
      PROVE  \E m \in DOMAIN SlugsOf[projects'[p].title] :
               /\ SlugsOf[projects'[p].title][m] = projects'[p].slug
               /\ \A k \in 1..m-1 : SlugsOf[projects'[p].title][k] \in Taken'
  <2>1. CASE p = new
    <3>1. n \in DOMAIN SlugsOf[t] /\ SlugsOf[t][n] = projects'[p].slug
            /\ projects'[p].title = t
      BY <1>1, <1>2, <2>1 DEF Slug, TypeInv, CreationOK
    <3>2. \A k \in 1..n-1 : SlugsOf[t][k] \in Taken'
      BY <1>5 DEF SlugInv, Searched, TakenBefore
    <3>. QED
      BY <3>1, <3>2
  <2>2. CASE p \in Existing
    <3>1. PICK m \in DOMAIN SlugsOf[projects[p].title] :
            /\ SlugsOf[projects[p].title][m] = projects[p].slug
            /\ \A k \in 1..m-1 : SlugsOf[projects[p].title][k] \in Taken
      BY <2>2 DEF SlugInv, SlugsDense
    <3>. QED
      BY <1>4, <1>5, <2>2, <3>1
  <2>. QED
    BY <1>6, <2>1, <2>2
<1>10. SlugsDense'
  BY <1>8, <1>9 DEF SlugsDense
<1>. QED
  BY <1>5, <1>10

\* What a creation does for the next stage: it starts with the first
\* candidate, or goes on to the next one if its own is taken.
LEMMA CreationSearches ==
    ASSUME TypeInv, SlugInv, NEW r \in Creations,
           \/ \E b \in CreateBodies : StartCreation(r, b)
           \/ CreationStep(r) \/ CreationFails(r)
    PROVE  SlugInv'
<1>1. r \in Requests
  BY DEF Requests
<1>2. \A q \in Creations : q # r =>
        pc'[q] = pc[q] /\ body'[q] = body[q] /\ counter'[q] = counter[q]
  BY <1>1 DEF StartCreation, CreationStep, TrySlug, CommitProject, CreationFails, Reads,
     Moves, TypeInv, TypeOK, Requests
<1>3. SlugsDense' /\ Taken \subseteq Taken'
  <2>1. UNCHANGED projects \/ (pc[r] = "insert" /\ Unique(r) /\ InsertProject(r))
    BY DEF StartCreation, CreationStep, TrySlug, CommitProject, CreationFails
  <2>. QED
    BY <2>1, NoSlugWritten, SlugInserted
<1>4. pc'[r] \in {"slug", "insert"} => TakenBefore(body'[r].title, counter'[r])
  <2>1. CASE \E b \in CreateBodies : StartCreation(r, b)
    <3>1. counter'[r] = 1
      BY <2>1 DEF StartCreation, Reads, TypeInv, CreationOK
    <3>. QED
      BY <3>1 DEF TakenBefore
  <2>2. CASE TrySlug(r)
    <3>1. /\ pc[r] = "slug" /\ counter[r] \in Nat /\ UNCHANGED <<body, projects>>
          /\ counter'[r] = NextCandidate(r)
      BY <2>2 DEF TrySlug, TypeInv, TypeOK
    <3>2. TakenBefore(body[r].title, counter[r])
      BY <3>1 DEF SlugInv, Searched
    <3>3. CASE Slug(r) \in Taken
      <4>1. counter'[r] = counter[r] + 1
        BY <3>1, <3>3 DEF NextCandidate
      <4>2. \A k \in 1..counter[r] : SlugsOf[body[r].title][k] \in Taken
        BY <3>1, <3>2, <3>3 DEF TakenBefore, Slug
      <4>. QED
        BY <3>1, <4>1, <4>2 DEF TakenBefore
    <3>4. CASE Slug(r) \notin Taken
      BY <3>1, <3>2, <3>4 DEF NextCandidate
    <3>. QED
      BY <3>3, <3>4
  <2>3. CASE CommitProject(r) \/ CreationFails(r)
    BY <1>1, <2>3 DEF CommitProject, CreationFails, Moves, TypeInv, TypeOK
  <2>. QED
    BY <2>1, <2>2, <2>3 DEF CreationStep
<1>5. ASSUME NEW q \in Creations, pc'[q] \in {"slug", "insert"}
      PROVE  TakenBefore(body[q].title, counter[q])'
  <2>1. CASE q = r
    <3>1. TakenBefore(body'[r].title, counter'[r])
      BY <1>4, <1>5, <2>1
    <3>. QED
      BY <1>3, <2>1, <3>1 DEF TakenBefore
  <2>2. CASE q # r
    <3>1. \A k \in 1..counter[q]-1 : SlugsOf[body[q].title][k] \in Taken
      BY <1>2, <1>5, <2>2 DEF SlugInv, Searched, TakenBefore
    <3>. QED
      BY <1>2, <1>3, <2>2, <3>1 DEF TakenBefore
  <2>. QED
    BY <2>1, <2>2
<1>. QED
  BY <1>3, <1>5 DEF SlugInv, Searched

\* Whatever is created meanwhile, a slug names one project, and a suffix is
\* used only when the slugs before it are (slug.py:43).
THEOREM SlugsCorrect == Spec => []SlugsDense
<1>1. Init => SlugInv
  <2>. SUFFICES ASSUME Init PROVE SlugInv
    OBVIOUS
  <2>1. Existing = {} /\ \A r \in Creations : pc[r] = "idle"
    BY DEF Init, Existing, Requests
  <2>. QED
    BY <2>1 DEF SlugInv, SlugsDense, Searched
<1>2. ASSUME TypeInv, SlugInv, [Next]_projectsVars PROVE SlugInv'
  <2>1. ASSUME NEW r \in Creations,
               \/ \E b \in CreateBodies : StartCreation(r, b)
               \/ CreationStep(r) \/ CreationFails(r)
        PROVE  SlugInv'
    BY <1>2, <2>1, CreationSearches
  <2>2. ASSUME UNCHANGED projects,
               \A r \in Creations :
                 pc'[r] = pc[r] /\ body'[r] = body[r] /\ counter'[r] = counter[r]
        PROVE  SlugInv'
    <3>1. SlugsDense' /\ Taken' = Taken
      BY <1>2, <2>2, NoSlugWritten
    <3>. QED
      BY <1>2, <2>2, <3>1 DEF SlugInv, Searched, TakenBefore
  <2>3. ASSUME NEW r \in Invitations,
               \/ \E b \in InviteBodies : StartInvitation(r, b)
               \/ InvitationStep(r) \/ InvitationFails(r)
        PROVE  SlugInv'
    <3>1. r \in Requests /\ \A q \in Creations : q # r /\ q \in Requests
      BY ProjectsAssumption DEF Requests
    <3>2. /\ UNCHANGED <<projects, counter>>
          /\ \A q \in Requests : q # r => pc'[q] = pc[q] /\ body'[q] = body[q]
      BY <1>2, <2>3, <3>1 DEF StartInvitation, InvitationStep, ResolveTarget,
         CheckDuplicate, CommitMember, InvitationFails, Reads, Moves, TypeInv, TypeOK
    <3>. QED
      BY <2>2, <3>1, <3>2
  <2>4. CASE UNCHANGED <<requestVars, projects>>
    BY <2>2, <2>4 DEF requestVars
  <2>. QED
    BY <1>2, <2>1, <2>3, <2>4 DEF Next, Deactivate, projectsVars
<1>3. ProjectsInv => TypeInv
  BY DEF ProjectsInv
<1>4. SlugInv => SlugsDense
  BY DEF SlugInv
<1>. QED
  BY <1>1, <1>2, <1>3, <1>4, ProjectsInvariant, PTL DEF Spec
=============================================================================
