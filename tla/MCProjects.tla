------------------------------ MODULE MCProjects ------------------------------
(***************************************************************************)
(* Two creations whose slugs collide in every way ("foo" becomes foo-2,    *)
(* which is what "foo 2" becomes), and two invitations that name one user  *)
(* or each other's authors.                                                *)
(***************************************************************************)
EXTENDS Projects, TLC

MCSlugsOf == "foo" :> <<"foo", "foo-2", "foo-3">> @@ "foo 2" :> <<"foo-2", "foo-2-2", "foo-2-3">>

MCCreateBodies ==
    {[user |-> "ann", title |-> "foo", visibility |-> "PRIVATE"],
     [user |-> "ben", title |-> "foo", visibility |-> "INSTITUTIONAL"],
     [user |-> "ben", title |-> "foo 2", visibility |-> "PUBLIC"],
     [user |-> "vera", title |-> "foo", visibility |-> "PUBLIC"]}

Invite(user, target, role) ==
    [user |-> user, project |-> "p1", target |-> target, role |-> role]

MCInviteBodies ==
    {Invite("ann", "ben", "LEAD"), Invite("ada", "ben", "CONTRIBUTOR"),
     Invite("ben", "cleo", "LEAD")}

MCUsers == {"ann", "ben", "cleo", "vera", "ada"}
=============================================================================
