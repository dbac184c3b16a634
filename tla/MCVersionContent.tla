--------------------------- MODULE MCVersionContent ---------------------------
(***************************************************************************)
(* Two projects, a member of each, one version to upload to, and a body    *)
(* for every way an upload can go.                                         *)
(***************************************************************************)
EXTENDS VersionContent

CONSTANTS alice, bob, p1, p2, v1, w1, w2, c1, c2

MCBody(user, project, version, name, file) ==
    [user |-> user, project |-> project, version |-> version, name |-> name,
     file |-> file]

MCBodies ==
    {MCBody(alice, p1, NoVersion, "a.pdf", <<c1>>),
     MCBody(alice, NoProject, v1, "root", <<c1, c2>>),
     MCBody(alice, p1, v1, "a.pdf\t", <<c2>>),
     MCBody(bob, NoProject, NoVersion, "wrap:1\nzip", <<c1, c2, c1>>),
     MCBody(bob, p2, v1, "wrap:1\nzip", <<c2>>),
     MCBody(bob, p2, NoVersion, NoName, <<c2>>),
     MCBody(bob, p2, NoVersion, "wrap:1\nzip", <<>>)}

MCUsers == {alice, bob}
MCProjects == {p1, p2}
MCChunks == {c1, c2}
MCVersions == {v1, w1, w2}
MCMembers == {<<alice, p1>>, <<bob, p2>>}
MCProjectOf == [v \in MCVersions |-> p1]

\* A name with a tab at its end, which only the digest strips, and one with
\* pieces that a line has as well.
MCFileNames == {"a.pdf", "a.pdf\t", "root", "wrap:1\nzip"}
MCText(text) == <<"text", text>>
MCCleanName ==
    [name \in MCFileNames |->
      CASE name \in {"a.pdf", "a.pdf\t"} -> <<MCText("a.pdf")>>
        [] name = "root" -> <<MCText("root")>>
        [] name = "wrap:1\nzip" ->
             <<MCText("wrap"), Colon, Decimal(1), Newline, MCText("zip")>>]
MCWrapNames == {"wrap:1\nzip"}
MCNameOrder == <<MCCleanName["a.pdf"], MCCleanName["root"], MCCleanName["wrap:1\nzip"]>>
=============================================================================
