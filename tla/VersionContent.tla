---------------------------- MODULE VersionContent ----------------------------
(***************************************************************************)
(* What create_project_version makes of the artifacts it is given: the     *)
(* composite digest over their rows, the directory it pins from their      *)
(* stored bytes, and the CIDs it writes back.  The rows and the bytes are  *)
(* those ArtifactIngest leaves behind, faults included.  VersionAnchoring  *)
(* has the rest of that handler and takes digest and root for granted.     *)
(*                                                                         *)
(* A content identifier is the content it addresses, a file's or a         *)
(* directory's.  A composite digest is the string that is hashed, taken    *)
(* apart into pieces: since a file name may contain any of these, two      *)
(* snapshots may have one digest.                                          *)
(***************************************************************************)
EXTENDS ArtifactIngest, SequencesExt

CONSTANTS
    Snapshots,   \* requests to create a version, each with the id of its own
    CleanName,   \* str.strip() of each file name, as a sequence of pieces
    NameOrder,   \* the stripped names in byte order
    WrapNames    \* the names that begin with "wrap"

\* Bytes by file name.
Directories == UNION {[names -> Seq(Chunks)] : names \in SUBSET FileNames}

CleanNames == Range(CleanName)

ASSUME ContentAssumption ==
    /\ DOMAIN CleanName = FileNames
    /\ NameOrder \in Seq(CleanNames)
    /\ Range(NameOrder) = CleanNames /\ IsInjective(NameOrder)
    /\ WrapNames \subseteq FileNames
    /\ IsFiniteSet(ArtifactIds)
    /\ Absent \notin {"directory"} \X Directories
    /\ Snapshots \subseteq Versions

VARIABLES
    vpc, plan,         \* version requests: progress and local variables
    projectVersions,   \* rows: artifacts, composite_sha256, ipfs_root_cid
    ipfsCid            \* artifacts.ipfs_cid

versionVars == <<vpc, plan, projectVersions, ipfsCid>>
contentVars == <<ingestVars, versionVars>>

FileCid(content) == <<"file", content>>
DirectoryCid(files) == <<"directory", files>>

ContentInit ==
    /\ Init
    /\ vpc = [v \in Snapshots |-> "idle"]
    /\ plan = [v \in Snapshots |-> NoRow]
    /\ projectVersions = [v \in Snapshots |-> NoRow]
    /\ ipfsCid = [i \in ArtifactIds |-> Absent]

-----------------------------------------------------------------------------
(* compute_composite_sha256.                                               *)

\* Pieces of a string, each with the value it stands for.
Newline == <<"newline", 0>>
Colon == <<"colon", 0>>
Decimal(n) == <<"decimal", n>>
Hexadecimal(content) == <<"hexadecimal", content>>

\* file_name, file_size_bytes and sha256_hash of a row, and how they are written.
Line(i) == [name |-> CleanName[artifacts[i].name], size |-> artifacts[i].size,
            sha256 |-> artifacts[i].sha256]

LineText(line) ==
    line.name \o <<Colon, Decimal(line.size), Colon, Hexadecimal(line.sha256)>>

\* The lines with a newline between them.
CanonicalString(lines) ==
    FlattenSeq([k \in DOMAIN lines |->
      IF k = 1 THEN LineText(lines[k]) ELSE <<Newline>> \o LineText(lines[k])])

NamePosition(name) == CHOOSE p \in DOMAIN NameOrder : NameOrder[p] = name

\* A stable sort: lines of one name keep the order they came in.
Before(lines, j, k) ==
    \/ NamePosition(lines[j].name) < NamePosition(lines[k].name)
    \/ lines[j].name = lines[k].name /\ j < k

Place(lines, k) == Cardinality({j \in DOMAIN lines : Before(lines, j, k)}) + 1

SortedByName(lines) ==
    [n \in DOMAIN lines |-> lines[CHOOSE k \in DOMAIN lines : Place(lines, k) = n]]

\* Mutation: the lines are hashed in the order of the rows.
CompositeOfRows(ids) == CanonicalString([k \in DOMAIN ids |-> Line(ids[k])])

ComputeCompositeSha256(ids) ==
    CanonicalString(SortedByName([k \in DOMAIN ids |-> Line(ids[k])]))
-----------------------------------------------------------------------------
(* The pinned directory.                                                   *)

\* The files whose bytes the storage returns, keyed by file_name: a later row
\* replaces an earlier one of its name, a missing one is passed over.
FilesPayload(ids) ==
    LET held == {k \in DOMAIN ids : storage[ids[k]] # Absent}
        named(name) == {k \in held : artifacts[ids[k]].name = name}
        last(name) == CHOOSE k \in named(name) : \A j \in named(name) : j <= k
    IN [name \in {artifacts[ids[k]].name : k \in held} |-> storage[ids[last(name)]]]

\* add_directory: the answer of Kubo has an entry per file and one for the
\* directory.  The mapping keeps the latter under "root", over a file of that
\* name, and takes a file whose name begins with "wrap" for it.
AddDirectory(files) ==
    [n \in DOMAIN files \ WrapNames |->
      IF n = "root" THEN DirectoryCid(files) ELSE FileCid(files[n])]

\* Without any bytes, the CID of the first row that has one stands for the root.
FallbackRoot(ids) ==
    LET pinned == {k \in DOMAIN ids : ipfsCid[ids[k]] # Absent}
    IN IF pinned = {} THEN Absent ELSE ipfsCid[ids[Min(pinned)]]

\* The row, the link of every artifact, and the CIDs, in one commit.
CreateVersion(v, ids, composite, root, cids) ==
    /\ projectVersions' = [projectVersions EXCEPT
         ![v] = [artifacts |-> Range(ids), composite |-> composite, root |-> root]]
    /\ artifacts' = [i \in ArtifactIds |->
         IF i \in Range(ids) THEN [artifacts[i] EXCEPT !.version = v] ELSE artifacts[i]]
    /\ ipfsCid' = [i \in ArtifactIds |->
         IF i \in Range(ids) /\ artifacts[i].name \in DOMAIN cids
         THEN cids[artifacts[i].name] ELSE ipfsCid[i]]
    /\ vpc' = [vpc EXCEPT ![v] = "done"]

\* The rows come in whatever order the database returns them.  The handler
\* suspends only if there is something to pin.
StartVersion(v) ==
    /\ vpc[v] = "idle"
    /\ \E selected \in (SUBSET Recorded) \ {{}} : \E ids \in SetToSeqs(selected) :
         LET composite == ComputeCompositeSha256(ids)
             files == FilesPayload(ids)
         IN IF DOMAIN files # {}
            THEN /\ plan' = [plan EXCEPT ![v] = [ids |-> ids, files |-> files,
                                                 composite |-> composite]]
                 /\ vpc' = [vpc EXCEPT ![v] = "pinning"]
                 /\ UNCHANGED <<artifacts, projectVersions, ipfsCid>>
            ELSE /\ CreateVersion(v, ids, composite, FallbackRoot(ids), <<>>)
                 /\ UNCHANGED plan
    /\ UNCHANGED <<requestVars, storage, faults>>

FinishPin(v) ==
    /\ vpc[v] = "pinning"
    /\ LET p == plan[v]
       IN CreateVersion(v, p.ids, p.composite, DirectoryCid(p.files),
                        AddDirectory(p.files))
    /\ UNCHANGED <<requestVars, storage, faults, plan>>

\* The node is unreachable, too slow, or its answer is not understood.
PinFails(v) ==
    /\ vpc[v] = "pinning"
    /\ vpc' = [vpc EXCEPT ![v] = "error"]
    /\ UNCHANGED <<ingestVars, plan, projectVersions, ipfsCid>>

CrashWhilePinning ==
    /\ Crash
    /\ vpc' = [v \in Snapshots |-> IF vpc[v] = "pinning" THEN "lost" ELSE vpc[v]]
    /\ UNCHANGED <<plan, projectVersions, ipfsCid>>

ContentNext ==
    \/ \E u \in Uploads :
         /\ \/ \E b \in Bodies : Refuse(u, b) \/ IdsExhausted(u, b) \/ Begin(u, b)
            \/ HandlerStep(u)
            \/ TransferFails(u) \/ CommitFails(u) \/ RefreshFails(u)
         /\ UNCHANGED versionVars
    \/ \E v \in Snapshots : StartVersion(v) \/ FinishPin(v) \/ PinFails(v)
    \/ CrashWhilePinning

ContentSpec == ContentInit /\ [][ContentNext]_contentVars
-----------------------------------------------------------------------------
Created == {v \in Snapshots : projectVersions[v] # NoRow}
Namesakes(ids) ==
    \E i, j \in ids :
      i # j /\ CleanName[artifacts[i].name] = CleanName[artifacts[j].name]

\* The independent validator of BLOCKCHAIN_DESIGN.md:25 fetches the directory of
\* the anchored root and computes the digest from its files alone.
NamePlace(names, name) ==
    Cardinality({n \in names :
      NamePosition(CleanName[n]) < NamePosition(CleanName[name])}) + 1

DirectoryLines(files) ==
    [k \in 1 .. Cardinality(DOMAIN files) |->
       LET name == CHOOSE n \in DOMAIN files : NamePlace(DOMAIN files, n) = k
       IN [name |-> CleanName[name], size |-> Len(files[name]), sha256 |-> files[name]]]

DigestOfDirectory(files) == CanonicalString(DirectoryLines(files))

\* What is pinned under the root of a version is what its digest covers: a
\* validator arrives at the anchored digest.  It takes the whole way from the
\* first chunk of each upload, so it holds while the storage keeps what was
\* recorded, and for artifacts of different names none of which was given up.
RootReproducesDigest ==
    \A v \in Created :
      LET ids == projectVersions[v].artifacts
          root == projectVersions[v].root
      IN ~Namesakes(ids) /\ ids \cap GivenUp = {} =>
           /\ root # Absent /\ root[1] = "directory"
           /\ DigestOfDirectory(root[2]) = projectVersions[v].composite
=============================================================================
