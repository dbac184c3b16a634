-------------------------- MODULE DisputeFlowProofs --------------------------
(***************************************************************************)
(* Proofs about disputes, for every number of claims, rulings, projects    *)
(* and versions, and however many faults and direct disputes there are.    *)
(*                                                                         *)
(* The inductive invariant is the conjunction of the named parts below;    *)
(* the parts after Base are proved on top of it.                           *)
(***************************************************************************)
EXTENDS DisputeFlow, FiniteSetTheorems, SequenceTheorems, TLAPS

\* What a claim and a ruling carry through their suspensions.
ClaimPlans == [version : RegistrationIds, loadedStatus : {"ACTIVE", "UNDER_DISPUTE"}]
RulingPlans == [dispute : Claims, status : Resolutions, version : RegistrationIds]

\* What is under way was begun, by a request of its own kind, on a version that
\* is anchored.
PlansFit ==
    /\ \A c \in Claims :
         /\ pc[c] # "ruling"
         /\ pc[c] \in {"pinning", "filing", "waiting", "done"} =>
              plan[c] \in ClaimPlans /\ plan[c].version \in anchored
    /\ \A q \in Rulings :
         /\ pc[q] \notin {"pinning", "filing"}
         /\ pc[q] \in {"ruling", "waiting", "done"} => plan[q] \in RulingPlans

\* Only a claim that went through has a row, and it is a row of the project of
\* its version.
FiledWhenDone ==
    \A c \in Claims : disputes[c] # NoDispute =>
      pc[c] = "done" /\ disputes[c].project = VersionProject[plan[c].version]

\* From its check to its commit a ruling is about an active dispute.
RulingsInForce ==
    \A q \in Rulings, c \in Claims :
      pc[q] \in {"ruling", "waiting"} /\ plan[q].dispute = c =>
        /\ IsActive(c)
        /\ plan[q].version \in AnchoredOf(disputes[c].project)

\* A project with an anchored version has a latest one.
LatestExists ==
    \A p \in Projects : AnchoredOf(p) # {} =>
      \E g \in AnchoredOf(p) : \A h \in AnchoredOf(p) : VersionIndex[h] <= VersionIndex[g]

\* A request sends one transaction at most, and its receipt is for that one.
SentOnce ==
    /\ \A r \in Requests, i \in 1 .. Len(mempool) : mempool[i].from = r =>
         /\ pc[r] \in {"waiting", "failed"}
         /\ receipts[r] = "none"
         /\ \A j \in 1 .. Len(mempool) : mempool[j].from = r => j = i
    /\ \A r \in Requests :
         /\ receipts[r] # "none" => pc[r] \in {"waiting", "failed", "done"}
         /\ pc[r] = "done" => receipts[r] = "success"

\* A transaction is the one its request planned.
PoolFaithful ==
    \A r \in Requests, i \in 1 .. Len(mempool) : mempool[i].from = r =>
      /\ mempool[i].version = plan[r].version
      /\ mempool[i].kind = "raise" => r \in Claims /\ mempool[i].status = "OPEN"
      /\ mempool[i].kind = "resolve" =>
           /\ r \in Rulings
           /\ mempool[i].status \in Resolutions
           /\ mempool[i].status = plan[r].status

\* The inductive invariant on which the other parts rest.
Base ==
    /\ TypeOK /\ PlansFit /\ FiledWhenDone /\ RulingsInForce
    /\ LatestExists /\ SentOnce /\ PoolFaithful

\* Nobody sends while a handler waits: what it sent is the last of the pool.
WaitingIsLast ==
    \A r \in Requests : pc[r] = "waiting" /\ mempool # <<>> =>
      mempool[Len(mempool)].from = r

\* A transaction of the dispute's own project that rules on it is on its way
\* only while the project has an active dispute.
RulingsOnActive ==
    \A i \in 1 .. Len(mempool), g \in RegistrationIds :
      mempool[i].kind = "resolve" /\ mempool[i].version = g =>
        ActiveDisputes(VersionProject[g]) # {}

\* Once its ruling is mined the contract holds its outcome, or a newer dispute.
RulingOnChain ==
    \A q \in Rulings, g \in RegistrationIds :
      pc[q] = "waiting" /\ receipts[q] = "success" /\ plan[q].version = g =>
        proofs[g].disputeState \in {plan[q].status, "OPEN"}

\* A version is not disputed before it is anchored.
UndisputedBefore ==
    \A g \in RegistrationIds : g \notin anchored => versionDispute[g] = "NONE"

\* A project of one version has one active dispute at most, unless a ruling was
\* lost.
AtMostOneActive ==
    LostRulings = {} => \A g \in anchored : SoleVersion(g) =>
      \A c, d \in ActiveDisputes(VersionProject[g]) : c = d

\* An active dispute of a project is an active dispute of its version on chain,
\* except while the ruling on it waits to be committed.
ActiveOnChain ==
    LostRulings = {} => \A g \in anchored, c \in Claims :
      SoleVersion(g) /\ c \in ActiveDisputes(VersionProject[g]) =>
        \/ proofs[g].disputeState \in Active
        \/ \E q \in Rulings :
             pc[q] = "waiting" /\ receipts[q] = "success" /\ plan[q].dispute = c

\* A claim whose notice was mined is about to be the only one.
NextClaimAlone ==
    LostRulings = {} => \A g \in anchored, c \in Claims :
      /\ SoleVersion(g)
      /\ pc[c] = "waiting" /\ receipts[c] = "success" /\ plan[c].version = g
      => /\ proofs[g].disputeState \in Active
         /\ ActiveDisputes(VersionProject[g]) = {}

-----------------------------------------------------------------------------
(* Types.                                                                  *)

\* The conjuncts of TypeOK, by what they are about.
RequestsOK ==
    /\ pc \in [Requests -> {"idle", "pinning", "done", "failed"} \cup Holding]
    /\ plan \in [Requests -> Plans \cup {NoPlan}]
    /\ loop \in Requests \cup {Free}
    /\ \A r \in Requests : pc[r] \in Holding <=> loop = r

\* The conjunct of TypeOK about the tables.
DatabaseOK ==
    /\ disputes \in [Claims -> [project : Projects, status : DisputeStatuses \ {"NONE"}]
                               \cup {NoDispute}]
    /\ versionDispute \in [RegistrationIds -> DisputeStatuses]
    /\ projectStatus \in [Projects -> {"ACTIVE", "UNDER_DISPUTE"}]
    /\ anchored \subseteq RegistrationIds

\* What the pool holds.
Transactions == [from : Requests, kind : {"raise", "resolve"},
                 version : RegistrationIds, status : Resolutions \cup {"OPEN"}]

\* The conjunct of TypeOK about the pool.
PoolOK ==
    /\ mempool \in Seq(Transactions)
    /\ receipts \in [Requests -> {"none", "success", "reverted"}]

\* The conjunct of TypeOK about the bounds.
BoundsOK == direct \in 0 .. MaxDirect /\ faults \in 0 .. MaxFaults

\* TypeOK is the conjunction of these parts, now and after a step.
LEMMA TypeParts ==
    /\ TypeOK <=> RequestsOK /\ DatabaseOK /\ PoolOK /\ Chain!TypeOK /\ BoundsOK
    /\ TypeOK' <=> RequestsOK' /\ DatabaseOK' /\ PoolOK' /\ Chain!TypeOK' /\ BoundsOK'
BY DEF TypeOK, RequestsOK, DatabaseOK, PoolOK, BoundsOK, Transactions

\* What leaves the tables alone keeps their types.
LEMMA KeepDatabase ==
    ASSUME DatabaseOK, UNCHANGED databaseVars
    PROVE  DatabaseOK'
BY DEF DatabaseOK, databaseVars

\* What leaves the contract alone keeps its types.
LEMMA KeepContract ==
    ASSUME Chain!TypeOK, UNCHANGED contractVars
    PROVE  Chain!TypeOK'
BY DEF contractVars, Chain!TypeOK

\* What leaves the pool alone keeps its types.
LEMMA KeepPool ==
    ASSUME PoolOK, UNCHANGED <<mempool, receipts>>
    PROVE  PoolOK'
BY DEF PoolOK

\* A request that ends without effect: refused, failed, or late.
Ends(r) ==
    /\ \/ pc[r] \in {"idle", "pinning"} /\ loop = Free
       \/ loop = r
    /\ Finish(r, "failed")
    /\ UNCHANGED <<databaseVars, chainVars>>

\* What a step is.
LEMMA NextCases ==
    ASSUME [Next]_vars
    PROVE  \/ \E g \in RegistrationIds : AnchorVersion(g) \/ DirectDispute(g)
           \/ \E r \in Requests : Ends(r)
           \/ \E c \in Claims, g \in RegistrationIds : BeginClaim(c, g)
           \/ \E c \in Claims : SendClaim(c) \/ CommitClaim(c)
           \/ \E q \in Rulings, c \in Claims, status \in Resolutions : BeginRuling(q, c, status)
           \/ \E q \in Rulings : SendRuling(q) \/ CommitRuling(q)
           \/ MineTransaction \/ DropPool \/ Crash
           \/ UNCHANGED vars
<1>1. ASSUME NEW c \in Claims, NEW g \in RegistrationIds, RefuseClaim(c, g)
      PROVE  \E r \in Requests : Ends(r)
  BY <1>1 DEF RefuseClaim, Ends, Requests
<1>2. ASSUME NEW q \in Rulings, NEW c \in Claims, RefuseRuling(q, c)
      PROVE  \E r \in Requests : Ends(r)
  BY <1>2 DEF RefuseRuling, Ends, Requests
<1>3. ASSUME NEW r \in Requests, ChainCallFails(r) \/ DatabaseFails(r)
      PROVE  Ends(r)
  BY <1>3 DEF ChainCallFails, DatabaseFails, Ends
<1>. QED
  BY <1>1, <1>2, <1>3 DEF Next, ClaimArrives, RulingArrives, ClaimStep, RulingStep

\* Every step keeps within the bounds.
LEMMA BoundsStep ==
    ASSUME BoundsOK, [Next]_vars
    PROVE  BoundsOK'
<1> USE DisputeAssumption DEF BoundsOK
<1>1. CASE direct' = direct /\ faults' = faults
  BY <1>1
<1>2. CASE direct' = direct /\ faults' = faults + 1 /\ faults < MaxFaults
  BY <1>2
<1>3. CASE direct' = direct + 1 /\ direct < MaxDirect /\ faults' = faults
  BY <1>3
<1>. QED
  BY <1>1, <1>2, <1>3
     DEF Next, vars, AnchorVersion, DirectDispute, ClaimArrives, RefuseClaim, BeginClaim,
         ClaimStep, SendClaim, CommitClaim, FileDispute, RulingArrives, RefuseRuling,
         BeginRuling, RulingStep, SendRuling, CommitRuling, Broadcast, ChainCallFails,
         DatabaseFails, MineTransaction, DropPool, Crash

\* What a step of a handler does to who holds the loop.
LEMMA EndsTypes ==
    ASSUME RequestsOK, NEW r \in Requests, NEW outcome \in {"done", "failed"},
           \/ pc[r] \in {"idle", "pinning"} /\ loop = Free
           \/ loop = r,
           Finish(r, outcome)
    PROVE  RequestsOK'
BY DisputeAssumption DEF RequestsOK, Finish, Holding

\* Types after the checks of a claim or a ruling.
LEMMA BeginTypes ==
    ASSUME RequestsOK, NEW r \in Requests, pc[r] = "idle", loop = Free,
           NEW x \in Plans, plan' = [plan EXCEPT ![r] = x],
           NEW stage \in {"pinning", "filing", "ruling"}, pc' = [pc EXCEPT ![r] = stage],
           loop' = IF stage = "pinning" THEN Free ELSE r
    PROVE  RequestsOK'
BY DisputeAssumption DEF RequestsOK, Holding

\* Types after a transaction is sent.
LEMMA SendTypes ==
    ASSUME RequestsOK, PoolOK, NEW r \in Requests,
           (pc[r] = "pinning" /\ loop = Free) \/ pc[r] \in Holding,
           NEW kind \in {"raise", "resolve"}, NEW g \in RegistrationIds,
           NEW status \in Resolutions \cup {"OPEN"}, Broadcast(r, kind, g, status)
    PROVE  RequestsOK' /\ PoolOK'
<1>1. [from |-> r, kind |-> kind, version |-> g, status |-> status] \in Transactions
  BY DEF Transactions
<1>2. PoolOK'
  BY <1>1 DEF PoolOK, Broadcast
<1>3. RequestsOK'
  BY DisputeAssumption DEF RequestsOK, Broadcast, Holding
<1>. QED
  BY <1>2, <1>3

\* Of the contract: what its calls do to the proof of a version.
LEMMA DisputeTypes ==
    ASSUME Chain!TypeOK, NEW g \in RegistrationIds, Chain!Exists(g),
           NEW status \in DisputeStatuses, Chain!SetDispute(g, status)
    PROVE  /\ Chain!TypeOK'
           /\ proofs'[g].disputeState = status
           /\ \A h \in RegistrationIds : h # g => proofs'[h] = proofs[h]
<1>1. g \in Chain!Strings /\ proofs[g] \in Chain!VersionProofs /\ g # Empty
  BY DEF Chain!TypeOK, Chain!Exists, Chain!Strings
<1>2. proofs' = [proofs EXCEPT ![g] = [proofs[g] EXCEPT !.disputeState = status]]
  BY DEF Chain!SetDispute
<1>3. [proofs[g] EXCEPT !.disputeState = status] \in Chain!VersionProofs
  BY <1>1 DEF Chain!VersionProofs, Chain!DisputeStatuses, DisputeStatuses
<1>4. proofs'[g].disputeState = status
  BY <1>1, <1>2 DEF Chain!TypeOK, Chain!VersionProofs
<1>5. /\ proofs' \in [Chain!Strings -> Chain!VersionProofs \cup {NoProof}]
      /\ proofs'[Empty] = NoProof
  BY <1>1, <1>2, <1>3 DEF Chain!TypeOK
<1>6. Chain!TypeOK'
  BY <1>5 DEF Chain!TypeOK, Chain!SetDispute, Chain!authority
<1>7. \A h \in RegistrationIds : h # g => proofs'[h] = proofs[h]
  BY <1>2 DEF Chain!TypeOK, Chain!Strings
<1>. QED
  BY <1>4, <1>6, <1>7

\* A registration on chain writes an undisputed proof and touches no other.
LEMMA RegisterTypes ==
    ASSUME Chain!TypeOK, NEW g \in RegistrationIds,
           Chain!RegisterProjectVersion(RelayerAccount, g, Snapshot)
    PROVE  /\ Chain!TypeOK'
           /\ proofs'[g].disputeState = "NONE"
           /\ \A h \in RegistrationIds : h # g => proofs'[h] = proofs[h]
<1>1. Chain!NewProof(Snapshot) \in Chain!VersionProofs
  BY DEF Chain!RegisterProjectVersion, Chain!NewProof, Chain!VersionProofs,
         Chain!TypeOK, Chain!DisputeStatuses
<1>2. proofs' \in [Chain!Strings -> Chain!VersionProofs \cup {NoProof}]
  BY <1>1 DEF Chain!RegisterProjectVersion, Chain!WriteProof, Chain!TypeOK
<1>3. proofs'[Empty] = NoProof
  BY DEF Chain!RegisterProjectVersion, Chain!WriteProof, Chain!TypeOK, Chain!Strings
<1>4. recordIndex' \in [1 .. recordCounter' -> RegistrationIds]
  BY DEF Chain!RegisterProjectVersion, Chain!WriteProof, Chain!TypeOK
<1>5. Chain!TypeOK'
  BY <1>1, <1>2, <1>3, <1>4
     DEF Chain!RegisterProjectVersion, Chain!WriteProof, Chain!TypeOK, Chain!authority
<1>6. /\ proofs'[g] = Chain!NewProof(Snapshot)
      /\ \A h \in RegistrationIds : h # g => proofs'[h] = proofs[h]
  BY DEF Chain!RegisterProjectVersion, Chain!WriteProof, Chain!TypeOK, Chain!Strings
<1>. QED
  BY <1>5, <1>6 DEF Chain!NewProof

\* A ruling finds the version it goes to.
LEMMA LatestTypes ==
    ASSUME LatestExists, NEW p \in Projects, AnchoredOf(p) # {}
    PROVE  LatestAnchored(p) \in AnchoredOf(p)
<1>1. \E g \in AnchoredOf(p) : \A h \in AnchoredOf(p) : VersionIndex[h] <= VersionIndex[g]
  BY DEF LatestExists
<1>. QED
  BY <1>1 DEF LatestAnchored

\* The dispute an administrator rules on, and the version the ruling goes to.
LEMMA RulingPlan ==
    ASSUME Base, NEW c \in Claims, IsActive(c)
    PROVE  LET g == LatestAnchored(disputes[c].project)
           IN  /\ g \in RegistrationIds
               /\ g \in AnchoredOf(disputes[c].project)
<1>1. c \in Filed /\ disputes[c] # NoDispute
  BY DEF IsActive, Filed
<1>2. disputes[c].project \in Projects
  BY <1>1, TypeParts DEF Base, DatabaseOK
<1>3. plan[c].version \in AnchoredOf(disputes[c].project)
  BY <1>1 DEF Base, FiledWhenDone, PlansFit, AnchoredOf
<1>. QED
  BY <1>2, <1>3, LatestTypes, TypeParts DEF Base, AnchoredOf, DatabaseOK

\* What mining a transaction does: it opens the dispute on chain, closes it, or
\* reverts.
MineEffect(r, g, kind, status) ==
    /\ mempool # <<>>
    /\ mempool[1] = [from |-> r, kind |-> kind, version |-> g, status |-> status]
    /\ mempool' = Tail(mempool)
    /\ UNCHANGED <<requestVars, databaseVars, direct, faults>>
    /\ \/ /\ kind = "raise" /\ status = "OPEN" /\ r \in Claims
          /\ Chain!Exists(g) /\ proofs[g].disputeState \notin Active
          /\ Chain!SetDispute(g, "OPEN")
          /\ receipts' = [receipts EXCEPT ![r] = "success"]
       \/ /\ kind = "resolve" /\ status \in Resolutions /\ status = plan[r].status
          /\ r \in Rulings
          /\ Chain!Exists(g) /\ Chain!SetDispute(g, status)
          /\ receipts' = [receipts EXCEPT ![r] = "success"]
       \/ /\ receipts' = [receipts EXCEPT ![r] = "reverted"]
          /\ UNCHANGED contractVars

\* What is mined was sent by one request, for the version it planned.
LEMMA MineCases ==
    ASSUME Base, MineTransaction
    PROVE  \E r \in Requests, g \in RegistrationIds, kind \in {"raise", "resolve"},
              status \in Resolutions \cup {"OPEN"} :
             /\ MineEffect(r, g, kind, status)
             /\ plan[r].version = g
             /\ pc[r] \in {"waiting", "failed"}
             /\ receipts[r] = "none"
<1>1. mempool # <<>> /\ mempool \in Seq(Transactions) /\ mempool' = Tail(mempool)
  BY TypeParts DEF Base, PoolOK, MineTransaction
<1>2. mempool[1] \in Transactions /\ Len(mempool) \in Nat /\ 1 \in 1 .. Len(mempool)
      /\ Head(mempool) = mempool[1]
  BY <1>1
<1>3. PICK r \in Requests, g \in RegistrationIds, kind \in {"raise", "resolve"},
           status \in Resolutions \cup {"OPEN"} :
        mempool[1] = [from |-> r, kind |-> kind, version |-> g, status |-> status]
  BY <1>2 DEF Transactions
<1>4. /\ plan[r].version = g /\ pc[r] \in {"waiting", "failed"} /\ receipts[r] = "none"
      /\ kind = "raise" => r \in Claims /\ status = "OPEN"
      /\ kind = "resolve" => r \in Rulings /\ status \in Resolutions /\ status = plan[r].status
  BY <1>2, <1>3 DEF Base, SentOnce, PoolFaithful
<1>5. CASE kind = "raise" /\ Chain!RaiseDispute(g, EvidenceCID)
           /\ receipts' = [receipts EXCEPT ![r] = "success"]
  <2>1. MineEffect(r, g, kind, status)
    BY <1>1, <1>3, <1>4, <1>5
       DEF MineEffect, Chain!RaiseDispute, Chain!ActiveDisputes, Active, MineTransaction
  <2>. QED
    BY <2>1, <1>4
<1>6. CASE kind = "resolve" /\ Chain!ResolveDispute(RelayerAccount, g, status)
           /\ receipts' = [receipts EXCEPT ![r] = "success"]
  <2>1. MineEffect(r, g, kind, status)
    BY <1>1, <1>3, <1>4, <1>6 DEF MineEffect, Chain!ResolveDispute, MineTransaction
  <2>. QED
    BY <2>1, <1>4
<1>7. CASE receipts' = [receipts EXCEPT ![r] = "reverted"] /\ UNCHANGED contractVars
  <2>1. MineEffect(r, g, kind, status)
    BY <1>1, <1>3, <1>7 DEF MineEffect, MineTransaction
  <2>. QED
    BY <2>1, <1>4
<1>. QED
  BY <1>2, <1>3, <1>5, <1>6, <1>7 DEF MineTransaction

\* What mining does to the contract and to the receipts.
LEMMA MineTypes ==
    ASSUME TypeOK, NEW r \in Requests, NEW g \in RegistrationIds,
           NEW kind, NEW status, MineEffect(r, g, kind, status)
    PROVE  TypeOK'
<1>1. mempool \in Seq(Transactions) /\ mempool # <<>>
  BY TypeParts DEF PoolOK, MineEffect
<1>2. mempool' \in Seq(Transactions)
  BY <1>1 DEF MineEffect
<1>3. receipts' \in [Requests -> {"none", "success", "reverted"}]
  BY TypeParts DEF PoolOK, MineEffect
<1>4. Chain!TypeOK'
  BY TypeParts, DisputeTypes, KeepContract DEF MineEffect, DisputeStatuses, Resolutions
<1>5. RequestsOK' /\ DatabaseOK'
  BY TypeParts, KeepDatabase DEF MineEffect, requestVars, RequestsOK
<1>6. BoundsOK'
  BY TypeParts DEF MineEffect, BoundsOK
<1>. QED
  BY <1>2, <1>3, <1>4, <1>5, <1>6, TypeParts DEF PoolOK

\* Types after a step of a claim.
LEMMA ClaimTypes ==
    ASSUME Base, [Next]_vars, NEW c \in Claims,
           (\E g \in RegistrationIds : BeginClaim(c, g)) \/ SendClaim(c) \/ CommitClaim(c)
    PROVE  RequestsOK' /\ DatabaseOK' /\ PoolOK' /\ Chain!TypeOK'
<1> USE TypeParts DEF Base
<1>1. c \in Requests
  BY DEF Requests
<1>2. ASSUME NEW g \in RegistrationIds, BeginClaim(c, g)
      PROVE  RequestsOK' /\ DatabaseOK' /\ PoolOK' /\ Chain!TypeOK'
  <2>1. [version |-> g, loadedStatus |-> projectStatus[VersionProject[g]]] \in Plans
    BY DisputeAssumption DEF Plans, DatabaseOK
  <2>2. RequestsOK'
    BY <1>1, <1>2, <2>1, BeginTypes DEF BeginClaim
  <2>. QED
    BY <1>2, <2>2, KeepDatabase, KeepPool, KeepContract DEF BeginClaim, chainVars
<1>3. CASE SendClaim(c)
  <2>1. plan[c].version \in RegistrationIds
    BY <1>3 DEF SendClaim, PlansFit, ClaimPlans
  <2>2. RequestsOK' /\ PoolOK'
    BY <1>1, <1>3, <2>1, SendTypes DEF SendClaim, Holding
  <2>. QED
    BY <1>3, <2>2, KeepDatabase, KeepContract DEF SendClaim, Broadcast
<1>4. CASE CommitClaim(c)
  <2>1. plan[c].version \in RegistrationIds /\ VersionProject[plan[c].version] \in Projects
        /\ loop = c
    BY <1>1, <1>4, DisputeAssumption
       DEF CommitClaim, PlansFit, ClaimPlans, RequestsOK, Holding
  <2>2. RequestsOK'
    BY <1>1, <1>4, <2>1, EndsTypes DEF CommitClaim, FileDispute
  <2>3. DatabaseOK'
    BY <1>4, <2>1 DEF CommitClaim, FileDispute, DatabaseOK, DisputeStatuses
  <2>. QED
    BY <1>4, <2>2, <2>3, KeepPool, KeepContract DEF CommitClaim, FileDispute, chainVars
<1>. QED
  BY <1>2, <1>3, <1>4

\* The ruling that is about to be committed, and its dispute.
LEMMA CommittedRuling ==
    ASSUME Base, NEW q \in Rulings, pc[q] \in {"ruling", "waiting"}
    PROVE  /\ q \in Requests /\ loop = q
           /\ plan[q] \in RulingPlans
           /\ plan[q].dispute \in Claims /\ plan[q].status \in Resolutions
           /\ plan[q].version \in RegistrationIds
           /\ IsActive(plan[q].dispute)
           /\ disputes[plan[q].dispute]
                \in [project : Projects, status : DisputeStatuses \ {"NONE"}]
           /\ plan[q].version \in anchored
           /\ VersionProject[plan[q].version] = disputes[plan[q].dispute].project
<1>1. q \in Requests /\ loop = q
  BY TypeParts DEF Base, Requests, RequestsOK, Holding
<1>2. plan[q] \in RulingPlans
  BY DEF Base, PlansFit
<1>3. PICK c \in Claims : c = plan[q].dispute
  BY <1>2 DEF RulingPlans
<1>4. IsActive(c) /\ plan[q].version \in AnchoredOf(disputes[c].project)
  BY <1>3 DEF Base, RulingsInForce
<1>5. disputes[c] \in [project : Projects, status : DisputeStatuses \ {"NONE"}]
  BY <1>4, TypeParts DEF Base, DatabaseOK, IsActive, Filed
<1>. QED
  BY <1>1, <1>2, <1>3, <1>4, <1>5 DEF RulingPlans, AnchoredOf

\* What a committed ruling does to the disputes.
LEMMA RulingEffect ==
    ASSUME Base, NEW q \in Rulings, CommitRuling(q)
    PROVE  \E c \in Claims :
             /\ c = plan[q].dispute /\ IsActive(c)
             /\ disputes' = [disputes EXCEPT
                               ![c] = [project |-> disputes[c].project,
                                       status |-> plan[q].status]]
<1>1. pc[q] = "waiting"
  BY DEF CommitRuling
<1>2. PICK c \in Claims : c = plan[q].dispute
  BY <1>1, CommittedRuling
<1>3. disputes[c] \in [project : Projects, status : DisputeStatuses \ {"NONE"}]
  BY <1>1, <1>2, CommittedRuling
<1>4. [disputes[c] EXCEPT !.status = plan[q].status]
        = [project |-> disputes[c].project, status |-> plan[q].status]
  BY <1>3
<1>5. disputes' = [disputes EXCEPT ![c] = [disputes[c] EXCEPT !.status = plan[q].status]]
  BY <1>2 DEF CommitRuling
<1>. QED
  BY <1>1, <1>2, <1>4, <1>5, CommittedRuling

\* Types after a step of a ruling.
LEMMA RulingTypes ==
    ASSUME Base, NEW q \in Rulings,
           \/ \E c \in Claims, status \in Resolutions : BeginRuling(q, c, status)
           \/ SendRuling(q)
           \/ CommitRuling(q)
    PROVE  RequestsOK' /\ DatabaseOK' /\ PoolOK' /\ Chain!TypeOK'
<1> USE TypeParts
<1>1. q \in Requests
  BY DEF Requests
<1>2. ASSUME NEW c \in Claims, NEW status \in Resolutions, BeginRuling(q, c, status)
      PROVE  RequestsOK' /\ DatabaseOK' /\ PoolOK' /\ Chain!TypeOK'
  <2>1. [dispute |-> c, status |-> status,
         version |-> LatestAnchored(disputes[c].project)] \in Plans
    BY <1>2, RulingPlan DEF Plans, BeginRuling
  <2>2. RequestsOK'
    BY <1>1, <1>2, <2>1, BeginTypes DEF BeginRuling, Base
  <2>. QED
    BY <1>2, <2>2, KeepDatabase, KeepPool, KeepContract DEF BeginRuling, chainVars, Base
<1>3. CASE SendRuling(q)
  <2>1. RequestsOK' /\ PoolOK'
    BY <1>1, <1>3, CommittedRuling, SendTypes DEF SendRuling, Holding, Base
  <2>. QED
    BY <1>3, <2>1, KeepDatabase, KeepContract DEF SendRuling, Broadcast, Base
<1>4. CASE CommitRuling(q)
  <2>1. pc[q] = "waiting" /\ loop = q /\ plan[q].version \in RegistrationIds
        /\ plan[q].status \in Resolutions
    BY <1>4, CommittedRuling DEF CommitRuling
  <2>2. RequestsOK'
    BY <1>1, <1>4, <2>1, EndsTypes DEF CommitRuling, Base
  <2>3. PICK c \in Claims :
          /\ c = plan[q].dispute /\ IsActive(c)
          /\ disputes' = [disputes EXCEPT
                            ![c] = [project |-> disputes[c].project,
                                    status |-> plan[q].status]]
    BY <1>4, RulingEffect
  <2>4. disputes[c].project \in Projects
    BY <2>3 DEF IsActive, Filed, DatabaseOK, Base
  <2>5. [project |-> disputes[c].project, status |-> plan[q].status]
          \in [project : Projects, status : DisputeStatuses \ {"NONE"}]
    BY <2>1, <2>4 DEF Resolutions, DisputeStatuses
  <2>6. StatusAfterRuling(c, plan[q].status) \in {"ACTIVE", "UNDER_DISPUTE"}
    BY <2>4 DEF StatusAfterRuling, DatabaseOK, Base
  <2>7. projectStatus' \in [Projects -> {"ACTIVE", "UNDER_DISPUTE"}]
    BY <1>4, <2>3, <2>6 DEF CommitRuling, DatabaseOK, Base
  <2>8. /\ versionDispute' \in [RegistrationIds -> DisputeStatuses]
        /\ anchored' \subseteq RegistrationIds
    BY <1>4, <2>1 DEF CommitRuling, DatabaseOK, Base, Resolutions, DisputeStatuses
  <2>9. DatabaseOK'
    BY <2>3, <2>5, <2>7, <2>8 DEF DatabaseOK, Base
  <2>. QED
    BY <1>4, <2>2, <2>9, KeepPool, KeepContract DEF CommitRuling, chainVars, Base
<1>. QED
  BY <1>2, <1>3, <1>4

\* Every step keeps the types.
LEMMA TypeStep ==
    ASSUME Base, [Next]_vars
    PROVE  TypeOK'
<1> USE TypeParts
<1>0. RequestsOK /\ DatabaseOK /\ PoolOK /\ Chain!TypeOK /\ BoundsOK
  BY DEF Base
<1>1. BoundsOK'
  BY <1>0, BoundsStep
<1>2. ASSUME NEW g \in RegistrationIds, AnchorVersion(g)
      PROVE  RequestsOK' /\ DatabaseOK' /\ PoolOK' /\ Chain!TypeOK'
  BY <1>2, RegisterTypes, KeepPool
     DEF Base, AnchorVersion, DatabaseOK, RequestsOK, requestVars
<1>3. ASSUME NEW g \in RegistrationIds, DirectDispute(g)
      PROVE  RequestsOK' /\ DatabaseOK' /\ PoolOK' /\ Chain!TypeOK'
  BY <1>3, DisputeTypes, KeepPool, KeepDatabase
     DEF Base, DirectDispute, Chain!RaiseDispute, RequestsOK, requestVars, DisputeStatuses
<1>4. ASSUME NEW r \in Requests, Ends(r)
      PROVE  RequestsOK' /\ DatabaseOK' /\ PoolOK' /\ Chain!TypeOK'
  BY <1>4, EndsTypes, KeepPool, KeepDatabase, KeepContract DEF Base, Ends, chainVars
<1>5. CASE DropPool
  <2>1. PoolOK'
    BY <1>0, <1>5 DEF DropPool, PoolOK
  <2>2. RequestsOK'
    BY <1>0, <1>5 DEF DropPool, RequestsOK, requestVars
  <2>. QED
    BY <1>0, <1>1, <1>5, <2>1, <2>2, KeepDatabase, KeepContract DEF DropPool
<1>6. CASE Crash
  <2>1. RequestsOK'
    BY <1>0, <1>6, DisputeAssumption DEF Crash, RequestsOK, Holding
  <2>. QED
    BY <1>0, <1>1, <1>6, <2>1, KeepPool, KeepDatabase, KeepContract DEF Crash, chainVars
<1>7. CASE UNCHANGED vars
  <2>1. RequestsOK'
    BY <1>0, <1>7 DEF vars, RequestsOK, requestVars
  <2>. QED
    BY <1>0, <1>1, <1>7, <2>1, KeepPool, KeepDatabase, KeepContract DEF vars, chainVars
<1>8. CASE MineTransaction
  <2>1. PICK r \in Requests, g \in RegistrationIds, kind \in {"raise", "resolve"},
             status \in Resolutions \cup {"OPEN"} : MineEffect(r, g, kind, status)
    BY <1>8, MineCases
  <2>. QED
    BY <2>1, MineTypes DEF Base
<1>. QED
  BY <1>1, <1>2, <1>3, <1>4, <1>5, <1>6, <1>7, <1>8, ClaimTypes, RulingTypes, NextCases

-----------------------------------------------------------------------------
(* The inductive invariant.                                                *)

\* What a step does to the request r: who moves, and what is left alone.
LEMMA RequestCases ==
    ASSUME Base, [Next]_vars, NEW r \in Requests
    PROVE  \/ pc'[r] = pc[r] /\ plan'[r] = plan[r]
           \/ pc'[r] = "failed" /\ plan'[r] = plan[r] /\ pc[r] # "done"
           \/ /\ r \in Claims /\ pc[r] = "idle" /\ pc'[r] \in {"pinning", "filing"}
              /\ \E g \in RegistrationIds : BeginClaim(r, g)
           \/ /\ r \in Rulings /\ pc[r] = "idle" /\ pc'[r] = "ruling"
              /\ \E c \in Claims, status \in Resolutions : BeginRuling(r, c, status)
           \/ r \in Claims /\ SendClaim(r) /\ pc'[r] = "waiting" /\ plan'[r] = plan[r]
           \/ r \in Claims /\ CommitClaim(r) /\ pc'[r] = "done" /\ plan'[r] = plan[r]
           \/ r \in Rulings /\ SendRuling(r) /\ pc'[r] = "waiting" /\ plan'[r] = plan[r]
           \/ r \in Rulings /\ CommitRuling(r) /\ pc'[r] = "done" /\ plan'[r] = plan[r]
<1> USE DEF Base, Requests
<1>0. RequestsOK
  BY TypeParts
<1>1. ASSUME NEW s \in Requests, Ends(s)
      PROVE  \/ pc'[r] = pc[r] /\ plan'[r] = plan[r]
             \/ pc'[r] = "failed" /\ plan'[r] = plan[r] /\ pc[r] # "done"
  BY <1>0, <1>1 DEF Ends, Finish, RequestsOK, Holding
<1>2. ASSUME NEW c \in Claims, NEW g \in RegistrationIds, BeginClaim(c, g)
      PROVE  \/ pc'[r] = pc[r] /\ plan'[r] = plan[r]
             \/ c = r /\ pc[r] = "idle" /\ pc'[r] \in {"pinning", "filing"}
  BY <1>0, <1>2 DEF BeginClaim, RequestsOK
<1>3. ASSUME NEW q \in Rulings, NEW c \in Claims, NEW status \in Resolutions,
             BeginRuling(q, c, status)
      PROVE  \/ pc'[r] = pc[r] /\ plan'[r] = plan[r]
             \/ q = r /\ pc[r] = "idle" /\ pc'[r] = "ruling"
  BY <1>0, <1>3 DEF BeginRuling, RequestsOK
<1>4. ASSUME NEW s \in Requests, NEW kind, NEW g, NEW status, Broadcast(s, kind, g, status)
      PROVE  \/ pc'[r] = pc[r] /\ plan'[r] = plan[r]
             \/ s = r /\ pc'[r] = "waiting" /\ plan'[r] = plan[r]
  BY <1>0, <1>4 DEF Broadcast, RequestsOK
<1>5. ASSUME NEW s \in Requests, Finish(s, "done")
      PROVE  \/ pc'[r] = pc[r] /\ plan'[r] = plan[r]
             \/ s = r /\ pc'[r] = "done" /\ plan'[r] = plan[r]
  BY <1>0, <1>5 DEF Finish, RequestsOK
<1>6. CASE \E g \in RegistrationIds : AnchorVersion(g) \/ DirectDispute(g)
  BY <1>6 DEF AnchorVersion, DirectDispute, requestVars
<1>7. CASE MineTransaction \/ DropPool \/ UNCHANGED vars
  BY <1>7 DEF MineTransaction, DropPool, vars, requestVars
<1>8. CASE Crash
  BY <1>0, <1>8 DEF Crash
<1>9. CASE \E c \in Claims : SendClaim(c) \/ CommitClaim(c)
  BY <1>4, <1>5, <1>9 DEF SendClaim, CommitClaim, FileDispute
<1>10. CASE \E q \in Rulings : SendRuling(q) \/ CommitRuling(q)
  BY <1>4, <1>5, <1>10 DEF SendRuling, CommitRuling
<1>. QED
  BY <1>1, <1>2, <1>3, <1>6, <1>7, <1>8, <1>9, <1>10, NextCases

\* What a step does to the rows of disputes and to the versions.
LEMMA DatabaseCases ==
    ASSUME Base, [Next]_vars
    PROVE  \/ UNCHANGED databaseVars
           \/ \E g \in RegistrationIds : AnchorVersion(g)
           \/ \E c \in Claims : CommitClaim(c)
           \/ \E q \in Rulings : CommitRuling(q)
BY NextCases
   DEF DirectDispute, Ends, BeginClaim, SendClaim, BeginRuling, SendRuling, Broadcast,
       MineTransaction, DropPool, Crash, vars

\* A version stays anchored.
LEMMA AnchoredPersists ==
    ASSUME Base, [Next]_vars
    PROVE  anchored \subseteq anchored'
BY DatabaseCases
   DEF databaseVars, AnchorVersion, CommitClaim, FileDispute, CommitRuling

\* What a step does to the row of one claim.
LEMMA DisputeCases ==
    ASSUME Base, [Next]_vars, NEW c \in Claims
    PROVE  \/ disputes'[c] = disputes[c]
           \/ /\ CommitClaim(c) /\ disputes[c] = NoDispute /\ disputes'[c] # NoDispute
              /\ disputes'[c] = [project |-> VersionProject[plan[c].version],
                                 status |-> "OPEN"]
           \/ \E q \in Rulings :
                /\ CommitRuling(q) /\ plan[q].dispute = c /\ IsActive(c)
                /\ disputes'[c] # NoDispute
                /\ disputes'[c] = [project |-> disputes[c].project,
                                   status |-> plan[q].status]
<1>0. DatabaseOK
  BY TypeParts DEF Base
<1>1. CASE UNCHANGED databaseVars \/ \E g \in RegistrationIds : AnchorVersion(g)
  BY <1>1 DEF databaseVars, AnchorVersion
<1>2. ASSUME NEW d \in Claims, CommitClaim(d)
      PROVE  \/ disputes'[c] = disputes[c]
             \/ /\ CommitClaim(c) /\ disputes[c] = NoDispute /\ disputes'[c] # NoDispute
                /\ disputes'[c] = [project |-> VersionProject[plan[c].version],
                                   status |-> "OPEN"]
  <2>1. CASE d # c
    BY <1>0, <1>2, <2>1 DEF CommitClaim, FileDispute, DatabaseOK
  <2>2. CASE d = c
    <3>1. disputes'[c] = [project |-> VersionProject[plan[c].version], status |-> "OPEN"]
      BY <1>0, <1>2, <2>2 DEF CommitClaim, FileDispute, DatabaseOK
    <3>2. VersionProject[plan[c].version] \in Projects
      BY <1>2, <2>2, DisputeAssumption DEF CommitClaim, Base, PlansFit, ClaimPlans
    <3>3. disputes'[c] # NoDispute
      BY <3>1, <3>2, NullAssumption DEF DisputeStatuses
    <3>4. disputes[c] = NoDispute
      BY <1>2, <2>2 DEF Base, FiledWhenDone, CommitClaim
    <3>. QED
      BY <1>2, <2>2, <3>1, <3>3, <3>4
  <2>. QED
    BY <2>1, <2>2
<1>3. ASSUME NEW q \in Rulings, CommitRuling(q)
      PROVE  \/ disputes'[c] = disputes[c]
             \/ /\ CommitRuling(q) /\ plan[q].dispute = c /\ IsActive(c)
                /\ disputes'[c] # NoDispute
                /\ disputes'[c] = [project |-> disputes[c].project,
                                   status |-> plan[q].status]
  <2>1. PICK d \in Claims :
          /\ d = plan[q].dispute /\ IsActive(d)
          /\ disputes' = [disputes EXCEPT
                            ![d] = [project |-> disputes[d].project,
                                    status |-> plan[q].status]]
    BY <1>3, RulingEffect
  <2>2. CASE d # c
    BY <1>0, <2>1, <2>2 DEF DatabaseOK
  <2>3. CASE d = c
    <3>1. disputes'[c] = [project |-> disputes[c].project, status |-> plan[q].status]
      BY <1>0, <2>1, <2>3 DEF DatabaseOK
    <3>2. plan[q].status \in DisputeStatuses /\ disputes[c].project \in Projects
      BY <1>3, <2>1, <2>3, CommittedRuling DEF CommitRuling, DisputeStatuses, Resolutions
    <3>3. disputes'[c] # NoDispute
      BY <3>1, <3>2, NullAssumption
    <3>. QED
      BY <1>3, <2>1, <2>3, <3>1, <3>3
  <2>. QED
    BY <2>2, <2>3
<1>. QED
  BY <1>1, <1>2, <1>3, DatabaseCases

\* A row stays, under its project.
LEMMA FiledPersists ==
    ASSUME Base, [Next]_vars, NEW c \in Claims, disputes[c] # NoDispute
    PROVE  disputes'[c] # NoDispute /\ disputes'[c].project = disputes[c].project
<1>1. CASE disputes'[c] = disputes[c]
  BY <1>1
<1>2. ASSUME NEW q \in Rulings, disputes'[c] # NoDispute,
             disputes'[c] = [project |-> disputes[c].project, status |-> plan[q].status]
      PROVE  disputes'[c].project = disputes[c].project
  BY <1>2
<1>. QED
  BY <1>1, <1>2, DisputeCases

\* What a request keeps.
LEMMA RequestKeeps ==
    ASSUME Base, [Next]_vars, NEW r \in Requests
    PROVE  /\ pc[r] # "idle" => plan'[r] = plan[r]
           /\ pc[r] = "done" => pc'[r] = "done"
           /\ pc[r] \in {"waiting", "failed", "done"} => pc'[r] \in {"waiting", "failed", "done"}
           /\ pc'[r] = "done" => pc[r] = "done" \/ receipts[r] = "success"
BY RequestCases DEF SendClaim, SendRuling, CommitClaim, CommitRuling

\* A plan is made of what the checks found, and kept until the request ends.
LEMMA PlansFitStep ==
    ASSUME Base, [Next]_vars
    PROVE  PlansFit'
<1>1. ASSUME NEW c \in Claims
      PROVE  /\ pc'[c] # "ruling"
             /\ pc'[c] \in {"pinning", "filing", "waiting", "done"} =>
                  plan'[c] \in ClaimPlans /\ plan'[c].version \in anchored'
  <2>1. c \in Requests /\ c \notin Rulings
    BY DisputeAssumption DEF Requests
  <2>2. ASSUME NEW g \in RegistrationIds, BeginClaim(c, g)
        PROVE  plan'[c] \in ClaimPlans /\ plan'[c].version \in anchored'
    <3>1. plan'[c] = [version |-> g, loadedStatus |-> projectStatus[VersionProject[g]]]
      BY <2>1, <2>2, TypeParts DEF BeginClaim, Base, RequestsOK
    <3>2. g \in anchored
      BY <2>2 DEF BeginClaim, ClaimRefused
    <3>3. projectStatus[VersionProject[g]] \in {"ACTIVE", "UNDER_DISPUTE"}
      BY DisputeAssumption, TypeParts DEF Base, DatabaseOK
    <3>. QED
      BY <3>1, <3>2, <3>3, AnchoredPersists DEF ClaimPlans
  <2>. QED
    BY <2>1, <2>2, RequestCases, AnchoredPersists
       DEF Base, PlansFit, SendClaim, CommitClaim
<1>2. ASSUME NEW q \in Rulings
      PROVE  /\ pc'[q] \notin {"pinning", "filing"}
             /\ pc'[q] \in {"ruling", "waiting", "done"} => plan'[q] \in RulingPlans
  <2>1. q \in Requests /\ q \notin Claims
    BY DisputeAssumption DEF Requests
  <2>2. ASSUME NEW c \in Claims, NEW status \in Resolutions, BeginRuling(q, c, status)
        PROVE  plan'[q] \in RulingPlans
    <3>1. plan'[q] = [dispute |-> c, status |-> status,
                      version |-> LatestAnchored(disputes[c].project)]
      BY <2>1, <2>2, TypeParts DEF BeginRuling, Base, RequestsOK
    <3>. QED
      BY <2>2, <3>1, RulingPlan DEF BeginRuling, RulingPlans
  <2>. QED
    BY <2>1, <2>2, RequestCases DEF Base, PlansFit, SendRuling, CommitRuling
<1>. QED
  BY <1>1, <1>2 DEF PlansFit

\* A row is written in the step that completes its claim.
LEMMA FiledWhenDoneStep ==
    ASSUME Base, [Next]_vars
    PROVE  FiledWhenDone'
<1> SUFFICES ASSUME NEW c \in Claims, disputes'[c] # NoDispute
             PROVE  pc'[c] = "done" /\ disputes'[c].project = VersionProject[plan'[c].version]
  BY DEF FiledWhenDone
<1>1. c \in Requests
  BY DEF Requests
<1>2. CASE disputes[c] # NoDispute
  <2>1. pc'[c] = "done" /\ plan'[c] = plan[c]
    BY <1>1, <1>2, RequestKeeps DEF Base, FiledWhenDone
  <2>2. disputes[c].project = VersionProject[plan[c].version]
    BY <1>2 DEF Base, FiledWhenDone
  <2>3. disputes'[c].project = disputes[c].project
    BY <1>2, FiledPersists
  <2>. QED
    BY <2>1, <2>2, <2>3
<1>3. CASE disputes[c] = NoDispute
  <2>1. /\ CommitClaim(c)
        /\ disputes'[c] = [project |-> VersionProject[plan[c].version], status |-> "OPEN"]
    BY <1>3, DisputeCases DEF IsActive, Filed
  <2>2. pc'[c] = "done" /\ plan'[c] = plan[c]
    BY <1>1, <2>1, TypeParts DEF CommitClaim, FileDispute, Finish, Base, RequestsOK
  <2>. QED
    BY <2>1, <2>2
<1>. QED
  BY <1>2, <1>3

\* No other request commits between the check of a ruling and its own commit.
LEMMA RulingsInForceStep ==
    ASSUME Base, [Next]_vars
    PROVE  RulingsInForce'
<1> SUFFICES ASSUME NEW q \in Rulings, NEW c \in Claims, pc'[q] \in {"ruling", "waiting"},
                    plan'[q].dispute = c
             PROVE  /\ disputes'[c] # NoDispute /\ disputes'[c].status \in Active
                    /\ plan'[q].version \in anchored'
                    /\ VersionProject[plan'[q].version] = disputes'[c].project
                    /\ plan'[q].version \in RegistrationIds
  BY TypeStep DEF RulingsInForce, IsActive, Filed, AnchoredOf, TypeOK
<1>1. q \in Requests /\ q \notin Claims
  BY DisputeAssumption DEF Requests
<1>2. ASSUME NEW status \in Resolutions, NEW d \in Claims, BeginRuling(q, d, status)
      PROVE  /\ disputes'[c] # NoDispute /\ disputes'[c].status \in Active
             /\ plan'[q].version \in anchored'
             /\ VersionProject[plan'[q].version] = disputes'[c].project
             /\ plan'[q].version \in RegistrationIds
  <2>1. plan'[q] = [dispute |-> d, status |-> status,
                    version |-> LatestAnchored(disputes[d].project)]
    BY <1>1, <1>2, TypeParts DEF BeginRuling, Base, RequestsOK
  <2>2. c = d /\ IsActive(c) /\ UNCHANGED databaseVars
    BY <1>2, <2>1 DEF BeginRuling
  <2>. QED
    BY <2>1, <2>2, RulingPlan DEF databaseVars, IsActive, Filed, AnchoredOf
<1>3. CASE plan'[q] = plan[q] /\ pc[q] \in {"ruling", "waiting"}
  <2>1. IsActive(c) /\ plan[q].version \in AnchoredOf(disputes[c].project)
        /\ plan[q].version \in RegistrationIds
    BY <1>3, CommittedRuling DEF Base, RulingsInForce
  <2>2. disputes'[c] = disputes[c]
    <3>1. disputes[c] # NoDispute
      BY <2>1 DEF IsActive, Filed
    <3>2. ASSUME NEW s \in Rulings, CommitRuling(s)
          PROVE  FALSE
      <4>1. loop = s /\ loop = q
        BY <1>3, <3>2, CommittedRuling DEF CommitRuling
      <4>2. pc'[q] = "done"
        BY <1>1, <3>2, <4>1, TypeParts DEF CommitRuling, Finish, Base, RequestsOK
      <4>. QED
        BY <4>2
    <3>. QED
      BY <3>1, <3>2, DisputeCases
  <2>. QED
    BY <1>3, <2>1, <2>2, AnchoredPersists DEF IsActive, Filed, AnchoredOf
<1>. QED
  BY <1>1, <1>2, <1>3, RequestCases DEF SendRuling

\* Versions are anchored one at a time, so there is always a latest one.
LEMMA LatestExistsStep ==
    ASSUME Base, [Next]_vars
    PROVE  LatestExists'
<1> SUFFICES ASSUME NEW p \in Projects, AnchoredOf(p)' # {}
             PROVE  \E g \in AnchoredOf(p)' :
                      \A h \in AnchoredOf(p)' : VersionIndex[h] <= VersionIndex[g]
  BY DEF LatestExists
<1>1. CASE anchored' = anchored
  BY <1>1 DEF Base, LatestExists, AnchoredOf
<1>2. ASSUME NEW g \in RegistrationIds, AnchorVersion(g)
      PROVE  \E x \in AnchoredOf(p)' :
                      \A h \in AnchoredOf(p)' : VersionIndex[h] <= VersionIndex[x]
  <2>1. CASE VersionProject[g] = p
    <3>1. AnchoredOf(p)' = AnchoredOf(p) \cup {g}
      BY <1>2, <2>1 DEF AnchorVersion, AnchoredOf
    <3>2. \A h \in AnchoredOf(p) : VersionIndex[h] < VersionIndex[g]
      BY <1>2, <2>1 DEF AnchorVersion
    <3>3. VersionIndex[g] \in Nat /\ \A h \in AnchoredOf(p) : VersionIndex[h] \in Nat
      BY DisputeAssumption, TypeParts DEF AnchoredOf, Base, DatabaseOK
    <3>. QED
      BY <3>1, <3>2, <3>3
  <2>2. CASE VersionProject[g] # p
    <3>1. AnchoredOf(p)' = AnchoredOf(p)
      BY <1>2, <2>2 DEF AnchorVersion, AnchoredOf
    <3>. QED
      BY <3>1 DEF Base, LatestExists
  <2>. QED
    BY <2>1, <2>2
<1>. QED
  BY <1>1, <1>2, DatabaseCases DEF databaseVars, CommitClaim, FileDispute, CommitRuling

\* What a step does to the pool and to the receipts.
LEMMA PoolCases ==
    ASSUME Base, [Next]_vars
    PROVE  \/ UNCHANGED <<mempool, receipts>>
           \/ mempool' = <<>> /\ receipts' = receipts
           \/ \E r \in Requests, kind \in {"raise", "resolve"} :
                /\ \/ kind = "raise" /\ r \in Claims /\ SendClaim(r)
                      /\ Broadcast(r, kind, plan[r].version, "OPEN")
                   \/ kind = "resolve" /\ r \in Rulings /\ SendRuling(r)
                      /\ Broadcast(r, kind, plan[r].version, plan[r].status)
           \/ MineTransaction
BY NextCases
   DEF DirectDispute, AnchorVersion, Ends, BeginClaim, SendClaim, BeginRuling, SendRuling,
       CommitClaim, FileDispute, CommitRuling, DropPool, Crash, vars, chainVars, Requests

\* A request that sends has not sent before.
LEMMA Sender ==
    ASSUME Base, NEW r \in Requests,
           (r \in Claims /\ SendClaim(r)) \/ (r \in Rulings /\ SendRuling(r))
    PROVE  /\ receipts[r] = "none"
           /\ pc[r] \in {"pinning", "filing", "ruling"}
           /\ loop \in {Free, r}
           /\ \A i \in 1 .. Len(mempool) : mempool[i].from # r
<1>1. pc[r] \in {"pinning", "filing", "ruling"} /\ loop \in {Free, r}
  BY TypeParts DEF SendClaim, SendRuling, Base, RequestsOK, Holding
<1>. QED
  BY <1>1 DEF Base, SentOnce

\* The pool after a transaction was sent, and after one was mined.
LEMMA PoolAfterSend ==
    ASSUME PoolOK, NEW tx \in Transactions, mempool' = Append(mempool, tx)
    PROVE  /\ Len(mempool) \in Nat
           /\ Len(mempool') = Len(mempool) + 1
           /\ \A i \in 1 .. Len(mempool) : mempool'[i] = mempool[i]
           /\ mempool'[Len(mempool) + 1] = tx
BY DEF PoolOK

\* The pool without its head.
LEMMA PoolAfterMine ==
    ASSUME PoolOK, mempool # <<>>, mempool' = Tail(mempool)
    PROVE  /\ Len(mempool) \in Nat \ {0}
           /\ Len(mempool') = Len(mempool) - 1
           /\ \A i \in 1 .. Len(mempool') : mempool'[i] = mempool[i + 1]
BY DEF PoolOK

\* The mined request stays where it is.
LEMMA MineReceipt ==
    ASSUME Base, NEW r \in Requests, NEW g \in RegistrationIds, NEW kind, NEW status,
           MineEffect(r, g, kind, status)
    PROVE  /\ receipts'[r] \in {"success", "reverted"}
           /\ \A s \in Requests : s # r => receipts'[s] = receipts[s]
           /\ mempool[1].from = r
           /\ pc' = pc /\ plan' = plan /\ loop' = loop
BY TypeParts DEF Base, PoolOK, MineEffect, requestVars

\* A request sends as it begins to wait, which it does once.
LEMMA SentOnceStep ==
    ASSUME Base, [Next]_vars
    PROVE  SentOnce'
<1> USE TypeParts
<1>0. PoolOK /\ RequestsOK
  BY DEF Base
<1>1. \A r \in Requests : /\ receipts'[r] # "none" => pc'[r] \in {"waiting", "failed", "done"}
                          /\ pc'[r] = "done" => receipts'[r] = "success"
  <2> SUFFICES ASSUME NEW r \in Requests
               PROVE  /\ receipts'[r] # "none" => pc'[r] \in {"waiting", "failed", "done"}
                      /\ pc'[r] = "done" => receipts'[r] = "success"
    OBVIOUS
  <2>1. CASE receipts'[r] = receipts[r]
    BY <2>1, RequestKeeps DEF Base, SentOnce
  <2>2. CASE MineTransaction
    <3>1. PICK s \in Requests, g \in RegistrationIds, kind \in {"raise", "resolve"},
               status \in Resolutions \cup {"OPEN"} :
            MineEffect(s, g, kind, status) /\ pc[s] \in {"waiting", "failed"}
      BY <2>2, MineCases
    <3>2. CASE s = r
      BY <3>1, <3>2, MineReceipt
    <3>3. CASE s # r
      BY <3>1, <3>3, <2>1, MineReceipt
    <3>. QED
      BY <3>2, <3>3
  <2>. QED
    BY <2>1, <2>2, PoolCases DEF Broadcast
<1>2. ASSUME NEW r \in Requests, pc[r] \in {"waiting", "failed"}, receipts[r] = "none"
      PROVE  pc'[r] \in {"waiting", "failed"}
  BY <1>2, RequestKeeps DEF Base, SentOnce
<1>3. ASSUME NEW r \in Requests, NEW i \in 1 .. Len(mempool'), mempool'[i].from = r
      PROVE  /\ pc'[r] \in {"waiting", "failed"}
             /\ receipts'[r] = "none"
             /\ \A j \in 1 .. Len(mempool') : mempool'[j].from = r => j = i
  <2>1. CASE UNCHANGED <<mempool, receipts>>
    BY <1>2, <1>3, <2>1 DEF Base, SentOnce
  <2>2. CASE mempool' = <<>>
    BY <1>3, <2>2
  <2>3. ASSUME NEW s \in Requests, NEW kind \in {"raise", "resolve"}, NEW status \in {"OPEN"} \cup Resolutions,
               \/ s \in Claims /\ SendClaim(s)
               \/ s \in Rulings /\ SendRuling(s),
               Broadcast(s, kind, plan[s].version, status)
        PROVE  /\ pc'[r] \in {"waiting", "failed"}
               /\ receipts'[r] = "none"
               /\ \A j \in 1 .. Len(mempool') : mempool'[j].from = r => j = i
    <3>1. plan[s].version \in RegistrationIds
      BY <2>3 DEF SendClaim, SendRuling, Base, PlansFit, ClaimPlans, RulingPlans
    <3>2. PICK tx \in Transactions : tx.from = s /\ mempool' = Append(mempool, tx)
      <4>1. [from |-> s, kind |-> kind, version |-> plan[s].version, status |-> status]
              \in Transactions
        BY <3>1 DEF Transactions
      <4>. QED
        BY <2>3, <4>1 DEF Broadcast
    <3>3. /\ Len(mempool) \in Nat /\ Len(mempool') = Len(mempool) + 1
          /\ \A k \in 1 .. Len(mempool) : mempool'[k] = mempool[k]
          /\ mempool'[Len(mempool) + 1].from = s
      BY <1>0, <3>2, PoolAfterSend
    <3>4. receipts' = receipts /\ receipts[s] = "none" /\ pc'[s] = "waiting"
          /\ \A k \in 1 .. Len(mempool) : mempool[k].from # s
      BY <1>0, <2>3, Sender DEF Broadcast, RequestsOK
    <3>5. CASE i = Len(mempool) + 1
      BY <1>3, <3>3, <3>4, <3>5
    <3>6. CASE i \in 1 .. Len(mempool)
      <4>1. mempool[i].from = r /\ r # s
        BY <1>3, <3>3, <3>4, <3>6
      <4>2. /\ pc[r] \in {"waiting", "failed"} /\ receipts[r] = "none"
            /\ \A j \in 1 .. Len(mempool) : mempool[j].from = r => j = i
        BY <3>6, <4>1 DEF Base, SentOnce
      <4>3. \A j \in 1 .. Len(mempool') : mempool'[j].from = r => j = i
        BY <3>3, <4>1, <4>2
      <4>. QED
        BY <1>2, <3>4, <4>2, <4>3
    <3>. QED
      BY <3>3, <3>5, <3>6
  <2>4. CASE MineTransaction
    <3>1. PICK s \in Requests, g \in RegistrationIds, kind \in {"raise", "resolve"},
               status \in Resolutions \cup {"OPEN"} : MineEffect(s, g, kind, status)
      BY <2>4, MineCases
    <3>2. /\ Len(mempool) \in Nat \ {0} /\ Len(mempool') = Len(mempool) - 1
          /\ \A k \in 1 .. Len(mempool') : mempool'[k] = mempool[k + 1]
      BY <1>0, <3>1, PoolAfterMine DEF MineEffect
    <3>3. i + 1 \in 1 .. Len(mempool) /\ mempool[i + 1].from = r
      BY <1>3, <3>2
    <3>4. /\ pc[r] \in {"waiting", "failed"} /\ receipts[r] = "none"
          /\ \A j \in 1 .. Len(mempool) : mempool[j].from = r => j = i + 1
      BY <3>3 DEF Base, SentOnce
    <3>5. s # r
      BY <3>1, <3>2, <3>4, MineReceipt
    <3>6. receipts'[r] = "none" /\ pc'[r] = pc[r]
      BY <3>1, <3>4, <3>5, MineReceipt
    <3>7. ASSUME NEW j \in 1 .. Len(mempool'), mempool'[j].from = r
          PROVE  j = i
      <4>1. j + 1 \in 1 .. Len(mempool) /\ mempool[j + 1].from = r
        BY <3>2, <3>7
      <4>. QED
        BY <3>4, <4>1
    <3>. QED
      BY <3>4, <3>6, <3>7
  <2>. QED
    BY <2>1, <2>2, <2>3, <2>4, PoolCases, CommittedRuling DEF SendRuling
<1>. QED
  BY <1>1, <1>3 DEF SentOnce

\* A transaction carries the plan of its request, which is kept while it waits.
LEMMA PoolFaithfulStep ==
    ASSUME Base, [Next]_vars
    PROVE  PoolFaithful'
<1> USE TypeParts
<1>0. PoolOK /\ RequestsOK
  BY DEF Base
<1> SUFFICES ASSUME NEW r \in Requests, NEW i \in 1 .. Len(mempool'), mempool'[i].from = r
             PROVE  /\ mempool'[i].version = plan'[r].version
                    /\ mempool'[i].kind = "raise" => r \in Claims /\ mempool'[i].status = "OPEN"
                    /\ mempool'[i].kind = "resolve" =>
                         /\ r \in Rulings
                         /\ mempool'[i].status \in Resolutions
                         /\ mempool'[i].status = plan'[r].status
  BY DEF PoolFaithful
<1>1. ASSUME NEW k \in 1 .. Len(mempool), mempool'[i] = mempool[k]
      PROVE  /\ mempool'[i].version = plan'[r].version
             /\ mempool'[i].kind = "raise" => r \in Claims /\ mempool'[i].status = "OPEN"
             /\ mempool'[i].kind = "resolve" =>
                  /\ r \in Rulings
                  /\ mempool'[i].status \in Resolutions
                  /\ mempool'[i].status = plan'[r].status
  <2>1. mempool[k].from = r
    BY <1>1
  <2>2. pc[r] \in {"waiting", "failed"}
    BY <2>1 DEF Base, SentOnce
  <2>3. plan'[r] = plan[r]
    BY <2>2, RequestKeeps
  <2>. QED
    BY <1>1, <2>1, <2>3 DEF Base, PoolFaithful
<1>2. CASE UNCHANGED <<mempool, receipts>>
  BY <1>1, <1>2
<1>3. CASE mempool' = <<>>
  BY <1>3
<1>4. CASE MineTransaction
  <2>1. mempool # <<>> /\ mempool' = Tail(mempool)
    BY <1>4 DEF MineTransaction
  <2>2. i + 1 \in 1 .. Len(mempool) /\ mempool'[i] = mempool[i + 1]
    BY <1>0, <2>1, PoolAfterMine
  <2>. QED
    BY <1>1, <2>2
<1>5. ASSUME NEW s \in Requests, NEW tx \in Transactions, mempool' = Append(mempool, tx),
             tx.from = s, tx.version = plan[s].version, plan'[s] = plan[s],
             \/ s \in Claims /\ tx.kind = "raise" /\ tx.status = "OPEN"
             \/ /\ s \in Rulings /\ tx.kind = "resolve"
                /\ tx.status \in Resolutions /\ tx.status = plan[s].status
      PROVE  /\ mempool'[i].version = plan'[r].version
             /\ mempool'[i].kind = "raise" => r \in Claims /\ mempool'[i].status = "OPEN"
             /\ mempool'[i].kind = "resolve" =>
                  /\ r \in Rulings
                  /\ mempool'[i].status \in Resolutions
                  /\ mempool'[i].status = plan'[r].status
  <2>1. /\ Len(mempool) \in Nat /\ Len(mempool') = Len(mempool) + 1
        /\ \A k \in 1 .. Len(mempool) : mempool'[k] = mempool[k]
        /\ mempool'[Len(mempool) + 1] = tx
    BY <1>0, <1>5, PoolAfterSend
  <2>2. CASE i \in 1 .. Len(mempool)
    BY <1>1, <2>1, <2>2
  <2>3. CASE i = Len(mempool) + 1
    BY <1>5, <2>1, <2>3
  <2>. QED
    BY <2>1, <2>2, <2>3
<1>6. ASSUME NEW s \in Claims, SendClaim(s)
      PROVE  \E tx \in Transactions :
               /\ mempool' = Append(mempool, tx)
               /\ tx.from = s /\ tx.version = plan[s].version /\ plan'[s] = plan[s]
               /\ tx.kind = "raise" /\ tx.status = "OPEN"
  <2>1. plan[s].version \in RegistrationIds /\ s \in Requests
    BY <1>6 DEF SendClaim, Base, PlansFit, ClaimPlans, Requests
  <2>2. PICK tx : tx = [from |-> s, kind |-> "raise", version |-> plan[s].version,
                        status |-> "OPEN"]
    OBVIOUS
  <2>. QED
    BY <1>6, <2>1, <2>2 DEF SendClaim, Broadcast, Transactions
<1>7. ASSUME NEW s \in Rulings, SendRuling(s)
      PROVE  \E tx \in Transactions :
               /\ mempool' = Append(mempool, tx)
               /\ tx.from = s /\ tx.version = plan[s].version /\ plan'[s] = plan[s]
               /\ tx.kind = "resolve" /\ tx.status \in Resolutions /\ tx.status = plan[s].status
  <2>1. plan[s].version \in RegistrationIds /\ s \in Requests /\ plan[s].status \in Resolutions
    BY <1>7, CommittedRuling DEF SendRuling
  <2>2. PICK tx : tx = [from |-> s, kind |-> "resolve", version |-> plan[s].version,
                        status |-> plan[s].status]
    OBVIOUS
  <2>. QED
    BY <1>7, <2>1, <2>2 DEF SendRuling, Broadcast, Transactions
<1>. QED
  BY <1>2, <1>3, <1>4, <1>5, <1>6, <1>7, PoolCases DEF Requests

\* Base holds where no request has begun.
LEMMA BaseInit ==
    ASSUME Init
    PROVE  Base
<1> USE DEF Init
<1>1. RequestsOK
  BY DisputeAssumption DEF RequestsOK, Holding
<1>2. DatabaseOK
  BY DEF DatabaseOK, DisputeStatuses
<1>3. PoolOK
  BY DEF PoolOK
<1>4. Chain!TypeOK
  BY DEF Chain!Init, Chain!TypeOK, Chain!Addresses, Chain!Strings
<1>5. BoundsOK
  BY DisputeAssumption DEF BoundsOK
<1>6. PlansFit
  BY DEF PlansFit, Requests
<1>7. FiledWhenDone /\ RulingsInForce /\ LatestExists
  BY DEF FiledWhenDone, RulingsInForce, LatestExists, AnchoredOf, Requests
<1>8. SentOnce /\ PoolFaithful
  BY DEF SentOnce, PoolFaithful
<1>. QED
  BY <1>1, <1>2, <1>3, <1>4, <1>5, <1>6, <1>7, <1>8, TypeParts DEF Base

\* What the handlers rely on across a pin, a broadcast and the wait for a
\* receipt: a claim or ruling under way has a plan that fits, the dispute a
\* ruling is about stays active until its commit, and every transaction in the
\* pool is the only one of its request.
THEOREM BaseInvariant == Spec => []Base
<1>1. Init => Base
  BY BaseInit
<1>2. Base /\ [Next]_vars => Base'
  BY TypeStep, PlansFitStep, FiledWhenDoneStep, RulingsInForceStep, LatestExistsStep,
     SentOnceStep, PoolFaithfulStep DEF Base
<1>. QED
  BY <1>1, <1>2, PTL DEF Spec

\* One handler at most holds the event loop, and every row, transaction and
\* proof is one the code writes.
THEOREM TypeCorrect == Spec => []TypeOK
<1>1. Base => TypeOK
  BY DEF Base
<1>. QED
  BY <1>1, BaseInvariant, PTL

\* A dispute is on file only if the very transaction its claim sent was mined
\* with success, on a version of the project it is filed under.
THEOREM DisputeIsBacked == Spec => []DisputeBacked
<1>1. Base => DisputeBacked
  BY DEF Base, FiledWhenDone, SentOnce, DisputeBacked, Filed, Requests
<1>. QED
  BY <1>1, BaseInvariant, PTL

\* A claim that is committed files its own dispute and no other.
LEMMA ClaimEffect ==
    ASSUME Base, NEW c \in Claims, CommitClaim(c)
    PROVE  /\ c \in Requests /\ loop = c /\ disputes[c] = NoDispute
           /\ plan[c] \in ClaimPlans /\ plan[c].version \in anchored
           /\ plan[c].version \in RegistrationIds
           /\ VersionProject[plan[c].version] \in Projects
           /\ disputes'[c].project = VersionProject[plan[c].version]
           /\ disputes'[c].status = "OPEN" /\ disputes'[c] # NoDispute
           /\ \A d \in Claims : d # c => disputes'[d] = disputes[d]
<1>1. pc[c] = "waiting" /\ c \in Requests
  BY DEF CommitClaim, Requests
<1>2. loop = c
  BY <1>1, TypeParts DEF Base, RequestsOK, Holding
<1>3. plan[c] \in ClaimPlans /\ plan[c].version \in anchored /\ plan[c].version \in RegistrationIds
  BY <1>1 DEF Base, PlansFit, ClaimPlans
<1>4. VersionProject[plan[c].version] \in Projects
  BY <1>3, DisputeAssumption
<1>5. /\ disputes'[c] = [project |-> VersionProject[plan[c].version], status |-> "OPEN"]
      /\ \A d \in Claims : d # c => disputes'[d] = disputes[d]
  BY TypeParts DEF Base, DatabaseOK, CommitClaim, FileDispute
<1>6. disputes'[c] # NoDispute
  BY <1>4, <1>5, NullAssumption DEF DisputeStatuses
<1>7. disputes[c] = NoDispute
  BY <1>1 DEF Base, FiledWhenDone
<1>. QED
  BY <1>1, <1>2, <1>3, <1>4, <1>5, <1>6, <1>7

\* A ruling that is committed closes the dispute it is about and no other.
LEMMA RulingCloses ==
    ASSUME Base, NEW q \in Rulings, CommitRuling(q)
    PROVE  \E c \in Claims, p \in Projects, g \in RegistrationIds, status \in Resolutions :
             /\ c = plan[q].dispute /\ g = plan[q].version /\ status = plan[q].status
             /\ IsActive(c) /\ disputes[c].project = p
             /\ g \in anchored /\ VersionProject[g] = p
             /\ disputes'[c].project = p /\ disputes'[c].status = status
             /\ disputes'[c] # NoDispute
             /\ \A d \in Claims : d # c => disputes'[d] = disputes[d]
             /\ versionDispute' = [versionDispute EXCEPT ![g] = status]
             /\ projectStatus' = [projectStatus EXCEPT ![p] = StatusAfterRuling(c, status)]
             /\ anchored' = anchored
<1>1. pc[q] = "waiting"
  BY DEF CommitRuling
<1>2. PICK c \in Claims :
        /\ c = plan[q].dispute /\ IsActive(c)
        /\ disputes' = [disputes EXCEPT ![c] = [project |-> disputes[c].project,
                                               status |-> plan[q].status]]
  BY RulingEffect
<1>3. PICK g \in RegistrationIds, status \in Resolutions :
        g = plan[q].version /\ status = plan[q].status
  BY <1>1, CommittedRuling
<1>4. PICK p \in Projects : p = disputes[c].project
  BY <1>1, <1>2, CommittedRuling
<1>5. g \in anchored /\ VersionProject[g] = p
  BY <1>1, <1>2, <1>3, <1>4, CommittedRuling
<1>6. /\ disputes'[c] = [project |-> p, status |-> status]
      /\ \A d \in Claims : d # c => disputes'[d] = disputes[d]
  BY <1>2, <1>3, <1>4, TypeParts DEF Base, DatabaseOK
<1>7. disputes'[c].project = p /\ disputes'[c].status = status
  BY <1>6
<1>8. disputes'[c] # NoDispute
  BY <1>6, NullAssumption DEF Resolutions, DisputeStatuses
<1>9. /\ versionDispute' = [versionDispute EXCEPT ![g] = status]
      /\ projectStatus' = [projectStatus EXCEPT ![p] = StatusAfterRuling(c, status)]
      /\ anchored' = anchored
  BY <1>2, <1>3, <1>4 DEF CommitRuling
<1>10. IsActive(c)
  BY <1>2
<1>. QED
  BY <1>2, <1>3, <1>4, <1>5, <1>6, <1>7, <1>8, <1>9

\* A dispute on file is never withdrawn, and one that was adjudicated is never
\* adjudicated again: the loop is held from the check of a ruling to its commit.
THEOREM AdjudicationFinal == Spec => AdjudicationIsFinal
<1>1. ASSUME Base, [Next]_vars, NEW c \in Filed
      PROVE  /\ disputes'[c] # NoDispute
             /\ Closed(c) => disputes'[c] = disputes[c]
  <2>1. c \in Claims /\ disputes[c] # NoDispute
    BY <1>1 DEF Filed
  <2>2. ~ (Closed(c) /\ IsActive(c))
    BY DEF Closed, IsActive, Active, Resolutions
  <2>. QED
    BY <1>1, <2>1, <2>2, DisputeCases, FiledPersists
<1>2. Base /\ [Next]_vars =>
        [\A c \in Filed : /\ disputes'[c] # NoDispute
                          /\ Closed(c) => disputes'[c] = disputes[c]]_vars
  BY <1>1
<1>. QED
  BY <1>2, BaseInvariant, PTL DEF Spec, AdjudicationIsFinal

\* A project is marked with the filing of a dispute and cleared with its last
\* ruling.
LEMMA CauseStep ==
    ASSUME Base, UnderDisputeHasCause, [Next]_vars
    PROVE  UnderDisputeHasCause'
<1> SUFFICES ASSUME NEW p \in Projects, projectStatus'[p] = "UNDER_DISPUTE"
             PROVE  \E c \in Claims :
                      /\ disputes'[c] # NoDispute /\ disputes'[c].project = p
                      /\ disputes'[c].status # "REJECTED"
  BY DEF UnderDisputeHasCause, Filed
<1>1. CASE projectStatus[p] = "UNDER_DISPUTE" /\ disputes' = disputes
  BY <1>1 DEF UnderDisputeHasCause, Filed
<1>2. ASSUME NEW c \in Claims, CommitClaim(c)
      PROVE  \E d \in Claims :
               /\ disputes'[d] # NoDispute /\ disputes'[d].project = p
               /\ disputes'[d].status # "REJECTED"
  <2>1. CASE VersionProject[plan[c].version] = p
    BY <1>2, <2>1, ClaimEffect
  <2>2. CASE VersionProject[plan[c].version] # p
    <3>1. projectStatus[p] = "UNDER_DISPUTE"
      BY <1>2, <2>2, ClaimEffect, TypeParts DEF CommitClaim, FileDispute, Base, DatabaseOK
    <3>2. PICK d \in Claims : disputes[d] # NoDispute /\ disputes[d].project = p
                              /\ disputes[d].status # "REJECTED"
      BY <3>1 DEF UnderDisputeHasCause, Filed
    <3>3. disputes'[d] = disputes[d]
      BY <1>2, <3>2, ClaimEffect
    <3>. QED
      BY <3>2, <3>3
  <2>. QED
    BY <2>1, <2>2
<1>3. ASSUME NEW q \in Rulings, CommitRuling(q)
      PROVE  \E d \in Claims :
               /\ disputes'[d] # NoDispute /\ disputes'[d].project = p
               /\ disputes'[d].status # "REJECTED"
  <2>1. PICK c \in Claims, x \in Projects, g \in RegistrationIds, status \in Resolutions :
             /\ IsActive(c) /\ disputes[c].project = x
             /\ disputes'[c].project = x /\ disputes'[c].status = status
             /\ disputes'[c] # NoDispute
             /\ \A d \in Claims : d # c => disputes'[d] = disputes[d]
             /\ projectStatus' = [projectStatus EXCEPT ![x] = StatusAfterRuling(c, status)]
    BY <1>3, RulingCloses
  <2>2. CASE x # p
    <3>1. projectStatus[p] = "UNDER_DISPUTE"
      BY <2>1, <2>2, TypeParts DEF Base, DatabaseOK
    <3>2. PICK d \in Claims : disputes[d] # NoDispute /\ disputes[d].project = p
                              /\ disputes[d].status # "REJECTED"
      BY <3>1 DEF UnderDisputeHasCause, Filed
    <3>. QED
      BY <2>1, <2>2, <3>2
  <2>3. CASE x = p /\ status = "RESOLVED"
    BY <2>1, <2>3
  <2>4. CASE x = p /\ status # "RESOLVED"
    <3>1. StatusAfterRuling(c, status) = "UNDER_DISPUTE"
      BY <2>1, <2>4, TypeParts DEF Base, DatabaseOK
    <3>2. ~ (ActiveDisputes(p) \subseteq {c})
      BY <2>1, <2>4, <3>1 DEF StatusAfterRuling
    <3>3. PICK d \in ActiveDisputes(p) : d # c
      BY <3>2
    <3>4. /\ d \in Claims /\ disputes[d] # NoDispute /\ disputes[d].project = p
          /\ disputes[d].status # "REJECTED"
      BY <3>3 DEF ActiveDisputes, IsActive, Filed, Active
    <3>. QED
      BY <2>1, <3>3, <3>4
  <2>. QED
    BY <2>2, <2>3, <2>4
<1>. QED
  BY <1>1, <1>2, <1>3, DatabaseCases DEF databaseVars, AnchorVersion

\* A project is UNDER_DISPUTE only if a dispute of it is active or was upheld.
THEOREM CauseCorrect == Spec => []UnderDisputeHasCause
<1>1. Init => UnderDisputeHasCause
  BY DEF Init, UnderDisputeHasCause
<1>2. Base /\ UnderDisputeHasCause /\ [Next]_vars => UnderDisputeHasCause'
  BY CauseStep
<1>. QED
  BY <1>1, <1>2, BaseInvariant, PTL DEF Spec

-----------------------------------------------------------------------------
(* The outcome on chain and in the database.                               *)

\* What a step does to the contract.
LEMMA ContractCases ==
    ASSUME Base, [Next]_vars
    PROVE  \/ UNCHANGED contractVars
           \/ \E g \in RegistrationIds : AnchorVersion(g)
           \/ \E g \in RegistrationIds : DirectDispute(g)
           \/ MineTransaction
BY NextCases
   DEF Ends, BeginClaim, SendClaim, BeginRuling, SendRuling, Broadcast, CommitClaim,
       FileDispute, CommitRuling, DropPool, Crash, vars, chainVars

\* A dispute raised without the back end.
LEMMA DirectEffect ==
    ASSUME Base, NEW h \in RegistrationIds, DirectDispute(h), NEW g \in RegistrationIds
    PROVE  proofs'[g].disputeState = "OPEN" \/ proofs'[g] = proofs[g]
BY TypeParts, DisputeTypes
   DEF Base, DirectDispute, Chain!RaiseDispute, DisputeStatuses

\* A version is anchored once, with no dispute, and disturbs no other.
LEMMA AnchorEffect ==
    ASSUME Base, NEW h \in RegistrationIds, AnchorVersion(h)
    PROVE  /\ h \notin anchored /\ loop = Free
           /\ \A g \in anchored : proofs'[g] = proofs[g]
<1>1. h \notin anchored
  <2>1. VersionIndex[h] \in Nat
    BY DisputeAssumption
  <2>. QED
    BY <2>1 DEF AnchorVersion, AnchoredOf
<1>2. \A g \in RegistrationIds : g # h => proofs'[g] = proofs[g]
  BY TypeParts, RegisterTypes DEF Base, AnchorVersion
<1>. QED
  BY <1>1, <1>2, TypeParts DEF Base, DatabaseOK, AnchorVersion

\* What a mined transaction does to the proof of one version.
LEMMA MineOne ==
    ASSUME Base, MineTransaction, NEW g \in RegistrationIds
    PROVE  \/ proofs'[g] = proofs[g]
           \/ proofs'[g].disputeState = "OPEN"
           \/ \E q \in Rulings :
                /\ mempool # <<>>
                /\ mempool[1].kind = "resolve" /\ mempool[1].version = g
                /\ plan[q].version = g /\ proofs'[g].disputeState = plan[q].status
                /\ pc[q] \in {"waiting", "failed"} /\ pc'[q] = pc[q]
                /\ receipts'[q] = "success"
<1>1. PICK r \in Requests, h \in RegistrationIds, kind \in {"raise", "resolve"},
           status \in Resolutions \cup {"OPEN"} :
        /\ MineEffect(r, h, kind, status)
        /\ plan[r].version = h /\ pc[r] \in {"waiting", "failed"}
  BY MineCases
<1>2. mempool[1].kind = kind /\ mempool[1].version = h
  BY <1>1 DEF MineEffect
<1>3. CASE kind = "raise" /\ Chain!Exists(h) /\ Chain!SetDispute(h, "OPEN")
  BY <1>3, TypeParts, DisputeTypes DEF Base, DisputeStatuses
<1>4. CASE /\ kind = "resolve" /\ status \in Resolutions /\ status = plan[r].status
           /\ r \in Rulings /\ Chain!Exists(h) /\ Chain!SetDispute(h, status)
           /\ receipts' = [receipts EXCEPT ![r] = "success"]
  <2>1. /\ proofs'[h].disputeState = status
        /\ g # h => proofs'[g] = proofs[g]
    BY <1>4, TypeParts, DisputeTypes DEF Base, DisputeStatuses, Resolutions
  <2>2. receipts'[r] = "success" /\ pc'[r] = pc[r] /\ mempool # <<>>
    BY <1>1, <1>4, TypeParts DEF Base, PoolOK, MineEffect, requestVars
  <2>. QED
    BY <1>1, <1>2, <1>4, <2>1, <2>2
<1>5. CASE UNCHANGED contractVars
  BY <1>5 DEF contractVars
<1>. QED
  BY <1>1, <1>3, <1>4, <1>5 DEF MineEffect

\* Once the receipt of a waiting handler is there, the pool is empty.
LEMMA PoolEmptyAtReceipt ==
    ASSUME Base, WaitingIsLast, NEW r \in Requests, pc[r] = "waiting", receipts[r] # "none"
    PROVE  mempool = <<>>
<1> SUFFICES ASSUME mempool # <<>> PROVE FALSE
  OBVIOUS
<1>1. Len(mempool) \in 1 .. Len(mempool)
  BY TypeParts DEF Base, PoolOK
<1>2. mempool[Len(mempool)].from = r
  BY DEF WaitingIsLast
<1>. QED
  BY <1>1, <1>2 DEF Base, SentOnce

\* A handler that waits is the one that holds the loop.
LEMMA WaitingHolds ==
    ASSUME Base, NEW r \in Requests, pc[r] \in {"ruling", "waiting"}
    PROVE  loop = r /\ loop # Free
BY DisputeAssumption, TypeParts DEF Base, RequestsOK, Holding

\* A handler waits because it just sent, or it waited before.
LEMMA WaitingCases ==
    ASSUME Base, [Next]_vars, NEW r \in Requests, pc'[r] = "waiting"
    PROVE  \/ pc[r] = "waiting" /\ plan'[r] = plan[r]
           \/ /\ (r \in Claims /\ SendClaim(r)) \/ (r \in Rulings /\ SendRuling(r))
              /\ receipts'[r] = "none" /\ plan'[r] = plan[r]
<1>1. CASE pc[r] = "waiting"
  BY <1>1, RequestKeeps
<1>2. CASE (r \in Claims /\ SendClaim(r)) \/ (r \in Rulings /\ SendRuling(r))
  BY <1>2, Sender DEF SendClaim, SendRuling, Broadcast
<1>. QED
  BY <1>1, <1>2, RequestCases

\* Whoever waits has the event loop, without which nothing is sent.
LEMMA WaitingIsLastStep ==
    ASSUME Base, WaitingIsLast, [Next]_vars
    PROVE  WaitingIsLast'
<1> SUFFICES ASSUME NEW r \in Requests, pc'[r] = "waiting", mempool' # <<>>
             PROVE  mempool'[Len(mempool')].from = r
  BY DEF WaitingIsLast
<1>0. PoolOK
  BY TypeParts DEF Base
<1>1. CASE (r \in Claims /\ SendClaim(r)) \/ (r \in Rulings /\ SendRuling(r))
  <2>1. PICK tx : mempool' = Append(mempool, tx) /\ tx.from = r
    BY <1>1 DEF SendClaim, SendRuling, Broadcast
  <2>. QED
    BY <1>0, <2>1 DEF PoolOK
<1>2. CASE pc[r] = "waiting"
  <2>1. ASSUME NEW s \in Requests,
               (s \in Claims /\ SendClaim(s)) \/ (s \in Rulings /\ SendRuling(s))
        PROVE  FALSE
    BY <1>2, <2>1, Sender, WaitingHolds
  <2>2. CASE MineTransaction
    <3>1. /\ Len(mempool) \in Nat \ {0} /\ Len(mempool') = Len(mempool) - 1
          /\ \A k \in 1 .. Len(mempool') : mempool'[k] = mempool[k + 1]
      BY <1>0, <2>2, PoolAfterMine DEF MineTransaction
    <3>2. Len(mempool') \in 1 .. Len(mempool')
      BY TypeStep, TypeParts DEF PoolOK
    <3>. QED
      BY <1>2, <2>2, <3>1, <3>2 DEF WaitingIsLast, MineTransaction
  <2>. QED
    BY <1>2, <2>1, <2>2, PoolCases DEF WaitingIsLast
<1>. QED
  BY <1>1, <1>2, WaitingCases

\* An active dispute was active before, or it was just filed.
LEMMA ActiveBefore ==
    ASSUME Base, [Next]_vars, NEW p \in Projects, NEW d \in ActiveDisputes(p)'
    PROVE  \/ d \in ActiveDisputes(p) /\ disputes'[d] = disputes[d]
           \/ d \in Claims /\ CommitClaim(d) /\ VersionProject[plan[d].version] = p
<1>1. d \in Claims /\ disputes'[d].project = p /\ disputes'[d] # NoDispute
      /\ disputes'[d].status \in Active
  BY DEF ActiveDisputes, IsActive, Filed
<1>2. CASE disputes'[d] = disputes[d]
  BY <1>1, <1>2 DEF ActiveDisputes, IsActive, Filed
<1>3. CASE CommitClaim(d)
  BY <1>1, <1>3, ClaimEffect
<1>4. ASSUME NEW q \in Rulings, CommitRuling(q), plan[q].dispute = d
      PROVE  FALSE
  BY <1>1, <1>4, RulingCloses DEF Active, Resolutions
<1>. QED
  BY <1>1, <1>2, <1>3, <1>4, DisputeCases

\* An active dispute stays active, unless the ruling on it is committed.
LEMMA ActiveAfter ==
    ASSUME Base, [Next]_vars, NEW p \in Projects, NEW d \in ActiveDisputes(p)
    PROVE  \/ d \in ActiveDisputes(p)'
           \/ \E q \in Rulings : CommitRuling(q) /\ plan[q].dispute = d
<1>1. d \in Claims /\ disputes[d].project = p /\ disputes[d] # NoDispute
      /\ disputes[d].status \in Active
  BY DEF ActiveDisputes, IsActive, Filed
<1>2. CASE disputes'[d] = disputes[d]
  BY <1>1, <1>2 DEF ActiveDisputes, IsActive, Filed
<1>. QED
  BY <1>1, <1>2, DisputeCases

\* A ruling joins the pool while its dispute is active; the ruling that ends a
\* dispute was the last of the pool, so no other is left there by then.
LEMMA RulingsOnActiveStep ==
    ASSUME Base, WaitingIsLast, RulingsOnActive, [Next]_vars
    PROVE  RulingsOnActive'
<1> SUFFICES ASSUME NEW i \in 1 .. Len(mempool'), NEW g \in RegistrationIds,
                    mempool'[i].kind = "resolve", mempool'[i].version = g
             PROVE  ActiveDisputes(VersionProject[g])' # {}
  BY DEF RulingsOnActive
<1>0. PoolOK
  BY TypeParts DEF Base
<1>1. PICK p \in Projects : p = VersionProject[g]
  BY DisputeAssumption
<1>2. ASSUME NEW k \in 1 .. Len(mempool), mempool'[i] = mempool[k]
      PROVE  ActiveDisputes(p)' # {}
  <2>1. ActiveDisputes(p) # {} /\ mempool # <<>>
    BY <1>0, <1>1, <1>2 DEF RulingsOnActive, PoolOK
  <2>2. PICK d \in ActiveDisputes(p) : TRUE
    BY <2>1
  <2>3. ASSUME NEW q \in Rulings, CommitRuling(q)
        PROVE  FALSE
    <3>1. q \in Requests /\ pc[q] = "waiting" /\ receipts[q] # "none"
      BY <2>3 DEF CommitRuling, Requests
    <3>. QED
      BY <2>1, <3>1, PoolEmptyAtReceipt
  <2>. QED
    BY <2>2, <2>3, ActiveAfter
<1>3. CASE UNCHANGED <<mempool, receipts>>
  BY <1>1, <1>2, <1>3
<1>4. CASE mempool' = <<>>
  BY <1>4
<1>5. CASE MineTransaction
  <2>1. i + 1 \in 1 .. Len(mempool) /\ mempool'[i] = mempool[i + 1]
    BY <1>0, <1>5, PoolAfterMine DEF MineTransaction
  <2>. QED
    BY <1>1, <1>2, <2>1
<1>6. ASSUME NEW s \in Requests, NEW kind, NEW status,
             Broadcast(s, kind, plan[s].version, status),
             plan[s].version \in RegistrationIds, kind \in {"raise", "resolve"},
             status \in Resolutions \cup {"OPEN"},
             \/ kind = "raise"
             \/ s \in Rulings /\ SendRuling(s)
      PROVE  ActiveDisputes(p)' # {}
  <2>1. PICK tx \in Transactions : /\ mempool' = Append(mempool, tx)
                                   /\ tx.kind = kind /\ tx.version = plan[s].version
    BY <1>6 DEF Broadcast, Transactions
  <2>2. /\ Len(mempool) \in Nat /\ Len(mempool') = Len(mempool) + 1
        /\ \A k \in 1 .. Len(mempool) : mempool'[k] = mempool[k]
        /\ mempool'[Len(mempool) + 1] = tx
    BY <1>0, <2>1, PoolAfterSend
  <2>3. CASE i \in 1 .. Len(mempool)
    BY <1>2, <2>2, <2>3
  <2>4. CASE i = Len(mempool) + 1
    <3>1. s \in Rulings /\ SendRuling(s) /\ plan[s].version = g
      BY <1>6, <2>1, <2>2, <2>4
    <3>2. PICK d \in Claims : d = plan[s].dispute
      BY <3>1, CommittedRuling DEF SendRuling
    <3>3. IsActive(d) /\ disputes[d].project = p
      BY <1>1, <3>1, <3>2, CommittedRuling DEF SendRuling
    <3>4. disputes' = disputes
      BY <3>1 DEF SendRuling, Broadcast, databaseVars
    <3>5. d \in ActiveDisputes(p)'
      BY <3>3, <3>4 DEF ActiveDisputes, IsActive, Filed
    <3>. QED
      BY <3>5
  <2>. QED
    BY <2>2, <2>3, <2>4
<1>7. ASSUME NEW s \in Claims, SendClaim(s)
      PROVE  plan[s].version \in RegistrationIds
  BY <1>7 DEF SendClaim, Base, PlansFit, ClaimPlans
<1>8. ASSUME NEW s \in Rulings, SendRuling(s)
      PROVE  plan[s].version \in RegistrationIds /\ plan[s].status \in Resolutions
  BY <1>8, CommittedRuling DEF SendRuling
<1>. QED
  BY <1>1, <1>3, <1>4, <1>5, <1>6, <1>7, <1>8, PoolCases

\* After its ruling a proof changes by a newer dispute only.
LEMMA RulingOnChainStep ==
    ASSUME Base, WaitingIsLast, RulingOnChain, [Next]_vars
    PROVE  RulingOnChain'
<1> SUFFICES ASSUME NEW q \in Rulings, NEW g \in RegistrationIds,
                    pc'[q] = "waiting", receipts'[q] = "success", plan'[q].version = g
             PROVE  proofs'[g].disputeState \in {plan'[q].status, "OPEN"}
  BY DEF RulingOnChain
<1>1. q \in Requests
  BY DEF Requests
<1>2. pc[q] = "waiting" /\ plan'[q] = plan[q] /\ plan[q].version = g
  BY <1>1, WaitingCases
<1>3. loop = q /\ loop # Free /\ g \in anchored
  BY <1>1, <1>2, WaitingHolds, CommittedRuling
<1>4. CASE receipts[q] = "success"
  <2>1. proofs[g].disputeState \in {plan[q].status, "OPEN"}
    BY <1>2, <1>4 DEF RulingOnChain
  <2>2. mempool = <<>>
    BY <1>1, <1>2, <1>4, PoolEmptyAtReceipt
  <2>3. proofs'[g] = proofs[g] \/ proofs'[g].disputeState = "OPEN"
    BY <1>3, <2>2, ContractCases, DirectEffect, AnchorEffect DEF contractVars, MineTransaction
  <2>. QED
    BY <1>2, <2>1, <2>3
<1>5. CASE receipts[q] # "success"
  <2>1. MineTransaction
    BY <1>5, PoolCases DEF Broadcast
  <2>2. PICK r \in Requests, h \in RegistrationIds, kind \in {"raise", "resolve"},
             status \in Resolutions \cup {"OPEN"} :
          MineEffect(r, h, kind, status) /\ plan[r].version = h
    BY <2>1, MineCases
  <2>3. r = q
    BY <1>1, <1>5, <2>2, MineReceipt
  <2>4. /\ status = plan[q].status /\ h = g
        /\ Chain!Exists(g) /\ Chain!SetDispute(g, status) /\ status \in DisputeStatuses
    BY <1>1, <1>2, <2>2, <2>3, DisputeAssumption, TypeParts
       DEF MineEffect, Base, PoolOK, Resolutions, DisputeStatuses
  <2>5. proofs'[g].disputeState = status
    BY <2>4, DisputeTypes, TypeParts DEF Base
  <2>. QED
    BY <1>2, <2>4, <2>5
<1>. QED
  BY <1>4, <1>5

\* A dispute is filed against, and a ruling written to, an anchored version.
LEMMA UndisputedBeforeStep ==
    ASSUME Base, UndisputedBefore, [Next]_vars
    PROVE  UndisputedBefore'
<1> SUFFICES ASSUME NEW g \in RegistrationIds, g \notin anchored'
             PROVE  versionDispute'[g] = "NONE"
  BY DEF UndisputedBefore
<1>1. g \notin anchored /\ versionDispute[g] = "NONE"
  BY AnchoredPersists DEF UndisputedBefore
<1>2. ASSUME NEW c \in Claims, CommitClaim(c)
      PROVE  versionDispute'[g] = "NONE"
  <2>1. PICK h \in RegistrationIds :
          /\ h \in anchored /\ versionDispute' = [versionDispute EXCEPT ![h] = "OPEN"]
          /\ anchored' = anchored
    BY <1>2, ClaimEffect DEF CommitClaim, FileDispute
  <2>. QED
    BY <1>1, <2>1, TypeParts DEF Base, DatabaseOK
<1>3. ASSUME NEW q \in Rulings, CommitRuling(q)
      PROVE  versionDispute'[g] = "NONE"
  BY <1>1, <1>3, RulingCloses, TypeParts DEF Base, DatabaseOK
<1>. QED
  BY <1>1, <1>2, <1>3, DatabaseCases DEF databaseVars, AnchorVersion

\* The outcome is written to the version the transaction ruled on.
LEMMA OutcomeStep ==
    ASSUME Base, WaitingIsLast, RulingsOnActive, RulingOnChain, UndisputedBefore,
           OutcomeAgrees, [Next]_vars
    PROVE  OutcomeAgrees'
<1> SUFFICES ASSUME NEW g \in anchored', AnchoredOf(VersionProject[g])' = {g},
                    ActiveDisputes(VersionProject[g])' = {},
                    versionDispute'[g] \in Resolutions
             PROVE  proofs'[g].disputeState \in {versionDispute'[g], "OPEN"}
  BY DEF OutcomeAgrees, SoleVersion
<1>0. g \in RegistrationIds
  BY TypeStep, TypeParts DEF DatabaseOK
<1>1. PICK p \in Projects : p = VersionProject[g]
  BY <1>0, DisputeAssumption
\* The version was the only one before, too.
<1>2. ASSUME NEW h \in RegistrationIds, AnchorVersion(h)
      PROVE  h # g
  <2>1. h \notin anchored /\ versionDispute' = versionDispute
    BY <1>2, AnchorEffect DEF AnchorVersion
  <2>. QED
    BY <2>1 DEF UndisputedBefore, Resolutions
<1>3. g \in anchored
  BY <1>2, DatabaseCases
     DEF databaseVars, AnchorVersion, CommitClaim, FileDispute, CommitRuling
<1>4. AnchoredOf(p) = {g}
  BY <1>1, <1>3, AnchoredPersists DEF AnchoredOf
\* Where its disputes and its outcome are as before.
<1>5. CASE /\ ActiveDisputes(p) = {} /\ versionDispute'[g] = versionDispute[g]
           /\ proofs'[g] = proofs[g] \/ proofs'[g].disputeState = "OPEN"
  <2>1. SoleVersion(g) /\ ActiveDisputes(VersionProject[g]) = {}
        /\ versionDispute[g] \in Resolutions
    BY <1>1, <1>4, <1>5 DEF SoleVersion
  <2>2. proofs[g].disputeState \in {versionDispute[g], "OPEN"}
    BY <1>3, <2>1 DEF OutcomeAgrees
  <2>. QED
    BY <1>5, <2>2
<1>6. ASSUME \A q \in Rulings : ~CommitRuling(q)
      PROVE  ActiveDisputes(p) = {}
  BY <1>1, <1>6, ActiveAfter
<1>7. CASE UNCHANGED databaseVars \/ \E h \in RegistrationIds : AnchorVersion(h)
  <2>1. /\ \A q \in Rulings : ~CommitRuling(q)
        /\ versionDispute'[g] = versionDispute[g]
    <3>1. ASSUME NEW q \in Rulings, CommitRuling(q)
          PROVE  FALSE
      <4>1. PICK c \in Claims, status \in Resolutions :
              IsActive(c) /\ disputes'[c].status = status
        BY <3>1, RulingCloses
      <4>2. disputes' = disputes
        BY <1>7 DEF databaseVars, AnchorVersion
      <4>. QED
        BY <4>1, <4>2 DEF IsActive, Active, Resolutions
    <3>. QED
      BY <3>1, <1>7 DEF databaseVars, AnchorVersion
  <2>2. ActiveDisputes(p) = {}
    BY <1>6, <2>1
  <2>3. ASSUME NEW i \in 1 .. Len(mempool), mempool[i].kind = "resolve"
        PROVE  mempool[i].version # g
    BY <1>0, <1>1, <2>2, <2>3 DEF RulingsOnActive
  <2>4. CASE MineTransaction
    <3>1. mempool # <<>> => 1 \in 1 .. Len(mempool)
      BY TypeParts DEF Base, PoolOK
    <3>2. proofs'[g] = proofs[g] \/ proofs'[g].disputeState = "OPEN"
      BY <1>0, <2>3, <2>4, <3>1, MineOne
    <3>. QED
      BY <1>5, <2>1, <2>2, <3>2
  <2>5. proofs'[g] = proofs[g] \/ proofs'[g].disputeState = "OPEN" \/ MineTransaction
    BY <1>0, <1>3, ContractCases, DirectEffect, AnchorEffect DEF contractVars
  <2>. QED
    BY <1>5, <2>1, <2>2, <2>4, <2>5
<1>8. ASSUME NEW c \in Claims, CommitClaim(c)
      PROVE  proofs'[g].disputeState \in {versionDispute'[g], "OPEN"}
  <2>1. PICK h \in RegistrationIds :
          h = plan[c].version /\ versionDispute' = [versionDispute EXCEPT ![h] = "OPEN"]
    BY <1>8, ClaimEffect DEF CommitClaim, FileDispute
  <2>2. versionDispute'[g] = versionDispute[g]
    BY <1>0, <2>1, TypeParts DEF Base, DatabaseOK, Resolutions
  <2>3. ASSUME NEW q \in Rulings, CommitRuling(q)
        PROVE  FALSE
    <3>1. loop = c /\ loop = q
      BY <1>8, <2>3, ClaimEffect, CommittedRuling DEF CommitRuling
    <3>. QED
      BY <3>1, DisputeAssumption
  <2>4. ActiveDisputes(p) = {}
    BY <1>6, <2>3
  <2>5. proofs' = proofs
    BY <1>8 DEF CommitClaim, FileDispute, chainVars, contractVars
  <2>. QED
    BY <1>5, <2>2, <2>4, <2>5
<1>9. ASSUME NEW q \in Rulings, CommitRuling(q)
      PROVE  proofs'[g].disputeState \in {versionDispute'[g], "OPEN"}
  <2>1. PICK c \in Claims, x \in Projects, h \in RegistrationIds, status \in Resolutions :
          /\ h = plan[q].version /\ status = plan[q].status
          /\ disputes[c].project = x /\ h \in anchored /\ VersionProject[h] = x
          /\ \A d \in Claims : d # c => disputes'[d] = disputes[d]
          /\ versionDispute' = [versionDispute EXCEPT ![h] = status]
    BY <1>9, RulingCloses
  <2>2. proofs' = proofs /\ pc[q] = "waiting" /\ receipts[q] = "success"
    BY <1>9 DEF CommitRuling, chainVars, contractVars
  <2>3. CASE h = g
    <3>1. versionDispute'[g] = status
      BY <1>0, <2>1, <2>3, TypeParts DEF Base, DatabaseOK
    <3>2. proofs[g].disputeState \in {status, "OPEN"}
      BY <1>0, <2>1, <2>2, <2>3 DEF RulingOnChain
    <3>. QED
      BY <2>2, <3>1, <3>2
  <2>4. CASE h # g
    <3>1. x # p
      BY <1>4, <2>1, <2>4 DEF AnchoredOf
    <3>2. ActiveDisputes(p) = {}
      <4> SUFFICES ASSUME NEW d \in ActiveDisputes(p) PROVE FALSE
        OBVIOUS
      <4>1. d # c /\ d \in Claims
        BY <2>1, <3>1 DEF ActiveDisputes
      <4>2. disputes'[d] = disputes[d]
        BY <2>1, <4>1
      <4>3. d \in ActiveDisputes(p)'
        BY <4>1, <4>2 DEF ActiveDisputes, IsActive, Filed
      <4>. QED
        BY <1>1, <4>3
    <3>3. versionDispute'[g] = versionDispute[g]
      BY <1>0, <2>1, <2>4, TypeParts DEF Base, DatabaseOK
    <3>. QED
      BY <1>5, <2>2, <3>2, <3>3
  <2>. QED
    BY <2>3, <2>4
<1>. QED
  BY <1>7, <1>8, <1>9, DatabaseCases

\* Rulings that were late, lost or mined after their handler gave up: once no
\* dispute of a project with one version is active, the contract holds the
\* outcome in the database, or a newer dispute.  The nonces order the rulings,
\* and a handler that waits is the last to have sent.
THEOREM OutcomeCorrect == Spec => []OutcomeAgrees
<1> DEFINE Inv == WaitingIsLast /\ RulingsOnActive /\ RulingOnChain /\ UndisputedBefore
                  /\ OutcomeAgrees
<1>1. Init => Inv
  BY DEF Init, WaitingIsLast, RulingsOnActive, RulingOnChain, UndisputedBefore,
         OutcomeAgrees, Requests
<1>2. Base /\ Inv /\ [Next]_vars => Inv'
  BY WaitingIsLastStep, RulingsOnActiveStep, RulingOnChainStep, UndisputedBeforeStep,
     OutcomeStep
<1>3. Inv => OutcomeAgrees
  OBVIOUS
<1>. QED
  BY <1>1, <1>2, <1>3, BaseInvariant, PTL DEF Spec

-----------------------------------------------------------------------------
(* The contract keeps two claims from both being filed.                    *)

\* A ruling that is lost stays lost.
LEMMA LostStays ==
    ASSUME Base, [Next]_vars, LostRulings' = {}
    PROVE  LostRulings = {}
<1> SUFFICES ASSUME NEW q \in Rulings, receipts[q] = "success", pc[q] = "failed"
             PROVE  receipts'[q] = "success" /\ pc'[q] = "failed"
  BY DEF LostRulings
<1>1. q \in Requests
  BY DEF Requests
<1>2. pc'[q] = "failed"
  BY <1>1, RequestCases DEF SendRuling, CommitRuling, SendClaim, CommitClaim
<1>3. receipts'[q] = "success"
  <2>1. CASE MineTransaction
    <3>1. PICK s \in Requests, g \in RegistrationIds, kind \in {"raise", "resolve"},
               status \in Resolutions \cup {"OPEN"} :
            MineEffect(s, g, kind, status) /\ receipts[s] = "none"
      BY <2>1, MineCases
    <3>. QED
      BY <1>1, <3>1, MineReceipt
  <2>. QED
    BY <2>1, PoolCases DEF Broadcast
<1>. QED
  BY <1>2, <1>3

\* A version that is the only one of its project was so before, or it is new
\* and its project has no dispute.
LEMMA SoleBefore ==
    ASSUME Base, [Next]_vars, NEW g \in anchored', SoleVersion(g)'
    PROVE  /\ g \in RegistrationIds
           /\ \/ g \in anchored /\ SoleVersion(g)
              \/ /\ AnchorVersion(g) /\ g \notin anchored
                 /\ ActiveDisputes(VersionProject[g])' = {}
<1>1. g \in RegistrationIds
  BY TypeStep, TypeParts DEF DatabaseOK
<1>2. PICK p \in Projects : p = VersionProject[g]
  BY <1>1, DisputeAssumption
<1>3. AnchoredOf(p)' = {g}
  BY <1>2 DEF SoleVersion
<1>4. CASE g \in anchored
  <2>1. AnchoredOf(p) = {g}
    BY <1>2, <1>3, <1>4, AnchoredPersists DEF AnchoredOf
  <2>. QED
    BY <1>1, <1>2, <1>4, <2>1 DEF SoleVersion
<1>5. CASE g \notin anchored
  <2>1. AnchorVersion(g)
    <3>1. anchored' = anchored \/ \E h \in RegistrationIds : AnchorVersion(h)
      BY DatabaseCases DEF databaseVars, CommitClaim, FileDispute, CommitRuling
    <3>. QED
      BY <1>5, <3>1 DEF AnchorVersion
  <2>2. ASSUME NEW d \in ActiveDisputes(p)'
        PROVE  FALSE
    <3>1. d \in Claims /\ disputes[d] # NoDispute /\ disputes[d].project = p
      BY <2>1 DEF AnchorVersion, ActiveDisputes, IsActive, Filed
    <3>2. plan[d].version \in anchored /\ VersionProject[plan[d].version] = p
      BY <3>1 DEF Base, FiledWhenDone, PlansFit
    <3>3. plan[d].version \in AnchoredOf(p)'
      BY <2>1, <3>2 DEF AnchorVersion, AnchoredOf
    <3>. QED
      BY <1>3, <1>5, <3>2, <3>3
  <2>. QED
    BY <1>1, <1>2, <1>5, <2>1, <2>2
<1>. QED
  BY <1>4, <1>5

\* A claim about to be committed is on the only version of its project.
LEMMA ClaimOnSole ==
    ASSUME Base, NEW g \in anchored, SoleVersion(g), NEW c \in Claims, CommitClaim(c),
           VersionProject[plan[c].version] = VersionProject[g]
    PROVE  /\ plan[c].version = g
           /\ pc[c] = "waiting" /\ receipts[c] = "success"
           /\ proofs' = proofs
BY ClaimEffect
   DEF SoleVersion, AnchoredOf, CommitClaim, FileDispute, chainVars, contractVars

\* The contract admits one active dispute of a version, and a claim is filed
\* only after its notice was mined.
LEMMA AtMostOneStep ==
    ASSUME Base, AtMostOneActive, NextClaimAlone, [Next]_vars
    PROVE  AtMostOneActive'
<1> SUFFICES ASSUME LostRulings' = {}, NEW g \in anchored', SoleVersion(g)',
                    NEW c \in ActiveDisputes(VersionProject[g])',
                    NEW d \in ActiveDisputes(VersionProject[g])', c # d
             PROVE  FALSE
  BY DEF AtMostOneActive
<1>1. LostRulings = {} /\ g \in RegistrationIds /\ g \in anchored /\ SoleVersion(g)
  BY LostStays, SoleBefore
<1>2. PICK p \in Projects : p = VersionProject[g]
  BY <1>1, DisputeAssumption
<1>3. ASSUME NEW x \in ActiveDisputes(p)', NEW y \in ActiveDisputes(p)', x # y,
             x \in Claims, CommitClaim(x), VersionProject[plan[x].version] = p
      PROVE  FALSE
  <2>1. ActiveDisputes(p) = {}
    BY <1>1, <1>2, <1>3, ClaimOnSole DEF NextClaimAlone
  <2>2. y \in Claims /\ CommitClaim(y)
    BY <2>1, ActiveBefore
  <2>3. loop = x /\ loop = y
    BY <1>3, <2>2, ClaimEffect
  <2>. QED
    BY <1>3, <2>3
<1>4. c \in ActiveDisputes(p) /\ d \in ActiveDisputes(p)
  BY <1>2, <1>3, ActiveBefore
<1>. QED
  BY <1>1, <1>2, <1>4 DEF AtMostOneActive

\* While no ruling is lost, the contract ends a dispute only with the ruling
\* that waits to be committed.
LEMMA ActiveOnChainStep ==
    ASSUME Base, WaitingIsLast, AtMostOneActive, ActiveOnChain, NextClaimAlone, [Next]_vars
    PROVE  ActiveOnChain'
<1> SUFFICES ASSUME LostRulings' = {}, NEW g \in anchored', SoleVersion(g)',
                    NEW c \in Claims, c \in ActiveDisputes(VersionProject[g])'
             PROVE  \/ proofs'[g].disputeState \in Active
                    \/ \E q \in Rulings : /\ pc'[q] = "waiting" /\ receipts'[q] = "success"
                                          /\ plan'[q].dispute = c
  BY DEF ActiveOnChain
<1>1. LostRulings = {} /\ g \in RegistrationIds /\ g \in anchored /\ SoleVersion(g)
  BY LostStays, SoleBefore
<1>2. PICK p \in Projects : p = VersionProject[g]
  BY <1>1, DisputeAssumption
<1>3. CASE CommitClaim(c) /\ VersionProject[plan[c].version] = p
  BY <1>1, <1>2, <1>3, ClaimOnSole DEF NextClaimAlone
<1>4. ASSUME NEW q \in Rulings, pc[q] = "waiting", receipts[q] = "success",
             plan[q].dispute = c, disputes'[c] = disputes[c], c \in ActiveDisputes(p)
      PROVE  /\ pc'[q] = "waiting" /\ receipts'[q] = "success"
             /\ plan'[q].dispute = c
  <2>1. q \in Requests /\ q \notin Claims
    BY DisputeAssumption DEF Requests
  <2>2. mempool = <<>>
    BY <1>4, <2>1, PoolEmptyAtReceipt
  <2>3. receipts'[q] = "success"
    BY <1>4, <2>2, PoolCases DEF MineTransaction, Broadcast
  <2>4. ~ (pc'[q] = "failed")
    BY <2>3 DEF LostRulings
  <2>5. ~ CommitRuling(q)
    <3>1. disputes[c].status \in Active
      BY <1>4 DEF ActiveDisputes, IsActive
    <3>. QED
      BY <1>4, <3>1, RulingCloses DEF Active, Resolutions
  <2>. QED
    BY <1>4, <2>1, <2>3, <2>4, <2>5, RequestCases DEF SendRuling
<1>5. CASE /\ c \in ActiveDisputes(p) /\ disputes'[c] = disputes[c]
           /\ proofs[g].disputeState \in Active
  <2>1. CASE proofs'[g] = proofs[g] \/ proofs'[g].disputeState = "OPEN"
    BY <1>5, <2>1 DEF Active
  <2>2. ASSUME NEW q \in Rulings, plan[q].version = g, pc[q] \in {"waiting", "failed"},
               pc'[q] = pc[q], receipts'[q] = "success", plan'[q] = plan[q]
        PROVE  pc'[q] = "waiting" /\ plan'[q].dispute = c
    <3>1. pc[q] = "waiting"
      BY <2>2 DEF LostRulings
    <3>2. PICK e \in Claims : e = plan[q].dispute
      BY <3>1, CommittedRuling
    <3>3. IsActive(e) /\ disputes[e].project = p
      BY <1>2, <2>2, <3>1, <3>2, CommittedRuling
    <3>4. e = c
      BY <1>1, <1>2, <1>5, <3>2, <3>3 DEF AtMostOneActive, ActiveDisputes
    <3>. QED
      BY <2>2, <3>1, <3>2, <3>4
  <2>3. CASE MineTransaction
    <3>1. plan' = plan
      BY <2>3 DEF MineTransaction, requestVars
    <3>. QED
      BY <1>1, <2>1, <2>2, <2>3, <3>1, MineOne
  <2>. QED
    BY <1>1, <2>1, <2>3, ContractCases, DirectEffect, AnchorEffect DEF contractVars
<1>6. CASE c \in ActiveDisputes(p) /\ disputes'[c] = disputes[c]
  <2>1. \/ proofs[g].disputeState \in Active
        \/ \E q \in Rulings :
             pc[q] = "waiting" /\ receipts[q] = "success" /\ plan[q].dispute = c
    BY <1>1, <1>2, <1>6 DEF ActiveOnChain
  <2>. QED
    BY <1>4, <1>5, <1>6, <2>1
<1>. QED
  BY <1>2, <1>3, <1>6, ActiveBefore

\* A notice is mined only where the contract has no active dispute.
LEMMA NextClaimStep ==
    ASSUME Base, WaitingIsLast, ActiveOnChain, NextClaimAlone, [Next]_vars
    PROVE  NextClaimAlone'
<1> SUFFICES ASSUME LostRulings' = {}, NEW g \in anchored', NEW c \in Claims,
                    SoleVersion(g)', pc'[c] = "waiting", receipts'[c] = "success",
                    plan'[c].version = g
             PROVE  /\ proofs'[g].disputeState \in Active
                    /\ ActiveDisputes(VersionProject[g])' = {}
  BY DEF NextClaimAlone
<1>1. c \in Requests /\ c \notin Rulings
  BY DisputeAssumption DEF Requests
<1>2. pc[c] = "waiting" /\ plan[c].version = g
  BY <1>1, WaitingCases
<1>3. loop = c /\ loop # Free
  BY <1>1, <1>2, WaitingHolds
<1>4. LostRulings = {} /\ g \in RegistrationIds /\ g \in anchored /\ SoleVersion(g)
  BY <1>3, LostStays, SoleBefore DEF AnchorVersion
<1>5. PICK p \in Projects : p = VersionProject[g]
  BY <1>4, DisputeAssumption
<1>6. CASE receipts[c] = "success"
  <2>1. proofs[g].disputeState \in Active /\ ActiveDisputes(p) = {}
    BY <1>2, <1>4, <1>5, <1>6 DEF NextClaimAlone
  <2>2. mempool = <<>>
    BY <1>1, <1>2, <1>6, PoolEmptyAtReceipt
  <2>3. proofs'[g] = proofs[g] \/ proofs'[g].disputeState = "OPEN"
    BY <1>3, <1>4, <2>2, ContractCases, DirectEffect, AnchorEffect
       DEF contractVars, MineTransaction
  <2>4. ASSUME NEW d \in ActiveDisputes(p)'
        PROVE  FALSE
    <3>1. CommitClaim(d) /\ d \in Claims
      BY <2>1, ActiveBefore
    <3>2. d = c
      BY <1>3, <3>1, ClaimEffect
    <3>3. pc'[c] = "done"
      BY <1>1, <3>1, <3>2, TypeParts DEF CommitClaim, FileDispute, Finish, Base, RequestsOK
    <3>. QED
      BY <3>3
  <2>. QED
    BY <1>5, <2>1, <2>3, <2>4 DEF Active
<1>7. CASE receipts[c] # "success"
  <2>1. MineTransaction
    BY <1>7, PoolCases DEF Broadcast
  <2>2. PICK r \in Requests, h \in RegistrationIds, kind \in {"raise", "resolve"},
             status \in Resolutions \cup {"OPEN"} :
          MineEffect(r, h, kind, status) /\ plan[r].version = h
    BY <2>1, MineCases
  <2>3. r = c
    BY <1>1, <1>7, <2>2, MineReceipt
  <2>4. receipts'[r] # "reverted" /\ r \notin Rulings /\ h = g
    BY <1>1, <1>2, <2>2, <2>3
  <2>5. /\ Chain!Exists(g) /\ proofs[g].disputeState \notin Active
        /\ Chain!SetDispute(g, "OPEN")
    BY <1>1, <2>2, <2>3, <2>4, TypeParts DEF MineEffect, Base, PoolOK
  <2>6. proofs'[g].disputeState = "OPEN"
    BY <1>4, <2>5, DisputeTypes, TypeParts DEF Base, DisputeStatuses
  <2>7. ASSUME NEW d \in ActiveDisputes(p)
        PROVE  FALSE
    <3>1. d \in Claims
      BY DEF ActiveDisputes
    <3>2. PICK q \in Rulings : pc[q] = "waiting"
      BY <1>4, <1>5, <2>5, <3>1 DEF ActiveOnChain
    <3>3. loop = q
      BY <3>2, CommittedRuling
    <3>. QED
      BY <1>1, <1>3, <3>3
  <2>8. disputes' = disputes
    BY <2>1 DEF MineTransaction, databaseVars
  <2>9. ActiveDisputes(p)' = {}
    BY <2>7, <2>8 DEF ActiveDisputes, IsActive, Filed
  <2>. QED
    BY <1>5, <2>6, <2>9 DEF Active
<1>. QED
  BY <1>6, <1>7

\* The invariant of projects of one version.
SerialInv == WaitingIsLast /\ AtMostOneActive /\ ActiveOnChain /\ NextClaimAlone

\* The invariant behind SerialCorrect and RulingOnDisputed.
LEMMA SerialInvariant == Spec => []SerialInv
<1>1. Init => SerialInv
  BY DEF Init, SerialInv, WaitingIsLast, AtMostOneActive, ActiveOnChain, NextClaimAlone,
         Requests
<1>2. Base /\ SerialInv /\ [Next]_vars => SerialInv'
  BY WaitingIsLastStep, AtMostOneStep, ActiveOnChainStep, NextClaimStep DEF SerialInv
<1>. QED
  BY <1>1, <1>2, BaseInvariant, PTL DEF Spec

\* Two claims on the only version of a project are never both active, although
\* the back end does not check again after the pin: unless a ruling was lost, an
\* active dispute is active in the contract, which refuses the second.
THEOREM SerialCorrect == Spec => []ContractSerialisesClaims
<1>1. SerialInv => ContractSerialisesClaims
  <2> SUFFICES ASSUME AtMostOneActive, LostRulings = {}, NEW g \in anchored, SoleVersion(g)
               PROVE  Cardinality(ActiveDisputes(VersionProject[g])) <= 1
    BY DEF SerialInv, ContractSerialisesClaims
  <2>1. PICK S : S = ActiveDisputes(VersionProject[g])
    OBVIOUS
  <2>2. CASE S = {}
    BY <2>1, <2>2, FS_EmptySet
  <2>3. ASSUME NEW c \in S
        PROVE  Cardinality(S) <= 1
    <3>1. S = {c}
      BY <2>1, <2>3 DEF AtMostOneActive
    <3>. QED
      BY <3>1, FS_Singleton
  <2>. QED
    BY <2>1, <2>2, <2>3
<1>. QED
  BY <1>1, SerialInvariant, PTL

-----------------------------------------------------------------------------
(* The column a ruling writes.                                             *)

\* While no ruling is lost, the only version of a project carries the mark of
\* the project's active dispute.
MarkedWhileActive ==
    LostRulings = {} => \A g \in anchored :
      SoleVersion(g) /\ ActiveDisputes(VersionProject[g]) # {} =>
        versionDispute[g] \in Active

\* DATABASE_DESIGN.md section 5 for a project of one version: while no ruling is
\* lost, a version becomes RESOLVED or REJECTED only after OPEN.
RulingOnDisputedIfSole ==
    [][LostRulings = {} => \A g \in anchored :
         /\ SoleVersion(g)
         /\ versionDispute'[g] # versionDispute[g] /\ versionDispute'[g] \in Resolutions
         => versionDispute[g] \in Active]_vars

\* What a step does to the mark of a version: a claim on it sets OPEN, a ruling
\* of its project on an active dispute sets the outcome.
LEMMA MarkCases ==
    ASSUME Base, [Next]_vars, NEW g \in RegistrationIds,
           versionDispute'[g] # versionDispute[g]
    PROVE  \/ versionDispute'[g] = "OPEN"
           \/ \E q \in Rulings, c \in ActiveDisputes(VersionProject[g]) :
                /\ CommitRuling(q) /\ plan[q].dispute = c
                /\ versionDispute'[g] \in Resolutions
                /\ disputes'[c].status \in Resolutions
<1>1. DatabaseOK
  BY TypeParts DEF Base
<1>2. CASE UNCHANGED databaseVars \/ \E h \in RegistrationIds : AnchorVersion(h)
  BY <1>2 DEF databaseVars, AnchorVersion
<1>3. ASSUME NEW c \in Claims, CommitClaim(c)
      PROVE  versionDispute'[g] = "OPEN"
  <2>1. PICK h \in RegistrationIds : h = plan[c].version
    BY <1>3, ClaimEffect
  <2>2. versionDispute' = [versionDispute EXCEPT ![h] = "OPEN"]
    BY <1>3, <2>1 DEF CommitClaim, FileDispute
  <2>. QED
    BY <1>1, <2>2 DEF DatabaseOK
<1>4. ASSUME NEW q \in Rulings, CommitRuling(q)
      PROVE  \E c \in ActiveDisputes(VersionProject[g]) :
               /\ plan[q].dispute = c
               /\ versionDispute'[g] \in Resolutions
               /\ disputes'[c].status \in Resolutions
  <2>1. PICK c \in Claims, p \in Projects, h \in RegistrationIds, status \in Resolutions :
          /\ c = plan[q].dispute
          /\ IsActive(c) /\ disputes[c].project = p /\ VersionProject[h] = p
          /\ disputes'[c].status = status
          /\ versionDispute' = [versionDispute EXCEPT ![h] = status]
    BY <1>4, RulingCloses
  <2>2. h = g /\ versionDispute'[g] = status
    BY <1>1, <2>1 DEF DatabaseOK
  <2>. QED
    BY <2>1, <2>2 DEF ActiveDisputes
<1>. QED
  BY <1>2, <1>3, <1>4, DatabaseCases

\* The mark comes with the claim, and only the ruling on the one active dispute
\* takes it away.
LEMMA MarkedStep ==
    ASSUME Base, AtMostOneActive, MarkedWhileActive, [Next]_vars
    PROVE  MarkedWhileActive'
<1> SUFFICES ASSUME LostRulings' = {}, NEW g \in anchored', SoleVersion(g)',
                    NEW d \in ActiveDisputes(VersionProject[g])'
             PROVE  versionDispute'[g] \in Active
  BY DEF MarkedWhileActive
<1>1. LostRulings = {} /\ g \in RegistrationIds /\ g \in anchored /\ SoleVersion(g)
  BY LostStays, SoleBefore
<1>2. PICK p \in Projects : p = VersionProject[g]
  BY <1>1, DisputeAssumption
<1>3. CASE d \in Claims /\ CommitClaim(d) /\ VersionProject[plan[d].version] = p
  <2>1. plan[d].version = g
    BY <1>1, <1>2, <1>3, ClaimOnSole
  <2>2. versionDispute' = [versionDispute EXCEPT ![g] = "OPEN"]
    BY <1>3, <2>1 DEF CommitClaim, FileDispute
  <2>. QED
    BY <1>1, <2>2, TypeParts DEF Base, DatabaseOK, Active
<1>4. CASE d \in ActiveDisputes(p) /\ disputes'[d] = disputes[d]
  <2>1. versionDispute[g] \in Active
    BY <1>1, <1>2, <1>4 DEF MarkedWhileActive
  <2>2. ASSUME NEW c \in ActiveDisputes(p), disputes'[c].status \in Resolutions
        PROVE  FALSE
    <3>1. c = d
      BY <1>1, <1>2, <1>4 DEF AtMostOneActive
    <3>. QED
      BY <1>4, <2>2, <3>1 DEF ActiveDisputes, IsActive, Active, Resolutions
  <2>. QED
    BY <1>1, <1>2, <2>1, <2>2, MarkCases DEF Active
<1>. QED
  BY <1>2, <1>3, <1>4, ActiveBefore

\* A ruling that goes to the latest version of a project goes to the disputed
\* one where the project has no other, unless an earlier ruling was lost: what
\* DATABASE_DESIGN.md says of dispute_status is broken by the row of disputes
\* that names no version (dispute_service.py), and by a lost ruling.
THEOREM RulingOnDisputed == Spec => RulingOnDisputedIfSole
<1> DEFINE Inv == SerialInv /\ MarkedWhileActive
<1>1. Init => MarkedWhileActive
  BY DEF Init, MarkedWhileActive
<1>2. Base /\ Inv /\ [Next]_vars => MarkedWhileActive'
  BY MarkedStep DEF SerialInv
<1>3. ASSUME Base, Inv, [Next]_vars, LostRulings = {}, NEW g \in anchored, SoleVersion(g),
             versionDispute'[g] # versionDispute[g], versionDispute'[g] \in Resolutions
      PROVE  versionDispute[g] \in Active
  <2>1. g \in RegistrationIds
    BY <1>3, TypeParts DEF Base, DatabaseOK
  <2>2. ActiveDisputes(VersionProject[g]) # {}
    BY <1>3, <2>1, MarkCases DEF Resolutions
  <2>. QED
    BY <1>3, <2>2 DEF MarkedWhileActive
<1>4. Base /\ Inv /\ [Next]_vars =>
        [LostRulings = {} => \A g \in anchored :
           /\ SoleVersion(g)
           /\ versionDispute'[g] # versionDispute[g] /\ versionDispute'[g] \in Resolutions
           => versionDispute[g] \in Active]_vars
  BY <1>3
<1>. QED
  BY <1>1, <1>2, <1>4, BaseInvariant, SerialInvariant, PTL DEF Spec, RulingOnDisputedIfSole

-----------------------------------------------------------------------------
(* The contract underneath.                                                *)

\* Claims, rulings and those who raise disputes by themselves touch the contract
\* through its functions only: what happens to it is a behaviour of
\* ProjectRegistry.
THEOREM ContractUnderneath == Spec => Chain!Spec
<1>1. Init => Chain!Init
  BY DEF Init
<1>2. Base /\ [Next]_vars => [Chain!Next]_(Chain!registryVars)
  <2> SUFFICES ASSUME Base, [Next]_vars
               PROVE  Chain!Next \/ UNCHANGED contractVars
    BY DEF contractVars, Chain!registryVars, Chain!authority, Chain!records
  <2>1. CASE MineTransaction
    <3>1. mempool \in Seq(Transactions) /\ mempool # <<>>
      BY <2>1, TypeParts DEF Base, PoolOK, MineTransaction
    <3>2. Head(mempool) \in Transactions
      BY <3>1
    <3>3. /\ Head(mempool).version \in Chain!Strings
          /\ Head(mempool).kind = "resolve" /\ Head(mempool).status \in Chain!Resolutions
               => Head(mempool).status \in Chain!DisputeStatuses
      BY <3>2 DEF Transactions, Chain!Strings, Chain!Resolutions, Chain!DisputeStatuses
    <3>4. CASE /\ Head(mempool).kind = "raise"
               /\ Chain!RaiseDispute(Head(mempool).version, EvidenceCID)
      BY <3>3, <3>4 DEF Chain!Next
    <3>5. CASE /\ Head(mempool).kind = "resolve"
               /\ Chain!ResolveDispute(RelayerAccount, Head(mempool).version,
                                       Head(mempool).status)
      BY <3>3, <3>5 DEF Chain!Next, Chain!ResolveDispute
    <3>. QED
      BY <2>1, <3>4, <3>5 DEF MineTransaction
  <2>2. ASSUME NEW g \in RegistrationIds, AnchorVersion(g) \/ DirectDispute(g)
        PROVE  Chain!Next
    BY <2>2 DEF AnchorVersion, DirectDispute, Chain!Next, Chain!Strings
  <2>3. ASSUME NEW r \in Requests, Ends(r)
        PROVE  UNCHANGED contractVars
    BY <2>3 DEF Ends, Finish, chainVars
  <2>4. ASSUME NEW c \in Claims, NEW g \in RegistrationIds, BeginClaim(c, g)
        PROVE  UNCHANGED contractVars
    BY <2>4 DEF BeginClaim, chainVars
  <2>5. ASSUME NEW c \in Claims, SendClaim(c) \/ CommitClaim(c)
        PROVE  UNCHANGED contractVars
    BY <2>5 DEF SendClaim, CommitClaim, FileDispute, Broadcast, chainVars
  <2>6. ASSUME NEW q \in Rulings, NEW c \in Claims, NEW status \in Resolutions,
               BeginRuling(q, c, status)
        PROVE  UNCHANGED contractVars
    BY <2>6 DEF BeginRuling, chainVars
  <2>7. ASSUME NEW q \in Rulings, SendRuling(q) \/ CommitRuling(q)
        PROVE  UNCHANGED contractVars
    BY <2>7 DEF SendRuling, CommitRuling, Broadcast, chainVars
  <2>8. CASE DropPool \/ Crash \/ UNCHANGED vars
    BY <2>8 DEF DropPool, Crash, vars, chainVars
  <2>. QED
    BY <2>1, <2>2, <2>3, <2>4, <2>5, <2>6, <2>7, <2>8, NextCases
<1>. QED
  BY <1>1, <1>2, BaseInvariant, PTL DEF Spec, Chain!Spec
=============================================================================
