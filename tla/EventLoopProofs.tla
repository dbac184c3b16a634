---------------------------- MODULE EventLoopProofs ----------------------------
(***************************************************************************)
(* Proofs about the event loop and the pools, for every number of          *)
(* requests, threads and connections.                                      *)
(***************************************************************************)
EXTENDS EventLoop, FiniteSetTheorems, TLAPS

\* Stages in which a request holds no connection.
Unheld == InThread \cup OnLoop \cup {"arrived", "closed", "answered"}

\* The inductive invariant.
LoopInv == TypeOK /\ \A r \in Requests : pc[r] \in Unheld => r \notin conn

\* What every step has in common: one request moves to a stage, has the loop
\* and a thread if that stage needs them, and lets go of them otherwise.
Shape(r, stage) ==
    /\ Goes(r, stage)
    /\ loop' = IF stage \in Blocking THEN r ELSE IF loop = r THEN Free ELSE loop
    /\ stage \in Blocking => loop \in {Free, r}
    /\ workers' = IF stage \in InThread \cup {"handling"} THEN workers \cup {r}
                  ELSE workers \ {r}
    /\ conn' \in {conn, conn \cup {r}, conn \ {r}}
    /\ conn' = conn \cup {r} => Available \/ r \in conn
    /\ stage \in Unheld => r \notin conn'
    /\ reply' \in [Requests -> {"none", "ok", "error"}]

\* What one request more or less does to the count of connections.
LEMMA ConnCounted ==
    ASSUME NEW held \in SUBSET Requests, NEW r \in Requests
    PROVE  /\ IsFiniteSet(held) /\ Cardinality(held) \in Nat
           /\ Cardinality(held \cup {r}) \in Nat /\ Cardinality(held \ {r}) \in Nat
           /\ Cardinality(held \cup {r}) <= Cardinality(held) + 1
           /\ Cardinality(held \ {r}) <= Cardinality(held)
           /\ r \in held => held \cup {r} = held
<1>1. IsFiniteSet(held)
  BY EventLoopAssumption, FS_Subset
<1>2. Cardinality(held) \in Nat
  BY <1>1, FS_CardinalityType
<1>3. Cardinality(held \cup {r}) = IF r \in held THEN Cardinality(held) ELSE Cardinality(held) + 1
  BY <1>1, FS_AddElement
<1>4. Cardinality(held \ {r}) = IF r \in held THEN Cardinality(held) - 1 ELSE Cardinality(held)
  BY <1>1, FS_RemoveElement
<1>5. Cardinality(held \ {r}) \in Nat
  BY <1>1, FS_RemoveElement, FS_CardinalityType
<1>. QED
  BY <1>1, <1>2, <1>3, <1>4, <1>5

\* A step of this shape keeps the invariant.
LEMMA ShapeKeeps ==
    ASSUME LoopInv, NEW r \in Requests, NEW stage \in Stages, Shape(r, stage)
    PROVE  LoopInv'
<1>1. /\ pc \in [Requests -> Stages] /\ loop \in Requests \cup {Free}
      /\ \A q \in Requests : pc[q] \in Blocking <=> loop = q
      /\ workers = {q \in Requests : pc[q] \in InThread \cup {"handling"}}
      /\ conn \subseteq Requests /\ Cardinality(conn) <= Connections
      /\ \A q \in Requests : pc[q] \in Unheld => q \notin conn
  BY DEF LoopInv, TypeOK
<1>2. /\ pc' \in [Requests -> Stages] /\ pc'[r] = stage
      /\ \A q \in Requests : q # r => pc'[q] = pc[q]
  BY <1>1 DEF Shape, Goes
<1>3. loop' \in Requests \cup {Free} /\ \A q \in Requests : pc'[q] \in Blocking <=> loop' = q
  BY <1>1, <1>2, EventLoopAssumption DEF Shape
<1>4. workers' = {q \in Requests : pc'[q] \in InThread \cup {"handling"}}
  BY <1>1, <1>2 DEF Shape
<1>5. conn' \subseteq Requests /\ Cardinality(conn') <= Connections
  <2>1. /\ Cardinality(conn) \in Nat
        /\ Cardinality(conn \cup {r}) \in Nat /\ Cardinality(conn \ {r}) \in Nat
        /\ Cardinality(conn \cup {r}) <= Cardinality(conn) + 1
        /\ Cardinality(conn \ {r}) <= Cardinality(conn)
        /\ r \in conn => conn \cup {r} = conn
    BY <1>1, ConnCounted
  <2>2. Connections \in Nat
    BY EventLoopAssumption
  <2>3. CASE conn' = conn
    BY <1>1, <2>3
  <2>4. CASE conn' = conn \ {r}
    BY <1>1, <2>1, <2>2, <2>4
  <2>5. CASE conn' = conn \cup {r}
    <3>1. Cardinality(conn) < Connections \/ r \in conn
      BY <2>5 DEF Shape, Available
    <3>2. CASE r \in conn
      BY <1>1, <2>1, <2>5, <3>2
    <3>3. CASE Cardinality(conn) < Connections
      BY <1>1, <2>1, <2>2, <2>5, <3>3
    <3>. QED
      BY <3>1, <3>2, <3>3
  <2>. QED
    BY <2>3, <2>4, <2>5 DEF Shape
<1>6. \A q \in Requests : pc'[q] \in Unheld => q \notin conn'
  BY <1>1, <1>2 DEF Shape
<1>7. reply' \in [Requests -> {"none", "ok", "error"}]
  BY DEF Shape
<1>. QED
  BY <1>2, <1>3, <1>4, <1>5, <1>6, <1>7 DEF LoopInv, TypeOK

\* A handler ends from a stage of its own, with or without a connection.
LEMMA EndsShape ==
    ASSUME LoopInv, NEW r \in Requests, NEW result \in {"ok", "error"}, Ends(r, result),
           conn' = conn \/ (conn' = conn \cup {r} /\ Available)
    PROVE  Shape(r, "handled")
  BY DEF Ends, Shape, Goes, LoopInv, TypeOK, Unheld, InThread, OnLoop, Blocking

\* The steps all requests share have that shape.
LEMMA CommonKeeps ==
    ASSUME LoopInv, NEW r \in Requests, Common(r)
    PROVE  \E stage \in Stages : Shape(r, stage)
<1>1. /\ \A q \in Requests : pc[q] \in Blocking <=> loop = q
      /\ \A q \in Requests : pc[q] \in InThread \cup {"handling"} <=> q \in workers
      /\ workers \subseteq Requests /\ reply \in [Requests -> {"none", "ok", "error"}]
      /\ \A q \in Requests : pc[q] \in Unheld => q \notin conn
      /\ loop = r => loop # Free
  BY EventLoopAssumption DEF LoopInv, TypeOK
<1>2. ASSUME UpdateAlone(r, "starting", "loading")
      PROVE  Shape(r, "loading")
  BY <1>1, <1>2 DEF UpdateAlone, Shape, Unheld, InThread, OnLoop, Blocking
<1>u. ASSUME UpdateAlone(r, "failing", "failed")
      PROVE  Shape(r, "failed")
  BY <1>1, <1>u DEF UpdateAlone, Shape, Unheld, InThread, OnLoop, Blocking
<1>3. ASSUME Available, AfterCheckout(r), conn' = conn \cup {r}, Waits(r),
             pc[r] \notin {"starting", "failing"}
      PROVE  \E stage \in Stages : Shape(r, stage)
  <2>1. CASE pc[r] = "authenticating"
    <3>1. Shape(r, "authenticated")
      BY <1>1, <1>3, <2>1 DEF AfterCheckout, Shape, Unheld, InThread, OnLoop, Blocking
    <3>. QED
      BY <3>1 DEF Stages
  <2>2. CASE pc[r] = "looking_up"
    <3>1. Shape(r, "reading")
      BY <1>1, <1>3, <2>2 DEF AfterCheckout, Shape, Unheld, InThread, OnLoop, Blocking
    <3>. QED
      BY <3>1 DEF Stages, Blocking
  <2>3. CASE pc[r] = "loading"
    <3>1. Shape(r, "waiting")
      BY <1>1, <1>3, <2>3 DEF AfterCheckout, Shape, Unheld, InThread, OnLoop, Blocking
    <3>. QED
      BY <3>1 DEF Stages, Blocking
  <2>4. CASE pc[r] \in {"reloading", "recorded"}
    <3>1. Ends(r, "ok")
      BY <1>3, <2>4 DEF AfterCheckout
    <3>2. Shape(r, "handled")
      BY <1>3, <3>1, EndsShape
    <3>. QED
      BY <3>2 DEF Stages
  <2>5. CASE pc[r] = "failed"
    <3>1. Ends(r, "error")
      BY <1>3, <2>5 DEF AfterCheckout
    <3>2. Shape(r, "handled")
      BY <1>3, <3>1, EndsShape
    <3>. QED
      BY <3>2 DEF Stages
  <2>. QED
    BY <1>3, <2>1, <2>2, <2>3, <2>4, <2>5 DEF Waits, InThread, OnLoop
<1>4. CASE Checkout(r)
  <2>1. CASE UpdateAlone(r, "starting", "loading")
    <3>1. Shape(r, "loading")
      BY <1>2, <2>1
    <3>. QED
      BY <3>1 DEF Stages, Blocking, OnLoop
  <2>2. CASE UpdateAlone(r, "failing", "failed")
    <3>1. Shape(r, "failed")
      BY <1>u, <2>2
    <3>. QED
      BY <3>1 DEF Stages, Blocking, OnLoop
  <2>3. CASE /\ pc[r] \notin {"starting", "failing"}
             /\ AfterCheckout(r) /\ conn' = conn \cup {r}
    BY <1>3, <1>4, <2>3 DEF Checkout
  <2>. QED
    BY <1>4, <2>1, <2>2, <2>3 DEF Checkout
<1>5. CASE CheckoutFails(r)
  <2>1. CASE pc[r] = "recorded"
    <3>1. Shape(r, "failing")
      BY <1>1, <1>5, <2>1 DEF CheckoutFails, TimesOut, Shape, Unheld, InThread, OnLoop, Blocking
    <3>. QED
      BY <3>1 DEF Stages, Blocking, OnLoop
  <2>2. CASE pc[r] # "recorded"
    <3>1. Shape(r, "handled")
      BY <1>5, <2>2, EndsShape DEF CheckoutFails
    <3>. QED
      BY <3>1 DEF Stages
  <2>. QED
    BY <2>1, <2>2
<1>6. CASE StartClose(r)
  <2>1. Shape(r, "closing")
    BY <1>1, <1>6 DEF StartClose, Shape, Unheld, InThread, OnLoop, Blocking
  <2>. QED
    BY <2>1 DEF Stages
<1>7. CASE Close(r)
  <2>1. Shape(r, "closed")
    BY <1>1, <1>7 DEF Close, AfterClose, Shape, Unheld, InThread, OnLoop, Blocking
  <2>. QED
    BY <2>1 DEF Stages
<1>8. CASE Respond(r)
  <2>1. Shape(r, "answered")
    BY <1>1, <1>8 DEF Respond, Shape, Unheld, InThread, OnLoop, Blocking
  <2>. QED
    BY <2>1 DEF Stages
<1>. QED
  BY <1>4, <1>5, <1>6, <1>7, <1>8 DEF Common

\* So have the steps of each kind of request.
LEMMA EndpointKeeps ==
    ASSUME LoopInv, NEW r \in Requests, CallerStep(r) \/ CreatorStep(r) \/ VerifierStep(r)
    PROVE  \E stage \in Stages : Shape(r, stage)
<1>1. /\ \A q \in Requests : pc[q] \in Blocking <=> loop = q
      /\ \A q \in Requests : pc[q] \in InThread \cup {"handling"} <=> q \in workers
      /\ workers \subseteq Requests /\ reply \in [Requests -> {"none", "ok", "error"}]
      /\ \A q \in Requests : pc[q] \in Unheld => q \notin conn
      /\ loop = r => loop # Free
  BY EventLoopAssumption DEF LoopInv, TypeOK
<1>2. CASE Authenticate(r)
  <2>1. Shape(r, "authenticating")
    BY <1>1, <1>2 DEF Authenticate, Dispatch, Shape, Unheld, InThread, OnLoop, Blocking
  <2>. QED
    BY <2>1 DEF Stages, InThread
<1>3. CASE CallEndpoint(r)
  <2>1. Shape(r, "handling")
    BY <1>1, <1>3 DEF CallEndpoint, Dispatch, Shape, Unheld, InThread, OnLoop, Blocking
  <2>. QED
    BY <2>1 DEF Stages
<1>4. CASE Handle(r)
  <2>1. CASE Ends(r, "ok") /\ UNCHANGED conn
    <3>1. Shape(r, "handled")
      BY <2>1, EndsShape
    <3>. QED
      BY <3>1 DEF Stages
  <2>2. CASE Commit(r)
    <3>1. Shape(r, "reloading")
      BY <1>1, <1>4, <2>2 DEF Handle, Commit, Shape, Unheld, InThread, OnLoop, Blocking
    <3>. QED
      BY <3>1 DEF Stages, InThread
  <2>. QED
    BY <1>4, <2>1, <2>2 DEF Handle
<1>5. CASE BeginVersion(r)
  <2>1. CASE Ends(r, "error") /\ UNCHANGED conn
    <3>1. Shape(r, "handled")
      BY <2>1, EndsShape
    <3>. QED
      BY <3>1 DEF Stages
  <2>2. CASE Goes(r, "pinning") /\ UNCHANGED <<loop, workers, conn, reply>>
    <3>1. Shape(r, "pinning")
      BY <1>1, <1>5, <2>2 DEF BeginVersion, Shape, Unheld, InThread, OnLoop, Blocking
    <3>. QED
      BY <3>1 DEF Stages
  <2>. QED
    BY <1>5, <2>1, <2>2 DEF BeginVersion
<1>6. CASE ResumeVersion(r)
  <2>1. CASE Ends(r, "error") /\ UNCHANGED conn
    <3>1. Shape(r, "handled")
      BY <2>1, EndsShape
    <3>. QED
      BY <3>1 DEF Stages
  <2>2. CASE /\ Goes(r, "starting") /\ loop' = r /\ conn' = conn \ {r}
             /\ UNCHANGED <<workers, reply>>
    <3>1. Shape(r, "starting")
      BY <1>1, <1>6, <2>2 DEF ResumeVersion, Shape, Unheld, InThread, OnLoop, Blocking
    <3>. QED
      BY <3>1 DEF Stages, Blocking, OnLoop
  <2>. QED
    BY <1>6, <2>1, <2>2 DEF ResumeVersion
<1>7. CASE ReceiptOrTimeout(r)
  <2>1. Shape(r, "recorded") \/ Shape(r, "failed")
    BY <1>1, <1>7 DEF ReceiptOrTimeout, Shape, Unheld, InThread, OnLoop, Blocking
  <2>. QED
    BY <2>1 DEF Stages, Blocking, OnLoop
<1>8. CASE BeginVerification(r)
  <2>1. Shape(r, "looking_up")
    BY <1>1, <1>8 DEF BeginVerification, Shape, Unheld, InThread, OnLoop, Blocking
  <2>. QED
    BY <2>1 DEF Stages, Blocking, OnLoop
<1>9. CASE ReadContract(r)
  <2>1. PICK result \in {"ok", "error"} : Ends(r, result) /\ UNCHANGED conn
    BY <1>9 DEF ReadContract
  <2>2. Shape(r, "handled")
    BY <2>1, EndsShape
  <2>. QED
    BY <2>2 DEF Stages
<1>. QED
  BY <1>2, <1>3, <1>4, <1>5, <1>6, <1>7, <1>8, <1>9 DEF CallerStep, CreatorStep, VerifierStep

\* The invariant holds before any request.
LEMMA LoopInit == Init => LoopInv
<1>. SUFFICES ASSUME Init PROVE LoopInv
  OBVIOUS
<1>1. Cardinality(conn) = 0
  BY FS_EmptySet DEF Init
<1>. QED
  BY <1>1, EventLoopAssumption
  DEF Init, LoopInv, TypeOK, Stages, Blocking, InThread, OnLoop

\* Every step keeps the invariant.
LEMMA LoopStep == LoopInv /\ [Next]_loopVars => LoopInv'
<1>. SUFFICES ASSUME LoopInv, [Next]_loopVars PROVE LoopInv'
  OBVIOUS
<1>1. ASSUME NEW r \in Requests, Step(r) PROVE LoopInv'
  <2>1. \E stage \in Stages : Shape(r, stage)
    BY <1>1, CommonKeeps, EndpointKeeps DEF Step
  <2>. QED
    BY <2>1, ShapeKeeps
<1>2. CASE UNCHANGED loopVars
  BY <1>2 DEF loopVars, LoopInv, TypeOK
<1>. QED
  BY <1>1, <1>2 DEF Next

\* The invariant holds in every reachable state.
LEMMA LoopInvariant == Spec => []LoopInv
  BY LoopInit, LoopStep, PTL DEF Spec

\* At most one request keeps the loop, and no more hold a connection than the
\* pool has.
THEOREM TypeCorrect == Spec => []TypeOK
<1>1. LoopInv => TypeOK
  BY DEF LoopInv
<1>. QED
  BY <1>1, LoopInvariant, PTL

\* Nobody waits for a connection with one in hand (session.py:18).
THEOREM NobodyHoldsAndWaits == Spec => []NoHoldAndWait
<1>1. LoopInv => NoHoldAndWait
  BY DEF LoopInv, NoHoldAndWait, Waits, Unheld
<1>. QED
  BY <1>1, LoopInvariant, PTL

\* No connection is lost: with no more requests in progress than connections,
\* nobody waits (session.py:9, :18-27).
THEOREM NobodyWaitsIfFew == Spec => []ServedIfFew
<1>1. LoopInv => ServedIfFew
  <2>. SUFFICES ASSUME LoopInv, Cardinality(InProgress) <= Connections,
                       NEW r \in Requests, Waits(r)
                PROVE  Available
    BY DEF ServedIfFew
  <2>1. conn \subseteq InProgress /\ r \in InProgress /\ r \notin conn
    BY DEF LoopInv, TypeOK, InProgress, Waits, Unheld, InThread, OnLoop
  <2>2. IsFiniteSet(InProgress)
    BY EventLoopAssumption, FS_Subset DEF InProgress
  <2>3. conn # InProgress
    BY <2>1
  <2>4. Cardinality(conn) <= Cardinality(InProgress) /\ Cardinality(conn) # Cardinality(InProgress)
    BY <2>1, <2>2, <2>3, FS_Subset
  <2>5. Cardinality(conn) \in Nat /\ Cardinality(InProgress) \in Nat /\ Connections \in Nat
    BY <2>1, <2>2, FS_Subset, FS_CardinalityType, EventLoopAssumption
  <2>. QED
    BY <2>4, <2>5 DEF Available
<1>. QED
  BY <1>1, LoopInvariant, PTL

-----------------------------------------------------------------------------
(* Why every request is answered, short of the temporal argument: a request *)
(* only ever moves on, and somebody can as long as one is not answered.     *)

\* How far a request has come.
Progress ==
    [stage \in Stages |->
       CASE stage = "arrived" -> 0
         [] stage \in {"authenticating", "looking_up"} -> 1
         [] stage \in {"authenticated", "reading"} -> 2
         [] stage \in {"handling", "pinning"} -> 3
         [] stage \in {"reloading", "starting"} -> 4
         [] stage = "loading" -> 5
         [] stage = "waiting" -> 6
         [] stage = "recorded" -> 7
         [] stage = "failing" -> 8
         [] stage = "failed" -> 9
         [] stage = "handled" -> 10
         [] stage = "closing" -> 11
         [] stage = "closed" -> 12
         [] stage = "answered" -> 13]

\* A step takes one request on, never back, and leaves the others where they are.
\* No handler retries: there are at most thirteen steps to a request.
GoesForward ==
    [][\E r \in Requests :
         /\ Progress[pc[r]] < Progress[pc'[r]]
         /\ \A q \in Requests : q # r => pc'[q] = pc[q]]_loopVars

\* The guards of Step: who has a thread or the loop can go on, with a connection
\* or without (pool_timeout); the others need the loop, and some a thread.
Ready(r) ==
    \/ pc[r] \in InThread \cup Blocking \cup {"handling", "closing"}
    \/ loop = Free /\ pc[r] \in {"pinning", "handled", "closed"}
    \/ loop = Free /\ r \in Creators /\ pc[r] = "authenticated"
    \/ /\ loop = Free /\ Cardinality(workers) < Threads
       /\ pc[r] = "arrived" \/ (r \in Callers /\ pc[r] = "authenticated")

\* Everyone is answered, or someone can go on: requests do not all wait for the
\* loop, for threads and for connections that other requests have.
SomebodyReady ==
    (\E r \in Requests : pc[r] # "answered") => \E r \in Requests : Ready(r)

\* Each kind of request has stages of its own.
StagesFit ==
    \A r \in Requests :
      \/ pc[r] \in {"arrived", "handled", "closing", "closed", "answered"}
      \/ r \in Callers /\ pc[r] \in {"authenticating", "authenticated", "handling",
                                     "reloading"}
      \/ r \in Creators /\ pc[r] \in {"authenticating", "authenticated", "pinning",
                                      "starting", "loading", "waiting", "recorded",
                                      "failing", "failed"}
      \/ r \in Verifiers /\ pc[r] \in {"looking_up", "reading"}

\* A kind of request steps from its own stages to its own stages, and on.
StepsOn(r) ==
    \E stage \in Stages :
      /\ Goes(r, stage)
      /\ Progress[pc[r]] < Progress[stage]
      /\ \/ stage \in {"handled", "closing", "closed", "answered"}
         \/ r \in Callers /\ stage \in {"authenticating", "authenticated", "handling",
                                        "reloading"}
         \/ r \in Creators /\ stage \in {"authenticating", "authenticated", "pinning",
                                         "starting", "loading", "waiting", "recorded",
                                         "failing", "failed"}
         \/ r \in Verifiers /\ stage \in {"looking_up", "reading"}

\* How far along the stages are.
LEMMA ProgressOf ==
    /\ Progress["arrived"] = 0
    /\ Progress["authenticating"] = 1 /\ Progress["looking_up"] = 1
    /\ Progress["authenticated"] = 2 /\ Progress["reading"] = 2
    /\ Progress["handling"] = 3 /\ Progress["pinning"] = 3
    /\ Progress["reloading"] = 4 /\ Progress["starting"] = 4
    /\ Progress["loading"] = 5 /\ Progress["waiting"] = 6 /\ Progress["recorded"] = 7
    /\ Progress["failing"] = 8 /\ Progress["failed"] = 9
    /\ Progress["handled"] = 10 /\ Progress["closing"] = 11
    /\ Progress["closed"] = 12 /\ Progress["answered"] = 13
BY DEF Progress, Stages, Blocking, InThread, OnLoop

\* Whoever waits for a connection goes on with it or without.
LEMMA CommonForward ==
    ASSUME StagesFit, NEW r \in Requests, Common(r)
    PROVE  StepsOn(r)
<1> USE ProgressOf DEF Stages, Blocking, InThread, OnLoop
<1>1. CASE Checkout(r)
  <2>1. CASE pc[r] \in {"starting", "failing"}
    BY <1>1, <2>1 DEF Checkout, UpdateAlone, StagesFit, StepsOn
  <2>2. CASE pc[r] = "authenticating"
    BY <1>1, <2>2 DEF Checkout, UpdateAlone, AfterCheckout, StagesFit, StepsOn
  <2>3. CASE pc[r] = "looking_up"
    BY <1>1, <2>3 DEF Checkout, UpdateAlone, AfterCheckout, StagesFit, StepsOn
  <2>4. CASE pc[r] = "loading"
    BY <1>1, <2>4 DEF Checkout, UpdateAlone, AfterCheckout, StagesFit, StepsOn
  <2>5. CASE pc[r] \in {"reloading", "recorded", "failed"}
    <3>1. Goes(r, "handled")
      BY <1>1, <2>5 DEF Checkout, UpdateAlone, AfterCheckout, Ends
    <3>2. Progress[pc[r]] < Progress["handled"]
      BY <2>5
    <3>. QED
      BY <3>1, <3>2 DEF StepsOn
  <2>. QED
    BY <1>1, <2>1, <2>2, <2>3, <2>4, <2>5 DEF Checkout, Waits
<1>2. CASE CheckoutFails(r)
  BY <1>2 DEF CheckoutFails, TimesOut, Waits, Ends, StagesFit, StepsOn
<1>3. CASE StartClose(r) \/ Close(r) \/ Respond(r)
  BY <1>3 DEF StartClose, Close, Respond, StepsOn
<1>. QED
  BY <1>1, <1>2, <1>3 DEF Common

\* So do the steps of each kind of request.
LEMMA EndpointForward ==
    ASSUME NEW r \in Requests,
           \/ r \in Callers /\ CallerStep(r)
           \/ r \in Creators /\ CreatorStep(r)
           \/ r \in Verifiers /\ VerifierStep(r)
    PROVE  StepsOn(r)
<1> USE ProgressOf DEF Stages, Blocking, InThread, OnLoop
<1>1. CASE r \in Callers \cup Creators /\ Authenticate(r)
  BY <1>1 DEF Authenticate, Dispatch, StepsOn
<1>2. CASE r \in Callers /\ (CallEndpoint(r) \/ Handle(r))
  BY <1>2 DEF CallEndpoint, Dispatch, Handle, Commit, Ends, StepsOn
<1>3. CASE r \in Creators /\ (BeginVersion(r) \/ ResumeVersion(r) \/ ReceiptOrTimeout(r))
  BY <1>3 DEF BeginVersion, ResumeVersion, ReceiptOrTimeout, Ends, StepsOn
<1>4. CASE r \in Verifiers /\ VerifierStep(r)
  BY <1>4 DEF VerifierStep, BeginVerification, ReadContract, Ends, StepsOn
<1>. QED
  BY <1>1, <1>2, <1>3, <1>4 DEF CallerStep, CreatorStep

\* The request that steps is the only one that moves.
LEMMA MovesOn ==
    ASSUME LoopInv, StagesFit, Next
    PROVE  /\ StagesFit'
           /\ \E r \in Requests :
                /\ Progress[pc[r]] < Progress[pc'[r]]
                /\ \A q \in Requests : q # r => pc'[q] = pc[q]
<1>1. PICK r \in Requests : StepsOn(r)
  BY CommonForward, EndpointForward DEF Next, Step
<1>2. pc \in [Requests -> Stages]
  BY DEF LoopInv, TypeOK
<1>3. PICK stage \in Stages :
        /\ Goes(r, stage) /\ Progress[pc[r]] < Progress[stage]
        /\ \/ stage \in {"handled", "closing", "closed", "answered"}
           \/ r \in Callers /\ stage \in {"authenticating", "authenticated", "handling",
                                          "reloading"}
           \/ r \in Creators /\ stage \in {"authenticating", "authenticated", "pinning",
                                           "starting", "loading", "waiting", "recorded",
                                           "failing", "failed"}
           \/ r \in Verifiers /\ stage \in {"looking_up", "reading"}
  BY <1>1 DEF StepsOn
<1>4. pc'[r] = stage /\ \A q \in Requests : q # r => pc'[q] = pc[q]
  BY <1>2, <1>3 DEF Goes
<1>5. StagesFit'
  BY <1>3, <1>4 DEF StagesFit
<1>. QED
  BY <1>3, <1>4, <1>5

\* Each kind of request keeps to its stages.
LEMMA StagesInvariant == Spec => []StagesFit
<1>1. Init => StagesFit
  BY DEF Init, StagesFit
<1>2. LoopInv /\ StagesFit /\ [Next]_loopVars => StagesFit'
  <2>1. CASE Next
    BY <2>1, MovesOn
  <2>2. CASE UNCHANGED loopVars
    BY <2>2 DEF loopVars, StagesFit
  <2>. QED
    BY <2>1, <2>2
<1>. QED
  BY <1>1, <1>2, LoopInvariant, PTL DEF Spec

\* No request runs in circles: whatever it meets (a conflict, no connection, a
\* node that does not answer), a handler goes on to its answer.
THEOREM OnlyForward == Spec => GoesForward
<1>1. LoopInv /\ StagesFit /\ [Next]_loopVars =>
        [\E r \in Requests :
           /\ Progress[pc[r]] < Progress[pc'[r]]
           /\ \A q \in Requests : q # r => pc'[q] = pc[q]]_loopVars
  BY MovesOn
<1>. QED
  BY <1>1, LoopInvariant, StagesInvariant, PTL DEF Spec, GoesForward

\* No deadlock among the loop, the threads and the connections, for any number
\* of each: who keeps the loop or a thread while waiting for a connection stops
\* waiting after pool_timeout (session.py:9), so the loop and a thread come free.
THEOREM NobodyStuck == Spec => []SomebodyReady
<1>1. LoopInv /\ StagesFit => SomebodyReady
  <2> SUFFICES ASSUME LoopInv, StagesFit, NEW r \in Requests, pc[r] # "answered"
               PROVE  \E q \in Requests : Ready(q)
    BY DEF SomebodyReady
  <2>1. CASE loop # Free
    <3>1. loop \in Requests /\ pc[loop] \in Blocking
      BY <2>1 DEF LoopInv, TypeOK
    <3>. QED
      BY <3>1 DEF Ready
  <2>2. CASE loop = Free /\ Cardinality(workers) < Threads
    BY <2>2 DEF StagesFit, Ready, Blocking, InThread, OnLoop
  <2>3. CASE ~ (Cardinality(workers) < Threads)
    <3>1. workers # {}
      BY <2>3, FS_EmptySet, EventLoopAssumption
    <3>2. PICK q \in workers : q \in Requests /\ pc[q] \in InThread \cup {"handling"}
      BY <3>1 DEF LoopInv, TypeOK
    <3>. QED
      BY <3>2 DEF Ready
  <2>. QED
    BY <2>1, <2>2, <2>3
<1>. QED
  BY <1>1, LoopInvariant, StagesInvariant, PTL
=============================================================================
