------------------------------ MODULE EventLoop ------------------------------
(***************************************************************************)
(* What the requests of all other modules share: one event loop, a pool of *)
(* threads and a pool of database connections.  A synchronous endpoint     *)
(* runs in a thread; an asynchronous one runs on the loop, lets go of it   *)
(* only where it awaits IPFS, and waits for the database and the chain     *)
(* with the loop in its hands.  A session takes a connection at its first  *)
(* statement and gives it back when it commits or is closed.               *)
(*                                                                         *)
(* A connection is given to any of those who wait for one, and who waits   *)
(* may time out as long as there is none: time itself is left out.         *)
(***************************************************************************)
EXTENDS Naturals, FiniteSets

CONSTANTS
    Callers,       \* requests of synchronous endpoints, authenticated
    Creators,      \* POST /projects/{id}/versions
    Verifiers,     \* GET /verify-registration: public, asynchronous
    Connections,   \* pool_size + max_overflow
    Threads,       \* of the thread pool
    Free

Requests == Callers \cup Creators \cup Verifiers

ASSUME EventLoopAssumption ==
    /\ Callers \cap Creators = {} /\ Verifiers \cap (Callers \cup Creators) = {}
    /\ IsFiniteSet(Requests)
    /\ Connections \in Nat \ {0} /\ Threads \in Nat \ {0}
    /\ Free \notin Requests

VARIABLES
    pc,
    loop,       \* who runs on the loop and does not let go of it
    workers,    \* who occupies a thread
    conn,       \* who holds a connection
    reply

loopVars == <<pc, loop, workers, conn, reply>>

\* Waiting for a connection, in a thread or on the loop.
InThread == {"authenticating", "reloading"}
OnLoop == {"looking_up", "starting", "loading", "recorded", "failing", "failed"}
Waits(r) == pc[r] \in InThread \cup OnLoop

Blocking == OnLoop \cup {"reading", "waiting"}
Stages == {"arrived", "authenticated", "handling", "pinning", "handled", "closing",
           "closed", "answered"} \cup InThread \cup Blocking

Init ==
    /\ pc = [r \in Requests |-> "arrived"]
    /\ loop = Free
    /\ workers = {}
    /\ conn = {}
    /\ reply = [r \in Requests |-> "none"]

Goes(r, stage) == pc' = [pc EXCEPT ![r] = stage]

\* The loop hands a call to a thread as soon as there is one.
Dispatch(r, from, to) ==
    /\ pc[r] = from /\ loop = Free
    /\ Cardinality(workers) < Threads
    /\ Goes(r, to)
    /\ workers' = workers \cup {r}
    /\ UNCHANGED <<loop, conn, reply>>

\* Whether it returned or raised, the handler is over; the loop learns of it.
Ends(r, result) ==
    /\ Goes(r, "handled")
    /\ reply' = [reply EXCEPT ![r] = result]
    /\ loop' = IF loop = r THEN Free ELSE loop
    /\ workers' = workers \ {r}
-----------------------------------------------------------------------------
(* The pool of connections.                                                *)

Available == Cardinality(conn) < Connections

\* What becomes of a request that gets the connection it waits for.
AfterCheckout(r) ==
    CASE pc[r] = "authenticating" ->
           Goes(r, "authenticated") /\ workers' = workers \ {r} /\ UNCHANGED <<loop, reply>>
      [] pc[r] = "looking_up" -> Goes(r, "reading") /\ UNCHANGED <<workers, loop, reply>>
      [] pc[r] = "loading" -> Goes(r, "waiting") /\ UNCHANGED <<workers, loop, reply>>
      [] pc[r] \in {"reloading", "recorded"} -> Ends(r, "ok")
      [] pc[r] = "failed" -> Ends(r, "error")

\* The update to ANCHORING, or to FAILED, is committed: its connection is back
\* at once, and the next thing the handler does is read again.
UpdateAlone(r, from, to) ==
    /\ pc[r] = from
    /\ Goes(r, to)
    /\ UNCHANGED <<loop, workers, conn, reply>>

Checkout(r) ==
    /\ Waits(r) /\ Available
    /\ \/ UpdateAlone(r, "starting", "loading")
       \/ UpdateAlone(r, "failing", "failed")
       \/ /\ pc[r] \notin {"starting", "failing"}
          /\ AfterCheckout(r)
          /\ conn' = conn \cup {r}

\* Mutation: pool_timeout = None.
NeverTimesOut(r) == FALSE

\* QueuePool raises TimeoutError after pool_timeout, 30 s.
TimesOut(r) == Waits(r) /\ ~Available

\* The request is over with an error; but the version is read again inside the
\* try block whose handler writes FAILED, and that takes a connection once more.
CheckoutFails(r) ==
    /\ TimesOut(r)
    /\ IF pc[r] = "recorded" THEN Goes(r, "failing") /\ UNCHANGED <<loop, workers, reply>>
       ELSE Ends(r, "error")
    /\ UNCHANGED conn

\* Mutation: the session is closed only if the endpoint returned.
KeptByErrors(r) == IF reply[r] = "ok" THEN conn \ {r} ELSE conn

\* get_db: finally, db.close().
AfterClose(r) == conn \ {r}

\* Closing has a thread of its own.
StartClose(r) ==
    /\ pc[r] = "handled" /\ loop = Free
    /\ Goes(r, "closing")
    /\ UNCHANGED <<loop, workers, conn, reply>>

Close(r) ==
    /\ pc[r] = "closing"
    /\ Goes(r, "closed")
    /\ conn' = AfterClose(r)
    /\ UNCHANGED <<loop, workers, reply>>

Respond(r) ==
    /\ pc[r] = "closed" /\ loop = Free
    /\ Goes(r, "answered")
    /\ UNCHANGED <<loop, workers, conn, reply>>
-----------------------------------------------------------------------------
(* The endpoints.                                                          *)

\* Dependencies are synchronous: get_current_user runs in a thread.
Authenticate(r) == Dispatch(r, "arrived", "authenticating")

CallEndpoint(r) == Dispatch(r, "authenticated", "handling")

\* Mutation: what a handler reads after its commit it reads in a session of its
\* own, while the one of the request has begun again.
CommitKeeps(r) ==
    /\ Goes(r, "reloading")
    /\ UNCHANGED <<loop, workers, conn, reply>>

\* A commit expires what was loaded: the reply is read again.
Commit(r) ==
    /\ Goes(r, "reloading")
    /\ conn' = conn \ {r}
    /\ UNCHANGED <<loop, workers, reply>>

Handle(r) ==
    /\ pc[r] = "handling"
    /\ \/ Ends(r, "ok") /\ UNCHANGED conn
       \/ Commit(r)

\* The handler of a version runs up to the pin, or refuses.
BeginVersion(r) ==
    /\ pc[r] = "authenticated" /\ loop = Free
    /\ \/ Goes(r, "pinning") /\ UNCHANGED <<loop, workers, conn, reply>>
       \/ Ends(r, "error") /\ UNCHANGED conn

\* IPFS has answered or httpx has timed out.  The version is committed and the
\* connection given back; from here to its end the handler keeps the loop.
ResumeVersion(r) ==
    /\ pc[r] = "pinning" /\ loop = Free
    /\ \/ Goes(r, "starting") /\ loop' = r /\ conn' = conn \ {r} /\ UNCHANGED <<workers, reply>>
       \/ Ends(r, "error") /\ UNCHANGED conn

\* The receipt is there, or wait_for_transaction_receipt gives up after 30 s;
\* ANCHORED or FAILED is committed, and the version read again.
ReceiptOrTimeout(r) ==
    /\ pc[r] = "waiting"
    /\ \E outcome \in {"recorded", "failed"} : Goes(r, outcome)
    /\ conn' = conn \ {r}
    /\ UNCHANGED <<loop, workers, reply>>

\* No user is looked up; the session is opened in a thread, without a
\* connection, and the endpoint takes one on the loop.
BeginVerification(r) ==
    /\ pc[r] = "arrived" /\ loop = Free
    /\ Cardinality(workers) < Threads
    /\ Goes(r, "looking_up")
    /\ loop' = r
    /\ UNCHANGED <<workers, conn, reply>>

\* The contract is read, or the RPC node does not answer.
ReadContract(r) ==
    /\ pc[r] = "reading"
    /\ \E result \in {"ok", "error"} : Ends(r, result)
    /\ UNCHANGED conn
-----------------------------------------------------------------------------
Common(r) == Checkout(r) \/ CheckoutFails(r) \/ StartClose(r) \/ Close(r) \/ Respond(r)
CallerStep(r) == Authenticate(r) \/ CallEndpoint(r) \/ Handle(r)
CreatorStep(r) ==
    Authenticate(r) \/ BeginVersion(r) \/ ResumeVersion(r) \/ ReceiptOrTimeout(r)
VerifierStep(r) == BeginVerification(r) \/ ReadContract(r)

Step(r) ==
    \/ Common(r)
    \/ r \in Callers /\ CallerStep(r)
    \/ r \in Creators /\ CreatorStep(r)
    \/ r \in Verifiers /\ VerifierStep(r)

Next == \E r \in Requests : Step(r)

\* The queue of the loop and those of both pools are first come, first served.
Spec == Init /\ [][Next]_loopVars /\ \A r \in Requests : WF_loopVars(Step(r))
-----------------------------------------------------------------------------
(* Properties.                                                             *)

\* Who keeps the loop is in one of the stages that keep it, and alone; who
\* occupies a thread is in a stage that runs in one.
TypeOK ==
    /\ pc \in [Requests -> Stages]
    /\ loop \in Requests \cup {Free}
    /\ \A r \in Requests : pc[r] \in Blocking <=> loop = r
    /\ workers = {r \in Requests : pc[r] \in InThread \cup {"handling"}}
    /\ conn \subseteq Requests /\ Cardinality(conn) <= Connections
    /\ reply \in [Requests -> {"none", "ok", "error"}]

\* One session per request (session.py:18): whoever waits for a connection, in
\* a dependency, in a thread or on the loop, holds none, so that requests do
\* not wait for one another's connections in a circle.
NoHoldAndWait == \A r \in Requests : Waits(r) => r \notin conn

\* However requests failed before, as long as no more are in progress than
\* there are connections, nobody waits for one (session.py:9): whatever a
\* handler raised, its connection is back when its client is answered.
InProgress == {r \in Requests : pc[r] \notin {"arrived", "answered"}}

ServedIfFew ==
    Cardinality(InProgress) <= Connections => \A r \in Requests : Waits(r) => Available

\* A handler that waits on the loop for a connection stops those that hold
\* the connections and need the loop to go on (a suspended version creation,
\* a caller between authentication and endpoint); threads that wait for
\* connections stop those that hold one and need a thread.  All of them are
\* answered in the end, because every wait has a timeout.
EveryRequestAnswered ==
    \A r \in Requests : pc[r] = "arrived" ~> pc[r] = "answered"
=============================================================================
