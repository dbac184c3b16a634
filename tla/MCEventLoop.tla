----------------------------- MODULE MCEventLoop -----------------------------
(***************************************************************************)
(* Four requests, one of them suspended while it holds a connection and    *)
(* one that waits on the loop, compete for two connections and a thread.   *)
(***************************************************************************)
EXTENDS EventLoop
=============================================================================
