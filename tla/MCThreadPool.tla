---------------------------- MODULE MCThreadPool ----------------------------
(* A small instance of ThreadPool, with its database pool, for TLC: an     *)
(* entry for each thread, which may not be connected, and more requests    *)
(* than the queue holds.                                                   *)
EXTENDS ThreadPool
=============================================================================
