----------------------------- MODULE MCAsyncLog -----------------------------
(* A small instance of AsyncLog for TLC.                                   *)
EXTENDS AsyncLog, TLC

=============================================================================
