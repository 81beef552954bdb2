----------------------------- MODULE MCReactor -----------------------------
(* Small instances of Reactor for TLC.                                     *)
EXTENDS Reactor
=============================================================================
