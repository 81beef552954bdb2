----------------------------- MODULE MCProactor -----------------------------
(* Small instances of Proactor for TLC.                                    *)
EXTENDS Proactor, TLC

\* Descriptors and threads are interchangeable.
Symmetry == Permutations(Fds) \union Permutations(Workers)
=============================================================================
