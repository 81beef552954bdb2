------------------------------ MODULE ConnLife ------------------------------
(***************************************************************************)
(* The life of one HTTP_CONN as its handlers see it: in which order they   *)
(* are called, and with what still to be sent.  Proactor, which has the    *)
(* main thread, epoll, the queue and the pool, leads every connection      *)
(* through such a life; HttpConn, which has the bytes, takes a connection  *)
(* for such a life and keeps to it.                                        *)
(***************************************************************************)
EXTENDS Naturals

VARIABLES
  at,    \* "in", "out": the client's turn, or the next handler is read_once
         \*   or write; "read": the next is process; "lost": no handler but
         \*   the close will be called; "closed"
  todo   \* bytes_to_send

vars == <<at, todo>>

Init == at = "closed" /\ todo = 0

\* init() of a new connection.
Open == /\ at = "closed" /\ at' = "in" /\ todo' = 0

\* read_once; the request is queued, or dropped when the queue is full.
Read == /\ at = "in" /\ at' \in {"read", "lost"}
        /\ UNCHANGED todo

\* process waits for the rest of the request, or has a response to send.
Process == /\ at = "read"
           /\ \/ at' = "in" /\ UNCHANGED todo
              \/ at' = "out" /\ todo' \in Nat

\* write, a part of the response or all that is left of it.
WriteSome == /\ at = "out" /\ todo' \in 1..(todo - 1)
             /\ UNCHANGED at
WriteAll == /\ at = "out" /\ at' = "in" /\ todo' = 0

\* A hang-up is reported.
Hangup == /\ at \in {"in", "out"} /\ at' = "lost"
          /\ UNCHANGED todo

\* The connection is closed, perhaps with the last of its response written,
\* and never while its request is in the pool.
Close == /\ at \in {"in", "out", "lost"} /\ at' = "closed"
         /\ todo' \in 0..todo

Next == Open \/ Read \/ Process \/ WriteSome \/ WriteAll \/ Hangup \/ Close

Spec == Init /\ [][Next]_vars
=============================================================================
