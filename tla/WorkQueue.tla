------------------------------ MODULE WorkQueue ------------------------------
(***************************************************************************)
(* What THREADPOOL promises of m_work_queue, and what Proactor takes it    *)
(* for: a bounded queue of requests, each at most once in the pool, that   *)
(* threads take the oldest of in one step.                                 *)
(***************************************************************************)
EXTENDS Naturals, Sequences

CONSTANTS
  Requests,
  Workers,      \* threads of the pool
  MaxRequests,  \* m_max_request
  None          \* what a thread holds that has no request

VARIABLES
  queue,  \* requests not taken yet, the oldest first
  holds   \* the request each thread has taken and not finished

vars == <<queue, holds>>

Init == queue = <<>> /\ holds = [w \in Workers |-> None]

InPool(r) == \/ \E i \in DOMAIN queue : queue[i] = r
             \/ \E w \in Workers : holds[w] = r

Submit(r) ==
  /\ ~InPool(r)
  /\ Len(queue) < MaxRequests
  /\ queue' = Append(queue, r)
  /\ UNCHANGED holds

Take(w) ==
  /\ holds[w] = None /\ queue # <<>>
  /\ holds' = [holds EXCEPT ![w] = Head(queue)]
  /\ queue' = Tail(queue)

Finish(w) ==
  /\ holds[w] # None
  /\ holds' = [holds EXCEPT ![w] = None]
  /\ UNCHANGED queue

Next == \/ \E r \in Requests : Submit(r)
        \/ \E w \in Workers : Take(w) \/ Finish(w)

Spec == Init /\ [][Next]_vars

\* A request does not wait while a thread has none.
LiveSpec == Spec /\ WF_vars(\E w \in Workers : Take(w))
=============================================================================
