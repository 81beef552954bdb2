------------------------------ MODULE TimerSet ------------------------------
(***************************************************************************)
(* What SORT_TIMER_lST (timer/timer.h) promises its caller, and what the   *)
(* caller keeps to: a set of timers, each with the time it has left; a     *)
(* tick fires those that are due when it begins and returns when none of   *)
(* them is left.  A timer is started when it is not set, restarted and     *)
(* cancelled when it is, and never within a tick.                          *)
(*                                                                         *)
(* TimerList is shown to implement this, and the server of Proactor to use *)
(* its timers like this.                                                   *)
(***************************************************************************)
EXTENDS Naturals

CONSTANTS Timers, TTL

VARIABLES
  left,      \* timer that is set -> time it has left, 0 when it is due
  ticking,   \* a tick is under way
  due        \* timers it has still to fire

vars == <<left, ticking, due>>

Set == DOMAIN left
Without(t) == [u \in Set \ {t} |-> left[u]]

Init == left = [t \in {} |-> 0] /\ ticking = FALSE /\ due = {}

Start(t) == /\ ~ticking /\ t \notin Set
            /\ left' = [u \in Set \union {t} |-> IF u = t THEN TTL ELSE left[u]]
            /\ UNCHANGED <<ticking, due>>

Restart(t) == /\ ~ticking /\ t \in Set
              /\ left' = [left EXCEPT ![t] = TTL]
              /\ UNCHANGED <<ticking, due>>

Cancel(t) == /\ ~ticking /\ t \in Set
             /\ left' = Without(t)
             /\ UNCHANGED <<ticking, due>>

TickBegin == /\ ~ticking /\ ticking' = TRUE
             /\ due' = {t \in Set : left[t] = 0}
             /\ UNCHANGED left

Fire(t) == /\ ticking /\ t \in due
           /\ due' = due \ {t} /\ left' = Without(t)
           /\ UNCHANGED ticking

TickEnd == /\ ticking /\ due = {}
           /\ ticking' = FALSE
           /\ UNCHANGED <<left, due>>

\* Time goes on, within a tick too.
Clock == /\ \E n \in UNION {0..left[t] : t \in Set} :
              left' = [t \in Set |-> IF left[t] > n THEN left[t] - n ELSE 0]
         /\ UNCHANGED <<ticking, due>>

Next == \/ \E t \in Timers : Start(t) \/ Restart(t) \/ Cancel(t) \/ Fire(t)
        \/ TickBegin \/ TickEnd \/ Clock

Spec == Init /\ [][Next]_vars
=============================================================================
