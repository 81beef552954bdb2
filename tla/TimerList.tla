----------------------------- MODULE TimerList -----------------------------
(***************************************************************************)
(* SORT_TIMER_lST (timer/timer.cpp): the sorted doubly-linked list of the  *)
(* connections' timers, pointer by pointer, with the callers of            *)
(* webserver.cpp that set a timer's expiry before they call it.  The two   *)
(* loops, the search for a place and tick(), take a step per iteration.    *)
(*                                                                         *)
(* time(NULL) is the wall clock.  ClockBack says whether an administrator  *)
(* or NTP may set it back, which is when the list is not in order of       *)
(* insertion and the search has something to find.                         *)
(***************************************************************************)
EXTENDS Integers, FiniteSets

CONSTANTS
  Timers,    \* nodes the allocator may return
  Null,
  TTL,       \* 3 * TIMESLOT
  MaxNow,    \* bound of the clock
  ClockBack  \* the clock may be set back

ASSUME TimersAssumption == IsFiniteSet(Timers) /\ Null \notin Timers
ASSUME ClockAssumption == TTL \in Nat \ {0} /\ MaxNow \in Nat /\ ClockBack \in BOOLEAN

VARIABLES
  now,
  head, tail, next, prev, expire,
  alive,     \* nodes allocated and not deleted
  pc,        \* "idle", "scan" in add_timer(timer, lst_head), "tick"
  arg, p, q, \* its parameter timer and its locals prev and tmp
  cur        \* tick's local

list == <<head, tail, next, prev>>
vars == <<now, list, expire, alive, pc, arg, p, q, cur>>

Init ==
  /\ now = 0
  /\ head = Null /\ tail = Null
  /\ next = [t \in Timers |-> Null] /\ prev = [t \in Timers |-> Null]
  /\ expire = [t \in Timers |-> 0] /\ alive = {}
  /\ pc = "idle" /\ arg = Null /\ p = Null /\ q = Null /\ cur = 0

Returns == pc' = "idle" /\ UNCHANGED <<arg, p, q>>

\* A call of add_timer(t, h), up to its loop.
Scan(t, h) == pc' = "scan" /\ arg' = t /\ p' = h /\ q' = next'[h]

\* Slip: the lifetime is counted twice.
Expires_Twice(t) == expire' = [expire EXCEPT ![t] = now + TTL + TTL]

Expires(t) == expire' = [expire EXCEPT ![t] = now + TTL]

\* WEBSERVER::timer: a new node, then add_timer.  A timer earlier than the
\* head becomes the head and is then searched a place for all the same.
Add(t) ==
  /\ pc = "idle" /\ t \notin alive
  /\ alive' = alive \union {t}
  /\ Expires(t)
  /\ LET first == head = Null
         below == ~first /\ expire'[t] < expire[head]
     IN  /\ head' = IF first \/ below THEN t ELSE head
         /\ tail' = IF first THEN t ELSE tail
         /\ next' = [next EXCEPT ![t] = IF below THEN head ELSE Null]
         /\ prev' = [u \in Timers |-> IF u = t THEN Null
                                      ELSE IF below /\ u = head THEN t
                                      ELSE prev[u]]
         /\ IF first THEN Returns ELSE Scan(t, head')
  /\ UNCHANGED <<now, cur>>

\* One round of the loop, which does not stop where it has linked the node.
ScanNext ==
  /\ pc = "scan" /\ q # Null
  /\ IF expire[arg] < expire[q]
     THEN /\ next' = [next EXCEPT ![p] = arg, ![arg] = q]
          /\ prev' = [prev EXCEPT ![q] = arg, ![arg] = p]
     ELSE UNCHANGED <<next, prev>>
  /\ p' = q /\ q' = next'[q]
  /\ UNCHANGED <<now, head, tail, expire, alive, pc, arg, cur>>

\* Slip: tail is not moved.
ScanEnd_OldTail ==
  /\ pc = "scan" /\ q = Null
  /\ next' = [next EXCEPT ![p] = arg, ![arg] = Null]
  /\ prev' = [prev EXCEPT ![arg] = p]
  /\ Returns
  /\ UNCHANGED <<now, head, tail, expire, alive, cur>>

\* Slip: the node keeps the link it had before it was moved.
ScanEnd_OldLink ==
  /\ pc = "scan" /\ q = Null
  /\ next' = [next EXCEPT ![p] = arg]
  /\ prev' = [prev EXCEPT ![arg] = p]
  /\ tail' = arg
  /\ Returns
  /\ UNCHANGED <<now, head, expire, alive, cur>>

ScanEnd ==
  /\ pc = "scan" /\ q = Null
  /\ next' = [next EXCEPT ![p] = arg, ![arg] = Null]
  /\ prev' = [prev EXCEPT ![arg] = p]
  /\ tail' = arg
  /\ Returns
  /\ UNCHANGED <<now, head, expire, alive, cur>>

\* WEBSERVER::adjust_timer.  The caller's timer is in the list.
Adjusts(t) == /\ pc = "idle" /\ t \in alive
              /\ Expires(t)
              /\ UNCHANGED <<now, tail, alive, cur>>

\* Slip: the comparison is the wrong way round.
Misplaced_Inverted(t) == next[t] # Null /\ expire'[t] < expire[next[t]]

Misplaced(t) == next[t] # Null /\ expire'[t] >= expire[next[t]]

AdjustStays(t) == /\ Adjusts(t)
                  /\ ~Misplaced(t)
                  /\ Returns
                  /\ UNCHANGED <<head, next, prev>>

AdjustHead(t) == /\ Adjusts(t)
                 /\ Misplaced(t) /\ t = head
                 /\ head' = next[t]
                 /\ prev' = [prev EXCEPT ![next[t]] = Null]
                 /\ next' = [next EXCEPT ![t] = Null]
                 /\ Scan(t, next[t])

AdjustMiddle(t) == /\ Adjusts(t)
                   /\ Misplaced(t) /\ t # head
                   /\ next' = [next EXCEPT ![prev[t]] = next[t]]
                   /\ prev' = [prev EXCEPT ![next[t]] = prev[t]]
                   /\ Scan(t, next[t])
                   /\ UNCHANGED head

\* delete_timer, its four cases.
Delete(t) ==
  /\ pc = "idle" /\ t \in alive
  /\ alive' = alive \ {t}
  /\ \/ /\ t = head /\ t = tail
        /\ head' = Null /\ tail' = Null
        /\ UNCHANGED <<next, prev>>
     \/ /\ t = head /\ t # tail
        /\ head' = next[t]
        /\ prev' = [prev EXCEPT ![next[t]] = Null]
        /\ UNCHANGED <<tail, next>>
     \/ /\ t # head /\ t = tail
        /\ tail' = prev[t]
        /\ next' = [next EXCEPT ![prev[t]] = Null]
        /\ UNCHANGED <<head, prev>>
     \/ /\ t # head /\ t # tail
        /\ prev' = [prev EXCEPT ![next[t]] = prev[t]]
        /\ next' = [next EXCEPT ![prev[t]] = next[t]]
        /\ UNCHANGED <<head, tail>>
  /\ UNCHANGED <<now, expire, pc, arg, p, q, cur>>

-----------------------------------------------------------------------------
(* tick(): its local tmp is the head.                                      *)

TickBegin ==
  /\ pc = "idle" /\ head # Null
  /\ pc' = "tick" /\ cur' = now
  /\ UNCHANGED <<now, list, expire, alive, arg, p, q>>

\* Slip: a timer that expires this second is left for later.
Due_Strict == head # Null /\ expire[head] < cur

Due == head # Null /\ expire[head] <= cur

\* Slip: head is moved only when there is a next node.
TickFire_KeepsHead ==
  /\ pc = "tick" /\ Due
  /\ head' = IF next[head] = Null THEN head ELSE next[head]
  /\ prev' = [t \in Timers |-> IF t = next[head] THEN Null ELSE prev[t]]
  /\ alive' = alive \ {head}
  /\ UNCHANGED <<now, tail, next, expire, pc, arg, p, q, cur>>

\* The callback closes the connection; nothing is done to tail.
TickFire ==
  /\ pc = "tick" /\ Due
  /\ head' = next[head]
  /\ prev' = [t \in Timers |-> IF t = next[head] THEN Null ELSE prev[t]]
  /\ alive' = alive \ {head}
  /\ UNCHANGED <<now, tail, next, expire, pc, arg, p, q, cur>>

TickEnd ==
  /\ pc = "tick" /\ ~Due
  /\ Returns
  /\ UNCHANGED <<now, list, expire, alive, cur>>

\* A clock that is not set back only moves forward.
Clock ==
  /\ \E n \in 0..MaxNow : (n >= now \/ ClockBack) /\ now' = n
  /\ UNCHANGED <<list, expire, alive, pc, arg, p, q, cur>>

Adjust(t) == AdjustStays(t) \/ AdjustHead(t) \/ AdjustMiddle(t)
Loops == ScanNext \/ ScanEnd \/ TickFire \/ TickEnd

Next == \/ \E t \in Timers : Add(t) \/ Adjust(t) \/ Delete(t)
        \/ TickBegin \/ Loops \/ Clock

Spec == Init /\ [][Next]_vars
LiveSpec == Spec /\ WF_vars(Loops)

-----------------------------------------------------------------------------
(* Properties.                                                             *)

Pointers == Timers \union {Null}

TypeOK ==
  /\ now \in 0..MaxNow /\ cur \in 0..MaxNow
  /\ head \in Pointers /\ tail \in Pointers
  /\ next \in [Timers -> Pointers] /\ prev \in [Timers -> Pointers]
  /\ expire \in [Timers -> 0..(MaxNow + TTL)]
  /\ alive \subseteq Timers
  /\ pc \in {"idle", "scan", "tick"}
  /\ arg \in Pointers /\ p \in Pointers /\ q \in Pointers

\* The node n links after the head.
Walk[n \in Nat] == IF n = 0 THEN head
                   ELSE IF Walk[n - 1] = Null THEN Null ELSE next[Walk[n - 1]]

\* Between calls, and between the callbacks of a tick, the list is what its
\* class says (timer.h:65): it has every timer that is set, once, no deleted
\* one, its back links mirror its links, and tail is its last node.
AllListed ==
  pc # "scan" =>
    LET n == Cardinality(alive)
    IN  /\ {Walk[i] : i \in 0..(n - 1)} = alive /\ Walk[n] = Null
        /\ head # Null => /\ tail = Walk[n - 1] /\ prev[head] = Null
                          /\ \A t \in alive \ {tail} : prev[next[t]] = t

\* ... and it is in ascending order of expiry, so that tick() may stop at the
\* first timer that is not due.
Sorted ==
  pc # "scan" =>
    \A t \in alive : next[t] # Null => expire[t] <= expire[next[t]]

\* No call follows a pointer to a deleted node, although tick() leaves tail
\* pointing to one.
NoDangling ==
  /\ pc = "scan" => p \in alive \ {arg} /\ q \in (alive \ {arg}) \union {Null}
  /\ head # Null => head \in alive /\ tail \in alive

\* Every call returns: no loop runs round a cycle of the list.
CallReturns == (pc # "idle") ~> (pc = "idle")

\* The list implements a set of timers: whatever their order in it, a tick
\* fires all that are due and no other.
Timer == INSTANCE TimerSet WITH
           left <- [t \in alive |-> IF expire[t] > now THEN expire[t] - now ELSE 0],
           ticking <- (pc = "tick"),
           due <- {t \in alive : pc = "tick" /\ expire[t] <= cur}
ImplementsTimerSet == Timer!Spec
=============================================================================
