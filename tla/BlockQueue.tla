----------------------------- MODULE BlockQueue -----------------------------
(***************************************************************************)
(* block_queue<string> (log/block_queue.h): a ring of m_max_size slots, of *)
(* which the m_size after m_front, round to m_back, are in use.  Every     *)
(* operation runs under m_mutex, so each is one step.  Only what the log   *)
(* calls is here: full, push and the pop that blocks.                      *)
(***************************************************************************)
EXTENDS Integers, Sequences

CONSTANTS
  Items,       \* what is stored
  Empty,       \* content of a slot nothing was put in
  m_max_size

ASSUME QueueAssumption == m_max_size \in Nat \ {0} /\ Empty \notin Items

VARIABLES m_array, m_size, m_front, m_back

queue == <<m_array, m_size, m_front, m_back>>

Slots == 0..(m_max_size - 1)

InitQueue ==
  /\ m_array = [i \in Slots |-> Empty]
  /\ m_size = 0 /\ m_front = -1 /\ m_back = -1

\* Slip: one too late.
Full_Late == m_size > m_max_size
Full == m_size >= m_max_size

\* The slot after i.  Slip: one past the end is not wrapped.
NextSlot_Stuck(i) == IF i + 1 < m_max_size THEN i + 1 ELSE i
NextSlot(i) == (i + 1) % m_max_size

\* push() of a queue that has room; its broadcast is the caller's.
PushItem(x) ==
  /\ m_back' = NextSlot(m_back)
  /\ m_array' = [m_array EXCEPT ![m_back'] = x]
  /\ m_size' = m_size + 1
  /\ UNCHANGED m_front

\* What pop() hands out.
Oldest == m_array[NextSlot(m_front)]

\* pop() of a queue that is not empty; the item stays in its slot.
PopItem ==
  /\ m_front' = NextSlot(m_front)
  /\ m_size' = m_size - 1
  /\ UNCHANGED <<m_array, m_back>>

QueueTypeOK ==
  /\ m_array \in [Slots -> Items \union {Empty}]
  /\ m_size \in 0..m_max_size
  /\ m_front \in Slots \union {-1} /\ m_back \in Slots \union {-1}

\* The items in the queue, oldest first.
Contents == [i \in 1..m_size |-> m_array[(m_front + i) % m_max_size]]
=============================================================================
