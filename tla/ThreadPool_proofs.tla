-------------------------- MODULE ThreadPool_proofs --------------------------
(* Proofs about ThreadPool, for any numbers of threads, connections and     *)
(* requests: it keeps what DbPool promises, loses no wakeup, and its queue  *)
(* is the atomic one of WorkQueue.                                          *)
EXTENDS ThreadPool, DbPool_proofs

USE PoolAssumption, ThreadPoolAssumption

-----------------------------------------------------------------------------
\* A step of the thread pool is one of the database pool or does not touch it.
LEMMA DbStep == [PoolNext]_poolVars => [Next]_vars
<1> SUFFICES ASSUME [PoolNext]_poolVars PROVE [Next]_vars OBVIOUS
<1>1. ASSUME NEW r \in Requests, Call(r) PROVE [Next]_vars
  BY <1>1 DEF Call, AppendP, dbVars
<1>2. CASE AppendStep
  BY <1>2 DEF AppendStep, LockToAppend, FindFull, FindRoom, Push, PostStat,
              AppendP, dbVars
<1>3. ASSUME NEW t \in Threads, RunStep(t) \/ WaitInterrupted(t)
      PROVE  [Next]_vars
  <2>1. CASE Acquire(t) BY <2>1 DEF Acquire, Next, Finish
  <2>2. CASE Release(t) BY <2>2 DEF Release, Next, Finish
  <2>3. CASE WaitStat(t) \/ WaitInterrupted(t) \/ LockToTake(t) \/ FindEmpty(t)
             \/ Front(t) \/ PopFront(t) \/ Process(t)
    BY <2>3 DEF WaitStat, WaitInterrupted, LockToTake, FindEmpty, Front,
                PopFront, Process, dbVars
  <2> QED BY <1>3, <2>1, <2>2, <2>3 DEF RunStep
<1>4. CASE UNCHANGED poolVars BY <1>4 DEF poolVars, dbVars
<1> QED BY <1>1, <1>2, <1>3, <1>4 DEF PoolNext

\* Run by the thread pool, the database pool keeps all that is proved of it
\* alone: front() never meets an empty list and no connection is shared.
THEOREM DbPoolUsed ==
  PoolSpec => [](Tokens /\ NeverPopsEmpty /\ NotShared /\ CountersAgree)
<1>1. PoolInit => Init BY DEF PoolInit
<1>2. PoolSpec => Spec BY <1>1, DbStep, PTL DEF PoolSpec, Spec
<1> QED BY <1>2, TokensCorrect, PopsCorrect, SharedCorrect, CountersCorrect, PTL

-----------------------------------------------------------------------------
\* Who is between lock and unlock has the mutex, and what it has read of the
\* queue there is still so.
Section ==
  /\ \A t \in Threads : wpc[t] \in {"look", "pop"} => m_queue_locker = t
  /\ mpc \in {"test", "push"} => m_queue_locker = Main
  /\ mpc = "push" => Len(m_work_queue) < MaxRequests
  /\ mpc \in {"lock", "test", "push"} => mreq \in Requests /\ ~InPool(mreq)
  /\ \A t \in Threads : wpc[t] = "pop" =>
       m_work_queue # <<>> /\ request[t] = Head(m_work_queue)
  /\ \A t \in Threads : Holding(t) => request[t] \in Requests

PoolInv == PoolTypeOK /\ Section

LEMMA PoolInitInv == PoolInit => PoolInv
<1> SUFFICES ASSUME PoolInit PROVE PoolInv OBVIOUS
<1>1. TypeOK BY TypeInit DEF PoolInit
<1>2. PoolTypeOK BY <1>1 DEF PoolInit, PoolTypeOK, QueueTypeOK
<1>3. Section BY DEF PoolInit, Section, Holding
<1> QED BY <1>2, <1>3 DEF PoolInv

LEMMA AppendKeepsType ==
  ASSUME PoolInv, AppendStep \/ \E r \in Requests : Call(r) PROVE QueueTypeOK'
<1> USE DEF PoolInv, PoolTypeOK, QueueTypeOK, AppendP, queueVars, runVars
<1>1. ASSUME NEW r \in Requests, Call(r) PROVE QueueTypeOK'
  BY <1>1 DEF Call
<1>2. CASE LockToAppend BY <1>2 DEF LockToAppend, Locks
<1>3. CASE FindFull BY <1>3 DEF FindFull, Unlocks
<1>4. CASE FindRoom BY <1>4 DEF FindRoom
<1>5. CASE Push
  <2>1. mreq \in Requests /\ Len(m_work_queue) < MaxRequests
    BY <1>5 DEF Section, Push
  <2>2. /\ Append(m_work_queue, mreq) \in Seq(Requests)
        /\ Len(Append(m_work_queue, mreq)) = Len(m_work_queue) + 1
        /\ Len(m_work_queue) \in Nat
    BY <2>1
  <2> QED BY <1>5, <2>1, <2>2 DEF Push, Unlocks
<1>6. CASE PostStat BY <1>6 DEF PostStat
<1> QED BY <1>1, <1>2, <1>3, <1>4, <1>5, <1>6 DEF AppendStep

LEMMA RunKeepsType ==
  ASSUME PoolInv, NEW t \in Threads, RunStep(t) \/ WaitInterrupted(t)
  PROVE  QueueTypeOK'
<1> USE DEF PoolInv, PoolTypeOK, QueueTypeOK, Runs, queueVars, mainVars, runVars
<1>1. CASE WaitStat(t) BY <1>1 DEF WaitStat
<1>2. CASE WaitInterrupted(t) BY <1>2 DEF WaitInterrupted
<1>3. CASE LockToTake(t) BY <1>3 DEF LockToTake, Locks
<1>4. CASE FindEmpty(t) BY <1>4 DEF FindEmpty, Unlocks
<1>5. CASE Front(t)
  <2>1. Head(m_work_queue) \in Requests BY <1>5 DEF Front
  <2> QED BY <1>5, <2>1 DEF Front
<1>6. CASE PopFront(t)
  <2>1. /\ Tail(m_work_queue) \in Seq(Requests)
        /\ Len(Tail(m_work_queue)) = Len(m_work_queue) - 1
        /\ Len(m_work_queue) \in Nat
    BY <1>6 DEF PopFront
  <2> QED BY <1>6, <2>1 DEF PopFront, Unlocks
<1>7. CASE Acquire(t) BY <1>7 DEF Acquire
<1>8. CASE Process(t) BY <1>8 DEF Process
<1>9. CASE Release(t) BY <1>9 DEF Release
<1> QED BY <1>1, <1>2, <1>3, <1>4, <1>5, <1>6, <1>7, <1>8, <1>9 DEF RunStep

-----------------------------------------------------------------------------
\* What the append_p side does to Section.
LEMMA AppendKeepsSection ==
  ASSUME PoolInv, AppendStep \/ \E r \in Requests : Call(r) PROVE Section'
<1> USE DEF PoolInv, AppendP, queueVars, runVars, Holding
<1>0. /\ m_work_queue \in Seq(Requests) /\ m_queue_locker \in Threads \union {Main, Null}
      /\ Section
  BY DEF PoolTypeOK, QueueTypeOK
<1>1. ASSUME NEW r \in Requests, Call(r) PROVE Section'
  <2>1. InPool(r)' <=> InPool(r) BY <1>1 DEF Call, InPool, Queued
  <2> QED BY <1>0, <1>1, <2>1 DEF Call, Section
<1>2. CASE LockToAppend
  <2>1. \A r : InPool(r)' <=> InPool(r) BY <1>2 DEF LockToAppend, InPool, Queued
  <2> QED BY <1>0, <1>2, <2>1 DEF LockToAppend, Section, Locks, Free
<1>3. CASE FindFull BY <1>0, <1>3 DEF FindFull, Section, Unlocks
<1>4. CASE FindRoom
  <2>1. \A r : InPool(r)' <=> InPool(r) BY <1>4 DEF FindRoom, InPool, Queued
  <2> QED BY <1>0, <1>4, <2>1 DEF FindRoom, Section
<1>5. CASE Push BY <1>0, <1>5 DEF Push, Section, Unlocks
<1>6. CASE PostStat BY <1>0, <1>6 DEF PostStat, Section
<1> QED BY <1>1, <1>2, <1>3, <1>4, <1>5, <1>6 DEF AppendStep

\* A step of run() that neither takes nor releases a request, nor looks.
LEMMA RunKeepsPool ==
  ASSUME PoolInv, NEW t \in Threads, RunStep(t) \/ WaitInterrupted(t), NEW r,
         ~InPool(r), r \in Requests
  PROVE  ~InPool(r)'
<1> USE DEF PoolInv, PoolTypeOK, QueueTypeOK, Runs, queueVars, runVars, InPool, Queued, Holding
<1>1. CASE PopFront(t)
  <2>1. /\ m_work_queue' = Tail(m_work_queue) /\ m_work_queue # <<>>
        /\ request' = request /\ wpc' = [wpc EXCEPT ![t] = "get"]
        /\ request[t] = Head(m_work_queue)
    BY <1>1 DEF PopFront, Section
  <2>2. \A i \in DOMAIN m_work_queue' :
           i + 1 \in DOMAIN m_work_queue /\ m_work_queue'[i] = m_work_queue[i + 1]
    BY <2>1, TailElements
  <2>3. 1 \in DOMAIN m_work_queue /\ Head(m_work_queue) = m_work_queue[1]
    BY <2>1, TailElements
  <2> QED BY <2>1, <2>2, <2>3
<1>2. CASE WaitStat(t) \/ WaitInterrupted(t) \/ LockToTake(t) \/ FindEmpty(t)
  BY <1>2 DEF WaitStat, WaitInterrupted, LockToTake, FindEmpty
<1>3. CASE Front(t) BY <1>3 DEF Front
<1>4. CASE Acquire(t) BY <1>4 DEF Acquire
<1>5. CASE Process(t) BY <1>5 DEF Process
<1>6. CASE Release(t) BY <1>6 DEF Release
<1> QED BY <1>1, <1>2, <1>3, <1>4, <1>5, <1>6 DEF RunStep

LEMMA RunKeepsSection ==
  ASSUME PoolInv, NEW t \in Threads, RunStep(t) \/ WaitInterrupted(t)
  PROVE  Section'
<1> USE DEF PoolInv, Runs, queueVars, mainVars, runVars, Holding
<1>0. /\ Section /\ m_work_queue \in Seq(Requests)
      /\ wpc \in [Threads -> {"wait", "lock", "look", "pop", "get", "release"}]
      /\ request \in [Threads -> Requests \union {None}]
      /\ Main \notin Threads /\ Null \notin Threads \union {Main}
  BY DEF PoolTypeOK, QueueTypeOK
<1>1. mpc' \in {"lock", "test", "push"} => mreq' \in Requests /\ ~InPool(mreq)'
  <2>1. mpc' = mpc /\ mreq' = mreq
    BY DEF RunStep, WaitStat, WaitInterrupted, LockToTake, FindEmpty, Front,
           PopFront, Acquire, Process, Release
  <2> QED BY <1>0, <2>1, RunKeepsPool DEF Section
<1>2. CASE WaitStat(t) \/ WaitInterrupted(t)
  BY <1>0, <1>1, <1>2 DEF WaitStat, WaitInterrupted, Section, InPool, Queued
<1>3. CASE LockToTake(t)
  BY <1>0, <1>1, <1>3 DEF LockToTake, Locks, Free, Section, InPool, Queued
<1>4. CASE FindEmpty(t)
  BY <1>0, <1>1, <1>4 DEF FindEmpty, Unlocks, Section, InPool, Queued
<1>5. CASE Front(t)
  BY <1>0, <1>1, <1>5 DEF Front, Section, InPool, Queued
<1>6. CASE PopFront(t)
  <2>1. Head(m_work_queue) \in Requests BY <1>0, <1>6 DEF PopFront
  <2> QED BY <1>0, <1>1, <1>6, <2>1 DEF PopFront, Unlocks, Section, InPool, Queued
<1>7. CASE Acquire(t)
  BY <1>0, <1>1, <1>7 DEF Acquire, Section, InPool, Queued
<1>8. CASE Process(t)
  BY <1>0, <1>1, <1>8 DEF Process, Section, InPool, Queued
<1>9. CASE Release(t)
  BY <1>0, <1>1, <1>9 DEF Release, Section, InPool, Queued
<1> QED BY <1>2, <1>3, <1>4, <1>5, <1>6, <1>7, <1>8, <1>9 DEF RunStep

LEMMA PoolInvStep == PoolInv /\ [PoolNext]_poolVars => PoolInv'
<1> SUFFICES ASSUME PoolInv, [PoolNext]_poolVars PROVE PoolInv' OBVIOUS
<1>1. TypeOK' BY DbStep, TypeStep DEF PoolInv, PoolTypeOK, QueueTypeOK
<1>2. QueueTypeOK' /\ Section'
  <2>1. CASE AppendStep \/ \E r \in Requests : Call(r)
    BY <2>1, AppendKeepsType, AppendKeepsSection
  <2>2. ASSUME NEW t \in Threads, RunStep(t) \/ WaitInterrupted(t)
        PROVE  QueueTypeOK' /\ Section'
    BY <2>2, RunKeepsType, RunKeepsSection
  <2>3. CASE UNCHANGED poolVars
    BY <2>3 DEF PoolInv, PoolTypeOK, QueueTypeOK, Section, InPool, Queued,
                Holding, poolVars, queueVars, mainVars, runVars
  <2> QED BY <2>1, <2>2, <2>3 DEF PoolNext
<1> QED BY <1>1, <1>2 DEF PoolInv, PoolTypeOK, QueueTypeOK

\* Every variable of the thread pool has its type, and m_work_queue never
\* holds more than m_max_request, however threads, refusals and interrupted
\* waits interleave.
THEOREM PoolTypeCorrect == PoolSpec => []PoolTypeOK
<1>1. PoolInv => PoolTypeOK BY DEF PoolInv
<1> QED BY <1>1, PoolInitInv, PoolInvStep, PTL DEF PoolSpec

-----------------------------------------------------------------------------
\* A thread that begins or stops to look.
LEMMA LookerComes ==
  ASSUME PoolInv, NEW t \in Threads, wpc[t] \notin {"lock", "look", "pop"},
         wpc' = [wpc EXCEPT ![t] = "lock"]
  PROVE  Cardinality(Lookers)' = Cardinality(Lookers) + 1
<1>1. Lookers' = Lookers \union {t} /\ t \notin Lookers
  BY DEF Lookers, PoolInv, PoolTypeOK, QueueTypeOK
<1>2. IsFiniteSet(Lookers) BY FS_Subset DEF Lookers
<1> QED BY <1>1, <1>2, FS_AddElement

LEMMA LookerGoes ==
  ASSUME PoolInv, NEW t \in Threads, wpc[t] \in {"lock", "look", "pop"},
         NEW l, l \notin {"lock", "look", "pop"}, wpc' = [wpc EXCEPT ![t] = l]
  PROVE  Cardinality(Lookers)' = Cardinality(Lookers) - 1
<1>1. Lookers' = Lookers \ {t} /\ t \in Lookers
  BY DEF Lookers, PoolInv, PoolTypeOK, QueueTypeOK
<1>2. IsFiniteSet(Lookers) BY FS_Subset DEF Lookers
<1> QED BY <1>1, <1>2, FS_RemoveElement

LEMMA LookersStay ==
  ASSUME PoolInv, NEW t \in Threads, NEW l, wpc' = [wpc EXCEPT ![t] = l],
         wpc[t] \in {"lock", "look", "pop"} <=> l \in {"lock", "look", "pop"}
  PROVE  Lookers' = Lookers
BY DEF Lookers, PoolInv, PoolTypeOK, QueueTypeOK

LEMMA CoveredStep ==
  ASSUME PoolInv, Covered, [PoolNext]_poolVars PROVE Covered'
<1>0. /\ Cardinality(Lookers) \in Nat /\ m_queuestat \in Nat
      /\ m_work_queue \in Seq(Requests) /\ Len(m_work_queue) \in Nat
  BY FS_Subset, FS_CardinalityType DEF Lookers, PoolInv, PoolTypeOK, QueueTypeOK
<1> USE DEF queueVars, mainVars, runVars
<1>1. ASSUME NEW r \in Requests, Call(r) PROVE Covered'
  BY <1>0, <1>1 DEF Call, AppendP, Covered, Lookers
<1>2. CASE LockToAppend \/ FindFull \/ FindRoom
  BY <1>0, <1>2 DEF LockToAppend, FindFull, FindRoom, AppendP, Covered, Lookers
<1>3. CASE Push
  <2>1. Len(m_work_queue') = Len(m_work_queue) + 1
    BY <1>0, <1>3 DEF Push, PoolInv, Section
  <2>2. /\ mpc = "push" /\ mpc' = "post" /\ Lookers' = Lookers
        /\ m_queuestat' = m_queuestat
    BY <1>3 DEF Push, AppendP, Lookers
  <2> QED BY <1>0, <2>1, <2>2 DEF Covered
<1>4. CASE PostStat
  BY <1>0, <1>4 DEF PostStat, AppendP, Covered, Lookers
<1>5. ASSUME NEW t \in Threads, RunStep(t) \/ WaitInterrupted(t) PROVE Covered'
  <2>1. CASE WaitStat(t) \/ WaitInterrupted(t)
    <3>1. Cardinality(Lookers)' = Cardinality(Lookers) + 1
      BY <2>1, LookerComes DEF WaitStat, WaitInterrupted, Runs
    <3>2. /\ m_work_queue' = m_work_queue /\ mpc' = mpc
          /\ m_queuestat' \in {m_queuestat, m_queuestat - 1}
      BY <2>1 DEF WaitStat, WaitInterrupted, Runs
    <3> QED BY <1>0, <3>1, <3>2 DEF Covered
  <2>3. CASE LockToTake(t)
    BY <1>0, <2>3, LookersStay DEF LockToTake, Runs, Covered
  <2>4. CASE FindEmpty(t)
    <3>1. Cardinality(Lookers)' = Cardinality(Lookers) - 1
      BY <2>4, LookerGoes DEF FindEmpty, Runs
    <3>2. IsFiniteSet(Lookers') /\ Cardinality(Lookers)' \in Nat
      BY FS_Subset, FS_CardinalityType DEF Lookers
    <3>3. /\ Len(m_work_queue') = 0 /\ m_queuestat' = m_queuestat
          /\ mpc' = mpc
      BY <2>4 DEF FindEmpty, Runs
    <3> QED BY <1>0, <3>2, <3>3 DEF Covered
  <2>5. CASE Front(t) BY <1>0, <2>5, LookersStay DEF Front, Runs, Covered
  <2>6. CASE PopFront(t)
    <3>1. Len(m_work_queue') = Len(m_work_queue) - 1
      BY <1>0, <2>6 DEF PopFront
    <3>2. Cardinality(Lookers)' = Cardinality(Lookers) - 1
      BY <2>6, LookerGoes DEF PopFront, Runs
    <3>3. m_queuestat' = m_queuestat /\ mpc' = mpc
      BY <2>6 DEF PopFront, Runs
    <3> QED BY <1>0, <3>1, <3>2, <3>3 DEF Covered
  <2>7. CASE Acquire(t) BY <1>0, <2>7 DEF Acquire, Covered, Lookers
  <2>8. CASE Process(t)
    BY <1>0, <2>8, LookersStay DEF Process, Runs, Covered
  <2>9. CASE Release(t)
    <3>1. Lookers' = Lookers BY <2>9, LookersStay DEF Release
    <3> QED BY <1>0, <2>9, <3>1 DEF Release, Covered
  <2> QED BY <1>5, <2>1, <2>3, <2>4, <2>5, <2>6, <2>7, <2>8, <2>9
          DEF RunStep
<1>6. CASE UNCHANGED poolVars BY <1>6 DEF poolVars, Covered, Lookers
<1> QED BY <1>1, <1>2, <1>3, <1>4, <1>5, <1>6 DEF PoolNext, AppendStep

\* No request is left in the queue with every thread asleep: for any number
\* of threads and requests, and however often signals wake a thread for
\* nothing, tokens, looking threads and the owed post are enough.
THEOREM NoLostWakeup == PoolSpec => []Covered
<1>1. PoolInit => Covered
  <2>1. PoolInit => Len(m_work_queue) = 0 /\ m_queuestat = 0 BY DEF PoolInit
  <2>2. PoolInit => Lookers = {} BY DEF PoolInit, Lookers
  <2>3. PoolInit => mpc = "idle" BY DEF PoolInit
  <2> QED BY <2>1, <2>2, <2>3, FS_EmptySet DEF Covered
<1>2. PoolInv /\ Covered /\ [PoolNext]_poolVars => PoolInv' /\ Covered'
  BY PoolInvStep, CoveredStep
<1> QED BY <1>1, <1>2, PoolInitInv, PTL DEF PoolSpec

-----------------------------------------------------------------------------
(* The refinement.                                                         *)

Taken == [t \in Threads |-> IF Holding(t) THEN request[t] ELSE None]

\* Steps that neither push, pop nor finish are stutters of the queue.
LEMMA HoldsStay ==
  ASSUME \A t \in Threads : Holding(t)' <=> Holding(t),
         \A t \in Threads : Holding(t) => request'[t] = request[t]
  PROVE  Taken' = Taken
BY DEF Taken

LEMMA RefinesStep == PoolInv /\ [PoolNext]_poolVars => [Abstract!Next]_(Abstract!vars)
<1> SUFFICES ASSUME PoolInv, [PoolNext]_poolVars
             PROVE  Abstract!Next \/ (m_work_queue' = m_work_queue /\ Taken' = Taken)
  BY DEF Abstract!vars, Taken
<1> USE DEF queueVars, mainVars, runVars
<1>0. /\ Section
      /\ wpc \in [Threads -> {"wait", "lock", "look", "pop", "get", "release"}]
      /\ request \in [Threads -> Requests \union {None}]
  BY DEF PoolInv, PoolTypeOK, QueueTypeOK
<1>1. CASE AppendStep \/ \E r \in Requests : Call(r)
  <2>1. Taken' = Taken
    BY <1>1 DEF Taken, Holding, AppendStep, Call, LockToAppend, FindFull,
                FindRoom, Push, PostStat, AppendP
  <2>2. CASE Push
    <3>1. mreq \in Requests /\ ~InPool(mreq) /\ Len(m_work_queue) < MaxRequests
      BY <1>0, <2>2 DEF Push, AppendP, Section
    <3>2. ~Abstract!InPool(mreq)
      BY <3>1 DEF Abstract!InPool, InPool, Queued
    <3>3. Abstract!Submit(mreq)
      BY <2>1, <2>2, <3>1, <3>2 DEF Abstract!Submit, Push, Taken
    <3> QED BY <3>1, <3>3 DEF Abstract!Next
  <2>3. CASE LockToAppend \/ FindFull \/ FindRoom \/ PostStat
             \/ \E r \in Requests : Call(r)
    BY <2>1, <2>3 DEF Call, LockToAppend, FindFull, FindRoom, PostStat
  <2> QED BY <1>1, <2>2, <2>3 DEF AppendStep
<1>2. ASSUME NEW t \in Threads, PopFront(t) PROVE Abstract!Next
  <2>1. /\ wpc[t] = "pop" /\ wpc' = [wpc EXCEPT ![t] = "get"]
        /\ request' = request /\ request[t] = Head(m_work_queue)
        /\ m_work_queue # <<>> /\ m_work_queue' = Tail(m_work_queue)
    BY <1>0, <1>2 DEF PopFront, Runs, Section
  <2>2. Taken[t] = None BY <2>1 DEF Taken, Holding
  <2>3. Taken' = [Taken EXCEPT ![t] = Head(m_work_queue)]
    BY <1>0, <2>1 DEF Taken, Holding
  <2>4. Abstract!Take(t) BY <2>1, <2>2, <2>3 DEF Abstract!Take, Taken
  <2> QED BY <2>4 DEF Abstract!Next
<1>3. ASSUME NEW t \in Threads, Process(t) PROVE Abstract!Next
  <2>1. /\ wpc[t] = "get" /\ wpc' = [wpc EXCEPT ![t] = "release"]
        /\ request' = [request EXCEPT ![t] = None]
        /\ request[t] \in Requests /\ m_work_queue' = m_work_queue
    BY <1>0, <1>3 DEF Process, Runs, Section, Holding
  <2>2. Taken[t] # None BY <2>1 DEF Taken, Holding
  <2>3. Taken' = [Taken EXCEPT ![t] = None]
    BY <1>0, <2>1 DEF Taken, Holding
  <2>4. Abstract!Finish(t) BY <2>1, <2>2, <2>3 DEF Abstract!Finish, Taken
  <2> QED BY <2>4 DEF Abstract!Next
<1>4. ASSUME NEW t \in Threads,
             WaitStat(t) \/ WaitInterrupted(t) \/ LockToTake(t) \/ FindEmpty(t)
               \/ Front(t) \/ Acquire(t) \/ Release(t)
      PROVE  m_work_queue' = m_work_queue /\ Taken' = Taken
  <2>1. m_work_queue' = m_work_queue
    BY <1>4 DEF WaitStat, WaitInterrupted, LockToTake, FindEmpty, Front,
                Acquire, Release
  <2>2. \A u \in Threads : /\ Holding(u)' <=> Holding(u)
                           /\ Holding(u) => request'[u] = request[u]
    <3>1. CASE Acquire(t) BY <3>1 DEF Acquire, Holding
    <3>2. CASE Release(t) BY <1>0, <3>2 DEF Release, Holding
    <3>3. CASE Front(t) BY <1>0, <3>3 DEF Front, Runs, Holding
    <3>4. CASE WaitStat(t) \/ WaitInterrupted(t) \/ LockToTake(t) \/ FindEmpty(t)
      BY <1>0, <3>4 DEF WaitStat, WaitInterrupted, LockToTake, FindEmpty,
                        Runs, Holding
    <3> QED BY <1>4, <3>1, <3>2, <3>3, <3>4
  <2> QED BY <2>1, <2>2, HoldsStay
<1>5. CASE UNCHANGED poolVars BY <1>5 DEF poolVars, Taken, Holding
<1> QED BY <1>1, <1>2, <1>3, <1>4, <1>5 DEF PoolNext, RunStep

\* The mutex and the semaphore make m_work_queue atomic: whatever append_p
\* and run do in between, others see a request added or taken in one step.
THEOREM QueueIsAtomic == PoolSpec => Abstract!Spec
<1>1. PoolInit => Abstract!Init BY DEF PoolInit, Abstract!Init, Holding
<1> QED BY <1>1, RefinesStep, PoolInitInv, PoolInvStep, PTL DEF PoolSpec, Abstract!Spec
=============================================================================
