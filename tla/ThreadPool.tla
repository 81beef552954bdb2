----------------------------- MODULE ThreadPool -----------------------------
(***************************************************************************)
(* THREADPOOL (threadpool/threadpool.h) with its locks (lock/locker.h):    *)
(* the main thread's append_p against the threads' run, over a mutex and a *)
(* semaphore that is posted after the mutex is released, and every request *)
(* processed between the get_conn and the release_conn of DbPool.          *)
(*                                                                         *)
(* A step is one call or one access of the queue.  A wait for the          *)
(* semaphore may be interrupted by a signal (UTILS::addsig installs its    *)
(* handlers without SA_RESTART), and run() does not look at its result.    *)
(***************************************************************************)
EXTENDS DbPool

CONSTANTS
  Requests,     \* the HTTP_CONNs that may be queued
  None,         \* "no request"
  MaxRequests,  \* m_max_request
  MaxSpare,     \* bound: tokens over which no wait is interrupted
  Main          \* the thread that calls append_p

ASSUME ThreadPoolAssumption ==
  /\ MaxRequests \in Nat /\ MaxSpare \in Nat /\ None \notin Requests
  /\ Main \notin Threads /\ Null \notin Threads \union {Main}

VARIABLES
  m_work_queue,
  m_queuestat,     \* value of the semaphore
  m_queue_locker,  \* who has the mutex, Null when it is free
  mpc,             \* append_p: "idle", "lock", "test", "push", "post"
  mreq,            \* its argument
  wpc,             \* run(): "wait" on the semaphore, "lock", "look" with the
                   \*   mutex, "pop" with front() read, "get" a connection
                   \*   and process, "release" the connection
  request          \* the local variable of run()

dbVars == vars
queueVars == <<m_work_queue, m_queuestat, m_queue_locker>>
mainVars == <<mpc, mreq>>
runVars == <<wpc, request>>
poolVars == <<dbVars, queueVars, mainVars, runVars>>

PoolInit ==
  /\ Init
  /\ m_work_queue = <<>> /\ m_queuestat = 0 /\ m_queue_locker = Null
  /\ mpc = "idle" /\ mreq = None
  /\ wpc = [t \in Threads |-> "wait"]
  /\ request = [t \in Threads |-> None]

\* What THREADPOOL has taken charge of and process() has not armed again.
Holding(t) == wpc[t] = "get"
Queued(r) == \E i \in DOMAIN m_work_queue : m_work_queue[i] = r
InPool(r) == Queued(r) \/ \E t \in Threads : Holding(t) /\ request[t] = r

Free == m_queue_locker = Null
Locks(a) == Free /\ m_queue_locker' = a
Unlocks == m_queue_locker' = Null

-----------------------------------------------------------------------------
(* append_p.                                                               *)

AppendP(from, to) ==
  mpc = from /\ mpc' = to /\ UNCHANGED <<dbVars, runVars>>

\* Only a connection epoll watched is appended, so none that is in the pool.
Call(r) ==
  /\ AppendP("idle", "lock")
  /\ ~InPool(r)
  /\ mreq' = r
  /\ UNCHANGED queueVars

LockToAppend ==
  /\ AppendP("lock", "test")
  /\ Locks(Main)
  /\ UNCHANGED <<m_work_queue, m_queuestat, mreq>>

\* The queue is full: unlock and return false.
FindFull ==
  /\ AppendP("test", "idle")
  /\ Len(m_work_queue) >= MaxRequests
  /\ Unlocks /\ mreq' = None
  /\ UNCHANGED <<m_work_queue, m_queuestat>>

\* Slip: off by one.
FindRoom_OneMore ==
  /\ AppendP("test", "push")
  /\ Len(m_work_queue) <= MaxRequests
  /\ UNCHANGED <<queueVars, mreq>>

FindRoom ==
  /\ AppendP("test", "push")
  /\ Len(m_work_queue) < MaxRequests
  /\ UNCHANGED <<queueVars, mreq>>

\* Slip: the threads are told only when the queue was empty.
Push_TellsFirst ==
  /\ AppendP("push", IF m_work_queue = <<>> THEN "post" ELSE "idle")
  /\ m_work_queue' = Append(m_work_queue, mreq)
  /\ Unlocks /\ mreq' = None
  /\ UNCHANGED m_queuestat

\* push_back and unlock.
Push ==
  /\ AppendP("push", "post")
  /\ m_work_queue' = Append(m_work_queue, mreq)
  /\ Unlocks /\ mreq' = None
  /\ UNCHANGED m_queuestat

PostStat ==
  /\ AppendP("post", "idle")
  /\ m_queuestat' = m_queuestat + 1
  /\ UNCHANGED <<m_work_queue, m_queue_locker, mreq>>

-----------------------------------------------------------------------------
(* run, up to the request it takes.                                        *)

Runs(t, from, to) == /\ wpc[t] = from /\ wpc' = [wpc EXCEPT ![t] = to]
                     /\ UNCHANGED mainVars

WaitStat(t) ==
  /\ Runs(t, "wait", "lock")
  /\ m_queuestat > 0 /\ m_queuestat' = m_queuestat - 1
  /\ UNCHANGED <<dbVars, m_work_queue, m_queue_locker, request>>

\* EINTR: no token taken.
WaitInterrupted(t) ==
  /\ Runs(t, "wait", "lock")
  /\ m_queuestat <= MaxSpare
  /\ UNCHANGED <<dbVars, queueVars, request>>

\* Slip: lock() fails and its result is not looked at.
LockToTake_Fails(t) ==
  /\ Runs(t, "lock", "look")
  /\ m_queue_locker' = t
  /\ UNCHANGED <<dbVars, m_work_queue, m_queuestat, request>>

LockToTake(t) ==
  /\ Runs(t, "lock", "look")
  /\ Locks(t)
  /\ UNCHANGED <<dbVars, m_work_queue, m_queuestat, request>>

FindEmpty(t) ==
  /\ Runs(t, "look", "wait")
  /\ m_work_queue = <<>>
  /\ Unlocks
  /\ UNCHANGED <<dbVars, m_work_queue, m_queuestat, request>>

Front(t) ==
  /\ Runs(t, "look", "pop")
  /\ m_work_queue # <<>>
  /\ request' = [request EXCEPT ![t] = Head(m_work_queue)]
  /\ UNCHANGED <<dbVars, queueVars>>

\* pop_front, which an empty list would leave undefined, and unlock.
PopFront(t) ==
  /\ Runs(t, "pop", "get")
  /\ m_work_queue # <<>>
  /\ m_work_queue' = Tail(m_work_queue)
  /\ Unlocks
  /\ UNCHANGED <<dbVars, m_queuestat, request>>

-----------------------------------------------------------------------------
(* run, with a request: CONNECTION_POOL_RAII around process().             *)

\* The constructor: get_conn.
Acquire(t) ==
  /\ wpc[t] = "get"
  /\ GetNothing(t) \/ GetConn(t) \/ Wait(t) \/ Pop(t)
  /\ UNCHANGED <<queueVars, mainVars, runVars>>

\* process() ends by arming the connection: the main thread may append it
\* again while this thread still has the database connection.
Process(t) ==
  /\ pc[t] = "use"
  /\ Runs(t, "get", "release")
  /\ request' = [request EXCEPT ![t] = None]
  /\ UNCHANGED <<dbVars, queueVars>>

\* The destructor: release_conn, and round the loop.
Release(t) ==
  /\ wpc[t] = "release"
  /\ ReleaseNothing(t) \/ PushBack(t) \/ Post(t)
  /\ wpc' = [wpc EXCEPT ![t] = IF pc'[t] = "idle" THEN "wait" ELSE "release"]
  /\ UNCHANGED <<queueVars, mainVars, request>>

-----------------------------------------------------------------------------
AppendStep == LockToAppend \/ FindFull \/ FindRoom \/ Push \/ PostStat
RunStep(t) == \/ WaitStat(t) \/ LockToTake(t) \/ FindEmpty(t)
              \/ Front(t) \/ PopFront(t)
              \/ Acquire(t) \/ Process(t) \/ Release(t)

PoolNext == \/ \E r \in Requests : Call(r)
            \/ AppendStep
            \/ \E t \in Threads : RunStep(t) \/ WaitInterrupted(t)

PoolSpec == PoolInit /\ [][PoolNext]_poolVars

\* Threads run when they can, and the mutex starves nobody who waits for it;
\* requests and signals need not come.
LivePoolSpec == /\ PoolSpec /\ WF_poolVars(AppendStep)
                /\ \A t \in Threads : /\ WF_poolVars(RunStep(t))
                                      /\ SF_poolVars(LockToTake(t))

-----------------------------------------------------------------------------
(* Properties.                                                             *)

QueueTypeOK ==
  /\ m_work_queue \in Seq(Requests) /\ Len(m_work_queue) <= MaxRequests
  /\ m_queuestat \in Nat
  /\ m_queue_locker \in Threads \union {Main, Null}
  /\ mpc \in {"idle", "lock", "test", "push", "post"}
  /\ mreq \in Requests \union {None}
  /\ wpc \in [Threads -> {"wait", "lock", "look", "pop", "get", "release"}]
  /\ request \in [Threads -> Requests \union {None}]

PoolTypeOK == TypeOK /\ QueueTypeOK

\* No wakeup is lost (threadpool.h:78-85, 217-220): every request in the
\* queue is covered by a token, by a thread on its way to look, or by the
\* post the main thread owes.  Interrupted waits leave tokens over, never
\* too few.
Lookers == {t \in Threads : wpc[t] \in {"lock", "look", "pop"}}
Covered == Len(m_work_queue) <= m_queuestat + Cardinality(Lookers)
                                + (IF mpc = "post" THEN 1 ELSE 0)

\* The mutex and the semaphore together make the queue's operations atomic:
\* append_p and run implement WorkQueue, the queue that Proactor assumes, and
\* a thread that has no request takes one while there is one.
Abstract == INSTANCE WorkQueue WITH
  Workers <- Threads,
  queue <- m_work_queue,
  holds <- [t \in Threads |-> IF Holding(t) THEN request[t] ELSE None]
ImplementsWorkQueue == Abstract!LiveSpec

\* Whatever threads wait for, a token of the queue or a connection, a queued
\* request is taken, provided that one database connection was made.  (If
\* none was, a thread that passed get_conn's size test with others waits for
\* a token nobody will post.)
EveryRequestTaken ==
  \A r \in Requests : (connected # {} /\ Queued(r)) ~> ~Queued(r)
=============================================================================
