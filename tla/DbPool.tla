------------------------------- MODULE DbPool -------------------------------
(***************************************************************************)
(* DB_CONNECTION_POOL (cgi_mysql/connection_pool.cpp) as the pool's        *)
(* threads use it through CONNECTION_POOL_RAII: get_conn before a request  *)
(* is processed, release_conn after it.  The list of free connections is   *)
(* guarded by a mutex, its length by the semaphore `reserve', but get_conn *)
(* also looks at the list's size holding neither.                          *)
(*                                                                         *)
(* A step is what one thread does between two points where others can      *)
(* interfere: the unlocked test, the wait, the locked pop, the locked      *)
(* push, the post.  ThreadPool takes these steps as its threads do.        *)
(***************************************************************************)
EXTENDS Integers, FiniteSets, Sequences

CONSTANTS
  Threads,   \* threads of the pool
  MaxConn,   \* max_conn of init(): entries the list is given
  Null       \* the NULL handle

Conns == 1..MaxConn

ASSUME PoolAssumption == MaxConn \in Nat /\ Null \notin Conns /\ IsFiniteSet(Threads)

VARIABLES
  connected,    \* connections mysql_real_connect made; never changes
  conn_list,    \* the free entries; a failed connection is a NULL entry
  reserve,      \* value of the semaphore
  m_free_conn,
  m_curr_conn,
  pc,           \* "idle", "wait" on reserve, "pop" with a token taken,
                \*   "use" with get_conn returned, "post" after the push
  con           \* what get_conn gave the thread

vars == <<connected, conn_list, reserve, m_free_conn, m_curr_conn, pc, con>>

\* init(): an entry per attempt, whether or not it connected.
Init ==
  /\ connected \in SUBSET Conns
  /\ conn_list = [i \in Conns |-> IF i \in connected THEN i ELSE Null]
  /\ reserve = MaxConn /\ m_free_conn = MaxConn /\ m_curr_conn = 0
  /\ pc = [t \in Threads |-> "idle"]
  /\ con = [t \in Threads |-> Null]

Goes(t, from, to) == pc[t] = from /\ pc' = [pc EXCEPT ![t] = to]

\* get_conn finds the list empty, without the lock, and returns NULL ...
GetNothing(t) ==
  /\ Goes(t, "idle", "use")
  /\ conn_list = <<>>
  /\ con' = [con EXCEPT ![t] = Null]
  /\ UNCHANGED <<connected, conn_list, reserve, m_free_conn, m_curr_conn>>

\* ... or finds it not empty, and goes on to the semaphore.
GetConn(t) ==
  /\ Goes(t, "idle", "wait")
  /\ conn_list # <<>>
  /\ UNCHANGED <<connected, conn_list, reserve, m_free_conn, m_curr_conn, con>>

\* Slip: wait() returns without a token and its result is not looked at.
Wait_Interrupted(t) ==
  /\ Goes(t, "wait", "pop")
  /\ reserve' = IF reserve > 0 THEN reserve - 1 ELSE 0
  /\ UNCHANGED <<connected, conn_list, m_free_conn, m_curr_conn, con>>

Wait(t) ==
  /\ Goes(t, "wait", "pop")
  /\ reserve > 0 /\ reserve' = reserve - 1
  /\ UNCHANGED <<connected, conn_list, m_free_conn, m_curr_conn, con>>

\* Slip: the entry is read and not removed.
Pop_Front(t) ==
  /\ Goes(t, "pop", "use")
  /\ conn_list # <<>>
  /\ con' = [con EXCEPT ![t] = Head(conn_list)]
  /\ m_free_conn' = m_free_conn - 1 /\ m_curr_conn' = m_curr_conn + 1
  /\ UNCHANGED <<connected, conn_list, reserve>>

\* conn_list.front() and pop_front(), under the lock.  The code does not test
\* for an empty list, where they would be undefined: see NeverPopsEmpty.
Pop(t) ==
  /\ Goes(t, "pop", "use")
  /\ conn_list # <<>>
  /\ con' = [con EXCEPT ![t] = Head(conn_list)]
  /\ conn_list' = Tail(conn_list)
  /\ m_free_conn' = m_free_conn - 1 /\ m_curr_conn' = m_curr_conn + 1
  /\ UNCHANGED <<connected, reserve>>

\* release_conn(NULL) returns false: the entry and its token are gone.
ReleaseNothing(t) ==
  /\ Goes(t, "use", "idle")
  /\ con[t] = Null
  /\ UNCHANGED <<connected, conn_list, reserve, m_free_conn, m_curr_conn, con>>

\* release_conn puts the connection back under the lock ...
PushBack(t) ==
  /\ Goes(t, "use", "post")
  /\ con[t] # Null
  /\ conn_list' = Append(conn_list, con[t])
  /\ con' = [con EXCEPT ![t] = Null]
  /\ m_free_conn' = m_free_conn + 1 /\ m_curr_conn' = m_curr_conn - 1
  /\ UNCHANGED <<connected, reserve>>

\* Slip: nobody is told.
Post_Lost(t) ==
  /\ Goes(t, "post", "idle")
  /\ UNCHANGED <<connected, conn_list, reserve, m_free_conn, m_curr_conn, con>>

\* ... and tells a waiting thread.
Post(t) ==
  /\ Goes(t, "post", "idle")
  /\ reserve' = reserve + 1
  /\ UNCHANGED <<connected, conn_list, m_free_conn, m_curr_conn, con>>

\* What a thread must do once it has begun; beginning (a request) is not due.
Finish(t) == \/ Wait(t) \/ Pop(t)
             \/ ReleaseNothing(t) \/ PushBack(t) \/ Post(t)

Next == \E t \in Threads : GetNothing(t) \/ GetConn(t) \/ Finish(t)

Spec == Init /\ [][Next]_vars

-----------------------------------------------------------------------------
(* Properties.                                                             *)

At(l) == {t \in Threads : pc[t] = l}

TypeOK ==
  /\ connected \subseteq Conns
  /\ conn_list \in Seq(connected \union {Null})
  /\ reserve \in Nat /\ m_free_conn \in Int /\ m_curr_conn \in Int
  /\ pc \in [Threads -> {"idle", "wait", "pop", "use", "post"}]
  /\ con \in [Threads -> connected \union {Null}]

\* The semaphore and the list agree (connection_pool.cpp:69-74, 89-95): the
\* entries are the tokens left, plus those of threads between wait and pop,
\* plus those of threads between push and post.  The unlocked size test
\* takes no part in it, and lost NULL entries take their tokens with them.
Tokens ==
  Len(conn_list) = reserve + Cardinality(At("pop")) + Cardinality(At("post"))

\* So conn_list.front() never meets an empty list: whoever holds a token
\* finds an entry, however the threads interleave.
NeverPopsEmpty == At("pop") # {} => conn_list # <<>>

\* A connection is in one place: no two threads have it, none has it while
\* it is in the list, and the list has it once.
NotShared ==
  /\ \A t, u \in Threads : con[t] = con[u] /\ con[t] # Null => t = u
  /\ \A i \in DOMAIN conn_list : conn_list[i] # Null =>
       /\ \A t \in Threads : con[t] # conn_list[i]
       /\ \A j \in DOMAIN conn_list : conn_list[j] = conn_list[i] => j = i

\* The counters, which get_free_count reports, say what the list holds and
\* sum up to what init() put into it.
CountersAgree == /\ m_free_conn = Len(conn_list)
                 /\ m_free_conn + m_curr_conn = MaxConn

\* connection_pool.h:37-38, "NULL if failed" and "Blocks if no connections
\* available (when pool exhausted)": where every connection was made, get_conn
\* does not return NULL.
BlocksWhenExhausted ==
  connected = Conns => \A t \in At("use") : con[t] # Null
=============================================================================
