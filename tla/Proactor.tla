------------------------------ MODULE Proactor ------------------------------
(***************************************************************************)
(* WEBSERVER with m_actor_mode = 0, the mode main.cpp starts: the main     *)
(* thread reads and writes the sockets, the pool's threads parse what was  *)
(* read and build the response.  A connection is handed from one to the    *)
(* other through m_work_queue and back through epoll (modfd), and nothing  *)
(* but EPOLLONESHOT keeps two threads off the same HTTP_CONN.              *)
(***************************************************************************)
EXTENDS EventLoop

Min2(a, b) == IF a < b THEN a ELSE b

\* Slip: the size of the queue is not looked at.
AppendP_Unbounded(fd) == queue' = Append(queue, fd)

\* THREADPOOL::append_p.  Its result is not looked at: a request that finds
\* the queue full is dropped.
AppendP(fd) ==
  queue' = IF Len(queue) < MaxRequests THEN Append(queue, fd) ELSE queue

\* deal_with_read when read_once succeeds: one recv, level-triggered.
ReadOnce(fd) ==
  /\ Takes(fd, "in")
  /\ m_read_idx[fd] < BufSegs /\ inbox[fd] > 0
  /\ LET n == Min2(inbox[fd], BufSegs - m_read_idx[fd])
     IN  /\ m_read_idx' = [m_read_idx EXCEPT ![fd] = @ + n]
         /\ inbox' = [inbox EXCEPT ![fd] = @ - n]
  /\ AppendP(fd)
  /\ AdjustTimer(fd)
  /\ UNCHANGED <<peer, open, armed, bytes_to_send, m_user_count, wpc, wfd>>

\* deal_with_read when read_once fails: the buffer is full, or recv returned
\* 0 or an error.  An error's -1 has been added to m_read_idx by then, in bytes
\* of a buffer counted in segments here; the slot is closed, and init() sets
\* m_read_idx before the next connection uses it.
ReadFails(fd) ==
  /\ Takes(fd, "in")
  /\ m_read_idx[fd] >= BufSegs \/ inbox[fd] = 0
  /\ DealTimer(fd)
  /\ UNCHANGED <<bufVars, poolVars>>

\* Slip: bytes_to_send is forgotten.
InitConn_KeepsResponse(fd) ==
  /\ m_read_idx' = [m_read_idx EXCEPT ![fd] = 0]
  /\ UNCHANGED bytes_to_send

\* The fields HTTP_CONN::init() resets.
InitConn(fd) ==
  /\ m_read_idx' = [m_read_idx EXCEPT ![fd] = 0]
  /\ bytes_to_send' = [bytes_to_send EXCEPT ![fd] = 0]

Modfd(fd, ev) == armed' = IF fd \in open THEN [armed EXCEPT ![fd] = ev] ELSE armed

\* deal_with_write, when write() returns true having nothing (more) to send:
\* the handler left no response, or the last segment went out on a
\* connection that is kept alive.
WriteAll(fd) ==
  /\ Takes(fd, "out")
  /\ Modfd(fd, "in") /\ InitConn(fd)
  /\ AdjustTimer(fd)
  /\ UNCHANGED <<inbox, peer, open, m_user_count, poolVars>>

\* The socket's buffer filled up (EAGAIN): wait until it is writable again.
WritePart(fd) ==
  /\ Takes(fd, "out")
  /\ \E k \in 1..(bytes_to_send[fd] - 1) :
       bytes_to_send' = [bytes_to_send EXCEPT ![fd] = @ - k]
  /\ Modfd(fd, "out")
  /\ peer' = [peer EXCEPT ![fd] = IF @ = "gone" THEN "gone" ELSE "stalled"]
  /\ AdjustTimer(fd)
  /\ UNCHANGED <<inbox, open, m_read_idx, m_user_count, poolVars>>

\* write() returns false: all sent on a connection that is not kept alive,
\* or writev failed because the client is gone.
WriteClose(fd) ==
  /\ Takes(fd, "out")
  /\ bytes_to_send[fd] > 0
  /\ \E sent \in {0, bytes_to_send[fd]} :
       /\ sent = 0 => peer[fd] = "gone"
       /\ bytes_to_send' = [bytes_to_send EXCEPT ![fd] = @ - sent]
  /\ DealTimer(fd)
  /\ UNCHANGED <<m_read_idx, poolVars>>

\* writev to a connection the client has reset raises SIGPIPE, which nothing
\* in event_listen ignores: the process ends.
Sigpipe(fd) ==
  /\ main = "batch" /\ event[fd] = "out"
  /\ bytes_to_send[fd] > 0 /\ peer[fd] = "gone"
  /\ main' = "stopped"
  /\ UNCHANGED <<event, other, timeout, stop_server, netVars, sigVars, open,
                 armed, bufVars, timerVars, m_user_count, poolVars>>

-----------------------------------------------------------------------------
(* A pool thread: THREADPOOL::run.                                         *)

Take(w) ==
  /\ main # "stopped"
  /\ wpc[w] = "idle" /\ queue # <<>>
  /\ wfd' = [wfd EXCEPT ![w] = Head(queue)]
  /\ queue' = Tail(queue)
  /\ wpc' = [wpc EXCEPT ![w] = "process"]
  /\ UNCHANGED <<netVars, sigVars, loopVars, open, armed, bufVars, timerVars,
                 m_user_count>>

\* Slip: process() rearms the connection before it has the response.
Process_RearmsFirst(w) ==
  /\ main # "stopped"
  /\ wpc[w] = "process"
  /\ Modfd(wfd[w], "out")
  /\ wpc' = [wpc EXCEPT ![w] = "rearm_out"]
  /\ \E n \in 0..RespSegs :
       bytes_to_send' = [bytes_to_send EXCEPT ![wfd[w]] = n]
  /\ UNCHANGED <<netVars, sigVars, loopVars, open, m_read_idx, timerVars,
                 m_user_count, queue, wfd>>

\* HTTP_CONN::process up to its modfd: the request is not complete, or it is
\* and the handler leaves a response of some length (0 when it does not fit
\* the write buffer).
Process(w) ==
  /\ main # "stopped"
  /\ wpc[w] = "process"
  /\ \/ /\ wpc' = [wpc EXCEPT ![w] = "rearm_in"]
        /\ UNCHANGED bytes_to_send
     \/ /\ wpc' = [wpc EXCEPT ![w] = "rearm_out"]
        /\ \E n \in 0..RespSegs :
             bytes_to_send' = [bytes_to_send EXCEPT ![wfd[w]] = n]
  /\ UNCHANGED <<netVars, sigVars, loopVars, open, armed, m_read_idx, timerVars,
                 m_user_count, queue, wfd>>

\* Slip: an incomplete request returns without modfd.
Rearm_OutOnly(w) ==
  /\ main # "stopped"
  /\ wpc[w] \in {"rearm_in", "rearm_out"}
  /\ IF wpc[w] = "rearm_in" THEN UNCHANGED armed ELSE Modfd(wfd[w], "out")
  /\ wpc' = [wpc EXCEPT ![w] = "idle"]
  /\ wfd' = [wfd EXCEPT ![w] = None]
  /\ UNCHANGED <<netVars, sigVars, loopVars, open, bufVars, timerVars,
                 m_user_count, queue>>

Rearm(w) ==
  /\ main # "stopped"
  /\ wpc[w] \in {"rearm_in", "rearm_out"}
  /\ Modfd(wfd[w], IF wpc[w] = "rearm_in" THEN "in" ELSE "out")
  /\ wpc' = [wpc EXCEPT ![w] = "idle"]
  /\ wfd' = [wfd EXCEPT ![w] = None]
  /\ UNCHANGED <<netVars, sigVars, loopVars, open, bufVars, timerVars,
                 m_user_count, queue>>

-----------------------------------------------------------------------------
ConnStep == \E fd \in Fds : \/ ReadOnce(fd) \/ ReadFails(fd)
                            \/ WriteAll(fd) \/ WritePart(fd) \/ WriteClose(fd)
                            \/ Sigpipe(fd)
MainStep == LoopStep \/ ConnStep
WorkerStep(w) == Take(w) \/ Process(w) \/ Rearm(w)

Next == \/ Clients \/ TimePasses
        \/ MainStep
        \/ \E w \in Workers : WorkerStep(w)
        \/ Stopped

\* The main thread and every pool thread run when they can, and time goes on.
\* Nothing is asked of the clients.
Fairness == /\ WF_vars(MainStep) /\ WF_vars(TimePasses)
            /\ \A w \in Workers : WF_vars(WorkerStep(w))

Spec == Init /\ [][Next]_vars
LiveSpec == Spec /\ Fairness
-----------------------------------------------------------------------------
(* Properties.                                                             *)

TypeOK ==
  /\ main \in {"wait", "batch", "tick", "stopped"}
  /\ event \in [Fds -> {"none", "in", "out", "hup"}]
  /\ other \subseteq {"listen", "signal"}
  /\ timeout \in BOOLEAN /\ stop_server \in BOOLEAN
  /\ backlog \in 0..MaxBacklog
  /\ inbox \in [Fds -> 0..MaxSegs]
  /\ peer \in [Fds -> {"up", "stalled", "gone"}]
  /\ sigpipe \subseteq {"SIGALRM", "SIGTERM"} /\ alarm \in BOOLEAN
  /\ open \subseteq Fds
  /\ armed \in [Fds -> {"none", "in", "out"}]
  /\ m_read_idx \in [Fds -> 0..BufSegs]
  /\ bytes_to_send \in [Fds -> 0..RespSegs]
  /\ timers \subseteq Fds /\ ttl \in [Fds -> 0..TTL]
  /\ m_user_count \in Int
  /\ queue \in Seq(Fds) /\ Len(queue) <= MaxRequests
  /\ wpc \in [Workers -> {"idle", "process", "rearm_in", "rearm_out"}]
  /\ wfd \in [Workers -> Fds \union {None}]

\* The places that may act on a connection: epoll, the batch, the queue and
\* each thread.
Waiting(fd) == armed[fd] # "none"
Pending(fd) == event[fd] # "none"

\* One connection, one owner (threadpool.h, webserver.cpp): whatever the
\* interleaving of hang-ups, expiring timers, reused descriptors and pool
\* threads, an HTTP_CONN is in one place at most, in the queue at most once,
\* and only while its descriptor is open, so that the main thread and the
\* pool never work on the same buffers.
OneOwner ==
  /\ \A fd \in Fds : ~(Waiting(fd) /\ Pending(fd))
  /\ \A fd \in Fds : Busy(fd) => ~Waiting(fd) /\ ~Pending(fd)
  /\ \A fd \in Fds : Queued(fd) => ~Held(fd)
  /\ \A i, j \in DOMAIN queue : queue[i] = queue[j] => i = j
  /\ \A v, w \in Workers : wfd[v] = wfd[w] /\ wfd[v] # None => v = w
  /\ \A fd \in Fds : Waiting(fd) \/ Pending(fd) \/ Busy(fd) => fd \in open

\* Every open connection has a timer and every timer an open connection, and
\* m_user_count, which only cb_func and init() move, is their number: else a
\* connection is never reaped, or the server fills up with ghosts.
TimerPerConn ==
  /\ timers = open
  /\ m_user_count = Cardinality(open)

\* The connection is on its way from the socket to the end of the parser.
Reading(fd) == \/ armed[fd] = "in" \/ event[fd] = "in" \/ Queued(fd)
               \/ \E w \in Workers : /\ wfd[w] = fd
                                    /\ wpc[w] \in {"process", "rearm_in"}

\* A request and its response alternate: the main thread never reads into,
\* and no pool thread parses, a connection whose response is not all sent.
\* write() must leave it armed for output until then, and reset it before it
\* is armed for input.
Alternate == \A fd \in Fds : Reading(fd) => bytes_to_send[fd] = 0

\* What the handing over rests on: a thread holds a request exactly while it
\* runs it; the main thread leaves the batch, for epoll_wait or for the
\* timers, with every event handled; and a request in the pool has time left
\* on its timer.
Handover ==
  /\ \A w \in Workers : wpc[w] = "idle" <=> wfd[w] = None
  /\ main \in {"wait", "tick"} => \A fd \in Fds : ~Pending(fd)
  /\ \A fd \in Fds : Busy(fd) => ttl[fd] > 0

\* To the rest of the server the pool is a queue of requests, none of them
\* in it twice: append_p is called for a connection that is not in the pool,
\* and nothing but a pool thread takes one out.  ThreadPool implements the
\* same WorkQueue with a mutex and a semaphore, which is why its steps are
\* atomic here.
Pool == INSTANCE WorkQueue WITH Requests <- Fds, holds <- wfd
UsesWorkQueue == Pool!Spec

\* The server keeps to what SORT_TIMER_lST asks of its caller, which is why a
\* set of timers can stand for the list here (TimerList implements the same
\* TimerSet with it): one timer per connection, started, restarted and
\* cancelled by the main thread alone and never within a tick, and a tick
\* closes the connections that were due when it began, each once.
Timer == INSTANCE TimerSet
           WITH Timers <- Fds,
                left <- [fd \in timers |-> ttl[fd]],
                ticking <- (main = "tick"),
                due <- IF main = "tick" THEN Expired ELSE {}
UsesTimerSet == Timer!Spec

\* To HTTP_CONN the loop, epoll and the pool are a caller that reads, then
\* processes, then writes until all is sent, one handler at a time, and never
\* closes a connection between its read and its process.  HttpConn, which has
\* the handlers in detail, is a connection with such a caller.
HeldAt(fd, place) == \E w \in Workers : wfd[w] = fd /\ wpc[w] = place
Place(fd) ==
  IF fd \notin open THEN "closed"
  ELSE IF Queued(fd) \/ HeldAt(fd, "process") THEN "read"
  ELSE IF armed[fd] = "in" \/ event[fd] = "in" \/ HeldAt(fd, "rearm_in") THEN "in"
  ELSE IF armed[fd] = "out" \/ event[fd] = "out" \/ HeldAt(fd, "rearm_out") THEN "out"
  ELSE "lost"
Life(fd) == INSTANCE ConnLife WITH at <- Place(fd), todo <- bytes_to_send[fd]
LeadsLife(fd) == Life(fd)!Spec

\* timer.cpp:21 "closing inactive connections": no step closes a connection
\* whose request is queued for or held by a pool thread.
OnlyInactiveClosed ==
  [][\A fd \in Fds : Busy(fd) => (fd \in open => fd \in open')]_vars

\* A connection nothing will report or serve again: its request was dropped
\* when the queue was full.
Parked(fd) == /\ fd \in open
              /\ ~Waiting(fd) /\ ~Pending(fd) /\ ~Busy(fd)

\* The timer reaps what the loop has lost: a parked connection is closed,
\* because the alarm is set again after every tick.
ParkedReaped ==
  \A fd \in Fds : Parked(fd) ~> (fd \notin open \/ main = "stopped")

\* A queued request is served: epoll watches its connection again.
QueuedServed ==
  \A fd \in Fds : Queued(fd) ~> (Waiting(fd) \/ main = "stopped")

\* A client that says nothing, or stops reading the response.
Silent(fd) == /\ fd \in open
              /\ \/ armed[fd] = "in" /\ inbox[fd] = 0
                 \/ armed[fd] = "out" /\ peer[fd] = "stalled"

\* A silent client does not hold its connection for ever (timer.cpp:21,
\* "closing inactive connections"): it speaks, or it is closed.
SilentReaped ==
  \A fd \in Fds : Silent(fd) ~> (~Silent(fd) \/ main = "stopped")
=============================================================================
