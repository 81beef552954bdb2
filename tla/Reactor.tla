------------------------------ MODULE Reactor ------------------------------
(***************************************************************************)
(* WEBSERVER with m_actor_mode = 1: the pool's threads read, parse and     *)
(* write, and the main thread, having queued a connection, looks at two    *)
(* plain ints of it, improv and timer_flag, to learn how that went.  After *)
(* a read it looks once; after a write it spins until improv is set.       *)
(*                                                                         *)
(* The two ints are neither atomic nor locked.  Every access is a step     *)
(* here, in program order, which is what the makefile's default build (-g, *)
(* no optimisation) does on one memory; an optimising build may read       *)
(* improv once, before the spinning loop, and never leave it.              *)
(***************************************************************************)
EXTENDS EventLoop

VARIABLES
  m_state,     \* of a connection: what append queued it for, "read", "write"
  improv, timer_flag,
  cur          \* the connection deal_with_read or deal_with_write is at

\* main is, besides, "look" and "spin" before improv is read, "flag" before
\* timer_flag is, "close" before deal_timer, "unflag" before timer_flag is
\* cleared and "reset" before improv is.  A pool thread is at "state" before
\* m_state is read, "process", "rearm_in", "rearm_out", "init", "init_flag",
\* "init_improv" before the writes of write()'s init(), and "ok", "fail",
\* "flag" before it sets improv, improv and then timer_flag, timer_flag.

flagVars == <<m_state, improv, timer_flag>>
allVars == <<vars, flagVars, cur>>

ReactorInit ==
  /\ Init
  /\ m_state = [fd \in Fds |-> "read"]
  /\ improv = [fd \in Fds |-> FALSE] /\ timer_flag = [fd \in Fds |-> FALSE]
  /\ cur = None

\* The flags HTTP_CONN::init() resets, one step when accept calls it: the main
\* thread, which alone reads improv and timer_flag, is the one that runs it.
InitFlags(fd) ==
  /\ m_state' = [m_state EXCEPT ![fd] = "read"]
  /\ improv' = [improv EXCEPT ![fd] = FALSE]
  /\ timer_flag' = [timer_flag EXCEPT ![fd] = FALSE]

Modfd(fd, ev) == armed' = IF fd \in open THEN [armed EXCEPT ![fd] = ev] ELSE armed

-----------------------------------------------------------------------------
(* The main thread.                                                        *)

\* Slip: append does not look at the size of the queue.
Hands_Unbounded(fd, e, s, at) ==
  /\ main = "batch" /\ event[fd] = e
  /\ event' = [event EXCEPT ![fd] = "none"]
  /\ main' = at /\ cur' = fd
  /\ AdjustTimer(fd)
  /\ queue' = Append(queue, fd) /\ m_state' = [m_state EXCEPT ![fd] = s]
  /\ UNCHANGED <<other, timeout, stop_server, netVars, sigVars, open, armed,
                 bufVars, m_user_count, wpc, wfd, improv, timer_flag>>

\* The common beginning of deal_with_read and deal_with_write: adjust_timer,
\* then THREADPOOL::append, whose result is not looked at.
Hands(fd, e, s, at) ==
  /\ main = "batch" /\ event[fd] = e
  /\ event' = [event EXCEPT ![fd] = "none"]
  /\ main' = at /\ cur' = fd
  /\ AdjustTimer(fd)
  /\ IF Len(queue) < MaxRequests
     THEN queue' = Append(queue, fd) /\ m_state' = [m_state EXCEPT ![fd] = s]
     ELSE UNCHANGED <<queue, m_state>>
  /\ UNCHANGED <<other, timeout, stop_server, netVars, sigVars, open, armed,
                 bufVars, m_user_count, wpc, wfd, improv, timer_flag>>

DealWithRead(fd)  == Hands(fd, "in", "read", "look")
DealWithWrite(fd) == Hands(fd, "out", "write", "spin")

\* if, or the loop that spins, on improv.
LookImprov ==
  /\ main \in {"look", "spin"} /\ (main = "spin" => improv[cur])
  /\ main' = IF improv[cur] THEN "flag" ELSE "reset"
  /\ UNCHANGED <<event, other, timeout, stop_server, netVars, sigVars, open,
                 armed, bufVars, timerVars, m_user_count, poolVars, flagVars, cur>>

LookFlag ==
  /\ main = "flag"
  /\ main' = IF timer_flag[cur] THEN "close" ELSE "reset"
  /\ UNCHANGED <<event, other, timeout, stop_server, netVars, sigVars, open,
                 armed, bufVars, timerVars, m_user_count, poolVars, flagVars, cur>>

\* Slip: the failed connection is closed and its timer kept.
Close_KeepsTimer ==
  /\ main = "close" /\ main' = "unflag"
  /\ CbFunc(cur)
  /\ UNCHANGED <<event, other, timeout, stop_server, backlog, sigVars, bufVars,
                 timerVars, poolVars, flagVars, cur>>

\* The connection the main thread saw failed is closed.
Close ==
  /\ main = "close" /\ main' = "unflag"
  /\ DealTimer(cur)
  /\ UNCHANGED <<event, other, timeout, stop_server, backlog, sigVars, bufVars,
                 poolVars, flagVars, cur>>

Unflag ==
  /\ main = "unflag" /\ main' = "reset"
  /\ timer_flag' = [timer_flag EXCEPT ![cur] = FALSE]
  /\ UNCHANGED <<event, other, timeout, stop_server, netVars, sigVars, open,
                 armed, bufVars, timerVars, m_user_count, poolVars, m_state,
                 improv, cur>>

Reset ==
  /\ main = "reset"
  /\ main' = "batch" /\ cur' = None
  /\ improv' = [improv EXCEPT ![cur] = FALSE]
  /\ UNCHANGED <<event, other, timeout, stop_server, netVars, sigVars, open,
                 armed, bufVars, timerVars, m_user_count, poolVars, m_state,
                 timer_flag>>

-----------------------------------------------------------------------------
(* A pool thread: THREADPOOL::run.                                         *)

\* What a step of a pool thread leaves alone.
WorkerOnly == main # "stopped" /\ UNCHANGED <<backlog, sigVars, event, other,
                timeout, stop_server, open, timerVars, m_user_count, cur>>

Goes(w, from, to) == wpc[w] = from /\ wpc' = [wpc EXCEPT ![w] = to]

Leaves(w, from) == Goes(w, from, "idle") /\ wfd' = [wfd EXCEPT ![w] = None]

Take(w) ==
  /\ WorkerOnly /\ Goes(w, "idle", "state")
  /\ queue # <<>>
  /\ wfd' = [wfd EXCEPT ![w] = Head(queue)] /\ queue' = Tail(queue)
  /\ UNCHANGED <<main, inbox, peer, armed, bufVars, flagVars>>

\* read_once succeeds, and improv is set before the request is processed.
Read(w) ==
  /\ WorkerOnly /\ Goes(w, "state", "process")
  /\ LET fd == wfd[w]
         n == IF inbox[fd] < BufSegs - m_read_idx[fd]
              THEN inbox[fd] ELSE BufSegs - m_read_idx[fd]
     IN  /\ m_state[fd] = "read" /\ fd \in open /\ n > 0
         /\ m_read_idx' = [m_read_idx EXCEPT ![fd] = @ + n]
         /\ inbox' = [inbox EXCEPT ![fd] = @ - n]
         /\ improv' = [improv EXCEPT ![fd] = TRUE]
  /\ UNCHANGED <<main, peer, armed, bytes_to_send, queue, wfd, m_state, timer_flag>>

\* The buffer is full, there is nothing to read, or the descriptor is closed.
\* When recv fails, level-triggered read_once has added its -1 to m_read_idx,
\* one byte, which is less than a segment: the full segments stay as they are.
ReadFails(w) ==
  /\ WorkerOnly /\ Goes(w, "state", "fail")
  /\ LET fd == wfd[w]
     IN  m_state[fd] = "read" /\ (fd \in open => inbox[fd] = 0 \/ m_read_idx[fd] >= BufSegs)
  /\ UNCHANGED <<main, inbox, peer, armed, bufVars, queue, wfd, flagVars>>

\* HTTP_CONN::process up to its modfd: an incomplete request, or a response.
Process(w) ==
  /\ WorkerOnly
  /\ \/ Goes(w, "process", "rearm_in") /\ UNCHANGED bytes_to_send
     \/ /\ Goes(w, "process", "rearm_out")
        /\ \E n \in 0..RespSegs :
             bytes_to_send' = [bytes_to_send EXCEPT ![wfd[w]] = n]
  /\ UNCHANGED <<main, inbox, peer, armed, m_read_idx, queue, wfd, flagVars>>

Rearm(w) ==
  /\ WorkerOnly
  /\ \/ Leaves(w, "rearm_in") /\ Modfd(wfd[w], "in")
     \/ Leaves(w, "rearm_out") /\ Modfd(wfd[w], "out")
  /\ UNCHANGED <<main, inbox, peer, bufVars, queue, flagVars>>

Writes(w) == /\ WorkerOnly
             /\ m_state[wfd[w]] = "write"
             /\ UNCHANGED <<inbox, m_read_idx, queue, wfd, flagVars>>

\* write() has nothing (more) to send, on a connection that is kept alive: it
\* watches for input first, and resets the connection after that.
WriteAll(w) ==
  /\ Goes(w, "state", "init") /\ Writes(w)
  /\ bytes_to_send[wfd[w]] > 0 => peer[wfd[w]] = "up" /\ wfd[w] \in open
  /\ Modfd(wfd[w], "in")
  /\ bytes_to_send' = [bytes_to_send EXCEPT ![wfd[w]] = 0]
  /\ UNCHANGED <<main, peer>>

\* The socket's buffer filled up (EAGAIN), after what has gone out.
WritePart(w) ==
  /\ Goes(w, "state", "ok") /\ Writes(w)
  /\ wfd[w] \in open /\ peer[wfd[w]] # "gone"
  /\ \E k \in 0..(bytes_to_send[wfd[w]] - 1) :
       bytes_to_send' = [bytes_to_send EXCEPT ![wfd[w]] = @ - k]
  /\ Modfd(wfd[w], "out")
  /\ peer' = [peer EXCEPT ![wfd[w]] = "stalled"]
  /\ UNCHANGED main

\* write() returns false: everything went out on a connection that is not
\* kept alive, which is armed for input all the same ...
WriteLast(w) ==
  /\ Goes(w, "state", "fail") /\ Writes(w)
  /\ bytes_to_send[wfd[w]] > 0 /\ wfd[w] \in open /\ peer[wfd[w]] = "up"
  /\ bytes_to_send' = [bytes_to_send EXCEPT ![wfd[w]] = 0]
  /\ Modfd(wfd[w], "in")
  /\ UNCHANGED <<main, peer>>

\* ... or writev failed, the client or the descriptor being gone.
WriteFails(w) ==
  /\ Goes(w, "state", "fail") /\ Writes(w)
  /\ bytes_to_send[wfd[w]] > 0 /\ (wfd[w] \notin open \/ peer[wfd[w]] = "gone")
  /\ UNCHANGED <<main, peer, armed, bytes_to_send>>

\* SIGPIPE, which nothing ignores: the process ends.
Sigpipe(w) ==
  /\ wpc[w] = "state" /\ Writes(w)
  /\ bytes_to_send[wfd[w]] > 0 /\ wfd[w] \in open /\ peer[wfd[w]] = "gone"
  /\ main' = "stopped"
  /\ UNCHANGED <<peer, armed, bytes_to_send, wpc>>

\* write()'s init(), which clears m_state, timer_flag and improv in this order.
InitAgain(w) ==
  /\ WorkerOnly /\ Goes(w, "init", "init_flag")
  /\ m_read_idx' = [m_read_idx EXCEPT ![wfd[w]] = 0]
  /\ bytes_to_send' = [bytes_to_send EXCEPT ![wfd[w]] = 0]
  /\ m_state' = [m_state EXCEPT ![wfd[w]] = "read"]
  /\ UNCHANGED <<main, inbox, peer, armed, queue, wfd, improv, timer_flag>>

InitTimerFlag(w) ==
  /\ WorkerOnly /\ Goes(w, "init_flag", "init_improv")
  /\ timer_flag' = [timer_flag EXCEPT ![wfd[w]] = FALSE]
  /\ UNCHANGED <<main, inbox, peer, armed, bufVars, queue, wfd, m_state, improv>>

InitImprov(w) ==
  /\ WorkerOnly /\ Goes(w, "init_improv", "ok")
  /\ improv' = [improv EXCEPT ![wfd[w]] = FALSE]
  /\ UNCHANGED <<main, inbox, peer, armed, bufVars, queue, wfd, m_state,
                 timer_flag>>

\* Slip: a failure is flagged for cleanup and not as processed.
SetImprov_NotFailed(w) ==
  /\ WorkerOnly
  /\ \/ Leaves(w, "ok") /\ improv' = [improv EXCEPT ![wfd[w]] = TRUE]
     \/ Goes(w, "fail", "flag") /\ UNCHANGED <<wfd, improv>>
  /\ UNCHANGED <<main, inbox, peer, armed, bufVars, queue, m_state, timer_flag>>

SetImprov(w) ==
  /\ WorkerOnly
  /\ \/ Leaves(w, "ok")
     \/ Goes(w, "fail", "flag") /\ UNCHANGED wfd
  /\ improv' = [improv EXCEPT ![wfd[w]] = TRUE]
  /\ UNCHANGED <<main, inbox, peer, armed, bufVars, queue, m_state, timer_flag>>

SetTimerFlag(w) ==
  /\ WorkerOnly /\ Leaves(w, "flag")
  /\ timer_flag' = [timer_flag EXCEPT ![wfd[w]] = TRUE]
  /\ UNCHANGED <<main, inbox, peer, armed, bufVars, queue, m_state, improv>>

-----------------------------------------------------------------------------
MainStep ==
  \/ /\ \/ EpollWait \/ Refuse \/ AcceptError \/ DealWithSignal
        \/ EndBatch \/ TickDone
        \/ \E fd \in Fds : HangupEvent(fd) \/ Tick(fd)
     /\ UNCHANGED <<flagVars, cur>>
  \/ \E fd \in Fds : Accept(fd) /\ InitFlags(fd) /\ UNCHANGED cur
  \/ \E fd \in Fds : DealWithRead(fd) \/ DealWithWrite(fd)
  \/ LookImprov \/ LookFlag \/ Close \/ Unflag \/ Reset

WorkerStep(w) ==
  \/ Take(w) \/ Read(w) \/ ReadFails(w) \/ Process(w) \/ Rearm(w)
  \/ WriteAll(w) \/ WritePart(w) \/ WriteLast(w) \/ WriteFails(w)
  \/ Sigpipe(w) \/ InitAgain(w) \/ InitTimerFlag(w) \/ InitImprov(w)
  \/ SetImprov(w) \/ SetTimerFlag(w)

Next == \/ (Clients \/ TimePasses \/ Stopped) /\ UNCHANGED <<flagVars, cur>>
        \/ MainStep
        \/ \E w \in Workers : WorkerStep(w)

Fairness == /\ WF_allVars(MainStep)
            /\ WF_allVars(TimePasses /\ UNCHANGED <<flagVars, cur>>)
            /\ \A w \in Workers : WF_allVars(WorkerStep(w))

Spec == ReactorInit /\ [][Next]_allVars
LiveSpec == Spec /\ Fairness

-----------------------------------------------------------------------------
(* Properties.                                                             *)

TypeOK ==
  /\ main \in {"wait", "batch", "tick", "stopped",
               "look", "spin", "flag", "close", "unflag", "reset"}
  /\ event \in [Fds -> {"none", "in", "out", "hup"}]
  /\ other \subseteq {"listen", "signal"}
  /\ timeout \in BOOLEAN /\ stop_server \in BOOLEAN
  /\ backlog \in 0..MaxBacklog
  /\ inbox \in [Fds -> 0..MaxSegs]
  /\ peer \in [Fds -> {"up", "stalled", "gone"}]
  /\ sigpipe \subseteq {"SIGALRM", "SIGTERM"} /\ alarm \in BOOLEAN
  /\ open \subseteq Fds
  /\ armed \in [Fds -> {"none", "in", "out"}]
  /\ m_read_idx \in [Fds -> 0..BufSegs] /\ bytes_to_send \in [Fds -> 0..RespSegs]
  /\ timers \subseteq Fds /\ ttl \in [Fds -> 0..TTL] /\ m_user_count \in Int
  /\ queue \in Seq(Fds) /\ Len(queue) <= MaxRequests
  /\ wpc \in [Workers -> {"idle", "state", "process", "rearm_in", "rearm_out",
                          "init", "init_flag", "init_improv",
                          "ok", "fail", "flag"}]
  /\ wfd \in [Workers -> Fds \union {None}]
  /\ m_state \in [Fds -> {"read", "write"}]
  /\ improv \in [Fds -> BOOLEAN] /\ timer_flag \in [Fds -> BOOLEAN]
  /\ cur \in Fds \union {None}

\* Whatever the flags make the main thread believe, it closes a connection
\* once: the timers, the open connections and m_user_count stay in step.
TimerPerConn ==
  /\ timers = open
  /\ m_user_count = Cardinality(open)

\* The timers are used as in proactor mode, as the timer list allows, but that
\* SIGPIPE, raised in a pool thread, may end the process within a tick.
Timer == INSTANCE TimerSet
           WITH Timers <- Fds,
                left <- [fd \in timers |-> ttl[fd]],
                ticking <- (main = "tick"),
                due <- IF main = "tick" THEN Expired ELSE {}
Killed == \E w \in Workers : Sigpipe(w)
UsesTimerSet ==
  Timer!Init /\ [][Killed \/ Timer!Next \/ UNCHANGED Timer!vars]_allVars

\* webserver.cpp:358 "wait till a worker thread consumed client data": a
\* connection the main thread queues is not in the hands of a pool thread
\* still, so two threads never work on one HTTP_CONN.
OneOwner ==
  /\ \A fd \in Fds : Queued(fd) => ~Held(fd)
  /\ \A v, w \in Workers : wfd[v] = wfd[w] /\ wfd[v] # None => v = w

\* The spinning ends: some thread sets improv, and no init() that clears it
\* comes later than that, provided the queue had room.
SpinEnds == (main = "spin") ~> (main # "spin")

\* A connection nothing will report or serve again, a failure the main thread
\* did not see among them, is reaped by its timer.
Parked(fd) == fd \in open /\ armed[fd] = "none" /\ event[fd] = "none" /\ ~Busy(fd)

ParkedReaped ==
  \A fd \in Fds : Parked(fd) ~> (fd \notin open \/ main = "stopped")
=============================================================================
