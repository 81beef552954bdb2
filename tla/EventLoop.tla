----------------------------- MODULE EventLoop -----------------------------
(***************************************************************************)
(* The part of WEBSERVER that both of its modes share: the main thread's   *)
(* epoll loop (webserver/webserver.cpp, event_loop), the timer of every    *)
(* connection (timer/timer.cpp), the signal pipe that turns SIGALRM and    *)
(* SIGTERM into events, and, marked external, the kernel and the clients.  *)
(* What the main thread does with a readable or writable connection, and   *)
(* what the pool's threads do, is in Proactor.                             *)
(*                                                                         *)
(* Data are abstracted to what the properties tell apart: input and output *)
(* are counted in segments, an expiry time is the number of TIMESLOTs that *)
(* are left (ttl), and the sorted timer list is the set of its timers      *)
(* (TimerList models the list itself).                                     *)
(***************************************************************************)
EXTENDS Integers, FiniteSets, Sequences

CONSTANTS
  Fds,          \* descriptors the kernel may hand to a connection
  Workers,      \* threads of the pool
  None,         \* "no descriptor"
  MaxUsers,     \* MAX_FD: connections above which a client is turned away
  MaxRequests,  \* m_max_request: capacity of the pool's queue
  MaxBacklog,   \* bound of the kernel's accept queue, listen(m_listenfd, 5)
  TTL,          \* lifetime of a timer in TIMESLOTs, 3 in the code
  MaxSegs,      \* bound: unread segments a socket holds
  BufSegs,      \* READ_BUFFER_SIZE in segments
  RespSegs,     \* bound: segments of the longest response
  MayTerminate, \* bound: FALSE in an instance nobody sends SIGTERM to
  Timely        \* TRUE: a request leaves the pool before its timer expires

ASSUME FdsAssumption == IsFiniteSet(Fds) /\ None \notin Fds
ASSUME BoundsAssumption ==
  /\ MaxUsers \in Nat /\ MaxRequests \in Nat /\ MaxBacklog \in Nat
  /\ TTL \in Nat \ {0, 1}
  /\ MaxSegs \in Nat /\ BufSegs \in Nat /\ RespSegs \in Nat
ASSUME SwitchAssumption == MayTerminate \in BOOLEAN /\ Timely \in BOOLEAN

VARIABLES
  main,           \* where the main thread is: "wait" in epoll_wait, "batch"
                  \*   in the loop over events, "tick" in time_handler,
                  \*   "stopped" after the loop
  event,          \* events[] of the batch that are still to be handled
  other,          \* the same, for the listening socket and the signal pipe
  timeout,        \* locals of event_loop
  stop_server,
  backlog,        \* completed connections not accepted yet
  inbox,          \* segments received by the kernel and not read yet
  peer,           \* the client: "up", "stalled" (does not read), "gone"
  sigpipe,        \* signals in m_pipefd
  alarm,          \* alarm(m_timeslot) is running
  open,           \* connections the server has accepted and not closed
  armed,          \* what epoll reports of it: EPOLLONESHOT disarms it
  m_read_idx,     \* segments in the connection's read buffer
  bytes_to_send,  \* segments of its response still to be written
  timers,         \* connections whose timer is in m_timer_lst
  ttl,            \* TIMESLOTs until that timer expires
  m_user_count,
  queue,          \* m_work_queue of the pool
  wpc,            \* where a pool thread is: "idle", "process", "rearm_in",
                  \*   "rearm_out"
  wfd             \* the request it holds

netVars  == <<backlog, inbox, peer>>
sigVars  == <<sigpipe, alarm>>
loopVars == <<main, event, other, timeout, stop_server>>
bufVars  == <<m_read_idx, bytes_to_send>>
timerVars == <<timers, ttl>>
poolVars == <<queue, wpc, wfd>>
vars == <<netVars, sigVars, loopVars, open, armed, bufVars, timerVars,
          m_user_count, poolVars>>

Queued(fd) == \E i \in DOMAIN queue : queue[i] = fd
Held(fd)   == \E w \in Workers : wfd[w] = fd
Busy(fd)   == Queued(fd) \/ Held(fd)

Init ==
  /\ main = "wait" /\ event = [fd \in Fds |-> "none"] /\ other = {}
  /\ timeout = FALSE /\ stop_server = FALSE
  /\ backlog = 0 /\ inbox = [fd \in Fds |-> 0] /\ peer = [fd \in Fds |-> "up"]
  /\ sigpipe = {} /\ alarm = TRUE
  /\ open = {} /\ armed = [fd \in Fds |-> "none"]
  /\ m_read_idx = [fd \in Fds |-> 0] /\ bytes_to_send = [fd \in Fds |-> 0]
  /\ timers = {} /\ ttl = [fd \in Fds |-> 0] /\ m_user_count = 0
  /\ queue = <<>>
  /\ wpc = [w \in Workers |-> "idle"] /\ wfd = [w \in Workers |-> None]

-----------------------------------------------------------------------------
(* The clients and the clock: code outside src/.                           *)

Environment == main # "stopped" /\ UNCHANGED <<loopVars, open, armed, bufVars,
                                               timers, m_user_count, poolVars>>

Connect ==
  /\ Environment
  /\ backlog < MaxBacklog /\ backlog' = backlog + 1
  /\ UNCHANGED <<inbox, peer, sigVars, ttl>>

Send(fd) ==
  /\ Environment
  /\ fd \in open /\ peer[fd] # "gone" /\ inbox[fd] < MaxSegs
  /\ inbox' = [inbox EXCEPT ![fd] = @ + 1]
  /\ UNCHANGED <<backlog, peer, sigVars, ttl>>

\* The client closes (what it sent stays readable) or resets (it is lost).
Hangup(fd) ==
  /\ Environment
  /\ fd \in open /\ peer[fd] # "gone"
  /\ peer' = [peer EXCEPT ![fd] = "gone"]
  /\ \E left \in {0, inbox[fd]} : inbox' = [inbox EXCEPT ![fd] = left]
  /\ UNCHANGED <<backlog, sigVars, ttl>>

\* A client that had stopped reading reads again.
Drain(fd) ==
  /\ Environment
  /\ fd \in open /\ peer[fd] = "stalled"
  /\ peer' = [peer EXCEPT ![fd] = "up"]
  /\ UNCHANGED <<backlog, inbox, sigVars, ttl>>

\* A TIMESLOT passes: every timer comes nearer, and SIGALRM fires if it was
\* set.  tick() reads the clock once, so no time passes inside it.
TimePasses ==
  /\ Environment
  /\ main # "tick"
  /\ Timely => \A fd \in Fds : Busy(fd) => ttl[fd] > 1
  /\ ttl' = [fd \in Fds |-> IF ttl[fd] > 0 THEN ttl[fd] - 1 ELSE 0]
  /\ sigpipe' = IF alarm THEN sigpipe \union {"SIGALRM"} ELSE sigpipe
  /\ alarm' = FALSE
  /\ UNCHANGED netVars

Terminate ==
  /\ Environment
  /\ MayTerminate
  /\ sigpipe' = sigpipe \union {"SIGTERM"}
  /\ UNCHANGED <<netVars, alarm, ttl>>

-----------------------------------------------------------------------------
(* The kernel's side of epoll_wait.                                        *)

\* What epoll reports of a connection.  A hang-up is reported whatever the
\* connection is armed for, and the loop tests for it first.
Ready(fd) ==
  IF fd \notin open \/ armed[fd] = "none" THEN "none"
  ELSE IF peer[fd] = "gone" THEN "hup"
  ELSE IF armed[fd] = "in" /\ inbox[fd] > 0 THEN "in"
  ELSE IF armed[fd] = "out" /\ peer[fd] = "up" THEN "out"
  ELSE "none"

ReadyOthers == {o \in {"listen", "signal"} :
                  IF o = "listen" THEN backlog > 0 ELSE sigpipe # {}}

EpollWait ==
  /\ main = "wait"
  /\ ReadyOthers # {} \/ \E fd \in Fds : Ready(fd) # "none"
  /\ event' = [fd \in Fds |-> Ready(fd)]
  /\ armed' = [fd \in Fds |-> IF Ready(fd) = "none" THEN armed[fd] ELSE "none"]
  /\ other' = ReadyOthers
  /\ main' = "batch"
  /\ UNCHANGED <<timeout, stop_server, netVars, sigVars, open, bufVars,
                 timerVars, m_user_count, poolVars>>

-----------------------------------------------------------------------------
(* The timer of a connection, and closing.                                 *)

\* Slip: the connection is closed and not counted off.
CbFunc_NoCount(fd) ==
  /\ open' = open \ {fd}
  /\ armed' = [armed EXCEPT ![fd] = "none"]
  /\ inbox' = [inbox EXCEPT ![fd] = 0]
  /\ peer' = [peer EXCEPT ![fd] = "up"]
  /\ UNCHANGED m_user_count

\* cb_func: out of epoll, closed, counted.  Nothing of users[fd] is touched.
CbFunc(fd) ==
  /\ open' = open \ {fd}
  /\ armed' = [armed EXCEPT ![fd] = "none"]
  /\ inbox' = [inbox EXCEPT ![fd] = 0]
  /\ peer' = [peer EXCEPT ![fd] = "up"]
  /\ m_user_count' = m_user_count - 1

DeleteTimer(fd) ==
  /\ timers' = timers \ {fd}
  /\ ttl' = [ttl EXCEPT ![fd] = 0]

DealTimer(fd) == CbFunc(fd) /\ DeleteTimer(fd)

\* Slip: the expiry is left as it was.
AdjustTimer_Stale(fd) == UNCHANGED <<timers, ttl>>

AdjustTimer(fd) ==
  /\ ttl' = [ttl EXCEPT ![fd] = TTL]
  /\ timers' = timers

-----------------------------------------------------------------------------
(* The batch: every event is handled once, in whatever order epoll_wait    *)
(* listed them.                                                            *)

Handles(o) == main = "batch" /\ o \in other /\ other' = other \ {o}

\* deal_client_data, listening socket level-triggered: one accept.
Accept(fd) ==
  /\ Handles("listen")
  /\ backlog > 0 /\ fd \in Fds \ open
  /\ m_user_count < MaxUsers
  /\ backlog' = backlog - 1
  /\ open' = open \union {fd}
  /\ armed' = [armed EXCEPT ![fd] = "in"]
  /\ m_user_count' = m_user_count + 1
  /\ m_read_idx' = [m_read_idx EXCEPT ![fd] = 0]
  /\ bytes_to_send' = [bytes_to_send EXCEPT ![fd] = 0]
  /\ timers' = timers \union {fd}
  /\ ttl' = [ttl EXCEPT ![fd] = TTL]
  /\ UNCHANGED <<main, event, timeout, stop_server, inbox, peer, sigVars,
                 poolVars>>

\* The server is full: show_error closes the new descriptor at once.
Refuse ==
  /\ Handles("listen")
  /\ backlog > 0 /\ Fds \ open # {}
  /\ m_user_count >= MaxUsers
  /\ backlog' = backlog - 1
  /\ UNCHANGED <<main, event, timeout, stop_server, inbox, peer, sigVars, open,
                 armed, bufVars, timerVars, m_user_count, poolVars>>

\* accept fails: the process has no descriptor left.
AcceptError ==
  /\ Handles("listen")
  /\ Fds \ open = {}
  /\ UNCHANGED <<main, event, timeout, stop_server, netVars, sigVars, open,
                 armed, bufVars, timerVars, m_user_count, poolVars>>

DealWithSignal ==
  /\ Handles("signal")
  /\ timeout' = (timeout \/ "SIGALRM" \in sigpipe)
  /\ stop_server' = (stop_server \/ "SIGTERM" \in sigpipe)
  /\ sigpipe' = {}
  /\ UNCHANGED <<main, event, netVars, alarm, open, armed, bufVars, timerVars,
                 m_user_count, poolVars>>

\* An event of a connection, taken off the batch.
Takes(fd, e) ==
  /\ main = "batch" /\ event[fd] = e
  /\ event' = [event EXCEPT ![fd] = "none"]
  /\ UNCHANGED <<main, other, timeout, stop_server, sigVars, backlog>>

HangupEvent(fd) ==
  /\ Takes(fd, "hup")
  /\ DealTimer(fd)
  /\ UNCHANGED <<bufVars, poolVars>>

AfterLoop == IF stop_server THEN "stopped" ELSE "wait"

\* Slip: timeout is not looked at.
EndBatch_NoTick ==
  /\ main = "batch" /\ other = {} /\ \A fd \in Fds : event[fd] = "none"
  /\ main' = AfterLoop
  /\ UNCHANGED <<event, other, timeout, stop_server, netVars, sigVars, open,
                 armed, bufVars, timerVars, m_user_count, poolVars>>

EndBatch ==
  /\ main = "batch" /\ other = {} /\ \A fd \in Fds : event[fd] = "none"
  /\ main' = IF timeout THEN "tick" ELSE AfterLoop
  /\ UNCHANGED <<event, other, timeout, stop_server, netVars, sigVars, open,
                 armed, bufVars, timerVars, m_user_count, poolVars>>

\* Slip: a timer is taken for expired one TIMESLOT early.
Expired_Early == {fd \in timers : ttl[fd] <= 1}

\* SORT_TIMER_lST::tick closes the expired connections one after another.
Expired == {fd \in timers : ttl[fd] = 0}

Tick(fd) ==
  /\ main = "tick" /\ fd \in Expired
  /\ DealTimer(fd)
  /\ UNCHANGED <<loopVars, backlog, sigVars, bufVars, poolVars>>

\* Slip: the next alarm is not set.
TickDone_NoAlarm ==
  /\ main = "tick" /\ Expired = {}
  /\ timeout' = FALSE
  /\ main' = AfterLoop
  /\ UNCHANGED <<event, other, stop_server, netVars, sigVars, open, armed,
                 bufVars, timerVars, m_user_count, poolVars>>

\* time_handler sets the next alarm; event_loop clears timeout.
TickDone ==
  /\ main = "tick" /\ Expired = {}
  /\ alarm' = TRUE /\ timeout' = FALSE
  /\ main' = AfterLoop
  /\ UNCHANGED <<event, other, stop_server, netVars, sigpipe, open, armed,
                 bufVars, timerVars, m_user_count, poolVars>>

-----------------------------------------------------------------------------
Clients == \/ Connect
           \/ \E fd \in Fds : Send(fd) \/ Hangup(fd) \/ Drain(fd)
           \/ Terminate

LoopStep == \/ EpollWait
            \/ \E fd \in Fds : Accept(fd) \/ HangupEvent(fd) \/ Tick(fd)
            \/ Refuse \/ AcceptError \/ DealWithSignal
            \/ EndBatch \/ TickDone

\* After the loop the process only has its exit left.
Stopped == main = "stopped" /\ UNCHANGED vars
=============================================================================
