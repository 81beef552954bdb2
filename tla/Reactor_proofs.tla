--------------------------- MODULE Reactor_proofs ---------------------------
(* Proofs about Reactor, for every value of its constants.                 *)
EXTENDS Reactor, FiniteSetTheorems, TLAPS

USE FdsAssumption, BoundsAssumption, SwitchAssumption

LEMMA ReactorTypeInit == ReactorInit => TypeOK
<1> SUFFICES ASSUME ReactorInit PROVE TypeOK OBVIOUS
<1> USE DEF ReactorInit
<1>1. /\ event \in [Fds -> {"none", "in", "out", "hup"}]
      /\ armed \in [Fds -> {"none", "in", "out"}]
      /\ peer \in [Fds -> {"up", "stalled", "gone"}]
  BY DEF Init
<1>2. /\ inbox \in [Fds -> 0..MaxSegs] /\ ttl \in [Fds -> 0..TTL]
      /\ m_read_idx \in [Fds -> 0..BufSegs]
      /\ bytes_to_send \in [Fds -> 0..RespSegs]
  BY DEF Init
<1>3. /\ wpc \in [Workers -> {"idle", "state", "process", "rearm_in", "rearm_out",
                              "init", "init_flag", "init_improv",
                              "ok", "fail", "flag"}]
      /\ wfd \in [Workers -> Fds \union {None}]
  BY DEF Init
<1>4. queue \in Seq(Fds) /\ Len(queue) <= MaxRequests BY DEF Init
<1>5. /\ main \in {"wait", "batch", "tick", "stopped",
                   "look", "spin", "flag", "close", "unflag", "reset"}
      /\ other \subseteq {"listen", "signal"}
      /\ backlog \in 0..MaxBacklog
      /\ sigpipe \subseteq {"SIGALRM", "SIGTERM"}
      /\ open \subseteq Fds /\ timers \subseteq Fds /\ m_user_count \in Int
      /\ cur \in Fds \union {None}
  BY DEF Init
<1>6. timeout \in BOOLEAN /\ stop_server \in BOOLEAN /\ alarm \in BOOLEAN
  BY Zenon DEF Init
<1>7. m_state \in [Fds -> {"read", "write"}] OBVIOUS
<1>8. improv \in [Fds -> BOOLEAN] /\ timer_flag \in [Fds -> BOOLEAN] BY Zenon
<1> QED BY <1>1, <1>2, <1>3, <1>4, <1>5, <1>6, <1>7, <1>8 DEF TypeOK

\* A counter set back to 0 keeps its range.
LEMMA Zeroed ==
  ASSUME NEW S, NEW n \in Nat, NEW f \in [S -> 0..n], NEW x
  PROVE  [f EXCEPT ![x] = 0] \in [S -> 0..n]
<1>1. 0 \in 0..n OBVIOUS
<1>2. ASSUME NEW T, f \in [S -> T], 0 \in T PROVE [f EXCEPT ![x] = 0] \in [S -> T]
  BY <1>2
<1> QED BY <1>1, <1>2

\* Closing a connection does.
LEMMA CloseKeepsType ==
  ASSUME TypeOK, NEW fd, DealTimer(fd)
  PROVE  /\ armed' \in [Fds -> {"none", "in", "out"}] /\ inbox' \in [Fds -> 0..MaxSegs]
         /\ peer' \in [Fds -> {"up", "stalled", "gone"}] /\ ttl' \in [Fds -> 0..TTL]
         /\ open' \subseteq Fds /\ timers' \subseteq Fds /\ m_user_count' \in Int
<1>1. armed' \in [Fds -> {"none", "in", "out"}]
  BY DEF TypeOK, DealTimer, CbFunc
<1>2. peer' \in [Fds -> {"up", "stalled", "gone"}]
  BY DEF TypeOK, DealTimer, CbFunc
<1>3. inbox' \in [Fds -> 0..MaxSegs]
  <2>1. inbox \in [Fds -> 0..MaxSegs] BY DEF TypeOK
  <2>2. inbox' = [inbox EXCEPT ![fd] = 0] BY DEF DealTimer, CbFunc
  <2> QED BY <2>1, <2>2, Zeroed
<1>4. ttl' \in [Fds -> 0..TTL]
  <2>1. ttl \in [Fds -> 0..TTL] BY DEF TypeOK
  <2>2. ttl' = [ttl EXCEPT ![fd] = 0] BY DEF DealTimer, DeleteTimer
  <2> QED BY <2>1, <2>2, Zeroed
<1>5. open' \subseteq Fds /\ timers' \subseteq Fds /\ m_user_count' \in Int
  BY DEF TypeOK, DealTimer, CbFunc, DeleteTimer
<1> QED BY <1>1, <1>2, <1>3, <1>4, <1>5

\* A step of the main thread keeps the types.
LEMMA MainKeepsType == ASSUME TypeOK, MainStep PROVE TypeOK'
<1> USE DEF vars, netVars, sigVars, loopVars, bufVars, timerVars, poolVars, flagVars
<1>1. CASE EpollWait /\ UNCHANGED <<flagVars, cur>>
  <2>1. \A fd \in Fds : Ready(fd) \in {"none", "in", "out", "hup"} BY DEF Ready
  <2>2. ReadyOthers \subseteq {"listen", "signal"} BY DEF ReadyOthers
  <2> QED BY <1>1, <2>1, <2>2 DEF TypeOK, EpollWait
<1>2. CASE Refuse /\ UNCHANGED <<flagVars, cur>>
  BY <1>2 DEF TypeOK, Refuse, Handles
<1>3. CASE AcceptError /\ UNCHANGED <<flagVars, cur>>
  BY <1>3 DEF TypeOK, AcceptError, Handles
<1>4. CASE DealWithSignal /\ UNCHANGED <<flagVars, cur>>
  BY <1>4 DEF TypeOK, DealWithSignal, Handles
<1>5. CASE EndBatch /\ UNCHANGED <<flagVars, cur>>
  BY <1>5 DEF TypeOK, EndBatch, AfterLoop
<1>6. CASE TickDone /\ UNCHANGED <<flagVars, cur>>
  BY <1>6 DEF TypeOK, TickDone, AfterLoop
<1>7. ASSUME NEW fd \in Fds, HangupEvent(fd), UNCHANGED <<flagVars, cur>>
      PROVE  TypeOK'
  BY <1>7 DEF TypeOK, HangupEvent, Takes, DealTimer, CbFunc, DeleteTimer
<1>8. ASSUME NEW fd \in Fds, Tick(fd), UNCHANGED <<flagVars, cur>>
      PROVE  TypeOK'
  BY <1>8 DEF TypeOK, Tick, DealTimer, CbFunc, DeleteTimer
<1>9. ASSUME NEW fd \in Fds, Accept(fd), InitFlags(fd), UNCHANGED cur
      PROVE  TypeOK'
  <2>1. m_state' \in [Fds -> {"read", "write"}] BY <1>9 DEF TypeOK, InitFlags
  <2>2. improv' \in [Fds -> BOOLEAN] /\ timer_flag' \in [Fds -> BOOLEAN]
    BY <1>9 DEF TypeOK, InitFlags
  <2>3. /\ armed' \in [Fds -> {"none", "in", "out"}] /\ ttl' \in [Fds -> 0..TTL]
        /\ m_read_idx' \in [Fds -> 0..BufSegs]
        /\ bytes_to_send' \in [Fds -> 0..RespSegs]
    BY <1>9 DEF TypeOK, Accept
  <2>4. /\ open' \subseteq Fds /\ timers' \subseteq Fds
        /\ backlog' \in 0..MaxBacklog /\ m_user_count' \in Int
        /\ other' \subseteq {"listen", "signal"}
    BY <1>9 DEF TypeOK, Accept, Handles
  <2>5. UNCHANGED <<main, event, timeout, stop_server, inbox, peer, sigpipe,
                    alarm, queue, wpc, wfd, cur>>
    BY <1>9 DEF Accept
  <2> QED BY <2>1, <2>2, <2>3, <2>4, <2>5 DEF TypeOK
<1>10. ASSUME NEW fd \in Fds, NEW e, NEW s \in {"read", "write"},
              NEW at \in {"look", "spin"}, Hands(fd, e, s, at)
       PROVE  TypeOK'
  <2>1. queue' \in Seq(Fds) /\ Len(queue') <= MaxRequests
    <3>1. CASE Len(queue) < MaxRequests
      <4>1. queue' = Append(queue, fd) BY <1>10, <3>1 DEF Hands
      <4> QED BY <3>1, <4>1 DEF TypeOK
    <3>2. CASE ~(Len(queue) < MaxRequests)
      <4>1. queue' = queue BY <1>10, <3>2 DEF Hands
      <4> QED BY <4>1 DEF TypeOK
    <3> QED BY <3>1, <3>2
  <2>2. m_state' \in [Fds -> {"read", "write"}] BY <1>10 DEF TypeOK, Hands
  <2>3. ttl' \in [Fds -> 0..TTL] /\ timers' \subseteq Fds
    BY <1>10 DEF TypeOK, Hands, AdjustTimer
  <2> QED BY <1>10, <2>1, <2>2, <2>3 DEF TypeOK, Hands
<1>11. CASE LookImprov \/ LookFlag
  BY <1>11 DEF TypeOK, LookImprov, LookFlag
<1>12. CASE Close
  <2>1. /\ main' = "unflag"
        /\ UNCHANGED <<event, other, timeout, stop_server, backlog, sigpipe, alarm,
                       m_read_idx, bytes_to_send, queue, wpc, wfd, m_state, improv,
                       timer_flag, cur>>
    BY <1>12 DEF Close
  <2>2. DealTimer(cur) BY <1>12 DEF Close
  <2> QED BY <2>1, <2>2, CloseKeepsType DEF TypeOK
<1>13. CASE Unflag
  <2>1. timer_flag' \in [Fds -> BOOLEAN] BY <1>13 DEF TypeOK, Unflag
  <2> QED BY <1>13, <2>1 DEF TypeOK, Unflag
<1>14. CASE Reset
  <2>1. improv' \in [Fds -> BOOLEAN] BY <1>14 DEF TypeOK, Reset
  <2> QED BY <1>14, <2>1 DEF TypeOK, Reset
<1> QED BY <1>1, <1>2, <1>3, <1>4, <1>5, <1>6, <1>7, <1>8, <1>9, <1>10, <1>11,
           <1>12, <1>13, <1>14 DEF MainStep, DealWithRead, DealWithWrite

\* So does a step of a pool thread.
LEMMA WorkerKeepsType ==
  ASSUME TypeOK, NEW w \in Workers, WorkerStep(w) PROVE TypeOK'
<1> USE DEF sigVars, timerVars, bufVars, flagVars, WorkerOnly, Goes, Leaves
<1>1. CASE Take(w)
  <2>1. /\ Head(queue) \in Fds /\ Tail(queue) \in Seq(Fds)
        /\ Len(Tail(queue)) <= MaxRequests
    BY <1>1 DEF TypeOK, Take
  <2> QED BY <1>1, <2>1 DEF TypeOK, Take
<1>2. CASE Read(w)
  <2>1. wfd[w] \in Fds BY <1>2 DEF TypeOK, Read
  <2>2. /\ inbox' \in [Fds -> 0..MaxSegs] /\ m_read_idx' \in [Fds -> 0..BufSegs]
    BY <1>2, <2>1 DEF TypeOK, Read
  <2>3. improv' \in [Fds -> BOOLEAN] BY <1>2 DEF TypeOK, Read
  <2> QED BY <1>2, <2>2, <2>3 DEF TypeOK, Read
<1>3. CASE ReadFails(w) BY <1>3 DEF TypeOK, ReadFails
<1>4. CASE Process(w)
  <2>1. bytes_to_send' \in [Fds -> 0..RespSegs] BY <1>4 DEF TypeOK, Process
  <2> QED BY <1>4, <2>1 DEF TypeOK, Process
<1>5. CASE Rearm(w) BY <1>5 DEF TypeOK, Rearm, Modfd
<1>6. CASE WriteAll(w)
  <2>1. armed' \in [Fds -> {"none", "in", "out"}] BY <1>6 DEF TypeOK, WriteAll, Modfd
  <2>2. bytes_to_send' \in [Fds -> 0..RespSegs]
    <3>1. bytes_to_send \in [Fds -> 0..RespSegs] BY DEF TypeOK
    <3>2. bytes_to_send' = [bytes_to_send EXCEPT ![wfd[w]] = 0] BY <1>6 DEF WriteAll
    <3> QED BY <3>1, <3>2, Zeroed
  <2>3. wpc' \in [Workers -> {"idle", "state", "process", "rearm_in", "rearm_out",
                              "init", "init_flag", "init_improv",
                              "ok", "fail", "flag"}]
    BY <1>6 DEF TypeOK, WriteAll
  <2>4. UNCHANGED <<main, event, other, timeout, stop_server, backlog, inbox, peer,
                    sigpipe, alarm, open, m_read_idx, timers, ttl, m_user_count,
                    queue, wfd, m_state, improv, timer_flag, cur>>
    BY <1>6 DEF WriteAll, Writes
  <2> QED BY <2>1, <2>2, <2>3, <2>4 DEF TypeOK
<1>7. CASE WritePart(w)
  <2>1. bytes_to_send' \in [Fds -> 0..RespSegs]
    <3>1. wfd[w] \in Fds BY <1>7 DEF TypeOK, WritePart
    <3> QED BY <1>7, <3>1 DEF TypeOK, WritePart
  <2> QED BY <1>7, <2>1 DEF TypeOK, WritePart, Writes, Modfd
<1>8. CASE WriteLast(w) BY <1>8 DEF TypeOK, WriteLast, Writes, Modfd
<1>9. CASE WriteFails(w) BY <1>9 DEF TypeOK, WriteFails, Writes
<1>10. CASE Sigpipe(w) BY <1>10 DEF TypeOK, Sigpipe, Writes
<1>11. CASE InitAgain(w)
  <2>1. m_state' \in [Fds -> {"read", "write"}]
    BY <1>11 DEF TypeOK, InitAgain
  <2>2. m_read_idx' \in [Fds -> 0..BufSegs]
    <3>1. m_read_idx \in [Fds -> 0..BufSegs] BY DEF TypeOK
    <3>2. m_read_idx' = [m_read_idx EXCEPT ![wfd[w]] = 0] BY <1>11 DEF InitAgain
    <3> QED BY <3>1, <3>2, Zeroed
  <2>3. bytes_to_send' \in [Fds -> 0..RespSegs]
    <3>1. bytes_to_send \in [Fds -> 0..RespSegs] BY DEF TypeOK
    <3>2. bytes_to_send' = [bytes_to_send EXCEPT ![wfd[w]] = 0] BY <1>11 DEF InitAgain
    <3> QED BY <3>1, <3>2, Zeroed
  <2>4. wpc' \in [Workers -> {"idle", "state", "process", "rearm_in", "rearm_out",
                              "init", "init_flag", "init_improv",
                              "ok", "fail", "flag"}]
    BY <1>11 DEF TypeOK, InitAgain
  <2>5. UNCHANGED <<main, event, other, timeout, stop_server, backlog, inbox, peer,
                    sigpipe, alarm, open, armed, timers, ttl, m_user_count,
                    queue, wfd, improv, timer_flag, cur>>
    BY <1>11 DEF InitAgain
  <2> QED BY <2>1, <2>2, <2>3, <2>4, <2>5 DEF TypeOK
<1>12. CASE InitTimerFlag(w)
  <2>1. timer_flag' \in [Fds -> BOOLEAN] BY <1>12 DEF TypeOK, InitTimerFlag
  <2> QED BY <1>12, <2>1 DEF TypeOK, InitTimerFlag
<1>13. CASE InitImprov(w)
  <2>1. improv' \in [Fds -> BOOLEAN] BY <1>13 DEF TypeOK, InitImprov
  <2> QED BY <1>13, <2>1 DEF TypeOK, InitImprov
<1>14. CASE SetImprov(w)
  <2>1. improv' \in [Fds -> BOOLEAN] BY <1>14 DEF TypeOK, SetImprov
  <2> QED BY <1>14, <2>1 DEF TypeOK, SetImprov
<1>15. CASE SetTimerFlag(w)
  <2>1. timer_flag' \in [Fds -> BOOLEAN] BY <1>15 DEF TypeOK, SetTimerFlag
  <2> QED BY <1>15, <2>1 DEF TypeOK, SetTimerFlag
<1> QED BY <1>1, <1>2, <1>3, <1>4, <1>5, <1>6, <1>7, <1>8, <1>9, <1>10, <1>11,
           <1>12, <1>13, <1>14, <1>15 DEF WorkerStep

LEMMA ReactorTypeStep == TypeOK /\ [Next]_allVars => TypeOK'
<1> USE DEF vars, netVars, sigVars, loopVars, bufVars, timerVars, poolVars, flagVars
<1> SUFFICES ASSUME TypeOK, [Next]_allVars PROVE TypeOK' OBVIOUS
<1>1. CASE Clients /\ UNCHANGED <<flagVars, cur>>
  <2>1. CASE Connect BY <1>1, <2>1 DEF TypeOK, Connect, Environment
  <2>2. ASSUME NEW fd \in Fds, Send(fd) PROVE TypeOK'
    <3>1. inbox' \in [Fds -> 0..MaxSegs] BY <2>2 DEF TypeOK, Send
    <3>2. UNCHANGED <<main, event, other, timeout, stop_server, backlog, peer,
                      sigpipe, alarm, open, armed, m_read_idx, bytes_to_send, timers,
                      ttl, m_user_count, queue, wpc, wfd, m_state, improv,
                      timer_flag, cur>>
      BY <1>1, <2>2 DEF Send, Environment
    <3> QED BY <3>1, <3>2 DEF TypeOK
  <2>3. CASE \E fd \in Fds : Hangup(fd)
    BY <1>1, <2>3 DEF TypeOK, Hangup, Environment
  <2>4. CASE \E fd \in Fds : Drain(fd) BY <1>1, <2>4 DEF TypeOK, Drain, Environment
  <2>5. CASE Terminate BY <1>1, <2>5 DEF TypeOK, Terminate, Environment
  <2> QED BY <1>1, <2>1, <2>2, <2>3, <2>4, <2>5 DEF Clients
<1>2. CASE TimePasses /\ UNCHANGED <<flagVars, cur>>
  <2>1. \A n \in 0..TTL : (IF n > 0 THEN n - 1 ELSE 0) \in 0..TTL OBVIOUS
  <2>2. ttl' \in [Fds -> 0..TTL] BY <1>2, <2>1 DEF TypeOK, TimePasses
  <2>3. sigpipe' \subseteq {"SIGALRM", "SIGTERM"} BY <1>2 DEF TypeOK, TimePasses
  <2> QED BY <1>2, <2>2, <2>3 DEF TypeOK, TimePasses, Environment
<1>3. CASE UNCHANGED allVars BY <1>3 DEF TypeOK, allVars
<1>4. CASE Stopped /\ UNCHANGED <<flagVars, cur>> BY <1>4 DEF TypeOK, Stopped
<1> QED BY <1>1, <1>2, <1>3, <1>4, MainKeepsType, WorkerKeepsType DEF Next

\* The types of reactor mode hold whatever the numbers of descriptors and
\* threads, the two unsynchronised flags included.
THEOREM ReactorTypeCorrect == Spec => []TypeOK
BY ReactorTypeInit, ReactorTypeStep, PTL DEF Spec

-----------------------------------------------------------------------------
\* What the main thread may act on is open: the connections of the batch, and
\* the one it looks at or closes.  No pool thread closes one, whatever the flags are.
LookInv ==
  /\ \A fd \in Fds : event[fd] # "none" => fd \in open
  /\ main \in {"wait", "tick"} => \A fd \in Fds : event[fd] = "none"
  /\ main \in {"look", "spin", "flag", "close"} => cur \in open /\ event[cur] = "none"

LEMMA CloseCounts ==
  ASSUME TypeOK, TimerPerConn, NEW fd \in open, DealTimer(fd)
  PROVE  TimerPerConn'
<1>1. IsFiniteSet(open) BY FdsAssumption, FS_Subset DEF TypeOK
<1>2. Cardinality(open \ {fd}) = Cardinality(open) - 1
  BY <1>1, FS_RemoveElement
<1> QED BY <1>2 DEF TimerPerConn, DealTimer, CbFunc, DeleteTimer

LEMMA AcceptCounts ==
  ASSUME TypeOK, TimerPerConn, NEW fd \in Fds, Accept(fd)
  PROVE  TimerPerConn'
<1>1. IsFiniteSet(open) BY FdsAssumption, FS_Subset DEF TypeOK
<1>2. Cardinality(open \union {fd}) = Cardinality(open) + 1
  BY <1>1, FS_AddElement DEF Accept
<1> QED BY <1>2 DEF TimerPerConn, Accept

LEMMA ReactorTimerStep ==
  ASSUME TypeOK, LookInv, TimerPerConn, [Next]_allVars
  PROVE  LookInv' /\ TimerPerConn'
<1> USE DEF vars, netVars, sigVars, loopVars, bufVars, timerVars, poolVars, flagVars
<1>0. ASSUME UNCHANGED <<event, cur, open, timers, m_user_count>>,
             main' \in {"wait", "tick"} => \A fd \in Fds : event[fd] = "none",
             main' \in {"look", "spin", "flag", "close"}
               => main \in {"look", "spin", "flag", "close"}
      PROVE  LookInv' /\ TimerPerConn'
  BY <1>0 DEF LookInv, TimerPerConn
<1>1. CASE (Clients \/ TimePasses \/ Stopped) /\ UNCHANGED <<flagVars, cur>>
  <2>1. UNCHANGED <<main, event, open, timers, m_user_count>>
    BY <1>1 DEF Clients, Connect, Send, Hangup, Drain, Terminate, Environment,
                TimePasses, Stopped
  <2> QED BY <1>0, <1>1, <2>1 DEF LookInv
<1>2. CASE MainStep
  <2>1. CASE EpollWait /\ UNCHANGED <<flagVars, cur>>
    <3>1. LookInv' BY <2>1 DEF TypeOK, LookInv, EpollWait, Ready
    <3> QED BY <2>1, <3>1 DEF EpollWait, TimerPerConn
  <2>2. CASE (Refuse \/ AcceptError \/ DealWithSignal) /\ UNCHANGED <<flagVars, cur>>
    BY <2>2, <1>0 DEF Refuse, AcceptError, DealWithSignal, Handles
  <2>3. CASE (EndBatch \/ TickDone) /\ UNCHANGED <<flagVars, cur>>
    BY <2>3, <1>0 DEF EndBatch, TickDone, AfterLoop, LookInv
  <2>4. ASSUME NEW fd \in Fds, HangupEvent(fd), UNCHANGED <<flagVars, cur>>
        PROVE  LookInv' /\ TimerPerConn'
    <3>1. fd \in open /\ main' = "batch" BY <2>4 DEF LookInv, HangupEvent, Takes
    <3>2. LookInv'
      BY <2>4, <3>1 DEF TypeOK, LookInv, HangupEvent, Takes, DealTimer, CbFunc
    <3> QED BY <2>4, <3>1, <3>2, CloseCounts DEF HangupEvent
  <2>5. ASSUME NEW fd \in Fds, Tick(fd), UNCHANGED <<flagVars, cur>>
        PROVE  LookInv' /\ TimerPerConn'
    <3>1. fd \in open BY <2>5 DEF Tick, Expired, TimerPerConn
    <3>2. LookInv' BY <2>5 DEF Tick, LookInv
    <3> QED BY <2>5, <3>1, <3>2, CloseCounts DEF Tick
  <2>6. ASSUME NEW fd \in Fds, Accept(fd), UNCHANGED cur
        PROVE  LookInv' /\ TimerPerConn'
    <3>1. LookInv' BY <2>6 DEF LookInv, Accept, Handles
    <3> QED BY <2>6, <3>1, AcceptCounts
  <2>7. ASSUME NEW fd \in Fds, DealWithRead(fd) \/ DealWithWrite(fd)
        PROVE  LookInv' /\ TimerPerConn'
    <3>1. PICK e \in {"in", "out"}, s \in {"read", "write"}, at \in {"look", "spin"} :
                 Hands(fd, e, s, at)
      <4>1. CASE Hands(fd, "in", "read", "look") BY <4>1
      <4>2. CASE Hands(fd, "out", "write", "spin") BY <4>2
      <4> QED BY <2>7, <4>1, <4>2 DEF DealWithRead, DealWithWrite
    <3>2. LookInv' BY <3>1 DEF TypeOK, LookInv, Hands
    <3> QED BY <3>1, <3>2 DEF Hands, AdjustTimer, TimerPerConn
  <2>8. CASE LookImprov \/ LookFlag
    BY <2>8, <1>0 DEF LookImprov, LookFlag
  <2>9. CASE Close
    <3>1. cur \in open /\ event[cur] = "none" BY <2>9 DEF LookInv, Close
    <3>2. LookInv' BY <2>9, <3>1 DEF LookInv, Close, DealTimer, CbFunc
    <3> QED BY <2>9, <3>1, <3>2, CloseCounts DEF Close
  <2>10. CASE Unflag \/ Reset BY <2>10 DEF Unflag, Reset, LookInv, TimerPerConn
  <2> QED BY <1>2, <2>1, <2>2, <2>3, <2>4, <2>5, <2>6, <2>7, <2>8, <2>9, <2>10
          DEF MainStep
<1>3. ASSUME NEW w \in Workers, WorkerStep(w) PROVE LookInv' /\ TimerPerConn'
  <2>1. UNCHANGED <<event, cur, open, timers, m_user_count>>
    BY <1>3 DEF WorkerStep, Take, Read, ReadFails, Process, Rearm, WriteAll,
                WritePart, WriteLast, WriteFails, Sigpipe, InitAgain,
                InitTimerFlag, InitImprov, SetImprov, SetTimerFlag, Writes, WorkerOnly
  <2>2. main' = main \/ main' = "stopped"
    BY <1>3 DEF WorkerStep, Take, Read, ReadFails, Process, Rearm, WriteAll,
                WritePart, WriteLast, WriteFails, Sigpipe, InitAgain,
                InitTimerFlag, InitImprov, SetImprov, SetTimerFlag
  <2> QED BY <2>1, <2>2, <1>0 DEF LookInv
<1>4. CASE UNCHANGED allVars BY <1>4, <1>0 DEF allVars, LookInv
<1> QED BY <1>1, <1>2, <1>3, <1>4 DEF Next

\* Whatever the two flags say when the main thread reads them, it closes only
\* connections that are open, and counts each once: timers, open connections
\* and m_user_count stay in step in reactor mode too.
THEOREM ReactorTimersCorrect == Spec => []TimerPerConn
<1>1. ReactorInit => LookInv /\ TimerPerConn
  BY FS_EmptySet DEF ReactorInit, Init, LookInv, TimerPerConn
<1>2. TypeOK /\ LookInv /\ TimerPerConn /\ [Next]_allVars
        => TypeOK' /\ LookInv' /\ TimerPerConn'
  BY ReactorTypeStep, ReactorTimerStep
<1> QED BY <1>1, <1>2, ReactorTypeInit, PTL DEF Spec

-----------------------------------------------------------------------------
\* What each step does to the timers, but for the one that ends the process.
LEMMA ReactorTimerUse ==
  ASSUME TypeOK, LookInv, TimerPerConn, Next
  PROVE  Killed \/ Timer!Next \/ UNCHANGED Timer!vars
<1> USE DEF vars, netVars, sigVars, loopVars, bufVars, timerVars, poolVars, flagVars
<1> DEFINE Left == [fd \in timers |-> ttl[fd]]
           Due == IF main = "tick" THEN Expired ELSE {}
<1> SUFFICES ASSUME ~ Killed
             PROVE  Timer!Next \/ UNCHANGED <<Left, main = "tick", Due>>
  BY DEF Timer!vars, Expired
<1>0. ASSUME UNCHANGED <<timers, ttl>>, main' = "tick" <=> main = "tick"
      PROVE  UNCHANGED <<Left, main = "tick", Due>>
  BY <1>0 DEF Expired
<1>1. ASSUME NEW fd \in timers, DealTimer(fd), main # "tick", main' # "tick"
      PROVE  Timer!Next
  <2>1. Left' = [u \in timers \ {fd} |-> Left[u]]
    BY <1>1 DEF TypeOK, DealTimer, DeleteTimer
  <2>2. Timer!Cancel(fd) BY <1>1, <2>1 DEF Timer!Cancel, Timer!Without, Timer!Set
  <2> QED BY <2>2 DEF TypeOK, Timer!Next
<1>2. ASSUME NEW fd \in timers, AdjustTimer(fd), main # "tick", main' # "tick"
      PROVE  Timer!Next
  <2>1. Left' = [Left EXCEPT ![fd] = TTL] BY <1>2 DEF TypeOK, AdjustTimer
  <2>2. Timer!Restart(fd) BY <1>2, <2>1 DEF Timer!Restart, Timer!Set
  <2> QED BY <2>2 DEF TypeOK, Timer!Next
<1>3. CASE (Clients \/ Stopped) /\ UNCHANGED <<flagVars, cur>>
  <2>1. UNCHANGED <<main, timers, ttl>>
    BY <1>3 DEF Clients, Connect, Send, Hangup, Drain, Terminate, Environment, Stopped
  <2> QED BY <1>0, <2>1
<1>4. CASE TimePasses /\ UNCHANGED <<flagVars, cur>>
  <2>1. /\ main # "tick" /\ main' = main /\ timers' = timers
        /\ ttl' = [fd \in Fds |-> IF ttl[fd] > 0 THEN ttl[fd] - 1 ELSE 0]
    BY <1>4 DEF TimePasses, Environment
  <2>2. CASE \E t \in timers : ttl[t] > 0
    <3>1. PICK t \in timers : ttl[t] > 0 BY <2>2
    <3>2. 1 \in UNION {0..Left[u] : u \in timers}
      BY <3>1 DEF TypeOK
    <3>3. Left' = [u \in timers |-> IF Left[u] > 1 THEN Left[u] - 1 ELSE 0]
      BY <2>1 DEF TypeOK
    <3>4. Timer!Clock BY <2>1, <3>2, <3>3 DEF Timer!Clock, Timer!Set
    <3> QED BY <3>4 DEF Timer!Next
  <2>3. CASE \A t \in timers : ~(ttl[t] > 0)
    <3>1. Left' = Left BY <2>1, <2>3 DEF TypeOK
    <3> QED BY <2>1, <3>1
  <2> QED BY <2>2, <2>3
<1>5. CASE MainStep
  <2>1. ASSUME NEW fd \in Fds, Accept(fd) PROVE Timer!Next
    <3>1. fd \notin timers /\ main # "tick" /\ main' # "tick"
      BY <2>1 DEF Accept, Handles, TimerPerConn
    <3>2. Left' = [u \in timers \union {fd} |-> IF u = fd THEN TTL ELSE Left[u]]
      BY <2>1 DEF TypeOK, Accept
    <3>3. Timer!Start(fd) BY <3>1, <3>2 DEF Timer!Start, Timer!Set
    <3> QED BY <3>3 DEF Timer!Next
  <2>2. ASSUME NEW fd \in Fds, HangupEvent(fd) PROVE Timer!Next
    <3>1. fd \in timers /\ main # "tick" /\ main' # "tick"
      BY <2>2 DEF HangupEvent, Takes, LookInv, TimerPerConn
    <3> QED BY <2>2, <3>1, <1>1 DEF HangupEvent
  <2>3. ASSUME NEW fd \in Fds, Tick(fd) PROVE Timer!Next
    <3>1. fd \in timers /\ main = "tick" /\ main' = "tick" /\ fd \in Due
      BY <2>3 DEF Tick, Expired
    <3>2. Left' = [u \in timers \ {fd} |-> Left[u]]
      BY <2>3 DEF TypeOK, Tick, DealTimer, DeleteTimer
    <3>3. Due' = Due \ {fd}
      BY <2>3, <3>1 DEF TypeOK, Tick, DealTimer, DeleteTimer, Expired
    <3>4. Timer!Fire(fd)
      BY <3>1, <3>2, <3>3 DEF Timer!Fire, Timer!Without, Timer!Set
    <3> QED BY <2>3, <3>4 DEF Timer!Next
  <2>4. CASE EndBatch
    <3>1. main = "batch" /\ UNCHANGED <<timers, ttl>> BY <2>4 DEF EndBatch
    <3>2. CASE main' = "tick"
      <4>1. Left' = Left /\ Due' = {t \in timers : Left[t] = 0}
        BY <3>1, <3>2 DEF Expired
      <4>2. Timer!TickBegin BY <3>1, <3>2, <4>1 DEF Timer!TickBegin, Timer!Set
      <4> QED BY <4>2 DEF Timer!Next
    <3>3. CASE main' # "tick" BY <1>0, <3>1, <3>3
    <3> QED BY <3>2, <3>3
  <2>5. CASE TickDone
    <3>1. /\ main = "tick" /\ main' # "tick" /\ Due = {} /\ Due' = {}
          /\ UNCHANGED <<timers, ttl>>
      BY <2>5 DEF TickDone, AfterLoop
    <3>2. Timer!TickEnd BY <3>1 DEF Timer!TickEnd
    <3> QED BY <3>2 DEF Timer!Next
  <2>6. CASE EpollWait \/ Refuse \/ AcceptError \/ DealWithSignal
    BY <2>6, <1>0 DEF EpollWait, Refuse, AcceptError, DealWithSignal, Handles
  <2>7. ASSUME NEW fd \in Fds, NEW e \in {"in", "out"}, NEW s, NEW at \in {"look", "spin"},
               Hands(fd, e, s, at)
        PROVE  Timer!Next
    <3>1. fd \in timers /\ main # "tick" /\ main' # "tick"
      BY <2>7 DEF Hands, LookInv, TimerPerConn
    <3> QED BY <2>7, <3>1, <1>2 DEF Hands
  <2>8. CASE Close
    <3>1. cur \in timers /\ main # "tick" /\ main' # "tick"
      BY <2>8 DEF Close, LookInv, TimerPerConn
    <3> QED BY <2>8, <3>1, <1>1 DEF Close
  <2>9. CASE LookImprov \/ LookFlag \/ Unflag \/ Reset
    BY <2>9, <1>0 DEF LookImprov, LookFlag, Unflag, Reset
  <2>10. ASSUME NEW fd \in Fds, DealWithRead(fd) \/ DealWithWrite(fd) PROVE Timer!Next
    BY <2>7, <2>10 DEF DealWithRead, DealWithWrite
  <2> QED BY <1>5, <2>1, <2>2, <2>3, <2>4, <2>5, <2>6, <2>8, <2>9, <2>10 DEF MainStep
<1>6. ASSUME NEW w \in Workers, WorkerStep(w)
      PROVE  UNCHANGED <<Left, main = "tick", Due>>
  <2>1. ~ Sigpipe(w) BY DEF Killed
  <2>2. UNCHANGED <<main, timers, ttl>>
    BY <1>6, <2>1 DEF WorkerStep, Take, Read, ReadFails, Process, Rearm, WriteAll,
                      WritePart, WriteLast, WriteFails, InitAgain, InitTimerFlag,
                      InitImprov, SetImprov, SetTimerFlag, Writes, WorkerOnly
  <2> QED BY <2>2, <1>0
<1> QED BY <1>3, <1>4, <1>5, <1>6 DEF Next

\* Reactor mode uses the timer list as proactor mode does, with two threads on
\* one connection or not: it starts a timer that is not set, restarts and
\* cancels one that is, never within a tick, and a tick closes what was due.
THEOREM ReactorTimersUsed == Spec => UsesTimerSet
<1>1. ReactorInit => LookInv /\ TimerPerConn
  BY FS_EmptySet DEF ReactorInit, Init, LookInv, TimerPerConn
<1>2. TypeOK /\ LookInv /\ TimerPerConn /\ [Next]_allVars
        => TypeOK' /\ LookInv' /\ TimerPerConn'
  BY ReactorTypeStep, ReactorTimerStep
<1>3. ReactorInit => Timer!Init BY DEF ReactorInit, Init, Timer!Init
<1>4. TypeOK /\ LookInv /\ TimerPerConn /\ [Next]_allVars
        => [Killed \/ Timer!Next \/ UNCHANGED Timer!vars]_allVars
  BY ReactorTimerUse
<1> QED BY <1>1, <1>2, <1>3, <1>4, ReactorTypeInit, PTL DEF Spec, UsesTimerSet
=============================================================================
