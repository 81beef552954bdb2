--------------------------- MODULE Proactor_proofs ---------------------------
(* Proofs about Proactor, for every value of its constants.                *)
EXTENDS Proactor, FiniteSetTheorems, TLAPS

USE FdsAssumption, BoundsAssumption, SwitchAssumption

\* The type invariant is inductive on its own: a step of each actor keeps it.
LEMMA TypeStep == TypeOK /\ [Next]_vars => TypeOK'
<1> USE DEF vars, netVars, sigVars, loopVars, bufVars, timerVars, poolVars
<1> SUFFICES ASSUME TypeOK, [Next]_vars PROVE TypeOK'
  OBVIOUS
<1>1. CASE Clients
  <2>1. CASE Connect BY <2>1 DEF TypeOK, Connect, Environment
  <2>2. CASE \E fd \in Fds : Send(fd) BY <2>2 DEF TypeOK, Send, Environment
  <2>3. CASE \E fd \in Fds : Hangup(fd) BY <2>3 DEF TypeOK, Hangup, Environment
  <2>4. CASE \E fd \in Fds : Drain(fd) BY <2>4 DEF TypeOK, Drain, Environment
  <2>5. CASE Terminate BY <2>5 DEF TypeOK, Terminate, Environment
  <2> QED BY <1>1, <2>1, <2>2, <2>3, <2>4, <2>5 DEF Clients
<1>2. CASE TimePasses
  <2>1. \A n \in 0..TTL : (IF n > 0 THEN n - 1 ELSE 0) \in 0..TTL OBVIOUS
  <2>2. ttl' \in [Fds -> 0..TTL] BY <1>2, <2>1 DEF TypeOK, TimePasses
  <2>3. sigpipe' \subseteq {"SIGALRM", "SIGTERM"} BY <1>2 DEF TypeOK, TimePasses
  <2> QED BY <1>2, <2>2, <2>3 DEF TypeOK, TimePasses, Environment
<1>3. CASE LoopStep
  <2>1. CASE EpollWait
    <3>1. \A fd \in Fds : Ready(fd) \in {"none", "in", "out", "hup"} BY DEF Ready
    <3>2. ReadyOthers \subseteq {"listen", "signal"} BY DEF ReadyOthers
    <3> QED BY <2>1, <3>1, <3>2 DEF TypeOK, EpollWait
  <2>2. ASSUME NEW fd \in Fds, Accept(fd) PROVE TypeOK'
    BY <2>2 DEF TypeOK, Accept, Handles
  <2>3. ASSUME NEW fd \in Fds, HangupEvent(fd) PROVE TypeOK'
    BY <2>3 DEF TypeOK, HangupEvent, Takes, DealTimer, CbFunc, DeleteTimer
  <2>4. ASSUME NEW fd \in Fds, Tick(fd) PROVE TypeOK'
    BY <2>4 DEF TypeOK, Tick, DealTimer, CbFunc, DeleteTimer
  <2>5. CASE Refuse BY <2>5 DEF TypeOK, Refuse, Handles
  <2>6. CASE AcceptError BY <2>6 DEF TypeOK, AcceptError, Handles
  <2>7. CASE DealWithSignal BY <2>7 DEF TypeOK, DealWithSignal, Handles
  <2>8. CASE EndBatch BY <2>8 DEF TypeOK, EndBatch, AfterLoop
  <2>9. CASE TickDone BY <2>9 DEF TypeOK, TickDone, AfterLoop
  <2> QED BY <1>3, <2>1, <2>2, <2>3, <2>4, <2>5, <2>6, <2>7, <2>8, <2>9 DEF LoopStep
<1>4. CASE ConnStep
  <2>1. ASSUME NEW fd \in Fds, ReadOnce(fd) PROVE TypeOK'
    <3>1. queue' \in Seq(Fds) /\ Len(queue') <= MaxRequests
      BY <2>1 DEF TypeOK, ReadOnce, AppendP
    <3>2. inbox' \in [Fds -> 0..MaxSegs] /\ m_read_idx' \in [Fds -> 0..BufSegs]
      BY <2>1 DEF TypeOK, ReadOnce, Min2
    <3> QED BY <2>1, <3>1, <3>2 DEF TypeOK, ReadOnce, Takes, AdjustTimer
  <2>2. ASSUME NEW fd \in Fds, ReadFails(fd) PROVE TypeOK'
    BY <2>2 DEF TypeOK, ReadFails, Takes, DealTimer, CbFunc, DeleteTimer
  <2>3. ASSUME NEW fd \in Fds, WriteAll(fd) PROVE TypeOK'
    BY <2>3 DEF TypeOK, WriteAll, Takes, Modfd, InitConn, AdjustTimer
  <2>4. ASSUME NEW fd \in Fds, WritePart(fd) PROVE TypeOK'
    BY <2>4 DEF TypeOK, WritePart, Takes, Modfd, AdjustTimer
  <2>5. ASSUME NEW fd \in Fds, WriteClose(fd) PROVE TypeOK'
    BY <2>5 DEF TypeOK, WriteClose, Takes, DealTimer, CbFunc, DeleteTimer
  <2>6. ASSUME NEW fd \in Fds, Sigpipe(fd) PROVE TypeOK'
    BY <2>6 DEF TypeOK, Sigpipe
  <2> QED BY <1>4, <2>1, <2>2, <2>3, <2>4, <2>5, <2>6 DEF ConnStep
<1>5. ASSUME NEW w \in Workers, WorkerStep(w) PROVE TypeOK'
  <2>1. CASE Take(w)
    <3>1. Head(queue) \in Fds /\ Tail(queue) \in Seq(Fds)
          /\ Len(Tail(queue)) <= MaxRequests
      BY <2>1 DEF TypeOK, Take
    <3> QED BY <2>1, <3>1 DEF TypeOK, Take
  <2>2. CASE Process(w)
    <3>1. bytes_to_send' \in [Fds -> 0..RespSegs] BY <2>2 DEF TypeOK, Process
    <3>2. wpc' \in [Workers -> {"idle", "process", "rearm_in", "rearm_out"}]
      BY <2>2 DEF TypeOK, Process
    <3> QED BY <2>2, <3>1, <3>2 DEF TypeOK, Process
  <2>3. CASE Rearm(w) BY <2>3 DEF TypeOK, Rearm, Modfd
  <2> QED BY <1>5, <2>1, <2>2, <2>3 DEF WorkerStep
<1>6. CASE Stopped BY <1>6 DEF TypeOK, Stopped
<1>7. CASE UNCHANGED vars BY <1>7 DEF TypeOK
<1> QED BY <1>1, <1>2, <1>3, <1>4, <1>5, <1>6, <1>7 DEF Next, MainStep

LEMMA TypeInit == Init => TypeOK
<1> SUFFICES ASSUME Init PROVE TypeOK OBVIOUS
<1>1. /\ event \in [Fds -> {"none", "in", "out", "hup"}]
      /\ armed \in [Fds -> {"none", "in", "out"}]
      /\ peer \in [Fds -> {"up", "stalled", "gone"}]
  BY DEF Init
<1>2. /\ inbox \in [Fds -> 0..MaxSegs] /\ ttl \in [Fds -> 0..TTL]
      /\ m_read_idx \in [Fds -> 0..BufSegs]
      /\ bytes_to_send \in [Fds -> 0..RespSegs]
  BY DEF Init
<1>3. /\ wpc \in [Workers -> {"idle", "process", "rearm_in", "rearm_out"}]
      /\ wfd \in [Workers -> Fds \union {None}]
  BY DEF Init
<1>4. queue \in Seq(Fds) /\ Len(queue) <= MaxRequests BY DEF Init
<1>5. /\ main \in {"wait", "batch", "tick", "stopped"}
      /\ other \subseteq {"listen", "signal"}
      /\ backlog \in 0..MaxBacklog
      /\ sigpipe \subseteq {"SIGALRM", "SIGTERM"}
      /\ open \subseteq Fds /\ timers \subseteq Fds /\ m_user_count \in Int
  BY DEF Init
<1>6. timeout \in BOOLEAN /\ stop_server \in BOOLEAN /\ alarm \in BOOLEAN
  BY Zenon DEF Init
<1> QED BY <1>1, <1>2, <1>3, <1>4, <1>5, <1>6 DEF TypeOK

\* TypeOK holds of every reachable state, whatever the numbers of
\* descriptors, threads and segments, with or without Timely.
THEOREM TypeCorrect == Spec => []TypeOK
BY TypeInit, TypeStep, PTL DEF Spec

-----------------------------------------------------------------------------
\* What Append and Tail do to the elements of a sequence.
LEMMA AppendElements ==
  ASSUME NEW S, NEW q \in Seq(S), NEW x \in S
  PROVE  /\ Len(q) \in Nat /\ DOMAIN q = 1..Len(q)
         /\ DOMAIN Append(q, x) = 1..(Len(q) + 1)
         /\ \A i \in 1..Len(q) : Append(q, x)[i] = q[i]
         /\ Append(q, x)[Len(q) + 1] = x
OBVIOUS

LEMMA TailElements ==
  ASSUME NEW S, NEW q \in Seq(S), q # <<>>
  PROVE  /\ Len(q) \in Nat \ {0} /\ DOMAIN q = 1..Len(q)
         /\ Head(q) \in S /\ q[1] = Head(q)
         /\ DOMAIN Tail(q) = 1..(Len(q) - 1)
         /\ \A i \in 1..(Len(q) - 1) : Tail(q)[i] = q[i + 1]
OBVIOUS

\* Closing a connection that no pool thread has leaves every other with its
\* owner.
LEMMA CloseStep ==
  ASSUME TypeOK, OneOwner, Handover, NEW fd \in Fds, DealTimer(fd), ~Busy(fd),
         UNCHANGED <<main, poolVars>>, event' = [event EXCEPT ![fd] = "none"]
  PROVE  OneOwner' /\ Handover'
<1>1. \A g \in Fds : g # fd => /\ Waiting(g)' <=> Waiting(g)
                               /\ Pending(g)' <=> Pending(g)
                               /\ g \in open' <=> g \in open
                               /\ ttl'[g] = ttl[g]
  BY DEF TypeOK, DealTimer, CbFunc, DeleteTimer, Waiting, Pending
<1>2. ~Waiting(fd)' /\ ~Pending(fd)'
  BY DEF TypeOK, DealTimer, CbFunc, DeleteTimer, Waiting, Pending
<1>3. \A g \in Fds : (Queued(g)' <=> Queued(g)) /\ (Held(g)' <=> Held(g))
  BY DEF poolVars, Queued, Held
<1>4. OneOwner' BY <1>1, <1>2, <1>3 DEF poolVars, OneOwner, Busy
<1>5. Handover'
  <2>1. \A u \in Workers : wpc'[u] = "idle" <=> wfd'[u] = None
    BY DEF Handover, poolVars
  <2>2. main' \in {"wait", "tick"} => \A g \in Fds : ~Pending(g)'
    BY <1>1, <1>2 DEF Handover
  <2>3. \A g \in Fds : Busy(g)' => ttl'[g] > 0
    BY <1>1, <1>3 DEF Handover, Busy
  <2> QED BY <2>1, <2>2, <2>3 DEF Handover
<1> QED BY <1>4, <1>5

LEMMA AppendStep ==
  ASSUME TypeOK, OneOwner, NEW fd \in Fds, AppendP(fd), ~Queued(fd)
  PROVE  /\ \A g \in Fds : g # fd => (Queued(g)' <=> Queued(g))
         /\ \A i, j \in DOMAIN queue' : queue'[i] = queue'[j] => i = j
<1>0. queue \in Seq(Fds) BY DEF TypeOK
<1>1. CASE queue' = queue BY <1>1 DEF Queued, OneOwner
<1>2. CASE queue' = Append(queue, fd)
  <2>1. /\ DOMAIN queue' = 1..(Len(queue) + 1) /\ DOMAIN queue = 1..Len(queue)
        /\ \A i \in 1..Len(queue) : queue'[i] = queue[i]
        /\ queue'[Len(queue) + 1] = fd /\ Len(queue) \in Nat
    BY <1>0, <1>2, AppendElements
  <2>2. \A g \in Fds : g # fd => (Queued(g)' <=> Queued(g))
    BY <2>1 DEF Queued
  <2>3. \A i \in 1..Len(queue) : queue[i] # fd BY <2>1 DEF Queued
  <2>4. \A i, j \in DOMAIN queue' : queue'[i] = queue'[j] => i = j
    <3>1. \A i, j \in 1..Len(queue) : queue[i] = queue[j] => i = j
      BY <2>1 DEF OneOwner
    <3> QED BY <2>1, <2>3, <3>1
  <2> QED BY <2>2, <2>4
<1> QED BY <1>1, <1>2 DEF AppendP

LEMMA TakeStep ==
  ASSUME TypeOK, OneOwner, NEW w \in Workers, Take(w)
  PROVE  /\ Head(queue) \in Fds /\ Queued(Head(queue))
         /\ \A g \in Fds : Queued(g)' <=> Queued(g) /\ g # Head(queue)
         /\ \A i, j \in DOMAIN queue' : queue'[i] = queue'[j] => i = j
<1>0. queue \in Seq(Fds) /\ queue # <<>> /\ queue' = Tail(queue)
  BY DEF TypeOK, Take
<1>1. /\ Len(queue) \in Nat \ {0} /\ DOMAIN queue = 1..Len(queue)
      /\ Head(queue) \in Fds /\ queue[1] = Head(queue)
      /\ DOMAIN queue' = 1..(Len(queue) - 1)
      /\ \A i \in 1..(Len(queue) - 1) : queue'[i] = queue[i + 1]
  BY <1>0, TailElements
<1>2. \A i, j \in 1..Len(queue) : queue[i] = queue[j] => i = j
  BY <1>1 DEF OneOwner
<1>3. Queued(Head(queue)) BY <1>1 DEF Queued
<1>4. \A g \in Fds : Queued(g)' <=> Queued(g) /\ g # Head(queue)
  <2> TAKE g \in Fds
  <2>1. ASSUME Queued(g), g # Head(queue) PROVE Queued(g)'
    <3>1. PICK i \in 1..Len(queue) : queue[i] = g BY <1>1, <2>1 DEF Queued
    <3>2. i - 1 \in 1..(Len(queue) - 1) /\ queue'[i - 1] = g BY <1>1, <2>1, <3>1
    <3> QED BY <1>1, <3>2 DEF Queued
  <2>2. ASSUME Queued(g)' PROVE Queued(g) /\ g # Head(queue)
    <3>1. PICK i \in 1..(Len(queue) - 1) : queue'[i] = g BY <1>1, <2>2 DEF Queued
    <3>2. i + 1 \in 1..Len(queue) /\ queue[i + 1] = g /\ i + 1 # 1 BY <1>1, <3>1
    <3> QED BY <1>1, <1>2, <3>2 DEF Queued
  <2> QED BY <2>1, <2>2
<1>5. \A i, j \in DOMAIN queue' : queue'[i] = queue'[j] => i = j
  BY <1>1, <1>2
<1> QED BY <1>1, <1>3, <1>4, <1>5

\* A step that moves no connection from one place to another.
LEMMA QuietStep ==
  ASSUME OneOwner, Handover, TypeOK,
         UNCHANGED <<event, armed, open, queue, wfd, ttl>>,
         \A w \in Workers : wpc'[w] = "idle" <=> wpc[w] = "idle",
         main' \in {"wait", "tick"} => \A g \in Fds : ~Pending(g)
  PROVE  OneOwner' /\ Handover'
<1>1. OneOwner' BY DEF OneOwner, Waiting, Pending, Busy, Queued, Held
<1>2. Handover' BY DEF Handover, Pending, Busy, Queued, Held
<1> QED BY <1>1, <1>2

\* The main thread takes an event off the batch and arms the connection.
LEMMA ArmStep ==
  ASSUME TypeOK, OneOwner, Handover, NEW fd \in Fds, NEW e \in {"in", "out"},
         Pending(fd), Takes(fd, event[fd]), Modfd(fd, e), AdjustTimer(fd),
         UNCHANGED <<open, poolVars>>
  PROVE  OneOwner' /\ Handover'
<1>1. \A g \in Fds : g # fd => /\ Waiting(g)' <=> Waiting(g)
                               /\ Pending(g)' <=> Pending(g)
                               /\ ttl'[g] = ttl[g]
  BY DEF TypeOK, Takes, Modfd, AdjustTimer, Waiting, Pending
<1>2. ~Pending(fd)' /\ fd \in open
  BY DEF TypeOK, Takes, Pending, OneOwner
<1>3. \A g \in Fds : (Queued(g)' <=> Queued(g)) /\ (Held(g)' <=> Held(g))
  BY DEF poolVars, Queued, Held
<1>4. ~Busy(fd) BY DEF OneOwner
<1>5. main = "batch" /\ main' = main BY DEF Takes
<1>6. OneOwner' BY <1>1, <1>2, <1>3, <1>4 DEF poolVars, OneOwner, Busy
<1>7. Handover'
  <2>1. \A u \in Workers : wpc'[u] = "idle" <=> wfd'[u] = None
    BY DEF Handover, poolVars
  <2>2. main' \notin {"wait", "tick"} BY <1>5
  <2>3. \A g \in Fds : Busy(g)' => ttl'[g] > 0
    BY <1>1, <1>3, <1>4 DEF Handover, Busy
  <2> QED BY <2>1, <2>2, <2>3 DEF Handover
<1> QED BY <1>6, <1>7

LEMMA ReadStep ==
  ASSUME TypeOK, OneOwner, Handover, NEW fd \in Fds, ReadOnce(fd)
  PROVE  OneOwner' /\ Handover'
<1>1. \A g \in Fds : g # fd => /\ Pending(g)' <=> Pending(g)
                               /\ ttl'[g] = ttl[g]
  BY DEF TypeOK, ReadOnce, Takes, AdjustTimer, Pending
<1>2. /\ ~Pending(fd)' /\ Pending(fd) /\ ttl'[fd] > 0
      /\ UNCHANGED <<armed, open, wpc, wfd, main>> /\ main = "batch"
  BY BoundsAssumption DEF TypeOK, ReadOnce, Takes, AdjustTimer, Pending
<1>3. ~Waiting(fd) /\ ~Busy(fd) /\ fd \in open BY <1>2 DEF OneOwner
<1>4. \A g \in Fds : Waiting(g)' <=> Waiting(g) BY <1>2 DEF Waiting
<1>5. \A g \in Fds : Held(g)' <=> Held(g) BY <1>2 DEF Held
<1>6. /\ \A g \in Fds : g # fd => (Queued(g)' <=> Queued(g))
      /\ \A i, j \in DOMAIN queue' : queue'[i] = queue'[j] => i = j
  BY <1>3, AppendStep DEF ReadOnce, Busy
<1>7. OneOwner' BY <1>1, <1>2, <1>3, <1>4, <1>5, <1>6 DEF OneOwner, Busy
<1>8. Handover'
  <2>1. \A g \in Fds : Busy(g)' => ttl'[g] > 0
    BY <1>1, <1>2, <1>5, <1>6 DEF Handover, Busy
  <2> QED BY <1>2, <2>1 DEF Handover
<1> QED BY <1>7, <1>8

LEMMA EpollStep ==
  ASSUME TypeOK, OneOwner, Handover, EpollWait
  PROVE  OneOwner' /\ Handover'
<1>1. \A g \in Fds : (Queued(g)' <=> Queued(g)) /\ (Held(g)' <=> Held(g))
  BY DEF EpollWait, poolVars, Queued, Held
<1>2. \A g \in Fds : ~Pending(g) BY DEF EpollWait, Handover
<1>3. \A g \in Fds : /\ ~(Waiting(g)' /\ Pending(g)')
                     /\ Waiting(g)' \/ Pending(g)' => Waiting(g)
  BY DEF TypeOK, EpollWait, Ready, Waiting, Pending
<1>4. OneOwner' BY <1>1, <1>2, <1>3 DEF EpollWait, poolVars, OneOwner, Busy
<1>5. Handover' BY <1>1 DEF EpollWait, poolVars, timerVars, Handover, Busy
<1> QED BY <1>4, <1>5

LEMMA AcceptStep ==
  ASSUME TypeOK, OneOwner, Handover, NEW fd \in Fds, Accept(fd)
  PROVE  OneOwner' /\ Handover'
<1>1. \A g \in Fds : (Queued(g)' <=> Queued(g)) /\ (Held(g)' <=> Held(g))
  BY DEF Accept, poolVars, Queued, Held
<1>2. fd \notin open /\ ~Waiting(fd) /\ ~Pending(fd) /\ ~Busy(fd)
  BY DEF Accept, OneOwner
<1>3. \A g \in Fds : Pending(g)' <=> Pending(g) BY DEF Accept, Pending
<1>4. \A g \in Fds : g # fd => /\ Waiting(g)' <=> Waiting(g)
                               /\ ttl'[g] = ttl[g]
  BY DEF TypeOK, Accept, Waiting
<1>5. OneOwner' BY <1>1, <1>2, <1>3, <1>4 DEF Accept, poolVars, OneOwner, Busy
<1>6. Handover'
  BY <1>1, <1>2, <1>3, <1>4 DEF Accept, poolVars, Handover, Busy
<1> QED BY <1>5, <1>6

LEMMA TakeOwner ==
  ASSUME TypeOK, OneOwner, Handover, NEW w \in Workers, Take(w)
  PROVE  OneOwner' /\ Handover'
<1> DEFINE fd == Head(queue)
<1>1. /\ fd \in Fds /\ Queued(fd)
      /\ \A g \in Fds : Queued(g)' <=> Queued(g) /\ g # fd
      /\ \A i, j \in DOMAIN queue' : queue'[i] = queue'[j] => i = j
  BY TakeStep
<1>2. /\ wfd[w] = None /\ wfd'[w] = fd /\ wpc'[w] = "process"
      /\ \A v \in Workers : v # w => wfd'[v] = wfd[v] /\ wpc'[v] = wpc[v]
  BY DEF TypeOK, Take, Handover
<1>3. \A g \in Fds : Held(g)' <=> Held(g) \/ g = fd
  BY <1>1, <1>2, FdsAssumption DEF Held
<1>4. UNCHANGED <<event, armed, open, ttl, main>>
  BY DEF Take, loopVars, timerVars
<1>5. \A g \in Fds : (Waiting(g)' <=> Waiting(g)) /\ (Pending(g)' <=> Pending(g))
  BY <1>4 DEF Waiting, Pending
<1>6. \A g \in Fds : Busy(g)' <=> Busy(g) BY <1>1, <1>3 DEF Busy
<1>7. OneOwner'
  <2>1. ~Held(fd) BY <1>1 DEF OneOwner
  <2>2. \A u, v \in Workers : wfd'[u] = wfd'[v] /\ wfd'[u] # None => u = v
    BY <1>2, <2>1 DEF OneOwner, Held
  <2>3. \A g \in Fds : Queued(g)' => ~Held(g)' BY <1>1, <1>3 DEF OneOwner
  <2> QED BY <1>1, <1>4, <1>5, <1>6, <2>2, <2>3 DEF OneOwner
<1>8. Handover'
  <2>1. fd # None BY <1>1, FdsAssumption
  <2> QED BY <1>2, <1>4, <1>5, <1>6, <2>1 DEF Handover
<1> QED BY <1>7, <1>8

LEMMA RearmOwner ==
  ASSUME TypeOK, OneOwner, Handover, NEW w \in Workers, Rearm(w)
  PROVE  OneOwner' /\ Handover'
<1> DEFINE fd == wfd[w]
<1>1. fd \in Fds /\ Held(fd) BY DEF TypeOK, Rearm, Handover, Held
<1>2. /\ wfd'[w] = None /\ wpc'[w] = "idle"
      /\ \A v \in Workers : v # w => wfd'[v] = wfd[v] /\ wpc'[v] = wpc[v]
  BY DEF TypeOK, Rearm
<1>3. \A g \in Fds : Held(g)' <=> Held(g) /\ g # fd
  BY <1>1, <1>2, FdsAssumption DEF Held, OneOwner
<1>4. UNCHANGED <<event, open, ttl, main, queue>>
  BY DEF Rearm, loopVars, timerVars
<1>5. \A g \in Fds : (Queued(g)' <=> Queued(g)) /\ (Pending(g)' <=> Pending(g))
  BY <1>4 DEF Queued, Pending
<1>6. \A g \in Fds : g # fd => (Waiting(g)' <=> Waiting(g))
  BY <1>1 DEF TypeOK, Rearm, Modfd, Waiting
<1>7. ~Pending(fd) /\ ~Queued(fd) /\ fd \in open BY <1>1 DEF OneOwner, Busy
<1>8. OneOwner'
  <2>1. \A u, v \in Workers : wfd'[u] = wfd'[v] /\ wfd'[u] # None => u = v
    BY <1>2 DEF OneOwner
  <2>2. \A g \in Fds : Waiting(g)' \/ Pending(g)' \/ Busy(g)' => g \in open'
    BY <1>3, <1>4, <1>5, <1>6, <1>7 DEF OneOwner, Busy
  <2>3. \A g \in Fds : Busy(g)' => ~Waiting(g)' /\ ~Pending(g)'
    BY <1>3, <1>5, <1>6, <1>7 DEF OneOwner, Busy
  <2> QED BY <1>3, <1>4, <1>5, <1>6, <1>7, <2>1, <2>2, <2>3 DEF OneOwner
<1>9. Handover' BY <1>2, <1>3, <1>4, <1>5 DEF Handover, Busy
<1> QED BY <1>8, <1>9

\* The pool and the loop hand every connection over whole, as long as no
\* request outlives its timer.
LEMMA OwnerStep ==
  ASSUME Timely, TypeOK, OneOwner, Handover, [Next]_vars
  PROVE  OneOwner' /\ Handover'
<1> USE DEF vars, netVars, sigVars, loopVars, bufVars, timerVars, poolVars
<1>1. CASE Clients
  <2>1. UNCHANGED <<main, event, armed, open, queue, wpc, wfd, ttl>>
    BY <1>1 DEF Clients, Connect, Send, Hangup, Drain, Terminate, Environment
  <2> QED BY <2>1, QuietStep DEF Handover
<1>2. CASE TimePasses
  <2>1. \A fd \in Fds : Busy(fd) => ttl'[fd] > 0
    BY <1>2 DEF TypeOK, TimePasses
  <2>2. UNCHANGED <<main, event, armed, open, queue, wpc, wfd>>
    BY <1>2 DEF TimePasses, Environment
  <2>3. OneOwner' BY <2>2 DEF OneOwner, Waiting, Pending, Busy, Queued, Held
  <2>4. Handover' BY <2>1, <2>2 DEF Handover, Pending, Busy, Queued, Held
  <2> QED BY <2>3, <2>4
<1>3. CASE LoopStep
  <2>1. CASE EpollWait BY <2>1, EpollStep
  <2>2. ASSUME NEW fd \in Fds, Accept(fd) PROVE OneOwner' /\ Handover'
    BY <2>2, AcceptStep
  <2>3. ASSUME NEW fd \in Fds, HangupEvent(fd) PROVE OneOwner' /\ Handover'
    <3>1. DealTimer(fd) /\ UNCHANGED <<main, poolVars>>
          /\ event' = [event EXCEPT ![fd] = "none"]
      BY <2>3 DEF HangupEvent, Takes
    <3>2. ~Busy(fd) BY <2>3 DEF HangupEvent, Takes, OneOwner, Pending
    <3> QED BY <3>1, <3>2, CloseStep
  <2>4. ASSUME NEW fd \in Fds, Tick(fd) PROVE OneOwner' /\ Handover'
    <3>1. DealTimer(fd) /\ UNCHANGED <<main, poolVars>> BY <2>4 DEF Tick
    <3>2. ~Busy(fd) BY <2>4 DEF Tick, Expired, Handover
    <3>3. event' = [event EXCEPT ![fd] = "none"]
      <4>1. event' = event /\ event[fd] = "none"
        BY <2>4 DEF Tick, Handover, Pending
      <4> QED BY <4>1 DEF TypeOK
    <3> QED BY <3>1, <3>2, <3>3, CloseStep
  <2>5. CASE Refuse BY <2>5, QuietStep DEF Refuse, Handles
  <2>6. CASE AcceptError BY <2>6, QuietStep DEF AcceptError, Handles
  <2>7. CASE DealWithSignal BY <2>7, QuietStep DEF DealWithSignal, Handles
  <2>8. CASE EndBatch BY <2>8, QuietStep DEF EndBatch, Pending
  <2>9. CASE TickDone
    <3>1. \A g \in Fds : ~Pending(g) BY <2>9 DEF TickDone, Handover
    <3> QED BY <2>9, <3>1, QuietStep DEF TickDone
  <2> QED BY <1>3, <2>1, <2>2, <2>3, <2>4, <2>5, <2>6, <2>7, <2>8, <2>9 DEF LoopStep
<1>4. CASE ConnStep
  <2>1. ASSUME NEW fd \in Fds, ReadOnce(fd) PROVE OneOwner' /\ Handover'
    BY <2>1, ReadStep
  <2>2. ASSUME NEW fd \in Fds, ReadFails(fd) \/ WriteClose(fd)
        PROVE OneOwner' /\ Handover'
    <3>1. DealTimer(fd) /\ UNCHANGED <<main, poolVars>>
          /\ event' = [event EXCEPT ![fd] = "none"]
      BY <2>2 DEF ReadFails, WriteClose, Takes
    <3>2. ~Busy(fd) BY <2>2 DEF ReadFails, WriteClose, Takes, OneOwner, Pending
    <3> QED BY <3>1, <3>2, CloseStep
  <2>3. ASSUME NEW fd \in Fds, WriteAll(fd) PROVE OneOwner' /\ Handover'
    <3>1. Takes(fd, event[fd]) /\ Pending(fd) BY <2>3 DEF WriteAll, Takes, Pending
    <3> QED BY <2>3, <3>1, ArmStep DEF WriteAll
  <2>4. ASSUME NEW fd \in Fds, WritePart(fd) PROVE OneOwner' /\ Handover'
    <3>1. Takes(fd, event[fd]) /\ Pending(fd) BY <2>4 DEF WritePart, Takes, Pending
    <3> QED BY <2>4, <3>1, ArmStep DEF WritePart
  <2>5. ASSUME NEW fd \in Fds, Sigpipe(fd) PROVE OneOwner' /\ Handover'
    <3>1. UNCHANGED <<event, armed, open, queue, wpc, wfd, ttl>> /\ main' = "stopped"
      BY <2>5 DEF Sigpipe
    <3> QED BY <3>1, QuietStep
  <2> QED BY <1>4, <2>1, <2>2, <2>3, <2>4, <2>5 DEF ConnStep
<1>5. ASSUME NEW w \in Workers, WorkerStep(w) PROVE OneOwner' /\ Handover'
  <2>1. CASE Take(w) BY <2>1, TakeOwner
  <2>2. CASE Process(w)
    <3>1. UNCHANGED <<main, event, armed, open, queue, wfd, ttl>>
      BY <2>2 DEF Process
    <3>2. \A v \in Workers : wpc'[v] = "idle" <=> wpc[v] = "idle"
      BY <2>2 DEF TypeOK, Process
    <3> QED BY <3>1, <3>2, QuietStep DEF Handover
  <2>3. CASE Rearm(w) BY <2>3, RearmOwner
  <2> QED BY <1>5, <2>1, <2>2, <2>3 DEF WorkerStep
<1>6. CASE Stopped \/ UNCHANGED vars
  <2>1. UNCHANGED <<main, event, armed, open, queue, wpc, wfd, ttl>>
    BY <1>6 DEF Stopped
  <2> QED BY <2>1, QuietStep DEF Handover
<1> QED BY <1>1, <1>2, <1>3, <1>4, <1>5, <1>6 DEF Next, MainStep

LEMMA OwnerInit == Init => OneOwner /\ Handover
BY FdsAssumption DEF Init, OneOwner, Handover, Waiting, Pending, Busy, Queued, Held

LEMMA HandedOver == ASSUME Timely PROVE Spec => [](TypeOK /\ OneOwner /\ Handover)
<1>1. Init => TypeOK /\ OneOwner /\ Handover BY TypeInit, OwnerInit
<1>2. TypeOK /\ OneOwner /\ Handover /\ [Next]_vars
        => TypeOK' /\ OneOwner' /\ Handover'
  BY TypeStep, OwnerStep
<1> QED BY <1>1, <1>2, PTL DEF Spec

\* Mutual exclusion on connections: if requests leave the pool before their
\* timers expire, then for any number of descriptors, threads and requests
\* a connection is in epoll, in the batch, in the queue or with one thread,
\* never in two of them, and only while it is open.
THEOREM OwnerCorrect == ASSUME Timely PROVE Spec => []OneOwner
BY HandedOver, PTL

\* The facts the hand-over rests on hold as well.
THEOREM HandoverCorrect == ASSUME Timely PROVE Spec => []Handover
BY HandedOver, PTL

\* Under the same assumption no step closes a connection whose request is in
\* the pool: what cuts it off is an event, and then it has no request there,
\* or an expired timer, and then it is not busy.
THEOREM ClosedOnlyInactive == ASSUME Timely PROVE Spec => OnlyInactiveClosed
<1>1. TypeOK /\ OneOwner /\ Handover /\ [Next]_vars
        => [\A fd \in Fds : Busy(fd) => (fd \in open => fd \in open')]_vars
  <2> USE DEF vars, netVars, sigVars, loopVars, bufVars, timerVars, poolVars
  <2> SUFFICES ASSUME OneOwner, Handover, Next, NEW g \in Fds, Busy(g), g \in open
               PROVE  g \in open'
    OBVIOUS
  <2>1. CASE Clients
    BY <2>1 DEF Clients, Connect, Send, Hangup, Drain, Terminate, Environment
  <2>2. CASE TimePasses BY <2>2 DEF TimePasses, Environment
  <2>3. CASE LoopStep
    <3>1. ASSUME NEW fd \in Fds, HangupEvent(fd) PROVE g \in open'
      BY <3>1 DEF HangupEvent, Takes, DealTimer, CbFunc, OneOwner, Pending
    <3>2. ASSUME NEW fd \in Fds, Tick(fd) PROVE g \in open'
      BY <3>2 DEF Tick, Expired, DealTimer, CbFunc, Handover
    <3>3. ASSUME NEW fd \in Fds, Accept(fd) PROVE g \in open' BY <3>3 DEF Accept
    <3>4. CASE EpollWait \/ Refuse \/ AcceptError \/ DealWithSignal \/ EndBatch \/ TickDone
      BY <3>4 DEF EpollWait, Refuse, AcceptError, DealWithSignal, EndBatch, TickDone
    <3> QED BY <2>3, <3>1, <3>2, <3>3, <3>4 DEF LoopStep
  <2>4. CASE ConnStep
    <3>1. ASSUME NEW fd \in Fds, ReadFails(fd) \/ WriteClose(fd) PROVE g \in open'
      BY <3>1 DEF ReadFails, WriteClose, Takes, DealTimer, CbFunc, OneOwner, Pending
    <3>2. ASSUME NEW fd \in Fds,
                 ReadOnce(fd) \/ WriteAll(fd) \/ WritePart(fd) \/ Sigpipe(fd)
          PROVE  g \in open'
      BY <3>2 DEF ReadOnce, WriteAll, WritePart, Sigpipe
    <3> QED BY <2>4, <3>1, <3>2 DEF ConnStep
  <2>5. CASE \E w \in Workers : WorkerStep(w)
    BY <2>5 DEF WorkerStep, Take, Process, Rearm
  <2>6. CASE Stopped BY <2>6 DEF Stopped
  <2> QED BY <2>1, <2>2, <2>3, <2>4, <2>5, <2>6 DEF Next, MainStep
<1> QED BY <1>1, HandedOver, PTL DEF Spec, OnlyInactiveClosed

-----------------------------------------------------------------------------
\* Only open connections have events, and none is left over when the batch
\* is done.  This needs no assumption about time.
LoopInv ==
  /\ \A fd \in Fds : Pending(fd) => fd \in open
  /\ main \in {"wait", "tick"} => \A fd \in Fds : ~Pending(fd)

\* Closing an open connection takes its timer and its count with it.
LEMMA CloseCounts ==
  ASSUME TypeOK, TimerPerConn, NEW fd \in open, DealTimer(fd)
  PROVE  TimerPerConn'
<1>1. IsFiniteSet(open) BY FdsAssumption, FS_Subset DEF TypeOK
<1>2. Cardinality(open \ {fd}) = Cardinality(open) - 1
  BY <1>1, FS_RemoveElement
<1> QED BY <1>2 DEF TimerPerConn, DealTimer, CbFunc, DeleteTimer

LEMMA AcceptCounts ==
  ASSUME TypeOK, TimerPerConn, NEW fd \in Fds, Accept(fd)
  PROVE  TimerPerConn'
<1>1. IsFiniteSet(open) BY FdsAssumption, FS_Subset DEF TypeOK
<1>2. Cardinality(open \union {fd}) = Cardinality(open) + 1
  BY <1>1, FS_AddElement DEF Accept
<1> QED BY <1>2 DEF TimerPerConn, Accept

LEMMA TimerStep ==
  ASSUME TypeOK, LoopInv, TimerPerConn, [Next]_vars
  PROVE  LoopInv' /\ TimerPerConn'
<1> USE DEF vars, netVars, sigVars, loopVars, bufVars, timerVars, poolVars
<1>0. ASSUME UNCHANGED <<event, open, timers, m_user_count>>,
             main' \in {"wait", "tick"} => \A g \in Fds : ~Pending(g)
      PROVE  LoopInv' /\ TimerPerConn'
  BY <1>0 DEF LoopInv, TimerPerConn, Pending
<1>1. CASE Clients
  <2>1. UNCHANGED <<main, event, open, timers, m_user_count>>
    BY <1>1 DEF Clients, Connect, Send, Hangup, Drain, Terminate, Environment
  <2> QED BY <2>1, <1>0 DEF LoopInv
<1>2. CASE TimePasses BY <1>0, <1>2 DEF TimePasses, Environment, LoopInv
<1>3. ASSUME NEW fd \in Fds, NEW e, Takes(fd, e), e # "none" PROVE LoopInv' \/ open' # open
  BY <1>3 DEF TypeOK, LoopInv, Takes, Pending
<1>4. ASSUME NEW fd \in Fds, NEW e, Takes(fd, e), e # "none", DealTimer(fd)
      PROVE  LoopInv' /\ TimerPerConn'
  <2>1. fd \in open /\ main' = "batch" BY <1>4 DEF LoopInv, Takes, Pending
  <2>2. LoopInv' BY <1>4, <2>1 DEF TypeOK, LoopInv, Takes, DealTimer, CbFunc, Pending
  <2> QED BY <1>4, <2>1, <2>2, CloseCounts
<1>5. ASSUME NEW fd \in Fds, NEW e, Takes(fd, e), e # "none",
             UNCHANGED <<open, timers, m_user_count>>
      PROVE  LoopInv' /\ TimerPerConn'
  BY <1>3, <1>5 DEF TimerPerConn
<1>6. CASE LoopStep
  <2>1. CASE EpollWait
    <3>1. LoopInv' BY <2>1 DEF TypeOK, LoopInv, EpollWait, Ready, Pending
    <3> QED BY <2>1, <3>1 DEF EpollWait, TimerPerConn
  <2>2. ASSUME NEW fd \in Fds, Accept(fd) PROVE LoopInv' /\ TimerPerConn'
    <3>1. LoopInv' BY <2>2 DEF LoopInv, Accept, Handles, Pending
    <3> QED BY <2>2, <3>1, AcceptCounts
  <2>3. ASSUME NEW fd \in Fds, HangupEvent(fd) PROVE LoopInv' /\ TimerPerConn'
    BY <2>3, <1>4 DEF HangupEvent
  <2>4. ASSUME NEW fd \in Fds, Tick(fd) PROVE LoopInv' /\ TimerPerConn'
    <3>1. fd \in open BY <2>4 DEF Tick, Expired, TimerPerConn
    <3>2. LoopInv'
      BY <2>4 DEF Tick, DealTimer, CbFunc, LoopInv, Pending
    <3> QED BY <2>4, <3>1, <3>2, CloseCounts DEF Tick
  <2>5. CASE Refuse BY <2>5, <1>0 DEF Refuse, Handles
  <2>6. CASE AcceptError BY <2>6, <1>0 DEF AcceptError, Handles
  <2>7. CASE DealWithSignal BY <2>7, <1>0 DEF DealWithSignal, Handles
  <2>8. CASE EndBatch BY <2>8, <1>0 DEF EndBatch, Pending
  <2>9. CASE TickDone BY <2>9, <1>0 DEF TickDone, LoopInv
  <2> QED BY <1>6, <2>1, <2>2, <2>3, <2>4, <2>5, <2>6, <2>7, <2>8, <2>9 DEF LoopStep
<1>7. CASE ConnStep
  <2>1. ASSUME NEW fd \in Fds, ReadFails(fd) PROVE LoopInv' /\ TimerPerConn'
    BY <2>1, <1>4 DEF ReadFails
  <2>2. ASSUME NEW fd \in Fds, WriteClose(fd) PROVE LoopInv' /\ TimerPerConn'
    BY <2>2, <1>4 DEF WriteClose
  <2>3. ASSUME NEW fd \in Fds, ReadOnce(fd) PROVE LoopInv' /\ TimerPerConn'
    BY <2>3, <1>5 DEF ReadOnce, AdjustTimer
  <2>4. ASSUME NEW fd \in Fds, WriteAll(fd) PROVE LoopInv' /\ TimerPerConn'
    BY <2>4, <1>5 DEF WriteAll, AdjustTimer
  <2>5. ASSUME NEW fd \in Fds, WritePart(fd) PROVE LoopInv' /\ TimerPerConn'
    BY <2>5, <1>5 DEF WritePart, AdjustTimer
  <2>6. ASSUME NEW fd \in Fds, Sigpipe(fd) PROVE LoopInv' /\ TimerPerConn'
    BY <2>6, <1>0 DEF Sigpipe
  <2> QED BY <1>7, <2>1, <2>2, <2>3, <2>4, <2>5, <2>6 DEF ConnStep
<1>8. CASE \E w \in Workers : WorkerStep(w)
  <2>1. UNCHANGED <<main, event, open, timers, m_user_count>>
    BY <1>8 DEF WorkerStep, Take, Process, Rearm
  <2> QED BY <2>1, <1>0 DEF LoopInv
<1>9. CASE Stopped \/ UNCHANGED vars
  <2>1. UNCHANGED <<main, event, open, timers, m_user_count>> BY <1>9 DEF Stopped
  <2> QED BY <2>1, <1>0 DEF LoopInv
<1> QED BY <1>1, <1>2, <1>6, <1>7, <1>8, <1>9 DEF Next, MainStep

\* Bookkeeping of connections: always, even when requests outlive their
\* timers and descriptors are reused under a pool thread, the timers are
\* those of the open connections and m_user_count is their number.
THEOREM TimersCorrect == Spec => []TimerPerConn
<1>1. Init => LoopInv /\ TimerPerConn
  BY FS_EmptySet DEF Init, LoopInv, TimerPerConn, Pending
<1>2. TypeOK /\ LoopInv /\ TimerPerConn /\ [Next]_vars
        => TypeOK' /\ LoopInv' /\ TimerPerConn'
  BY TypeStep, TimerStep
<1> QED BY <1>1, <1>2, TypeInit, PTL DEF Spec

-----------------------------------------------------------------------------
\* A connection that is not being read after a step, or was before and kept
\* its length, or has nothing to send, is as Alternate asks.
LEMMA AlternateStep ==
  ASSUME Timely, TypeOK, OneOwner, Handover, Alternate, [Next]_vars
  PROVE  Alternate'
<1> USE DEF vars, netVars, sigVars, loopVars, bufVars, timerVars, poolVars
<1>0. ASSUME UNCHANGED <<armed, event, queue, wpc, wfd, bytes_to_send>>
      PROVE  Alternate'
  BY <1>0 DEF Alternate, Reading, Queued
<1>1. CASE Clients
  BY <1>1, <1>0 DEF Clients, Connect, Send, Hangup, Drain, Terminate, Environment
<1>2. CASE TimePasses BY <1>2, <1>0 DEF TimePasses, Environment
<1>3. ASSUME NEW fd \in Fds, DealTimer(fd), ~Busy(fd), UNCHANGED poolVars,
             event' = [event EXCEPT ![fd] = "none"],
             \A g \in Fds : g # fd => bytes_to_send'[g] = bytes_to_send[g]
      PROVE  Alternate'
  <2>1. ~Reading(fd)'
    BY <1>3 DEF TypeOK, DealTimer, CbFunc, Reading, Busy, Queued, Held
  <2>2. \A g \in Fds : g # fd => (Reading(g)' <=> Reading(g))
    BY <1>3 DEF TypeOK, DealTimer, CbFunc, Reading, Queued
  <2> QED BY <1>3, <2>1, <2>2 DEF Alternate
<1>4. CASE LoopStep
  <2>1. CASE EpollWait
    <3>1. \A g \in Fds : Reading(g)' => Reading(g)
      BY <2>1 DEF TypeOK, EpollWait, Ready, Reading, Queued
    <3> QED BY <2>1, <3>1 DEF EpollWait, Alternate
  <2>2. ASSUME NEW fd \in Fds, Accept(fd) PROVE Alternate'
    <3>1. bytes_to_send'[fd] = 0 BY <2>2 DEF TypeOK, Accept
    <3>2. \A g \in Fds : g # fd => /\ Reading(g)' => Reading(g)
                                   /\ bytes_to_send'[g] = bytes_to_send[g]
      BY <2>2 DEF TypeOK, Accept, Handles, Reading, Queued
    <3> QED BY <3>1, <3>2 DEF Alternate
  <2>3. ASSUME NEW fd \in Fds, HangupEvent(fd) PROVE Alternate'
    <3>1. ~Busy(fd) BY <2>3 DEF HangupEvent, Takes, OneOwner, Pending
    <3> QED BY <2>3, <3>1, <1>3 DEF HangupEvent, Takes
  <2>4. ASSUME NEW fd \in Fds, Tick(fd) PROVE Alternate'
    <3>1. ~Busy(fd) BY <2>4 DEF Tick, Expired, Handover
    <3>2. event' = event /\ event[fd] = "none"
      BY <2>4 DEF Tick, Handover, Pending
    <3>3. event' = [event EXCEPT ![fd] = "none"] BY <3>2 DEF TypeOK
    <3> QED BY <2>4, <3>1, <3>3, <1>3 DEF Tick
  <2>5. CASE Refuse BY <2>5, <1>0 DEF Refuse, Handles
  <2>6. CASE AcceptError BY <2>6, <1>0 DEF AcceptError, Handles
  <2>7. CASE DealWithSignal BY <2>7, <1>0 DEF DealWithSignal, Handles
  <2>8. CASE EndBatch \/ TickDone BY <2>8, <1>0 DEF EndBatch, TickDone
  <2> QED BY <1>4, <2>1, <2>2, <2>3, <2>4, <2>5, <2>6, <2>7, <2>8 DEF LoopStep
<1>5. CASE ConnStep
  <2>1. ASSUME NEW fd \in Fds, ReadOnce(fd) PROVE Alternate'
    <3>1. Reading(fd) /\ ~Queued(fd)
      BY <2>1 DEF ReadOnce, Takes, Reading, OneOwner, Busy, Pending
    <3>2. \A g \in Fds : g # fd => (Queued(g)' <=> Queued(g))
      BY <2>1, <3>1, AppendStep DEF ReadOnce
    <3>3. \A g \in Fds : Reading(g)' => Reading(g)
      BY <2>1, <3>1, <3>2 DEF TypeOK, ReadOnce, Takes, Reading
    <3> QED BY <2>1, <3>3 DEF ReadOnce, Alternate
  <2>2. ASSUME NEW fd \in Fds, ReadFails(fd) PROVE Alternate'
    <3>1. ~Busy(fd) BY <2>2 DEF ReadFails, Takes, OneOwner, Pending
    <3> QED BY <2>2, <3>1, <1>3 DEF ReadFails, Takes
  <2>3. ASSUME NEW fd \in Fds, WriteClose(fd) PROVE Alternate'
    <3>1. ~Busy(fd) BY <2>3 DEF WriteClose, Takes, OneOwner, Pending
    <3>2. \A g \in Fds : g # fd => bytes_to_send'[g] = bytes_to_send[g]
      BY <2>3 DEF TypeOK, WriteClose
    <3> QED BY <2>3, <3>1, <3>2, <1>3 DEF WriteClose, Takes
  <2>4. ASSUME NEW fd \in Fds, WriteAll(fd) PROVE Alternate'
    <3>1. bytes_to_send'[fd] = 0 BY <2>4 DEF TypeOK, WriteAll, InitConn
    <3>2. \A g \in Fds : g # fd => /\ Reading(g)' => Reading(g)
                                   /\ bytes_to_send'[g] = bytes_to_send[g]
      BY <2>4 DEF TypeOK, WriteAll, Takes, Modfd, InitConn, Reading, Queued
    <3> QED BY <3>1, <3>2 DEF Alternate
  <2>5. ASSUME NEW fd \in Fds, WritePart(fd) PROVE Alternate'
    <3>1. ~Busy(fd) /\ ~Waiting(fd) /\ fd \in open
      BY <2>5 DEF WritePart, Takes, OneOwner, Pending
    <3>2. ~Reading(fd)'
      BY <2>5, <3>1 DEF TypeOK, WritePart, Takes, Modfd, Reading, Busy, Queued, Held
    <3>3. \A g \in Fds : g # fd => /\ Reading(g)' => Reading(g)
                                   /\ bytes_to_send'[g] = bytes_to_send[g]
      BY <2>5 DEF TypeOK, WritePart, Takes, Modfd, Reading, Queued
    <3> QED BY <3>2, <3>3 DEF Alternate
  <2>6. ASSUME NEW fd \in Fds, Sigpipe(fd) PROVE Alternate'
    BY <2>6, <1>0 DEF Sigpipe
  <2> QED BY <1>5, <2>1, <2>2, <2>3, <2>4, <2>5, <2>6 DEF ConnStep
<1>6. ASSUME NEW w \in Workers, WorkerStep(w) PROVE Alternate'
  <2>1. CASE Take(w)
    <3>1. /\ Head(queue) \in Fds /\ Queued(Head(queue))
          /\ \A g \in Fds : Queued(g)' <=> Queued(g) /\ g # Head(queue)
      BY <2>1, TakeStep
    <3>2. \A g \in Fds : Reading(g)' => Reading(g)
      BY <2>1, <3>1 DEF TypeOK, Take, Reading
    <3> QED BY <2>1, <3>2 DEF Take, Alternate
  <2>2. CASE Process(w)
    <3>1. CASE UNCHANGED bytes_to_send
      <4>1. \A g \in Fds : Reading(g)' => Reading(g)
        BY <2>2, <3>1 DEF TypeOK, Process, Reading, Queued
      <4> QED BY <3>1, <4>1 DEF Alternate
    <3>2. CASE wpc' = [wpc EXCEPT ![w] = "rearm_out"]
      <4>1. PICK fd \in Fds : fd = wfd[w]
        BY <2>2 DEF TypeOK, Process, Handover
      <4>2. Held(fd) /\ \A v \in Workers : wfd[v] = fd => v = w
        BY <4>1, FdsAssumption DEF OneOwner, Held
      <4>3. ~Reading(fd)'
        BY <2>2, <3>2, <4>1, <4>2
        DEF TypeOK, Process, Reading, OneOwner, Busy, Waiting, Pending, Queued
      <4>4. \A g \in Fds : g # fd => /\ Reading(g)' => Reading(g)
                                     /\ bytes_to_send'[g] = bytes_to_send[g]
        BY <2>2, <3>2, <4>1 DEF TypeOK, Process, Reading, Queued
      <4> QED BY <4>3, <4>4 DEF Alternate
    <3>3. UNCHANGED bytes_to_send \/ wpc' = [wpc EXCEPT ![w] = "rearm_out"]
      BY <2>2 DEF Process
    <3> QED BY <3>1, <3>2, <3>3
  <2>3. CASE Rearm(w)
    <3>1. wfd[w] \in Fds BY <2>3 DEF TypeOK, Rearm, Handover
    <3>2. \A v \in Workers : v # w => wpc'[v] = wpc[v] /\ wfd'[v] = wfd[v]
      BY <2>3 DEF TypeOK, Rearm
    <3>3. wfd'[w] = None /\ UNCHANGED <<queue, event>>
      BY <2>3 DEF TypeOK, Rearm
    <3>4. ASSUME NEW g \in Fds, armed'[g] = "in", armed[g] # "in"
          PROVE  g = wfd[w] /\ wpc[w] = "rearm_in"
      <4>1. armed' = [armed EXCEPT ![wfd[w]] =
                        IF wpc[w] = "rearm_in" THEN "in" ELSE "out"]
        BY <2>3, <3>4 DEF Rearm, Modfd
      <4>2. g = wfd[w] BY <3>4, <4>1 DEF TypeOK
      <4> QED BY <3>1, <3>4, <4>1, <4>2 DEF TypeOK
    <3>5. \A g \in Fds : Reading(g)' => Reading(g)
      BY <3>2, <3>3, <3>4, FdsAssumption DEF Reading, Queued
    <3> QED BY <2>3, <3>5 DEF Rearm, Alternate
  <2> QED BY <1>6, <2>1, <2>2, <2>3 DEF WorkerStep
<1>7. CASE Stopped \/ UNCHANGED vars BY <1>7, <1>0 DEF Stopped
<1> QED BY <1>1, <1>2, <1>4, <1>5, <1>6, <1>7 DEF Next, MainStep

\* Request and response alternate on every connection, for any numbers of
\* segments, threads and connections, while requests stay within their
\* timers.
THEOREM AlternateCorrect == ASSUME Timely PROVE Spec => []Alternate
<1>1. Init => Alternate
  BY DEF Init, Alternate
<1>2. TypeOK /\ OneOwner /\ Handover /\ Alternate /\ [Next]_vars => Alternate'
  BY AlternateStep
<1> QED BY <1>1, <1>2, HandedOver, PTL DEF Spec

-----------------------------------------------------------------------------
\* The queue and the threads' requests change by steps of WorkQueue only.
LEMMA QueueStep ==
  ASSUME TypeOK, OneOwner, Handover, [Next]_vars
  PROVE  [Pool!Next]_(Pool!vars)
<1> USE DEF vars, netVars, sigVars, loopVars, bufVars, timerVars, poolVars
<1> SUFFICES ASSUME Next PROVE Pool!Next \/ UNCHANGED <<queue, wfd>>
  BY DEF Pool!vars
<1>1. ASSUME NEW fd \in Fds, ReadOnce(fd)
      PROVE  Pool!Next \/ UNCHANGED <<queue, wfd>>
  <2>1. ~Busy(fd) BY <1>1 DEF ReadOnce, Takes, OneOwner, Pending
  <2>2. ~Pool!InPool(fd) BY <2>1 DEF Busy, Queued, Held, Pool!InPool
  <2>3. wfd' = wfd /\ (\/ queue' = queue
                       \/ Len(queue) < MaxRequests /\ queue' = Append(queue, fd))
    BY <1>1 DEF ReadOnce, AppendP
  <2> QED BY <2>2, <2>3 DEF Pool!Next, Pool!Submit
<1>2. ASSUME NEW w \in Workers, Take(w) PROVE Pool!Next
  <2>1. wfd[w] = None BY <1>2 DEF Take, Handover
  <2> QED BY <1>2, <2>1 DEF Take, Pool!Next, Pool!Take
<1>3. ASSUME NEW w \in Workers, Rearm(w) PROVE Pool!Next
  <2>1. wfd[w] # None BY <1>3 DEF Rearm, Handover
  <2> QED BY <1>3, <2>1 DEF Rearm, Pool!Next, Pool!Finish
<1>4. ASSUME NEW w \in Workers, Process(w) PROVE UNCHANGED <<queue, wfd>>
  BY <1>4 DEF Process
<1>5. CASE Clients \/ TimePasses \/ Stopped
  BY <1>5 DEF Clients, TimePasses, Stopped, Connect, Send, Hangup, Drain,
              Terminate, Environment
<1>6. CASE LoopStep
  BY <1>6 DEF LoopStep, EpollWait, Accept, HangupEvent, Tick, Refuse,
              AcceptError, DealWithSignal, EndBatch, TickDone
<1>7. ASSUME NEW fd \in Fds,
             ReadFails(fd) \/ WriteAll(fd) \/ WritePart(fd) \/ WriteClose(fd)
               \/ Sigpipe(fd)
      PROVE  UNCHANGED <<queue, wfd>>
  BY <1>7 DEF ReadFails, WriteAll, WritePart, WriteClose, Sigpipe
<1> QED BY <1>1, <1>2, <1>3, <1>4, <1>5, <1>6, <1>7
        DEF Next, MainStep, ConnStep, WorkerStep

\* append_p is never called for a connection that is in the pool, and the
\* event loop and the timers leave the pool's queue alone: the server uses
\* the pool as the atomic queue that ThreadPool's is proved to be.
THEOREM QueueUsed == ASSUME Timely PROVE Spec => UsesWorkQueue
<1>1. Init => Pool!Init BY DEF Init, Pool!Init
<1> QED BY <1>1, QueueStep, HandedOver, PTL DEF Spec, UsesWorkQueue, Pool!Spec

-----------------------------------------------------------------------------
\* The abstract timers change as TimerSet allows: what each step does to the
\* set, to the times left, and to the timers a tick has still to fire.
LEMMA TimerUse ==
  ASSUME TypeOK, LoopInv, TimerPerConn, [Next]_vars
  PROVE  [Timer!Next]_(Timer!vars)
<1> USE DEF vars, netVars, sigVars, loopVars, bufVars, timerVars, poolVars
<1> DEFINE Left == [fd \in timers |-> ttl[fd]]
           Due == IF main = "tick" THEN Expired ELSE {}
<1> SUFFICES ASSUME Next
             PROVE  Timer!Next \/ UNCHANGED <<Left, main = "tick", Due>>
  BY DEF Timer!vars, Expired
<1>0. ASSUME UNCHANGED <<timers, ttl>>, main' = "tick" <=> main = "tick"
      PROVE  UNCHANGED <<Left, main = "tick", Due>>
  BY <1>0 DEF Expired
<1>1. ASSUME NEW fd \in timers, DealTimer(fd), main # "tick", main' # "tick"
      PROVE  Timer!Next
  <2>1. Left' = [u \in timers \ {fd} |-> Left[u]]
    BY <1>1 DEF TypeOK, DealTimer, DeleteTimer
  <2>2. Timer!Cancel(fd) BY <1>1, <2>1 DEF Timer!Cancel, Timer!Without, Timer!Set
  <2> QED BY <2>2 DEF TypeOK, Timer!Next
<1>2. ASSUME NEW fd \in timers, AdjustTimer(fd), main # "tick", main' # "tick"
      PROVE  Timer!Next
  <2>1. Left' = [Left EXCEPT ![fd] = TTL] BY <1>2 DEF TypeOK, AdjustTimer
  <2>2. Timer!Restart(fd) BY <1>2, <2>1 DEF Timer!Restart, Timer!Set
  <2> QED BY <2>2 DEF TypeOK, Timer!Next
<1>3. ASSUME NEW fd \in Fds, NEW e, Takes(fd, e), e # "none"
      PROVE  fd \in timers /\ main # "tick" /\ main' # "tick"
  BY <1>3 DEF Takes, LoopInv, TimerPerConn, Pending
<1>4. CASE Clients \/ Stopped
  <2>1. UNCHANGED <<main, timers>> BY <1>4 DEF Clients, Connect, Send, Hangup,
                                     Drain, Terminate, Environment, Stopped
  <2>2. UNCHANGED ttl BY <1>4 DEF Clients, Connect, Send, Hangup,
                                     Drain, Terminate, Environment, Stopped
  <2> QED BY <1>0, <2>1, <2>2
<1>5. CASE TimePasses
  <2>1. /\ main # "tick" /\ main' = main /\ timers' = timers
        /\ ttl' = [fd \in Fds |-> IF ttl[fd] > 0 THEN ttl[fd] - 1 ELSE 0]
    BY <1>5 DEF TimePasses, Environment
  <2>2. CASE \E t \in timers : ttl[t] > 0
    <3>1. PICK t \in timers : ttl[t] > 0 BY <2>2
    <3>2. 1 \in UNION {0..Left[u] : u \in timers}
      BY <3>1 DEF TypeOK
    <3>3. Left' = [u \in timers |-> IF Left[u] > 1 THEN Left[u] - 1 ELSE 0]
      BY <2>1 DEF TypeOK
    <3>4. Timer!Clock BY <2>1, <3>2, <3>3 DEF Timer!Clock, Timer!Set
    <3> QED BY <3>4 DEF Timer!Next
  <2>3. CASE \A t \in timers : ~(ttl[t] > 0)
    <3>1. Left' = Left BY <2>1, <2>3 DEF TypeOK
    <3> QED BY <2>1, <3>1
  <2> QED BY <2>2, <2>3
<1>6. CASE LoopStep
  <2>1. ASSUME NEW fd \in Fds, Accept(fd) PROVE Timer!Next
    <3>1. fd \notin timers /\ main # "tick" /\ main' # "tick"
      BY <2>1 DEF Accept, Handles, TimerPerConn
    <3>2. Left' = [u \in timers \union {fd} |-> IF u = fd THEN TTL ELSE Left[u]]
      BY <2>1 DEF TypeOK, Accept
    <3>3. Timer!Start(fd) BY <3>1, <3>2 DEF Timer!Start, Timer!Set
    <3> QED BY <3>3 DEF Timer!Next
  <2>2. ASSUME NEW fd \in Fds, HangupEvent(fd) PROVE Timer!Next
    BY <2>2, <1>1, <1>3 DEF HangupEvent
  <2>3. ASSUME NEW fd \in Fds, Tick(fd) PROVE Timer!Next
    <3>1. fd \in timers /\ main = "tick" /\ main' = "tick" /\ fd \in Due
      BY <2>3 DEF Tick, Expired
    <3>2. Left' = [u \in timers \ {fd} |-> Left[u]]
      BY <2>3 DEF TypeOK, Tick, DealTimer, DeleteTimer
    <3>3. Due' = Due \ {fd}
      BY <2>3, <3>1 DEF TypeOK, Tick, DealTimer, DeleteTimer, Expired
    <3>4. Timer!Fire(fd)
      BY <3>1, <3>2, <3>3 DEF Timer!Fire, Timer!Without, Timer!Set
    <3> QED BY <2>3, <3>4 DEF Timer!Next
  <2>4. CASE EndBatch
    <3>1. main = "batch" /\ UNCHANGED <<timers, ttl>> BY <2>4 DEF EndBatch
    <3>2. CASE main' = "tick"
      <4>1. Left' = Left /\ Due' = {t \in timers : Left[t] = 0}
        BY <3>1, <3>2 DEF Expired
      <4>2. Timer!TickBegin BY <3>1, <3>2, <4>1 DEF Timer!TickBegin, Timer!Set
      <4> QED BY <4>2 DEF Timer!Next
    <3>3. CASE main' # "tick" BY <1>0, <3>1, <3>3
    <3> QED BY <3>2, <3>3
  <2>5. CASE TickDone
    <3>1. /\ main = "tick" /\ main' # "tick" /\ Due = {} /\ Due' = {}
          /\ UNCHANGED <<timers, ttl>>
      BY <2>5 DEF TickDone, AfterLoop
    <3>2. Timer!TickEnd BY <3>1 DEF Timer!TickEnd
    <3> QED BY <3>2 DEF Timer!Next
  <2>6. CASE EpollWait \/ Refuse \/ AcceptError \/ DealWithSignal
    BY <2>6, <1>0 DEF EpollWait, Refuse, AcceptError, DealWithSignal, Handles
  <2> QED BY <1>6, <2>1, <2>2, <2>3, <2>4, <2>5, <2>6 DEF LoopStep
<1>7. CASE ConnStep
  <2>1. ASSUME NEW fd \in Fds, ReadOnce(fd) PROVE Timer!Next
    BY <2>1, <1>2, <1>3 DEF ReadOnce
  <2>2. ASSUME NEW fd \in Fds, WriteAll(fd) PROVE Timer!Next
    BY <2>2, <1>2, <1>3 DEF WriteAll
  <2>3. ASSUME NEW fd \in Fds, WritePart(fd) PROVE Timer!Next
    BY <2>3, <1>2, <1>3 DEF WritePart
  <2>4. ASSUME NEW fd \in Fds, ReadFails(fd) PROVE Timer!Next
    BY <2>4, <1>1, <1>3 DEF ReadFails
  <2>5. ASSUME NEW fd \in Fds, WriteClose(fd) PROVE Timer!Next
    BY <2>5, <1>1, <1>3 DEF WriteClose
  <2>6. ASSUME NEW fd \in Fds, Sigpipe(fd)
        PROVE  UNCHANGED <<Left, main = "tick", Due>>
    BY <2>6, <1>0 DEF Sigpipe
  <2> QED BY <1>7, <2>1, <2>2, <2>3, <2>4, <2>5, <2>6 DEF ConnStep
<1>8. ASSUME NEW w \in Workers, WorkerStep(w)
      PROVE  UNCHANGED <<Left, main = "tick", Due>>
  BY <1>8, <1>0 DEF WorkerStep, Take, Process, Rearm
<1> QED BY <1>4, <1>5, <1>6, <1>7, <1>8 DEF Next, MainStep

\* The server uses its timers as TimerSet, which the sorted list is shown to
\* implement, allows: with or without Timely, whatever the clients do.
THEOREM TimersUsed == Spec => UsesTimerSet
<1>1. Init => LoopInv /\ TimerPerConn
  BY FS_EmptySet DEF Init, LoopInv, TimerPerConn, Pending
<1>2. TypeOK /\ LoopInv /\ TimerPerConn /\ [Next]_vars
        => TypeOK' /\ LoopInv' /\ TimerPerConn'
  BY TypeStep, TimerStep
<1>3. Init => Timer!Init BY DEF Init, Timer!Init
<1> QED BY <1>1, <1>2, <1>3, TypeInit, TimerUse, PTL
        DEF Spec, UsesTimerSet, Timer!Spec
-----------------------------------------------------------------------------
\* A step that leaves a connection with the one who had it.
LEMMA SamePlace ==
  ASSUME NEW g \in Fds, g \in open' <=> g \in open,
         armed'[g] = armed[g], event'[g] = event[g], Queued(g)' <=> Queued(g),
         \A w \in Workers : (wfd[w] = g \/ wfd'[w] = g) =>
                              wfd'[w] = wfd[w] /\ wpc'[w] = wpc[w]
  PROVE  Place(g)' = Place(g)
<1>1. \A p : HeldAt(g, p)' <=> HeldAt(g, p) BY DEF HeldAt
<1> QED BY <1>1 DEF Place

\* A connection the main thread has an event of is its to handle.
LEMMA PendingPlace ==
  ASSUME OneOwner, NEW g \in Fds, Pending(g)
  PROVE  /\ ~Busy(g) /\ ~Waiting(g) /\ g \in open
         /\ \A w \in Workers : wfd[w] # g
         /\ event[g] \in {"in", "out"} => Place(g) = event[g]
         /\ event[g] = "hup" => Place(g) = "lost"
<1>1. ~Busy(g) /\ ~Waiting(g) /\ g \in open BY DEF OneOwner
<1>2. ~Queued(g) /\ \A w \in Workers : wfd[w] # g BY <1>1 DEF Busy, Held
<1>3. \A p : ~HeldAt(g, p) BY <1>2 DEF HeldAt
<1> QED BY <1>1, <1>2, <1>3 DEF Place, Waiting

\* Only the pool has a connection between its read and its process.
LEMMA ReadPlace ==
  ASSUME NEW g \in Fds, g \in open, ~Busy(g)
  PROVE  Place(g) \in {"in", "out", "lost"}
BY DEF Place, Busy, Queued, Held, HeldAt

\* What a pool thread's hands mean for the connection in them.
LEMMA HeldPlace ==
  ASSUME TypeOK, OneOwner, NEW w \in Workers, NEW g \in Fds, wfd[w] = g
  PROVE  /\ ~Queued(g) /\ ~Waiting(g) /\ ~Pending(g) /\ g \in open
         /\ \A v \in Workers : wfd[v] = g => v = w
         /\ \A p : HeldAt(g, p) <=> wpc[w] = p
         /\ wpc[w] = "process" => Place(g) = "read"
         /\ wpc[w] = "rearm_in" => Place(g) = "in"
         /\ wpc[w] = "rearm_out" => Place(g) = "out"
<1>1. Held(g) /\ Busy(g) BY DEF Held, Busy
<1>2. ~Queued(g) /\ ~Waiting(g) /\ ~Pending(g) /\ g \in open BY <1>1 DEF OneOwner
<1>3. \A v \in Workers : wfd[v] = g => v = w BY FdsAssumption DEF OneOwner
<1>4. \A p : HeldAt(g, p) <=> wpc[w] = p BY <1>3 DEF HeldAt
<1> QED BY <1>2, <1>3, <1>4 DEF Place, Waiting, Pending

\* The connection is closed, and was not between its read and its process.
LEMMA CloseLife ==
  ASSUME TypeOK, NEW fd \in Fds, NEW g \in Fds, DealTimer(fd), fd \in open,
         ~Busy(fd), UNCHANGED poolVars, event' = [event EXCEPT ![fd] = "none"],
         bytes_to_send' \in [Fds -> Nat], bytes_to_send'[fd] <= bytes_to_send[fd],
         g # fd => bytes_to_send'[g] = bytes_to_send[g]
  PROVE  Life(g)!Next \/ UNCHANGED <<Place(g), bytes_to_send[g]>>
<1>1. CASE g = fd
  <2>1. Place(g)' = "closed" BY <1>1 DEF DealTimer, CbFunc, Place
  <2>2. Place(g) \in {"in", "out", "lost"} BY <1>1, ReadPlace
  <2>3. bytes_to_send \in [Fds -> Nat] BY DEF TypeOK
  <2>4. bytes_to_send'[g] \in 0..bytes_to_send[g] BY <1>1, <2>3
  <2> QED BY <2>1, <2>2, <2>4 DEF Life!Next, Life!Close
<1>2. CASE g # fd
  <2>1. /\ g \in open' <=> g \in open
        /\ armed'[g] = armed[g] /\ event'[g] = event[g]
    BY <1>2 DEF TypeOK, DealTimer, CbFunc
  <2>2. Queued(g)' <=> Queued(g) BY DEF poolVars, Queued
  <2>3. Place(g)' = Place(g) BY <2>1, <2>2, SamePlace DEF poolVars
  <2> QED BY <1>2, <2>3
<1> QED BY <1>1, <1>2

\* The main thread takes an event off the batch and arms the connection.
LEMMA ArmPlace ==
  ASSUME TypeOK, OneOwner, NEW fd \in Fds, NEW g \in Fds, NEW e \in {"in", "out"},
         Takes(fd, "out"), Modfd(fd, e), UNCHANGED <<open, poolVars>>
  PROVE  /\ g # fd => Place(g)' = Place(g)
         /\ g = fd => Place(g) = "out" /\ Place(g)' = e
<1>1. Pending(fd) BY DEF Takes, Pending
<1>2. /\ ~Busy(fd) /\ fd \in open /\ Place(fd) = "out"
      /\ \A w \in Workers : wfd[w] # fd
  BY <1>1, PendingPlace DEF Takes
<1>3. \A h \in Fds : Queued(h)' <=> Queued(h) BY DEF poolVars, Queued
<1>4. CASE g = fd
  <2>1. armed'[g] = e /\ event'[g] = "none" /\ g \in open'
    BY <1>2, <1>4 DEF TypeOK, Takes, Modfd
  <2>2. ~Queued(g)' /\ \A p : ~HeldAt(g, p)'
    BY <1>2, <1>3, <1>4 DEF Busy, HeldAt, poolVars
  <2> QED BY <1>2, <1>4, <2>1, <2>2 DEF Place
<1>5. CASE g # fd
  <2>1. armed'[g] = armed[g] /\ event'[g] = event[g]
    BY <1>5 DEF TypeOK, Takes, Modfd
  <2> QED BY <1>3, <1>5, <2>1, SamePlace DEF poolVars
<1> QED BY <1>4, <1>5

LEMMA EpollLife ==
  ASSUME TypeOK, OneOwner, Handover, NEW g \in Fds, EpollWait
  PROVE  Life(g)!Next \/ UNCHANGED <<Place(g), bytes_to_send[g]>>
<1>1. bytes_to_send' = bytes_to_send /\ open' = open BY DEF EpollWait, bufVars
<1>2. (Queued(g)' <=> Queued(g)) /\ \A p : HeldAt(g, p)' <=> HeldAt(g, p)
  BY DEF EpollWait, poolVars, Queued, HeldAt
<1>3. event[g] = "none" BY DEF EpollWait, Handover, Pending
<1>4. /\ event'[g] = Ready(g)
      /\ armed'[g] = IF Ready(g) = "none" THEN armed[g] ELSE "none"
  BY DEF TypeOK, EpollWait
<1>5. CASE Ready(g) = "none"
  <2>1. Place(g)' = Place(g) BY <1>1, <1>2, <1>3, <1>4, <1>5 DEF Place
  <2> QED BY <1>1, <2>1
<1>6. CASE Ready(g) # "none"
  <2>1. /\ Waiting(g) /\ g \in open /\ armed[g] \in {"in", "out"}
        /\ Ready(g) \in {armed[g], "hup"}
    BY <1>6 DEF TypeOK, Ready, Waiting
  <2>2. ~Queued(g) /\ \A p : ~HeldAt(g, p) BY <2>1 DEF OneOwner, Busy, Held, HeldAt
  <2>3. Place(g) = armed[g] BY <1>3, <2>1, <2>2 DEF Place
  <2>4. CASE Ready(g) = armed[g]
    <3>1. Place(g)' = armed[g] BY <1>1, <1>2, <1>4, <2>1, <2>2, <2>4 DEF Place
    <3> QED BY <1>1, <2>3, <3>1
  <2>5. CASE Ready(g) = "hup"
    <3>1. Place(g)' = "lost" BY <1>1, <1>2, <1>4, <2>1, <2>2, <2>5 DEF Place
    <3> QED BY <1>1, <2>1, <2>3, <3>1 DEF Life!Next, Life!Hangup
  <2> QED BY <2>1, <2>4, <2>5
<1> QED BY <1>5, <1>6

LEMMA AcceptLife ==
  ASSUME TypeOK, OneOwner, NEW fd \in Fds, NEW g \in Fds, Accept(fd)
  PROVE  Life(g)!Next \/ UNCHANGED <<Place(g), bytes_to_send[g]>>
<1>1. UNCHANGED <<event, queue, wpc, wfd>> BY DEF Accept, poolVars
<1>2. CASE g = fd
  <2>1. g \notin open /\ ~Busy(g) BY <1>2 DEF Accept, OneOwner
  <2>2. g \in open' /\ armed'[g] = "in" /\ bytes_to_send'[g] = 0
    BY <1>2 DEF TypeOK, Accept
  <2>3. ~Queued(g)' /\ ~HeldAt(g, "process")'
    BY <1>1, <2>1 DEF Busy, Queued, Held, HeldAt
  <2>4. Place(g) = "closed" /\ Place(g)' = "in" BY <2>1, <2>2, <2>3 DEF Place
  <2> QED BY <2>2, <2>4 DEF Life!Next, Life!Open
<1>3. CASE g # fd
  <2>1. /\ g \in open' <=> g \in open
        /\ armed'[g] = armed[g]
        /\ bytes_to_send'[g] = bytes_to_send[g]
    BY <1>3 DEF TypeOK, Accept
  <2>2. Place(g)' = Place(g) BY <1>1, <2>1, SamePlace DEF Queued
  <2> QED BY <2>1, <2>2
<1> QED BY <1>2, <1>3

LEMMA ReadLife ==
  ASSUME TypeOK, OneOwner, NEW fd \in Fds, NEW g \in Fds, ReadOnce(fd)
  PROVE  Life(g)!Next \/ UNCHANGED <<Place(g), bytes_to_send[g]>>
<1>1. /\ Pending(fd) /\ event[fd] = "in"
      /\ UNCHANGED <<bytes_to_send, open, armed, wpc, wfd>>
      /\ event' = [event EXCEPT ![fd] = "none"]
  BY DEF ReadOnce, Takes, Pending
<1>2. /\ ~Busy(fd) /\ ~Waiting(fd) /\ fd \in open /\ Place(fd) = "in"
      /\ \A w \in Workers : wfd[w] # fd
  BY <1>1, PendingPlace
<1>3. CASE g = fd
  <2>1. /\ g \in open' /\ armed'[g] = "none" /\ event'[g] = "none"
        /\ \A p : ~HeldAt(g, p)'
    BY <1>1, <1>2, <1>3 DEF TypeOK, Waiting, HeldAt
  <2>2. Place(g)' \in {"read", "lost"} BY <2>1 DEF Place
  <2> QED BY <1>1, <1>2, <1>3, <2>2 DEF Life!Next, Life!Read
<1>4. CASE g # fd
  <2>1. Queued(g)' <=> Queued(g) BY <1>2, <1>4, AppendStep DEF ReadOnce, Busy
  <2>2. event'[g] = event[g] BY <1>1, <1>4 DEF TypeOK
  <2>3. Place(g)' = Place(g) BY <1>1, <2>1, <2>2, SamePlace
  <2> QED BY <1>1, <2>3
<1> QED BY <1>3, <1>4

LEMMA WorkerLife ==
  ASSUME TypeOK, OneOwner, Handover, NEW w \in Workers, WorkerStep(w), NEW g \in Fds
  PROVE  Life(g)!Next \/ UNCHANGED <<Place(g), bytes_to_send[g]>>
<1>1. UNCHANGED <<open, event>> /\ \A v \in Workers : v # w => wpc'[v] = wpc[v] /\ wfd'[v] = wfd[v]
  BY DEF TypeOK, WorkerStep, Take, Process, Rearm, loopVars
<1>2. CASE Take(w)
  <2>1. /\ Head(queue) \in Fds /\ Queued(Head(queue))
        /\ Queued(g)' <=> Queued(g) /\ g # Head(queue)
    BY <1>2, TakeStep
  <2>2. /\ wfd[w] = None /\ wfd'[w] = Head(queue) /\ wpc'[w] = "process"
        /\ UNCHANGED <<armed, bytes_to_send>>
    BY <1>2 DEF TypeOK, Take, Handover, bufVars
  <2>3. CASE g = Head(queue)
    <3>1. g \in open BY <2>1, <2>3 DEF OneOwner, Busy
    <3>2. Place(g) = "read" /\ Place(g)' = "read"
      BY <1>1, <2>1, <2>2, <2>3, <3>1 DEF Place, HeldAt
    <3> QED BY <2>2, <3>2
  <2>4. CASE g # Head(queue)
    <3>1. \A v \in Workers : (wfd[v] = g \/ wfd'[v] = g) =>
                               wfd'[v] = wfd[v] /\ wpc'[v] = wpc[v]
      BY <1>1, <2>2, <2>4, FdsAssumption
    <3> QED BY <1>1, <2>1, <2>2, <2>4, <3>1, SamePlace
  <2> QED BY <2>3, <2>4
<1>3. CASE Process(w)
  <2>1. wfd[w] \in Fds /\ wpc[w] = "process" BY <1>3 DEF TypeOK, Process, Handover
  <2>2. UNCHANGED <<armed, queue, wfd>> BY <1>3 DEF Process
  <2>3. Queued(g)' <=> Queued(g) BY <2>2 DEF Queued
  <2>4. CASE g = wfd[w]
    <3>1. /\ ~Queued(g) /\ ~Waiting(g) /\ ~Pending(g) /\ g \in open
          /\ \A v \in Workers : wfd[v] = g => v = w
          /\ Place(g) = "read"
      BY <2>1, <2>4, HeldPlace
    <3>2. \A p : HeldAt(g, p)' <=> wpc'[w] = p BY <2>2, <2>4, <3>1 DEF HeldAt
    <3>3. CASE wpc' = [wpc EXCEPT ![w] = "rearm_in"] /\ UNCHANGED bytes_to_send
      <4>1. Place(g)' = "in"
        BY <1>1, <2>2, <2>3, <3>1, <3>2, <3>3 DEF TypeOK, Place, Waiting, Pending
      <4> QED BY <3>1, <3>3, <4>1 DEF Life!Next, Life!Process
    <3>4. CASE wpc' = [wpc EXCEPT ![w] = "rearm_out"] /\ bytes_to_send'[g] \in Nat
      <4>1. Place(g)' = "out"
        BY <1>1, <2>2, <2>3, <3>1, <3>2, <3>4 DEF TypeOK, Place, Waiting, Pending
      <4> QED BY <3>1, <3>4, <4>1 DEF Life!Next, Life!Process
    <3> QED BY <1>3, <2>4, <3>3, <3>4 DEF TypeOK, Process
  <2>5. CASE g # wfd[w]
    <3>1. bytes_to_send'[g] = bytes_to_send[g] BY <1>3, <2>5 DEF TypeOK, Process
    <3>2. Place(g)' = Place(g) BY <1>1, <2>2, <2>3, <2>5, SamePlace
    <3> QED BY <3>1, <3>2
  <2> QED BY <2>4, <2>5
<1>4. CASE Rearm(w)
  <2>1. wfd[w] \in Fds /\ wpc[w] \in {"rearm_in", "rearm_out"}
    BY <1>4 DEF TypeOK, Rearm, Handover
  <2>2. /\ wfd'[w] = None /\ UNCHANGED <<queue, bytes_to_send>>
        /\ Modfd(wfd[w], IF wpc[w] = "rearm_in" THEN "in" ELSE "out")
    BY <1>4 DEF TypeOK, Rearm, bufVars
  <2>3. Queued(g)' <=> Queued(g) BY <2>2 DEF Queued
  <2>4. CASE g = wfd[w]
    <3>1. /\ ~Queued(g) /\ ~Waiting(g) /\ ~Pending(g) /\ g \in open
          /\ \A v \in Workers : wfd[v] = g => v = w
          /\ wpc[w] = "rearm_in" => Place(g) = "in"
          /\ wpc[w] = "rearm_out" => Place(g) = "out"
      BY <2>1, <2>4, HeldPlace
    <3>2. \A p : ~HeldAt(g, p)' BY <1>1, <2>1, <2>2, <3>1, FdsAssumption DEF HeldAt
    <3>3. armed'[g] = IF wpc[w] = "rearm_in" THEN "in" ELSE "out"
      BY <2>2, <2>4, <3>1 DEF TypeOK, Modfd
    <3>4. event'[g] = "none" BY <1>1, <3>1 DEF Pending
    <3>5. Place(g)' = Place(g)
      BY <1>1, <2>1, <2>3, <3>1, <3>2, <3>3, <3>4 DEF Place
    <3> QED BY <2>2, <3>5
  <2>5. CASE g # wfd[w]
    <3>1. armed'[g] = armed[g] BY <2>1, <2>2, <2>5 DEF TypeOK, Modfd
    <3>2. \A v \in Workers : (wfd[v] = g \/ wfd'[v] = g) =>
                               wfd'[v] = wfd[v] /\ wpc'[v] = wpc[v]
      BY <1>1, <2>2, <2>5, FdsAssumption
    <3> QED BY <1>1, <2>2, <2>3, <3>1, <3>2, SamePlace
  <2> QED BY <2>4, <2>5
<1> QED BY <1>2, <1>3, <1>4 DEF WorkerStep

LEMMA LifeStep ==
  ASSUME TypeOK, OneOwner, Handover, TimerPerConn, [Next]_vars, NEW g \in Fds
  PROVE  Life(g)!Next \/ UNCHANGED <<Place(g), bytes_to_send[g]>>
<1> USE DEF vars, netVars, sigVars, loopVars, bufVars, timerVars, poolVars
<1> DEFINE Goal == Life(g)!Next \/ UNCHANGED <<Place(g), bytes_to_send[g]>>
<1>0. ASSUME UNCHANGED <<open, armed, event, queue, wpc, wfd, bytes_to_send>>
      PROVE  Goal
  BY <1>0, SamePlace DEF Queued
<1>1. CASE Clients
  BY <1>1, <1>0 DEF Clients, Connect, Send, Hangup, Drain, Terminate, Environment
<1>2. CASE TimePasses BY <1>2, <1>0 DEF TimePasses, Environment
<1>3. bytes_to_send \in [Fds -> Nat] BY DEF TypeOK
<1>4. CASE LoopStep
  <2>1. CASE EpollWait BY <2>1, EpollLife
  <2>2. ASSUME NEW fd \in Fds, Accept(fd) PROVE Goal BY <2>2, AcceptLife
  <2>3. ASSUME NEW fd \in Fds, HangupEvent(fd) PROVE Goal
    <3>1. ~Busy(fd) /\ fd \in open
      BY <2>3, PendingPlace DEF HangupEvent, Takes, Pending
    <3>2. UNCHANGED <<bytes_to_send, poolVars>> /\ event' = [event EXCEPT ![fd] = "none"]
      BY <2>3 DEF HangupEvent, Takes
    <3>3. bytes_to_send'[fd] <= bytes_to_send[fd] BY <1>3, <3>2
    <3> QED BY <2>3, <1>3, <3>1, <3>2, <3>3, CloseLife DEF HangupEvent
  <2>4. ASSUME NEW fd \in Fds, Tick(fd) PROVE Goal
    <3>1. ~Busy(fd) /\ fd \in open BY <2>4 DEF Tick, Expired, Handover, TimerPerConn
    <3>2. UNCHANGED <<event, bytes_to_send, poolVars>> /\ event[fd] = "none"
      BY <2>4 DEF Tick, Handover, Pending
    <3>3. event' = [event EXCEPT ![fd] = "none"] BY <3>2 DEF TypeOK
    <3>4. bytes_to_send'[fd] <= bytes_to_send[fd] BY <1>3, <3>2
    <3> QED BY <2>4, <1>3, <3>1, <3>2, <3>3, <3>4, CloseLife DEF Tick
  <2>5. CASE Refuse BY <2>5, <1>0 DEF Refuse, Handles
  <2>6. CASE AcceptError BY <2>6, <1>0 DEF AcceptError, Handles
  <2>7. CASE DealWithSignal BY <2>7, <1>0 DEF DealWithSignal, Handles
  <2>8. CASE EndBatch \/ TickDone BY <2>8, <1>0 DEF EndBatch, TickDone
  <2> QED BY <1>4, <2>1, <2>2, <2>3, <2>4, <2>5, <2>6, <2>7, <2>8 DEF LoopStep
<1>5. CASE ConnStep
  <2>1. ASSUME NEW fd \in Fds, ReadOnce(fd) PROVE Goal BY <2>1, ReadLife
  <2>2. ASSUME NEW fd \in Fds, ReadFails(fd) \/ WriteClose(fd) PROVE Goal
    <3>1. ~Busy(fd) /\ fd \in open
      BY <2>2, PendingPlace DEF ReadFails, WriteClose, Takes, Pending
    <3>2. /\ UNCHANGED poolVars /\ DealTimer(fd)
          /\ event' = [event EXCEPT ![fd] = "none"]
      BY <2>2 DEF ReadFails, WriteClose, Takes
    <3>3. /\ bytes_to_send' \in [Fds -> Nat] /\ bytes_to_send'[fd] <= bytes_to_send[fd]
          /\ g # fd => bytes_to_send'[g] = bytes_to_send[g]
      BY <2>2, <1>3 DEF ReadFails, WriteClose
    <3> QED BY <3>1, <3>2, <3>3, CloseLife
  <2>3. ASSUME NEW fd \in Fds, WriteAll(fd) PROVE Goal
    <3>1. /\ g # fd => Place(g)' = Place(g)
          /\ g = fd => Place(g) = "out" /\ Place(g)' = "in"
      BY <2>3, ArmPlace DEF WriteAll
    <3>2. bytes_to_send'[g] = IF g = fd THEN 0 ELSE bytes_to_send[g]
      BY <2>3, <1>3 DEF WriteAll, InitConn
    <3> QED BY <3>1, <3>2 DEF Life!Next, Life!WriteAll
  <2>4. ASSUME NEW fd \in Fds, WritePart(fd) PROVE Goal
    <3>1. /\ g # fd => Place(g)' = Place(g)
          /\ g = fd => Place(g) = "out" /\ Place(g)' = "out"
      BY <2>4, ArmPlace DEF WritePart
    <3>2. IF g = fd THEN bytes_to_send'[g] \in 1..(bytes_to_send[g] - 1)
          ELSE bytes_to_send'[g] = bytes_to_send[g]
      BY <2>4, <1>3 DEF WritePart
    <3> QED BY <3>1, <3>2 DEF Life!Next, Life!WriteSome
  <2>5. ASSUME NEW fd \in Fds, Sigpipe(fd) PROVE Goal BY <2>5, <1>0 DEF Sigpipe
  <2> QED BY <1>5, <2>1, <2>2, <2>3, <2>4, <2>5 DEF ConnStep
<1>6. ASSUME NEW w \in Workers, WorkerStep(w) PROVE Goal BY <1>6, WorkerLife
<1>7. CASE Stopped \/ UNCHANGED vars BY <1>7, <1>0 DEF Stopped
<1> QED BY <1>1, <1>2, <1>4, <1>5, <1>6, <1>7 DEF Next, MainStep

\* The main thread, epoll, the queue and the pool lead every connection, under
\* any interleaving, through the life HTTP_CONN is written for: a handler is
\* called when the one before is through, process after read_once and only
\* then, write until nothing is left, and no close between read and process.
THEOREM ConnectionsLead ==
  ASSUME Timely, NEW fd \in Fds
  PROVE  Spec => LeadsLife(fd)
<1>1. Init => Life(fd)!Init BY DEF Init, Life!Init, Place
<1>2. TypeOK /\ OneOwner /\ Handover /\ TimerPerConn /\ [Next]_vars
        => [Life(fd)!Next]_(Life(fd)!vars)
  BY LifeStep DEF Life!vars
<1> QED BY <1>1, <1>2, HandedOver, TimersCorrect, PTL
        DEF Spec, LeadsLife, Life!Spec
=============================================================================
