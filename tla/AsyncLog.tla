------------------------------ MODULE AsyncLog ------------------------------
(***************************************************************************)
(* The log (log/log.cpp, log/log.h): threads that call write_log, the log  *)
(* thread that async_write_log is, the rotation of the file by day and by  *)
(* number of lines, and the queue between them.                            *)
(*                                                                         *)
(* write_log looks at the clock before it takes the lock, takes the lock   *)
(* three times, and asks the queue whether it is full before it pushes; a  *)
(* step is what happens between two of these points.  A file is named by   *)
(* <<day, number>>; its content is the lines of `out' that carry its name. *)
(* The text of a line is its number.  flush() changes nothing here: what   *)
(* stdio buffers counts as written.                                        *)
(***************************************************************************)
EXTENDS BlockQueue, FiniteSets, SequencesExt

CONSTANTS
  Threads,        \* threads that log
  MaxLines,       \* bound: calls of write_log
  MaxDay,         \* bound: days the run spans, from 0
  m_split_line    \* the log's lines per file

ASSUME LogAssumption ==
  /\ IsFiniteSet(Threads) /\ Threads # {}
  /\ m_split_line \in Nat \ {0} /\ MaxLines \in Nat /\ MaxDay \in Nat
  /\ Items = 1..MaxLines

VARIABLES
  m_is_async,   \* init() was given a queue size; never changes
  day,          \* the calendar
  tm,           \* the static struct that localtime() fills in: its day
  m_today, m_count,
  m_fp,         \* name of the file that is open
  m_buf,        \* the line formatted last
  calls,        \* lines begun so far
  pc,           \* where write_log is, in each thread
  mday,         \* its `now', then its my_tm: the day
  line,         \* the line it was called for
  log_str,      \* the line it formatted
  log_pc,       \* the log thread: "off", "pop", "asleep", "write"
  single_log,   \* the line it holds
  out           \* what was written, in order: which line, to which file

writer == <<pc, mday, line, log_str, m_buf, calls>>
file == <<m_today, m_count, m_fp>>
logger == <<log_pc, single_log>>
clock == <<day, tm>>
vars == <<queue, m_is_async, clock, file, writer, logger, out>>

Init ==
  /\ InitQueue
  /\ m_is_async \in BOOLEAN
  /\ day = 0 /\ tm = 0 /\ m_today = 0 /\ m_count = 0 /\ m_fp = <<0, 0>>
  /\ m_buf = Empty /\ calls = 0
  /\ pc = [t \in Threads |-> "idle"]
  /\ mday = [t \in Threads |-> 0]
  /\ line = [t \in Threads |-> Empty] /\ log_str = [t \in Threads |-> Empty]
  /\ log_pc = IF m_is_async THEN "pop" ELSE "off"
  /\ single_log = Empty
  /\ out = <<>>

Goes(t, from, to) == pc[t] = from /\ pc' = [pc EXCEPT ![t] = to]

\* write_log returns, and its locals are gone.
Return(t, from) ==
  /\ Goes(t, from, "idle")
  /\ mday' = [mday EXCEPT ![t] = 0]
  /\ line' = [line EXCEPT ![t] = Empty]
  /\ log_str' = [log_str EXCEPT ![t] = Empty]

Midnight ==
  /\ day < MaxDay /\ day' = day + 1
  /\ UNCHANGED <<queue, m_is_async, tm, file, writer, logger, out>>

\* gettimeofday(), in a thread that has something to log ...
Call(t) ==
  /\ Goes(t, "idle", "now")
  /\ calls < MaxLines /\ calls' = calls + 1
  /\ line' = [line EXCEPT ![t] = calls']
  /\ mday' = [mday EXCEPT ![t] = day]
  /\ UNCHANGED <<queue, m_is_async, clock, file, logger, out, log_str, m_buf>>

\* ... localtime(), which fills in a struct that all threads share ...
Localtime(t) ==
  /\ Goes(t, "now", "tm")
  /\ tm' = mday[t]
  /\ UNCHANGED <<queue, m_is_async, day, file, logger, out,
                 mday, line, log_str, m_buf, calls>>

\* ... which is copied: by now it may be another thread's.
CopyTm(t) ==
  /\ Goes(t, "tm", "count")
  /\ mday' = [mday EXCEPT ![t] = tm]
  /\ UNCHANGED <<queue, m_is_async, clock, file, logger, out,
                 line, log_str, m_buf, calls>>

\* Slip: the count is not reset when it has reached a file's worth, but the
\* new file is opened only then.
OpenFile_Once(d) ==
  LET count == m_count + 1
      turned == m_today # d
  IN /\ m_today' = d
     /\ m_count' = IF turned THEN 0 ELSE count
     /\ m_fp' = CASE turned -> <<d, 0>>
                  [] ~turned /\ count = m_split_line -> <<d, 1>>
                  [] OTHER -> m_fp

\* The line is counted; another day's line, or one that fills the file, opens
\* the file it goes to.
OpenFile(d) ==
  LET count == m_count + 1
      turned == m_today # d
  IN /\ m_today' = d
     /\ m_count' = IF turned THEN 0 ELSE count
     /\ m_fp' = CASE turned -> <<d, 0>>
                  [] ~turned /\ count % m_split_line = 0 ->
                       <<d, count \div m_split_line>>
                  [] OTHER -> m_fp

\* The first time under m_mutex.
Rotate(t) ==
  /\ Goes(t, "count", "format")
  /\ OpenFile(mday[t])
  /\ UNCHANGED <<queue, m_is_async, clock, logger, out,
                 mday, line, log_str, m_buf, calls>>

\* The second: the line is formatted in m_buf and copied from it.
Format(t) ==
  /\ Goes(t, "format", "choose")
  /\ m_buf' = line[t]
  /\ log_str' = [log_str EXCEPT ![t] = m_buf']
  /\ UNCHANGED <<queue, m_is_async, clock, file, logger, out, mday, line, calls>>

\* What the thread writes.  Slip: m_buf itself, outside the lock.
LogStr_Shared(t) == m_buf
LogStr(t) == log_str[t]

\* The answer of full() decides how; it is old when the thread acts on it.
Choose(t) ==
  /\ \E to \in {"push", "direct"} :
       Goes(t, "choose", to) /\ (to = "push" <=> m_is_async /\ ~Full)
  /\ UNCHANGED <<queue, m_is_async, clock, file, logger, out,
                 mday, line, log_str, m_buf, calls>>

\* broadcast().  Slip: left out.
Broadcast_Silent == UNCHANGED log_pc
Broadcast == log_pc' = IF log_pc = "asleep" THEN "pop" ELSE log_pc

\* push(); when the queue has filled up meanwhile it returns false, write_log
\* does not look, and the line is nowhere.
Push(t) ==
  /\ Return(t, "push")
  /\ IF Full THEN UNCHANGED queue ELSE PushItem(LogStr(t))
  /\ Broadcast
  /\ UNCHANGED <<m_is_async, clock, file, single_log, out, m_buf, calls>>

Fputs(l) == out' = Append(out, [line |-> l, file |-> m_fp])

\* The third: fputs() by the thread itself.
Direct(t) ==
  /\ Return(t, "direct")
  /\ Fputs(LogStr(t))
  /\ UNCHANGED <<queue, m_is_async, clock, file, logger, m_buf, calls>>

\* The log thread, in pop(): it takes the oldest line ...
Pop ==
  /\ log_pc = "pop" /\ m_size > 0
  /\ PopItem
  /\ single_log' = Oldest /\ log_pc' = "write"
  /\ UNCHANGED <<m_is_async, clock, file, writer, out>>

\* ... or waits on m_cond ...
Sleep ==
  /\ log_pc = "pop" /\ m_size <= 0 /\ log_pc' = "asleep"
  /\ UNCHANGED <<queue, m_is_async, clock, file, writer, single_log, out>>

\* ... from which it may also return for no reason.
SpuriousWakeup ==
  /\ log_pc = "asleep" /\ log_pc' = "pop"
  /\ UNCHANGED <<queue, m_is_async, clock, file, writer, single_log, out>>

\* async_write_log: fputs() of what pop() gave.
WriteLine ==
  /\ log_pc = "write" /\ log_pc' = "pop"
  /\ Fputs(single_log)
  /\ UNCHANGED <<queue, m_is_async, clock, file, writer, single_log>>

\* write_log, once called, goes on.
WriteLog(t) == \/ Localtime(t) \/ CopyTm(t) \/ Rotate(t) \/ Format(t)
               \/ Choose(t) \/ Push(t) \/ Direct(t)

AsyncWriteLog == Pop \/ Sleep \/ WriteLine

Next == \/ Midnight
        \/ SpuriousWakeup
        \/ AsyncWriteLog
        \/ \E t \in Threads : Call(t) \/ WriteLog(t)

Spec == Init /\ [][Next]_vars
LiveSpec == Spec /\ WF_vars(AsyncWriteLog) /\ \A t \in Threads : WF_vars(WriteLog(t))

-----------------------------------------------------------------------------
(* Properties.                                                             *)

PCs == {"idle", "now", "tm", "count", "format", "choose", "push", "direct"}
Files == (0..MaxDay) \X Nat

TypeOK ==
  /\ QueueTypeOK
  /\ m_is_async \in BOOLEAN
  /\ day \in 0..MaxDay /\ tm \in 0..day /\ m_today \in 0..day
  /\ m_count \in Nat /\ m_fp \in Files
  /\ m_buf \in Items \union {Empty} /\ calls \in 0..MaxLines
  /\ pc \in [Threads -> PCs] /\ mday \in [Threads -> 0..day]
  /\ line \in [Threads -> Items \union {Empty}]
  /\ log_str \in [Threads -> Items \union {Empty}]
  /\ log_pc \in {"off", "pop", "asleep", "write"}
  /\ single_log \in Items \union {Empty}
  /\ out \in Seq([line : Items, file : Files])

Lines(s) == [i \in DOMAIN s |-> s[i].line]
Held == IF log_pc = "write" THEN <<single_log>> ELSE <<>>
Written(l) == Contains(Lines(out), l)

\* A thread has formatted its line and not yet got rid of it.
Carries(t) == pc[t] \in {"choose", "push", "direct"}

\* A line is in one place at most: written, in the log thread's hands, in the
\* queue or carried by its thread, and there once.  So no line is written
\* twice, and none shows up in place of another though all are formatted in
\* the same buffer.
InOnePlace ==
  LET passed == Lines(out) \o Held \o Contents
      carried == {LogStr(t) : t \in {u \in Threads : Carries(u)}}
  IN /\ IsInjective(passed)
     /\ \A t \in Threads : Carries(t) => LogStr(t) = line[t]
     /\ carried \intersect Range(passed) = {}

\* The ring is a bounded FIFO queue: see module Fifo.
FifoQueue == INSTANCE Fifo WITH items <- Contents, Size <- m_max_size
ImplementsFifo == FifoQueue!Spec

\* A line that got into the queue is written in the end: the log thread does
\* not sleep through a push.
QueuedWritten ==
  \A l \in Items : Contains(Contents, l) ~> Written(l)

\* Rotation by number of lines is inexact but not by much, while lines are
\* written directly and the day does not change: a file has the lines counted
\* for it, and at most one late line of every thread but the one that opened it.
LinesIn(f) == Cardinality({i \in DOMAIN out : out[i].file = f})
SplitRoughly ==
  day = 0 /\ ~m_is_async =>
    \A i \in DOMAIN out :
      LinesIn(out[i].file) <= m_split_line + Cardinality(Threads) - 1

\* Where the line of a call can be: in a file, in the log thread's hands, in the
\* queue, or still with the thread that was called.
Somewhere(l) ==
  \/ Written(l) \/ Contains(Held \o Contents, l)
  \/ \E t \in Threads : pc[t] # "idle" /\ line[t] = l

\* log.h:102, "For async: Enqueues message": what a thread was called for is
\* written, in the queue, or still in its or the log thread's hands.
NoLineLost == \A l \in 1..calls : Somewhere(l)

\* What line 143 of log.cpp drops is dropped in one way only: by a push onto a
\* queue that has filled up since full() was asked.
Drops(t, l) == pc[t] = "push" /\ line[t] = l /\ Full
LostInPushOnly ==
  [][\A l \in 1..calls :
       Somewhere(l) => Somewhere(l)' \/ \E t \in Threads : Drops(t, l)]_vars

\* Which no other thread can have filled if there is none, and which is not
\* used if the log writes directly.
OneWriter == \A t, u \in Threads : t = u
KeptByOneWriter == OneWriter \/ ~m_is_async => NoLineLost
=============================================================================
