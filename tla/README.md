# A TLA+ model of crypt-server

This directory models and verifies the core of the server: its epoll loop, the
timers that close idle connections, the thread pool, the database connection
pool, the log, what a connection does with requests and responses, and the
parser that reads JSON bodies. TLC checks small instances; TLAPS proves the most
important results for every value of the constants.

## The system

`main.cpp` registers routes and starts a `WEBSERVER`. One thread runs
`event_loop`; `THREADPOOL` has 8 more; SIGALRM and SIGTERM arrive over a socket
pair; in asynchronous mode the log has a thread of its own.

| Component | State | Operations | Who calls it |
|---|---|---|---|
| `WEBSERVER` (webserver/) | `events[]`, `timeout`, `stop_server`, `users[]`, `users_timer[]` | `event_listen`, `event_loop`, `deal_client_data`, `deal_with_signal`, `deal_with_read`, `deal_with_write`, `deal_timer`, `adjust_timer` | the main thread |
| `SORT_TIMER_lST`, `UTILS`, `cb_func` (timer/) | linked list of timers, the alarm, `u_pipefd` | `add_timer`, `adjust_timer`, `delete_timer`, `tick`, `time_handler`, `sig_handler` | the main thread, signals |
| `THREADPOOL` (threadpool/) | `m_work_queue`, its mutex and semaphore | `append`, `append_p`, `run` | main thread appends, pool threads run |
| `HTTP_CONN` (http/) | read and write buffers, parser state, `improv`, `timer_flag`, `m_state`, `m_user_count` | `init`, `read_once`, `process`, `write` | whichever thread owns the connection |
| `HttpResponse`, `ROUTER` (http/) | write buffer, `m_iv`, mapped file; routes, mutex | `send`, `render`, `unmap`; `get`, `post`, `handleRequest` | pool threads |
| `DB_CONNECTION_POOL` (cgi_mysql/) | `conn_list`, `reserve`, counters | `init`, `get_conn`, `release_conn` | pool threads, through `CONNECTION_POOL_RAII` |
| `LOG`, `block_queue` (log/) | file, line count, day; ring buffer | `write_log`, `flush`; `push`, `pop` | every thread; the log thread pops |
| `JsonParser`, `CONFIG` | none between calls | parse | pool threads; main() |

How they interact. The main thread accepts a connection, registers it with
EPOLLONESHOT and gives it a timer of 3 TIMESLOTs. An event of it disarms it. In
proactor mode (the mode main() runs) the main thread reads, queues the
connection, a pool thread parses and builds the response and arms the
connection again with `modfd`, and the main thread writes. In reactor mode pool
threads read and write as well, and report to the main thread through the ints
`improv` and `timer_flag`. Nothing but this hand-over protects an `HTTP_CONN`.

What is hard: the hand-over itself; timers that expire while a request is in
the pool; descriptors that are reused at once; a full queue, whose result
nobody looks at; the flags of reactor mode; pointers of the timer list;
test-then-wait in the connection pool; semaphores whose waits a signal may
interrupt; the indices of the JSON parser's nested calls. `PROJECT.json` lists each such hazard at
its line with the properties that cover it.

## Modules

| Module | Models | Abstraction |
|---|---|---|
| `EventLoop` | what both modes share: clients and kernel (external), epoll, accept, refuse, hang-up, signals, the timeout, `cb_func`, timers | input and output counted in segments; `ttl`, TIMESLOTs left, for `expire`; the timer list is the set of its timers |
| `Proactor` | `m_actor_mode = 0`: `deal_with_read`, `deal_with_write`, `append_p`, `run`, `process` | a request is complete or not, a response has a length |
| `Reactor` | `m_actor_mode = 1`, every access to `improv` and `timer_flag` a step of its own, but for `init()` at accept, which the main thread, their only reader, runs itself | the same |
| `TimerSet` | the promise of the timer list and what its caller keeps to: a tick fires those that are due, and nothing else is done within one | each timer has a time left |
| `TimerList` | `SORT_TIMER_lST`, pointer by pointer, a step per round of its loops | the node a deleted pointer may be reused for is any that is free |
| `WorkQueue` | the promise of the thread pool: a bounded queue of requests that threads take in one step | |
| `ThreadPool` | `append_p` and `run` call by call over their mutex and semaphore, each request processed within `DbPool`'s `get_conn` and `release_conn` | `process` is one step |
| `DbPool` | `get_conn`, `release_conn`, `init` as the pool's threads interleave them | a connection is a number, a failed one `Null` |
| `ConnLife` | in which order the handlers of an `HTTP_CONN` are called, and when it may be closed | `bytes_to_send` is all that is seen of it |
| `Fifo` | the promise of `block_queue`: a bounded queue | |
| `BlockQueue` | `block_queue`: the ring, its indices, `full`, `push`, `pop` | a slot holds the number of a line |
| `AsyncLog` | `write_log`, `async_write_log`, the rotation of files, over `BlockQueue` | a line is the number of its call; a file is its name, day and number; what stdio buffers is written |
| `HttpParser` | `process_read` and what it calls, as operators | the text of a line is one symbol, CR and LF are others |
| `HttpWriter` | `HttpResponse`: `send`, `render`, `unmap`, and the vectors of `write()` | a head and a file of a few symbols |
| `HttpConn` | one slot of `users[]` with its clients: `read_once` level- and edge-triggered, `process`, `handleRequest`, `write` | one thread at a time; files that can be mapped or not; texts that fit the write buffer or do not |
| `JsonNode` | `JSONNode`: its constructors and the conversion of a value, as operators | a text is a sequence of symbols: structure, blanks, words, numerals |
| `JsonParser` | `parse`, `findBarcePairs`, `parseObject`, `parseArray`, on any text: the recursion is a stack of calls, a step a round of the innermost one's loop, or the rounds of `findBarcePairs` up to the next brace | nodes are values |
| `JsonText` | `stringify`, `operator<<`, and the texts a client writes, as operators | the order of a map's members is any |
| `JsonRoundTrip` | `JsonParser` on a document's text, and again on what `stringify` makes of the result | |
| `*_proofs` | the theorems about the module of the same name | |
| `MC*` | what TLC needs besides | |

`Proactor` and `Reactor` extend `EventLoop` and add the actions in which the two
modes differ. They see the rest of the server through three abstractions, each
with two halves: what a component implements and what its user relies on.

* `TimerSet`: `TimerList`, the list pointer by pointer, implements it
  (`ImplementsTimerSet`), and `Proactor` and `Reactor` use their timers so
  (`UsesTimerSet`).
* `WorkQueue`: `ThreadPool`, the queue with its locks, implements it
  (`ImplementsWorkQueue`), and `Proactor` uses the pool so (`UsesWorkQueue`): it
  never appends a connection that is in the pool, which is the precondition
  `ThreadPool`'s `Call` has.
* `ConnLife`: `Proactor` leads every connection through such a life
  (`LeadsLife`), as `HttpConn`, one connection with its buffers, takes its caller
  to do; and `HttpConn` does to `bytes_to_send` what `Proactor` takes the handlers
  to do (`IsConnLife`). The pool's steps between two handlers are hidden: `Place`
  says where in its life a connection is that is in epoll, the batch, the queue
  or a thread's hands.

`ThreadPool` extends `DbPool` and interleaves its steps: `Acquire` and `Release`
are the constructor and the destructor of `CONNECTION_POOL_RAII` around
`process`. `AsyncLog` extends `BlockQueue`, and its ring is shown to implement
`Fifo`; its steps are the points of `write_log` outside a lock, three lock
sections, `localtime`'s shared struct, and the answer of `full` between two of
them. Init chooses whether the log is asynchronous. `JsonParser` extends
`JsonNode` and stands alone: `parse_content` calls `parse` on a body, and
nothing else does. `JsonRoundTrip` extends it and chooses its texts; each of its
steps is one of `JsonParser`, as `WriteOut` is a `ParseAnother`.

An action is what one thread does between two points where another could
notice. In `Proactor` these are the queue, `modfd` and the sockets; a handler of
the main thread touches only the connection it owns and is one action.
`EpollWait` takes the whole set of ready descriptors as a batch, whose events
are then handled one at a time in any order, because that is what makes an
event stale. The queue's mutex and semaphore are folded into atomic `AppendP`
and `Take`, which `ThreadPool` shows to be right.

`HttpConn` extends `HttpParser` and `HttpWriter`. It looks at one connection
from inside, where `Proactor` only counts: that one thread at a time works on
it, which makes `Process` one action, is `OneOwner` there, and in which order the
handlers are called is `ConnLife`. The rounds of
`write()` are steps, and the client reads between them. What the answer to a
request is, `Answer` says from the request as the client sent it; how the code
gets there, piece by piece, is the actions.

Operators with a suffix after an underscore (`CbFunc_NoCount`) are slips a
programmer could make in the definition that follows them. No specification
uses them: they are there to be put in its place, to see that a property fails.

## Runs

| Run | Expect | Shows |
|---|---|---|
| `server_proactor` | pass | `TypeOK`, `OneOwner`, `TimerPerConn`, `Alternate`, `OnlyInactiveClosed`, `UsesWorkQueue` |
| `server_live` | pass | `ParkedReaped`, `QueuedServed`, `SilentReaped`, `UsesTimerSet` |
| `server_timeout` | violation | without `Timely`, `tick` closes a connection whose request is in the pool |
| `reactor_live` | pass | `TypeOK`, `TimerPerConn`, `SpinEnds`, `ParkedReaped` |
| `reactor_race` | violation | two threads on one `HTTP_CONN` |
| `timerlist` | pass | `TypeOK`, `AllListed`, `Sorted`, `NoDangling`, `CallReturns`, `ImplementsTimerSet` |
| `pool` | pass | `PoolTypeOK`, `NeverPopsEmpty`, `NotShared`, `Covered`, `ImplementsWorkQueue`, `EveryRequestTaken` |
| `log` | pass | `TypeOK`, `InOnePlace`, `SplitRoughly`, `ImplementsFifo`, `QueuedWritten` |
| `log_lost` | violation | a line that `full` promised room for is dropped by `push` |
| `http` | pass | `TypeOK`, `CutAnywhere`, `ResponseIntact`, `MapsKept`, `Answered` |
| `http_body` | violation | a body that arrives in two parts is never complete |
| `json` | pass | `JsonTypeOK`, `CallsNest`, `ParsesBack`, `Returns` |

### Bounds

* `server_proactor`: three descriptors, of which `MaxUsers = 2` may be
  connections, so that one is free to be reused, and a client is refused; a
  queue of one, so that a second request is dropped; two threads; a response of
  two segments, so that a write may be partial; `TTL = 2` instead of 3, the
  least with which a timer can be nearer than full and not expired. Descriptors
  and threads are symmetric.
* `server_live`: two descriptors and `MaxUsers = 2`, so that `accept` fails for
  want of a descriptor; one thread, which makes the queue fill soonest; no
  SIGTERM, after which nothing is promised. No symmetry, as it checks liveness.
* `reactor_live`: one descriptor, one thread, a queue of two. The stale flags
  need one connection and two threads of control, the main one and one of the
  pool. `SpinEnds` needs room in the queue, and two entries are enough here.
  What the main thread does after a full queue is outside that property.
* `timerlist`: three timers, which is a head, a middle and a tail; the clock
  goes up to 5 with a lifetime of 2, so that timers expire and are set again.
* `pool`: two threads, an entry of the database pool for each, connected or
  not: a failed entry's token is lost when it is released, and the two then
  meet at one. A queue of two and three requests, so that one is refused. A wait
  may be interrupted while no more than `MaxSpare = 0` tokens are left, since
  each such wake-up may leave one over, without end. `EveryRequestTaken` is stated
  for a database pool with at least one connection made: with none, threads
  that passed `get_conn`'s size test together wait for a token nobody will post.
* `log`: two writers, four lines, two slots in the ring: a third push wraps
  round, two late writers meet at a rotation, and the queue can be full when a
  third line comes. Two lines to a file; one midnight. A file may get one line
  too many and does: with a bound lower by one `SplitRoughly` fails. It is
  stated for direct writing, where four lines are enough to exceed the bound;
  with the queue the excess would be larger and out of these bounds.
* `http`: nine requests, which between them take a route that sends, one that
  sends too much for the write buffer, one that renders, a file, the rewriting
  of `/`, a 404, a body, another method, another version and a url that is not a
  path; three that are broken. Both trigger modes. The read buffer holds one symbol more than the
  longest request. They may be cut between any two
  symbols. A head of three symbols is the shortest whose rest, after a first
  cut, can be cut again; a file of two can be cut; the kernel holds four of the
  five, so that EAGAIN comes. Four connections and requests are a response under
  keep-alive and one after it, or a connection lost under a file and one after.
* `json`: every document of two levels below its root with up to two members or
  elements at each, of strings with and without structural characters, numbers
  in and out of `to_string`'s decimals, booleans and nulls; spelled with and
  without blanks. And every text of up to four symbols, alone and where a
  member's value stands: it takes two brackets, a comma and a quote to upset an
  index, and an enclosing call to have it returned to.
* `MaxSpare`, `MaxLines`, `MaxDay`, `MaxBacklog`, `MaxSegs`, `BufSegs`, `RespSegs`, `MaxNow` bound what the world
  may send, hold, answer and count; they appear in guards by name.

### Assumptions

* `Timely` (`EventLoop`): time does not take the last TIMESLOT of a timer while
  its request is in the pool. It is what the code relies on, 15 seconds against
  a handler of milliseconds, and nothing in it ensures it: `server_timeout`
  shows what happens otherwise. The theorems that need it say so.
* `ClockBack` (`TimerList`): whether `time(NULL)` may go back.
* `WholeBody` (`HttpConn`): a body arrives in one piece, perhaps after its
  headers. `http_body` is without it.
* `WholeHead` (`HttpConn`): if writev stops within the head, the next one takes
  the rest of it. Without it `ResponseIntact` fails: `write()` subtracts from
  `iov_len` all that was sent so far (http_connection.cpp:430), skips what is
  left of the head and, for a text, then writes nothing for ever.
* `ReadBuf` (`HttpConn`) is above every request. In edge-triggered mode a request
  that fills the buffer exactly is closed unanswered (http_connection.cpp:192):
  with `ReadBuf = 13` `ResponseIntact` and `Answered` fail, in that mode only.
* The wait in `get_conn` is not interrupted, unlike that in `run`: it is a matter
  of microseconds, and SIGALRM and SIGTERM go to the process, of which the main
  thread is as good as always the one to take them. With the slip
  `Wait_Interrupted`, `NeverPopsEmpty` fails.
* `ConnAssumption`, `BodyAssumption`, `RequestAssumption` (`HttpConn`): requests are
  sequences of symbols; where a body comes in one piece, it is what follows the
  first empty line, and no byte of a request is NUL; a request of `Requests` is
  `HasLines`: lines ended by CR and LF, an empty one, and as many bytes as a
  `Content-length` has announced; no file is called like the model's "none", no
  route has a space in its path, and the text of the 404 fits the write buffer
  (it does). TLC evaluates them on the instance of `http`.
* Reads and writes of `improv` and `timer_flag` happen one after the other in
  program order, as in the makefile's default build.

### Fairness

The liveness runs assume weak fairness of the main thread as a whole, of each
pool thread as a whole, and of time. The threads are scheduled by the kernel and
hold no lock across a step; time passes. Nothing is assumed of clients: they
may never speak, read or close. `pool` asks of every thread that it runs,
not that requests or signals come, and of the mutex that it starves no thread
(strong fairness of `LockToTake`): without that, an `append_p` that is refused
over and over could have it whenever the thread asks. `log` asks the same of writers, and
that the log thread runs when it is not asleep on its condition: a spurious
wakeup may come and is not counted on. `http` assumes that the server's threads
run, that the timer of a connection whose request was dropped expires, which
`ParkedReaped` shows of `Proactor`, and that the client reads; a client that does not is no business of
`Answered`. `json` assumes that a call of `parse` goes on.

## Proofs

`Proactor_proofs`, `Reactor_proofs`, `DbPool_proofs`, `ThreadPool_proofs`,
`AsyncLog_proofs`, `TimerList_proofs`, `HttpConn_proofs` and `JsonParser_proofs`
are checked by TLAPS. The constants are as weak as the modules' assumptions:
finite sets of descriptors, natural bounds, any set of requests, routes, files
and symbols. Every safety property of a passing run is proved, but for
`ParsesBack` of `json`. By component:

The server:

* `TypeCorrect` (`Proactor_proofs`), `ReactorTypeCorrect`: the type invariant is
  inductive.
* `TimersCorrect`: `TimerPerConn` needs to know that the loop opens a descriptor
  only when it is closed and that a pending event or an expired timer is of an
  open connection; this is the invariant `LoopInv`, which does not depend on
  time. `ReactorTimersCorrect` is the same for reactor mode, where `LookInv` adds
  that the connection whose flags the main thread reads is open: whatever they
  say, closing it is right for the books.
* `TimersUsed`: with `TimerPerConn` and `LoopInv`, each step of the server is one
  of `TimerSet` or leaves the timers alone. `Accept` starts a timer that was not
  set because `timers = open`. `ReactorTimersUsed` says the same of reactor mode, whoever
  owns a connection, but for one step: SIGPIPE, raised in a pool thread, may end
  the process within a tick. The use of the queue is not carried over:
  without `OneOwner`, which `reactor_race` refutes, a connection may be submitted
  twice.
* `OwnerCorrect`, `HandoverCorrect`: `OneOwner` is not inductive alone. A step
  of a pool thread keeps it only if the thread has a request exactly while it
  runs one, and closing keeps it only if the connection closed is not in the
  pool. `Handover` adds this, and the conjunction is inductive under `Timely`.
* `ClosedOnlyInactive`: the action property follows from these for each step.
* `AlternateCorrect`: with one owner, the only steps that arm for input are
  those that leave nothing to send.
* `QueueUsed`: `OneOwner` has it that a connection with a pending event is not in
  the pool, which makes `ReadOnce` a `Submit` or nothing; `Handover` makes `Take`
  and `Rearm` a `Take` and a `Finish`.
* `ConnectionsLead`: `Place` is one thing only because of `OneOwner`; a step that
  concerns another connection leaves it (`SamePlace`), and what the handler of an
  event finds is told by the event (`PendingPlace`) or the thread (`HeldPlace`).
  That a connection is not closed between its read and its process is `Handover`
  for an expired timer and `OneOwner` for a hang-up.

The timer list:

* `TypeInvariant`: types alone, also if the clock goes back.
* `ListNoDangling`, `ListSorted`, `ListAllListed`, all with `~ClockBack`: the
  invariant has the order of the nodes from head to tail as a sequence, of which
  it says that `next` and `prev` link neighbours, that no node is in it twice, and
  that it holds the timers that are set, and the node a call is about to link in or has
  just linked out. What a step does to the pointers is an insertion into or a
  removal from this sequence. For each place in a loop the invariant says which part
  of the sequence the loop has passed and what is known of its deadlines: this is
  what makes the place where a timer is put the right one. If the clock goes
  back, a new timer need not be the last, and the loops of `add_timer` lose nodes:
  the assumption is needed.
* `ListIsTimerSet`: from the invariant each step is one of `TimerSet` or leaves its
  variables alone; a tick fires those that are due and no other because the list is
  sorted. With `TimersUsed`, which shows that the server keeps to what `TimerSet`
  asks of its caller, the chain from the server to the pointers is closed.

The pools:

* `TokensCorrect`: each step moves a token between the semaphore and the counts
  of threads at `pop` and `post`; cardinalities by `FiniteSetTheorems`.
  `PopsCorrect` follows: a thread at `pop` is counted, so the list is not empty.
* `SharedCorrect` needs that only threads in `use` hold a connection (`Holds`).
* `EnoughConnections`: with at most `MaxConn` threads, all connected, the list
  never runs empty before a thread's test. This is the default configuration,
  8 threads and 8 connections, in which the comment on `get_conn` holds.
* `DbPoolUsed`: `DbStep` shows that a step of the thread pool is one of `DbPool` or
  leaves it alone, and so carries over what is proved of it.
* `PoolTypeCorrect`: the bound of the queue is not inductive, as the room is found
  in one step and used in another. `Section` says who is where while the mutex is
  held: at "push" there is room, at "pop" the queue has the request that was read,
  and only the holder of the mutex is at either.
* `NoLostWakeup`: `Covered` is moved by the arrival and departure of one thread at
  a time (`LookerComes`, `LookerGoes`); a thread leaves the lookers with a request
  or having seen the queue empty under the mutex.
* `QueueIsAtomic`: a push is a `Submit`, `pop_front` a `Take`, the end of `process`
  a `Finish`, and every other step leaves the abstract queue as it is.

The log:

* `LogTypeCorrect`: the type invariant with the ring's indices.
* `LogQueueIsFifo`: the contents of the ring are the slots from `m_front + 1` on,
  modulo its size. `RingOK` says that the slot a push would take is the one
  `m_size + 1` after `m_front`, also while the indices are still -1, and that
  the slots in use hold lines. `PushAppends` and `PopTakesHead`
  are the arithmetic: a push takes a slot none of the
  items is in (`OwnSlot`) and appends, a pop takes the head. Steps of the log
  are one of these or leave the queue alone.
* `LinesInOnePlace`: the file, the log thread's hand and the queue, laid end to
  end, are one sequence (`Passed`), which pops and writes of the log thread do
  not change and which a push or a direct write adds the thread's own line to.
  `Unique` says it has no repetition and none of the lines threads still work
  on; `InsertNew` is the step.
* `LostOnlyInPush`: a line that was begun is with its thread or in `Passed`. Only a
  step of its thread takes it from the one, and that step puts it into the other
  (`LineArrives`) unless it is a push onto a full queue: there is no other way to
  lose a line than the one `log_lost` shows, for any number of threads.
* `OneWriterLosesNothing`: with one thread, what `full` said still holds when the
  thread pushes, as a pop only makes room (`PushFits`), and a log that writes
  directly does not push. `NoLineLost` then holds, for any size of queue. The
  server is not such a case when the log is asynchronous: main thread and pool
  threads all log.
* `SplitNearlyExact`: `SplitRoughly` counts the lines of a file, which a step
  changes by one. The invariant (`SplitInv`) compares `m_count` with the lines
  written and the threads between the two (`Counted`): a thread that has counted
  its line writes it into the file that is open then, and a file is opened at a
  multiple of the split, so that it gets its share and at most a line of each
  writer that was late.

HTTP, the parser:

* `CutMakesNoDifference`, with `WholeBody`. `process_read` is a loop of rounds;
  `RoundsAre` gives the loop a sequence of its states, `RoundsEnd` shows that it is
  over after as many rounds as there are bytes and two more, as each takes a byte
  or is the last (`Left`). When more bytes come, a round that had ended a line
  does what it did before (`RoundResumes`), and one that had found the line open
  resumes its scan where it stopped (`LineResumes`), as `m_checked_idx` stays
  before a CR that is last; so `ProcessRead` of what has come, continued, is
  `ProcessRead` of all of it (`ProcessResumes`). The one state in which this is false
  is that of a body under way: `BodyNotBegun` shows it is not reached when a
  body comes in one piece.
* `ReadRight`: of a request that `HasLines`, or what has arrived of it, `process_read`
  makes what the request says: its method, its page, keep-alive and the length of the body
  are the client's, or it waits because there is more to come, or it refuses it
  for its first line. The invariant over the rounds is which line the parser is
  at and what the lines before it have told (`OnLine`, `OnBody`, `HeadRead`).

HTTP, the responses:

* `MappingsKept`: while a response is under way, the mapping of its file is the one
  that `dropped` does not account for (`MapsInv`).
* `TypeCorrect`, with `WholeHead`: the vectors hold what is left of a response
  (`Underway`); `AdvanceUnderway` shows that the two branches of `write()`'s
  arithmetic keep this for any number of bytes taken, and `GatheredIs` that what
  writev is offered then is the rest of head and file. With the parser's
  indices (`CutInv`) and `TriesInv` this gives `TypeOK`.
* `ResponsesIntact`, with `WholeHead`, `WholeBody`, requests that fit the read buffer
  (`RequestsFit`) and `RefusalsAnswered`. `AnswerInv` says in which of four phases
  a connection is whose client has asked something: its request is read from
  the first byte (`Reading`), its answer is set up and a beginning of it is out
  (`Responding`), all of it is out and the connection waits (`Idle`), or it is
  closed. `ReadRight` takes it from the first to the second, with `HandleRequestResult`,
  `WriteRound` through it. That keep-alive leaves nothing behind of a request, neither
  in the read buffer nor in `m_linger`, is part of `Idle`.
* `HandlersLead`: each handler is a step of `ConnLife`. With `ConnectionsLead`, what
  the two modules say of `bytes_to_send` and of the order of calls is the same.
* `NoRequestMeansIncomplete`, with the same: what `http_body` refutes holds when a
  body comes in one piece.

The JSON parser, for every text over any symbols, however its braces lie:

* `JsonTypeCorrect`, `CallsStayNested`: `ParserInv` has two parts. `PairsInv` is what
  `findBarcePairs` knows of the braces before `i`: each is on the stack or in a
  pair, and two pairs are one in the other or one after the other, also where a
  `]` closes a `{`. It is inductive by the order of the stack (`OpeningKept`,
  `PairKept`). `CallsInv` says of a call that its end is the closing of an opening
  behind its index, or the 0 `bracePair` gives for an unknown one, and of a caller that
  its index is at an opening whose closing is the end of the call it made. When a
  call meets an opening before its end, its own end is no 0, so it is in a pair;
  the opening is inside the pair, all openings are seen by then, and so it has
  a pair in that pair (`Inside`). This is why the 0 never gets into a nested call,
  which the code does not check. The array's loop over blanks has no bound: what
  stops it is the closing bracket (`ArrayElementKept`).
* `ParseAdvances`: each step makes `Remaining` smaller, which is a natural number,
  at most `3 * Len(text) + 4`. It is the safety half of `Returns`; what is left to
  TLC is that a step is always possible.

Model-checked only:

* everything under fairness, and what needs ENABLED: TLAPS does not prove them.
* `ParsesBack`. It is an induction over documents: what `stringify` writes and a
  client spells is defined by recursion, with which the SMT backend is lost, and
  the library's theorem for it is left to provers that are not used here. Hence
  `JsonText` and `JsonRoundTrip` are modules apart. The inductions that the other
  proofs need, over the rounds of `process_read`, are over natural numbers and are
  done with `Inductive`, which states induction for a set and rests on finite
  sets, and `RunExists`, which gives the loop its sequence of states.

## Findings

1. `server_timeout`: `tick` (timer.cpp:134-148) closes connections by the clock
   alone, though timer.cpp:22 speaks of inactive ones. The descriptor is free at
   once and `users[fd]` is then shared by two connections.
2. `reactor_race`: `deal_with_read` leaves its waiting loop in the first round
   (webserver.cpp:323). `improv`, set by the read, then makes `deal_with_write`
   not wait, and a pool thread's `init()` runs while another has the connection.
3. `log_lost`: log.cpp:141-143 acts on an old answer of `full` and does not look
   at that of `push`, against log.h:102. `LostOnlyInPush` shows that nothing else
   loses a line, and `OneWriterLosesNothing` that a single writer does not.
4. `http_body`: `parse_line` runs over the part of a body that has arrived
   (http_connection.cpp:355), and `parse_content` then waits for its whole
   length again.

Seen while modelling, and not stated by a run:

* `get_conn` returns NULL instead of blocking, against connection_pool.h:38
  (`BlocksWhenExhausted` of `DbPool`, true under the assumption of
  `EnoughConnections`).
* If `time(NULL)` goes back (`ClockBack = TRUE`), a timer is inserted before the
  end of the list by a loop that does not stop there (timer.cpp:57-64, 158-164),
  and `AllListed` fails.
* A level-triggered recv that fails has its -1 added to `m_read_idx` before it is
  tested (http_connection.cpp:167-169). The slot is closed then, and `init()` sets
  the index before the next connection: the parser's indices are in order in a
  slot that is in use (`TypeOK` of `HttpConn`).
* A line that ends with LF alone is bad, though the comment at
  http_connection.cpp:221 says it is handled, and its client is never answered; a
  request with a method, version or url that is not served is looked up like any
  other (`ParseRequestLine`), and answered with a page rather than with 400; the
  handler of `/` is reached by such a request only.
* A request that is refused (another method or version, a url without its "/") is not read to its end. When
  its handler then has nothing to send, the connection is kept (http_connection.cpp:394-401),
  and what is left of the request is parsed as the next one. None of
  main()'s handlers is like that; `RefusalsAnswered` says so where a proof needs it.
* `parse` throws `std::invalid_argument` on `[ ]`, against jsonparser.h:496
  (`OnlyRuntimeErrors` of `JsonParser`, which TLC refutes), and nothing in the
  pool's threads catches what it throws: the server ends.
* `parseArray` cuts at every comma, also those of the objects in it; brackets in
  strings are paired like others; an empty container is written `]` or `}`, as
  `stringify` overwrites the last character, and `operator<<` throws on it.
* `CONDITION::signal` and `broadcast` (locker.h:179-191) return pthread's 0 on
  success, where their comments say true. Nothing looks at the result.
* config.cpp:29 assigns a comparison to `opt`: no option has an effect.

## Not modelled

* Start-up, when a signal may come before `u_pipefd` is set, and exit, when
  `users` is deleted under the detached threads: `EventLoop` begins after the
  one and ends before the other.
* Edge-triggered listening. main() cannot select it, nor edge-triggered reading
  or reactor mode, since config.cpp:29 loses every option; `WEBSERVER::init` can.
* `destroy_conn_pool`, which runs at exit; lines still in the log's queue are
  lost then.
* `clear`, `front`, `back` and the timed `pop` of `block_queue`, which nothing
  calls.
* `CONFIG`: sequential parsing of the command line.
* Of the JSON parser, the members that read a node (`get`, the conversions), copies
  and moves, which values in TLA+ are without, and `isInteger`, which an earlier
  test leaves nothing to.
* The router's lock, which is free whenever a handler runs.
