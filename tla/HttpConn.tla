------------------------------ MODULE HttpConn ------------------------------
(***************************************************************************)
(* One slot of users[] and the connections that use it one after the       *)
(* other: read_once, process and write of HTTP_CONN, level-triggered or    *)
(* edge-triggered, with the client at the other end.  One thread at a time *)
(* works on a connection (OneOwner of EventLoop), so a handler is one      *)
(* action, except for write(), whose rounds the client may read between.   *)
(***************************************************************************)
EXTENDS HttpParser, HttpWriter, SequencesExt

CONSTANTS
  Requests,    \* requests of a client that keeps to HTTP, in symbols
  Broken,      \* what other clients send; longer ones than ReadBuf too
  Routes,      \* of add_route: <<method, url>> -> <<"send" or "render", what>>
  FileSets,    \* the sets of files there may be
  TrigModes,   \* the modes the server may be started in: 0 is LT, 1 is ET
  ReadBuf,     \* READ_BUFFER_SIZE
  SockBuf,     \* what the kernel holds of a response the client has not read
  WholeBody,   \* TRUE: a body arrives in one piece
  WholeHead,   \* TRUE: what is left of a head that was cut goes out in one
  MaxTries     \* bound: requests and connections, of all clients

ASSUME ConnAssumption ==
  /\ ReadBuf \in Nat \ {0}
  /\ SockBuf \in Nat /\ SockBuf >= HeadLen
  /\ WholeBody \in BOOLEAN /\ WholeHead \in BOOLEAN
  /\ MaxTries \in Nat
  /\ TrigModes \subseteq {0, 1}
  /\ \A r \in Requests \union Broken : r \in Seq(Range(r))
  /\ \A s \in FileSets : "none" \notin s    \* a path begins with "/"

VARIABLES
  pc,        \* "in", "out": what epoll is armed for; "read": in the pool;
             \*   "write": in the loop of write(); "dropped": read, and not in
             \*   the pool, whose queue was full; "closed"
  req,       \* HttpRequest and the parser's state
  res,       \* HttpResponse
  maps,      \* mappings the process has
  files,     \* the files under doc_root that can be mapped
  m_trigger_mode,  \* that of all connections, handed to init()
  request,   \* what the client asks, <<>> when it asks nothing
  unread,    \* the part of it that is still to be read
  sock,      \* bytes of the response in the kernel
  got,       \* bytes of the response the client has read
  dropped,   \* how often a connection was closed with a file under way
  tries      \* requests and connections so far

vars == <<pc, req, res, maps, files, m_trigger_mode, request, unread, sock, got, dropped, tries>>

TypeOK ==
  /\ pc \in {"in", "read", "out", "write", "dropped", "closed"}
  /\ req.m_check_state \in {"REQUESTLINE", "HEADER", "CONTENT"}
  /\ 0 <= req.m_start_line /\ req.m_start_line <= req.m_checked_idx
  \* A recv that failed has moved m_read_idx; nobody parses before init().
  /\ pc # "closed" => req.m_checked_idx <= m_read_idx(req)
  /\ m_read_idx(req) <= ReadBuf
  /\ m_write_idx(res) \in {0, HeadLen - 1, HeadLen}
  /\ res.bytes_to_send \in 0..(HeadLen + FileLen)
  /\ res.bytes_have_send \in 0..(HeadLen + FileLen)
  /\ res.iov0.len \in 0..HeadLen /\ res.iov1.len \in 0..FileLen
  /\ maps \in Nat /\ Len(sock) <= SockBuf /\ dropped \in 0..tries
  /\ tries \in 0..MaxTries

Init ==
  /\ pc = "closed" /\ req = FreshReq /\ res = FirstRes /\ maps = 0
  /\ files \in FileSets /\ m_trigger_mode \in TrigModes
  /\ request = <<>> /\ unread = <<>> /\ sock = <<>> /\ got = <<>>
  /\ dropped = 0 /\ tries = 0

\* init() without arguments; it leaves the mapping of a file alone.
InitConn == req' = FreshReq /\ res' = ResetRes(res)

-----------------------------------------------------------------------------
(* What a request is for, if it is seen in one piece, and the answer to it. *)

\* All that was read since init().
Arrived ==
  LET taken == Len(request) - Len(unread)
  IN SubSeq(request, taken - m_read_idx(req) + 1, taken)

BodyLen(r) == Cardinality({i \in 1..Len(r) : r[i] = <<"b">>})

\* A body, which comes in one piece, follows the first empty line.
ASSUME BodyAssumption ==
  WholeBody =>
    \A r \in Requests \union Broken :
      (\E i \in 1..Len(r) : r[i][1] = "Content-length") =>
        \A i \in 1..Len(r) :
          /\ r[i] # NUL
          /\ i + 2 <= Len(r) /\ r[i] = LF /\ r[i + 1] = CR /\ r[i + 2] = LF =>
               i + 2 = Len(r) - BodyLen(r)

\* A request of n lines, each ended by CR and LF, an empty one, and the body
\* that a header has announced.
HasLines(r, n) ==
  /\ Len(r) = 3 * n + 2 + BodyLen(r)
  /\ \A k \in 0..(n - 1) :
       r[3 * k + 1] \notin {CR, LF, NUL} /\ r[3 * k + 2] = CR /\ r[3 * k + 3] = LF
  /\ r[3 * n + 1] = CR /\ r[3 * n + 2] = LF
  /\ \A i \in (3 * n + 3)..Len(r) : r[i] = <<"b">>
  /\ r[1] # KeepAlive
  /\ \A k \in 1..(n - 1) : r[3 * k + 1][1] = "Content-length" => r[3 * k + 1][2] = BodyLen(r)
  /\ BodyLen(r) > 0 => \E k \in 1..(n - 1) : r[3 * k + 1][1] = "Content-length"

\* Those who keep to HTTP send such requests; no route has a space in its path;
\* the 404 fits the buffer.
ASSUME RequestAssumption ==
  /\ \A r \in Requests : \E n \in 1..Len(r) : HasLines(r, n)
  /\ \A h \in DOMAIN Routes : h[2] # "garbled"
  /\ "404 not found" \notin LongTexts

Accepted(r) ==
  r[1][1] \in {"GET", "POST"} /\ r[1][3] = "HTTP/1.1" /\ r[1][2] \notin Relative

Page(r) == CASE r[1][1] \notin {"GET", "POST"} -> "garbled"
             [] Accepted(r) -> Rewritten(r[1][2])
             [] OTHER -> r[1][2]

Linger(r) == Accepted(r) /\ KeepAlive \in Range(r)

Handler(r) == <<r[1][1], Page(r)>>

FileAnswer(status, file, linger) ==
  Header(status, file, linger) \o FileBytes(file, 1, FileLen)

\* <<>> when the handler asks for a file that is not there, or sends a text
\* that does not fit.
Answer(r) ==
  CASE Handler(r) \in DOMAIN Routes /\ Routes[Handler(r)][1] = "send" ->
         IF Routes[Handler(r)][2] \in LongTexts THEN <<>>
         ELSE Header(200, Routes[Handler(r)][2], Linger(r))
    [] Handler(r) \in DOMAIN Routes /\ Routes[Handler(r)][1] = "render" ->
         IF Routes[Handler(r)][2] \in files
         THEN FileAnswer(200, Routes[Handler(r)][2], Linger(r)) ELSE <<>>
    [] Handler(r) \notin DOMAIN Routes /\ Page(r) \in files ->
         FileAnswer(202, Page(r), Linger(r))
    [] OTHER -> Header(404, "404 not found", Linger(r))

-----------------------------------------------------------------------------
(* Clients. *)

\* A new client, and init() with arguments.  The kernel has delivered what the
\* last one was sent.
Connect ==
  /\ pc = "closed" /\ sock = <<>> /\ tries < MaxTries
  /\ pc' = "in" /\ InitConn
  /\ request' = <<>> /\ unread' = <<>> /\ got' = <<>>
  /\ tries' = tries + 1
  /\ UNCHANGED <<maps, files, m_trigger_mode, sock, dropped>>

\* A client asks one thing at a time: what it sends before it has the answer
\* to the last request, init() would clear away if it was read along.  When
\* there is none it tries again, once the server listens.
Ask ==
  /\ pc = "in" /\ tries < MaxTries
  /\ \/ request = <<>>
     \/ request \in Requests /\ got = Answer(request) /\ unread = <<>> /\ req = FreshReq
  /\ \E r \in Requests \union Broken : request' = r /\ unread' = r
  /\ got' = <<>> /\ tries' = tries + 1
  /\ UNCHANGED <<pc, req, res, maps, files, m_trigger_mode, sock, dropped>>

Receive ==
  /\ sock # <<>>
  /\ got' = Append(got, sock[1]) /\ sock' = Tail(sock)
  /\ UNCHANGED <<pc, req, res, maps, files, m_trigger_mode, request, unread, dropped, tries>>

\* The client closes, or the timer expires: the loop closes the connection
\* (cb_func), and nobody calls unmap().  A connection whose request was dropped
\* is in no epoll set: it waits for its timer.
HangUp ==
  /\ pc \in {"in", "out", "dropped"}
  /\ pc' = "closed"
  /\ dropped' = dropped + (IF pc = "out" THEN Mapped(res) ELSE 0)
  /\ request' = <<>> /\ unread' = <<>> /\ sock' = <<>> /\ got' = <<>>
  /\ UNCHANGED <<req, res, maps, files, m_trigger_mode, tries>>

-----------------------------------------------------------------------------
(* Reading and processing. *)

\* recv puts n symbols behind what the buffer holds.
Received(n) == [req EXCEPT !.m_read_buf = @ \o SubSeq(unread, 1, n)]

\* Slip: recv is not told how much room the buffer has.
ReadOnce_NoRoom ==
  /\ pc = "in" /\ unread # <<>> /\ m_read_idx(req) < ReadBuf
  /\ \E n \in 1..Len(unread) :
       /\ req' = Received(n)
       /\ unread' = SubSeq(unread, n + 1, Len(unread))
  /\ pc' \in {"read", "dropped"}
  /\ UNCHANGED <<res, maps, files, m_trigger_mode, request, sock, got, dropped, tries>>

\* read_once: recv may return any part of what was sent, and in ET mode is
\* called until nothing more has arrived.  There it must not fill the buffer:
\* the next recv would be one for no bytes, and its 0 be taken for a hang-up.
\* deal_with_read does not look at what append_p says of the queue.
ReadOnce ==
  /\ pc = "in" /\ unread # <<>> /\ m_read_idx(req) < ReadBuf
  /\ \E n \in 1..Len(unread) :
       /\ m_read_idx(req) + n <= ReadBuf - m_trigger_mode
       /\ WholeBody => n = Len(unread) \/ n <= Len(unread) - BodyLen(request)
       /\ req' = Received(n)
       /\ unread' = SubSeq(unread, n + 1, Len(unread))
  /\ pc' \in {"read", "dropped"}
  /\ UNCHANGED <<res, maps, files, m_trigger_mode, request, sock, got, dropped, tries>>

\* read_once finds the buffer full, or fills it in ET mode, and the loop
\* closes the connection.
ReadFull ==
  /\ pc = "in" /\ unread # <<>>
  /\ \/ m_read_idx(req) >= ReadBuf
     \/ m_trigger_mode = 1 /\ m_read_idx(req) + Len(unread) >= ReadBuf
  /\ pc' = "closed"
  /\ LET n == ReadBuf - m_read_idx(req)
     IN req' = Received(n) /\ unread' = SubSeq(unread, n + 1, Len(unread))
  /\ UNCHANGED <<res, maps, files, m_trigger_mode, request, sock, got, dropped, tries>>

\* The connection breaks between epoll's report and recv, and the loop closes
\* it.  In LT mode the -1 of recv is added to m_read_idx before it is tested
\* (from 0 it goes to -1, where the model has 0); in ET mode some of the
\* request may have been read before.
ReadFails ==
  /\ pc = "in" /\ unread # <<>> /\ m_read_idx(req) < ReadBuf
  /\ pc' = "closed"
  /\ \/ m_trigger_mode = 0 /\ req' = [req EXCEPT !.m_read_buf = Front(@)]
     \/ /\ m_trigger_mode = 1
        /\ \E n \in 0..Len(unread) :
             m_read_idx(req) + n < ReadBuf /\ req' = Received(n)
  /\ request' = <<>> /\ unread' = <<>> /\ sock' = <<>> /\ got' = <<>>
  /\ UNCHANGED <<res, maps, files, m_trigger_mode, dropped, tries>>

\* render(): of a file that cannot be mapped nothing is left to send, and
\* unmap() frees what an earlier connection may have left.
RenderFile(r, status, file) ==
  IF file \in files
  THEN /\ res' = Render(r, status, file)
       /\ maps' = maps + 1
  ELSE /\ res' = RenderFails(r)
       /\ maps' = maps - Mapped(r)

\* Slip: no answer for a url that is neither a route nor a file.
HandleRequest_No404(q, r) ==
  LET handler == <<q.m_method, q.m_url>>
  IN \/ /\ handler \in DOMAIN Routes /\ Routes[handler][1] = "send"
        /\ res' = Send(r, 200, Routes[handler][2])
        /\ UNCHANGED maps
     \/ /\ handler \in DOMAIN Routes /\ Routes[handler][1] = "render"
        /\ RenderFile(r, 200, Routes[handler][2])
     \/ /\ handler \notin DOMAIN Routes
        /\ RenderFile(r, 202, q.m_url)

\* handleRequest.  What a handler's send or render returned is not looked at.
HandleRequest(q, r) ==
  LET handler == <<q.m_method, q.m_url>>
  IN \/ /\ handler \in DOMAIN Routes /\ Routes[handler][1] = "send"
        /\ res' = Send(r, 200, Routes[handler][2])
        /\ UNCHANGED maps
     \/ /\ handler \in DOMAIN Routes /\ Routes[handler][1] = "render"
        /\ RenderFile(r, 200, Routes[handler][2])
     \/ /\ handler \notin DOMAIN Routes /\ q.m_url \in files
        /\ RenderFile(r, 202, q.m_url)
     \/ /\ handler \notin DOMAIN Routes /\ q.m_url \notin files
        /\ res' = Send(RenderFails(r), 404, "404 not found")
        /\ maps' = maps - Mapped(r)

\* process.  parse_headers sets m_linger of the response with the request's.
Process ==
  /\ pc = "read"
  /\ LET q == ProcessRead(req)
         r == [res EXCEPT !.m_linger = res.m_linger \/ q.m_linger]
     IN /\ req' = q
        /\ \/ q.ret = "NO_REQUEST" /\ pc' = "in" /\ res' = r /\ UNCHANGED maps
           \/ q.ret # "NO_REQUEST" /\ pc' = "out" /\ HandleRequest(q, r)
  /\ UNCHANGED <<files, m_trigger_mode, request, unread, sock, got, dropped, tries>>

-----------------------------------------------------------------------------
(* write(). *)

WriteNothing ==
  /\ pc = "out" /\ res.bytes_to_send = 0
  /\ pc' = "in" /\ InitConn
  /\ UNCHANGED <<maps, files, m_trigger_mode, request, unread, sock, got, dropped, tries>>

\* What writev may take.  A head is written a second time only when it was cut.
Takes(n) ==
  /\ n \in 1..Len(Gathered(res)) /\ Len(sock) + n <= SockBuf
  /\ WholeHead /\ res.bytes_have_send > 0 => n >= res.iov0.len

\* A round of the loop that leaves bytes to send.
WriteSome ==
  /\ pc \in {"out", "write"} /\ res.bytes_to_send > 0
  /\ \E n \in 1..(res.bytes_to_send - 1) :
       /\ Takes(n)
       /\ sock' = sock \o SubSeq(Gathered(res), 1, n)
       /\ res' = Advance(res, n)
  /\ pc' = "write"
  /\ UNCHANGED <<req, maps, files, m_trigger_mode, request, unread, got, dropped, tries>>

\* The last round: unmap(), and init() if the connection is kept.
WriteLast ==
  /\ pc \in {"out", "write"} /\ res.bytes_to_send > 0 /\ Takes(res.bytes_to_send)
  /\ sock' = sock \o Gathered(res)
  /\ LET done == Unmap(Advance(res, res.bytes_to_send))
     IN \/ req.m_linger /\ pc' = "in" /\ req' = FreshReq /\ res' = ResetRes(done)
        \/ ~req.m_linger /\ pc' = "closed" /\ res' = done /\ UNCHANGED req
  /\ maps' = maps - Mapped(res)
  /\ UNCHANGED <<files, m_trigger_mode, request, unread, got, dropped, tries>>

\* EAGAIN: armed for output.
WriteAgain ==
  /\ pc = "write" /\ \A n \in 1..res.bytes_to_send : ~Takes(n)
  /\ pc' = "out"
  /\ UNCHANGED <<req, res, maps, files, m_trigger_mode, request, unread, sock, got, dropped, tries>>

\* Slip: an error returns without unmap().
WriteError_NoUnmap ==
  /\ pc \in {"out", "write"} /\ res.bytes_to_send > 0
  /\ pc' = "closed"
  /\ request' = <<>> /\ unread' = <<>> /\ sock' = <<>> /\ got' = <<>>
  /\ UNCHANGED <<req, res, maps, files, m_trigger_mode, dropped, tries>>

\* Any other error: the connection was reset, and the loop closes it.  (EPIPE
\* comes with a signal, which ends the process: Proactor, Sigpipe.)
WriteError ==
  /\ pc \in {"out", "write"} /\ res.bytes_to_send > 0
  /\ pc' = "closed" /\ res' = Unmap(res) /\ maps' = maps - Mapped(res)
  /\ request' = <<>> /\ unread' = <<>> /\ sock' = <<>> /\ got' = <<>>
  /\ UNCHANGED <<req, files, m_trigger_mode, dropped, tries>>

Server ==
  \/ ReadOnce \/ ReadFull \/ Process
  \/ WriteNothing \/ WriteSome \/ WriteLast \/ WriteAgain

Next == Connect \/ Ask \/ Receive \/ HangUp \/ ReadFails \/ WriteError \/ Server

\* The kernel schedules the server's threads, the client reads, and the timer of
\* a connection nobody serves expires (ParkedReaped of Proactor).
Fairness == /\ WF_vars(Server) /\ WF_vars(Receive)
            /\ WF_vars(pc = "dropped" /\ HangUp)

Spec == Init /\ [][Next]_vars /\ Fairness

-----------------------------------------------------------------------------
(* Properties. *)

\* The handlers lead the connection through a life ConnLife allows, as its caller
\* does in Proactor: what write() leaves, it or the next init() brings to 0 before
\* there is a read.
Life == INSTANCE ConnLife
          WITH at <- CASE pc = "write" -> "out" [] pc = "dropped" -> "lost" [] OTHER -> pc,
               todo <- res.bytes_to_send
IsConnLife == Life!Spec

\* However the request was cut on its way, and however many calls of process()
\* it took, what they have made of it is what one call would have made of all
\* that has arrived since init() (process_read, whose state lives in HTTP_CONN).
CutAnywhere ==
  pc \in {"in", "out", "write"} /\ m_read_idx(req) > 0 =>
    req = ProcessRead([FreshReq EXCEPT !.m_read_buf = Arrived])

\* The client gets the bytes of the answer to its request in order, none of
\* them twice and none from elsewhere, wherever writev stopped; and all of
\* them by the time the server waits for the next request or closes (write,
\* with the vectors send and render set up).
ResponseIntact ==
  request \in Requests =>
    LET sent == got \o sock
    IN /\ IsPrefix(sent, Answer(request))
       /\ pc = "closed" \/ (pc = "in" /\ sent # <<>>) => sent = Answer(request)

\* A file stays mapped while it is sent, and not after that, except where its
\* connection was closed by the loop: each time at most one mapping is lost
\* (render, write, unmap; close by cb_func).
MapsKept ==
  /\ maps >= Mapped(res)
  /\ maps <= dropped + (IF pc \in {"out", "write"} THEN 1 ELSE 0)
  /\ pc \in {"out", "write"} /\ res.bytes_to_send > 0 /\ res.m_iv_count = 2 =>
       res.m_file # "none"

\* A client that reads gets the whole answer to its request, unless the
\* connection is closed, by it or by the timer, or the handler's file is gone
\* (read_once, process, write).
Answered ==
  (request \in Requests /\ Answer(request) # <<>>)
    ~> (request = <<>> \/ got = Answer(request))

\* process() finds no request only in one that is incomplete
\* (http_coonection.h:63).
NoRequestIsIncomplete ==
  request \in Requests /\ pc = "in" /\ m_read_idx(req) > 0 => unread # <<>>
=============================================================================
