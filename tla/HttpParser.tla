----------------------------- MODULE HttpParser -----------------------------
(***************************************************************************)
(* The request parser (http_connection.cpp:201-390), as operators on its   *)
(* state.  The buffer is a sequence of symbols: CR, LF, NUL, one for the   *)
(* text of a line, whatever its length, and one for a piece of the body.   *)
(* A line's text that arrives in parts is scanned like one that arrives at *)
(* once, so cuts inside it are left out; those around CR and LF and in the *)
(* body are not.  Indices are the code's and count from 0.                 *)
(*                                                                         *)
(* The text of a request line is <<method, url, version>>, where the url   *)
(* stands for its path.  Lines that leave m_url NULL are left out: what    *)
(* the code does with a NULL url is undefined.                             *)
(***************************************************************************)
EXTENDS Integers, Sequences, FiniteSetsExt

CONSTANT Relative   \* the urls whose path does not begin with "/"

CR == <<"CR">>
LF == <<"LF">>
NUL == <<"NUL">>
KeepAlive == <<"Connection", "keep-alive">>
ContentLength(n) == <<"Content-length", n>>

\* What a request is parsed into and how far: fields of HttpRequest and
\* HTTP_CONN as init() leaves them, and the locals of process_read.
FreshReq ==
  [m_read_buf |-> <<>>, m_checked_idx |-> 0, m_start_line |-> 0,
   m_check_state |-> "REQUESTLINE", m_method |-> "GET", m_url |-> "none",
   m_linger |-> FALSE, m_content_length |-> 0,
   line_status |-> "OK", ret |-> "NO_REQUEST"]

m_read_idx(r) == Len(r.m_read_buf)
At(r, i) == r.m_read_buf[i + 1]

\* Where parse_line's scan stops: at a CR or LF, or at the end.
ScanStop(r) ==
  Min({i \in r.m_checked_idx..(m_read_idx(r) - 1) : At(r, i) \in {CR, LF}}
        \union {m_read_idx(r)})

\* CR at i and LF at i + 1 become NULs, and the next line starts after them.
EndLine(r, i) ==
  [r EXCEPT !.m_read_buf[i + 1] = NUL, !.m_read_buf[i + 2] = NUL,
            !.m_checked_idx = i + 2, !.line_status = "OK"]

ParseLine(r) ==
  LET i == ScanStop(r)
      here == i < m_read_idx(r)
      stopped(status) == [r EXCEPT !.m_checked_idx = i, !.line_status = status]
  IN CASE ~here -> stopped("OPEN")
       [] here /\ At(r, i) = CR /\ i + 1 = m_read_idx(r) -> stopped("OPEN")
       [] here /\ At(r, i) = CR /\ i + 1 < m_read_idx(r) ->
            IF At(r, i + 1) = LF THEN EndLine(r, i) ELSE stopped("BAD")
       [] here /\ At(r, i) = LF ->
            IF i > 1 /\ At(r, i - 1) = CR THEN EndLine(r, i - 1) ELSE stopped("BAD")

\* "/" is served as /judge.html, whatever the routes say.
Rewritten(url) == IF url = "/" THEN "/judge.html" ELSE url

\* With a method that is neither GET nor POST the version stays part of the
\* url, which then names no route and no file.  The url of a request in
\* another version is not rewritten, nor one that is not a path; process()
\* answers all of them all the same.
ParseRequestLine(r, text) ==
  LET method == text[1]
      url == text[2]
  IN CASE method \notin {"GET", "POST"} ->
            [r EXCEPT !.m_url = "garbled", !.ret = "BAD_REQUEST"]
       [] method \in {"GET", "POST"} /\ (text[3] # "HTTP/1.1" \/ url \in Relative) ->
            [r EXCEPT !.m_method = method, !.m_url = url, !.ret = "BAD_REQUEST"]
       [] OTHER ->
            [r EXCEPT !.m_method = method, !.m_url = Rewritten(url),
                      !.m_check_state = "HEADER"]

ParseHeaders(r, text) ==
  CASE text = NUL /\ r.m_content_length # 0 -> [r EXCEPT !.m_check_state = "CONTENT"]
    [] text = NUL /\ r.m_content_length = 0 -> [r EXCEPT !.ret = "GET_REQUEST"]
    [] text = KeepAlive -> [r EXCEPT !.m_linger = TRUE]
    [] text[1] = "Content-length" -> [r EXCEPT !.m_content_length = text[2]]
    [] OTHER -> r

\* parse_content, and the LINE_OPEN that process_read sets when the body is
\* not all there.  It is told here from a LINE_OPEN of parse_line, because the
\* loop's condition asks parse_line once more before it ends.
ParseContent(r) ==
  IF m_read_idx(r) >= r.m_content_length + r.m_checked_idx
  THEN [r EXCEPT !.ret = "GET_REQUEST"]
  ELSE [r EXCEPT !.line_status = "CONTENT_OPEN"]

\* Slip: the start of the line moves on also when the line is not complete.
Round_StartsEarly(r) ==
  LET q == IF r.m_check_state = "CONTENT" /\ r.line_status = "OK" THEN r ELSE ParseLine(r)
      s == [q EXCEPT !.m_start_line = q.m_checked_idx]
      text == At(q, q.m_start_line)
  IN CASE q.line_status # "OK" -> s
       [] q.line_status = "OK" /\ q.m_check_state = "REQUESTLINE" -> ParseRequestLine(s, text)
       [] q.line_status = "OK" /\ q.m_check_state = "HEADER" -> ParseHeaders(s, text)
       [] q.line_status = "OK" /\ q.m_check_state = "CONTENT" -> ParseContent(s)

\* The condition of process_read's loop and one round of it.
Round(r) ==
  LET q == IF r.m_check_state = "CONTENT" /\ r.line_status = "OK" THEN r ELSE ParseLine(r)
      s == [q EXCEPT !.m_start_line = q.m_checked_idx]
      text == At(q, q.m_start_line)
  IN CASE q.line_status # "OK" -> q
       [] q.line_status = "OK" /\ q.m_check_state = "REQUESTLINE" -> ParseRequestLine(s, text)
       [] q.line_status = "OK" /\ q.m_check_state = "HEADER" -> ParseHeaders(s, text)
       [] q.line_status = "OK" /\ q.m_check_state = "CONTENT" -> ParseContent(s)

\* The loop is over with a result or without a further line.
Over(r) == r.ret # "NO_REQUEST" \/ r.line_status \in {"OPEN", "BAD"}

\* process_read: every round but the last two consumes a line.  (The sets of
\* one element are for TLC, which evaluates a bound variable once.)
ProcessRead(r) ==
  LET step(s) == CHOOSE q \in {IF Over(p) THEN p ELSE Round(p) : p \in {s}} : TRUE
      after[n \in 0..(m_read_idx(r) + 2)] ==
        IF n = 0 THEN [r EXCEPT !.line_status = "OK", !.ret = "NO_REQUEST"]
        ELSE step(after[n - 1])
  IN after[m_read_idx(r) + 2]
=============================================================================
