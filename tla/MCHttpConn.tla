----------------------------- MODULE MCHttpConn -----------------------------
(***************************************************************************)
(* HttpConn for TLC, with the routes of main.cpp and one whose handler     *)
(* sends more than the write buffer holds.                                 *)
(***************************************************************************)
EXTENDS HttpConn, TLC

Text(words) == FlattenSeq([i \in 1..Len(words) |-> <<words[i], CR, LF>>])
Ask1(line, headers, body) == Text(<<line>> \o headers) \o <<CR, LF>> \o body
Old(method, url) == <<method, url, "HTTP/1.0">>
Now(method, url) == <<method, url, "HTTP/1.1">>
Host == <<"Host">>

MCRequests ==
  {Ask1(Now("GET", "/"), <<KeepAlive>>, <<>>),
   Ask1(Now("GET", "/about"), <<Host>>, <<>>),
   Ask1(Now("GET", "/none"), <<KeepAlive>>, <<>>),
   Ask1(Now("GET", "/long"), <<KeepAlive>>, <<>>),
   Ask1(Now("GET", "/contact"), <<KeepAlive>>, <<>>),
   Ask1(Now("POST", "/login"), <<ContentLength(2), KeepAlive>>, <<<<"b">>, <<"b">>>>),
   Ask1(Now("PUT", "/login"), <<>>, <<>>),
   Ask1(Now("GET", "about"), <<KeepAlive>>, <<>>),
   Ask1(Old("GET", "/"), <<>>, <<>>)}

\* A line ended by LF alone, one by CR alone, and one line too many.
MCBroken ==
  {<<Now("GET", "/about"), LF, LF>>, <<Now("GET", "/about"), CR, Host, CR>>,
   Text(<<Now("GET", "/about"), Host, Host, Host, Host>>)}

MCRoutes ==
  <<"GET", "/">> :> <<"send", "Hello from root!">>
    @@ <<"GET", "/about">> :> <<"send", "About page">>
    @@ <<"POST", "/login">> :> <<"send", "kaisa hai bhai">>
    @@ <<"GET", "/long">> :> <<"send", "two thousand letters">>
    @@ <<"GET", "/contact">> :> <<"render", "/video.html">>

MCRelative == {"about"}

MCLongTexts == {"two thousand letters"}

MCFileSets == {{"/judge.html", "/video.html"}, {"/judge.html"}}
=============================================================================
