-------------------------- MODULE HttpConn_proofs --------------------------
(* Proofs about HttpConn, for any requests, routes, files and buffers:      *)
(* first the parser, then where mappings go and what the client gets.      *)
EXTENDS HttpConn, FiniteSetTheorems, SequenceTheorems, TLAPS

-----------------------------------------------------------------------------
(* Induction over the natural numbers, for sets.                           *)

LEMMA Inductive ==
  ASSUME NEW P, 0 \in P, \A n \in Nat : n \in P => n + 1 \in P
  PROVE  Nat \subseteq P
<1> SUFFICES ASSUME NEW m \in Nat, m \notin P PROVE FALSE
  OBVIOUS
<1> DEFINE A == P \cap (0..m)  B == A \ {0}  f == [x \in A |-> x + 1]
<1>1. IsFiniteSet(A)
  <2>1. IsFiniteSet(0..m) BY FS_Interval
  <2> QED BY <2>1, FS_Subset, A \in SUBSET (0..m)
<1>2. IsFiniteSet(B) /\ Cardinality(B) = Cardinality(A) - 1
  BY <1>1, FS_RemoveElement, 0 \in A
<1>3. Cardinality(B) < Cardinality(A) BY <1>1, <1>2, FS_CardinalityType
<1>4. f \in [A -> B] OBVIOUS
<1>5. \A x, y \in A : f[x] = f[y] => x = y OBVIOUS
<1> HIDE DEF A, B, f
<1> QED BY <1>1, <1>2, <1>3, <1>4, <1>5, FS_PigeonHole

\* A set of natural numbers that has an element has a least one.
LEMMA LeastOf ==
  ASSUME NEW S \in SUBSET Nat, S # {}
  PROVE  Min(S) \in S /\ \A y \in S : Min(S) <= y
<1> DEFINE P == {n \in Nat : \A m \in 0..n : m \notin S}
<1>1. \E x \in S : \A y \in S : x <= y
  <2> SUFFICES ASSUME \A x \in S : \E y \in S : y < x PROVE FALSE
    OBVIOUS
  <2>1. 0 \in P OBVIOUS
  <2>2. \A n \in Nat : n \in P => n + 1 \in P
    <3> SUFFICES ASSUME NEW n \in Nat, n \in P, NEW m \in 0..(n + 1), m \in S
                 PROVE  FALSE
      OBVIOUS
    <3>1. m = n + 1 OBVIOUS
    <3>2. PICK y \in S : y < m OBVIOUS
    <3>3. y \in 0..n BY <3>1, <3>2
    <3> QED BY <3>2, <3>3
  <2>3. Nat \subseteq P
    <3> HIDE DEF P
    <3> QED BY <2>1, <2>2, Inductive
  <2>4. PICK x \in S : TRUE OBVIOUS
  <2>5. x \in P /\ x \in 0..x BY <2>3
  <2> QED BY <2>5
<1> QED BY <1>1 DEF Min

-----------------------------------------------------------------------------
(* Sequences.                                                              *)

LEMMA Concat ==
  ASSUME NEW S, NEW s \in Seq(S), NEW t \in Seq(S)
  PROVE  /\ s \o t \in Seq(S) /\ Len(s) \in Nat /\ Len(t) \in Nat
         /\ Len(s \o t) = Len(s) + Len(t)
         /\ \A i \in 1..Len(s) : (s \o t)[i] = s[i]
         /\ \A i \in 1..Len(t) : (s \o t)[Len(s) + i] = t[i]
  OBVIOUS

LEMMA SameSeq ==
  ASSUME NEW S, NEW s \in Seq(S), NEW t \in Seq(S), Len(s) = Len(t),
         \A i \in 1..Len(s) : s[i] = t[i]
  PROVE  s = t
  OBVIOUS

\* A part of a sequence.
LEMMA Part ==
  ASSUME NEW S, NEW s \in Seq(S), NEW m \in Nat, NEW n \in Nat, m <= n, n <= Len(s)
  PROVE  /\ SubSeq(s, m + 1, n) \in Seq(S)
         /\ Len(SubSeq(s, m + 1, n)) = n - m
         /\ \A i \in 1..(n - m) : SubSeq(s, m + 1, n)[i] = s[m + i]
  OBVIOUS

\* Two parts that meet.
LEMMA Parts ==
  ASSUME NEW S, NEW s \in Seq(S), NEW k \in Nat, NEW m \in Nat, NEW n \in Nat,
         k <= m, m <= n, n <= Len(s)
  PROVE  SubSeq(s, k + 1, m) \o SubSeq(s, m + 1, n) = SubSeq(s, k + 1, n)
<1> DEFINE a == SubSeq(s, k + 1, m)  b == SubSeq(s, m + 1, n)  c == SubSeq(s, k + 1, n)
<1>1. a \in Seq(S) /\ Len(a) = m - k /\ \A i \in 1..(m - k) : a[i] = s[k + i] BY Part
<1>2. b \in Seq(S) /\ Len(b) = n - m /\ \A i \in 1..(n - m) : b[i] = s[m + i] BY Part
<1>3. c \in Seq(S) /\ Len(c) = n - k /\ \A i \in 1..(n - k) : c[i] = s[k + i]
  <2>1. k <= n OBVIOUS
  <2> QED BY <2>1, Part
<1> HIDE DEF a, b, c
<1>4. /\ a \o b \in Seq(S) /\ Len(a \o b) = Len(a) + Len(b)
      /\ \A i \in 1..Len(a) : (a \o b)[i] = a[i]
      /\ \A i \in 1..Len(b) : (a \o b)[Len(a) + i] = b[i]
  <2>1. a \in Seq(S) /\ b \in Seq(S) BY <1>1, <1>2
  <2> QED BY <2>1, Concat
<1>5. ASSUME NEW i \in 1..(n - k) PROVE (a \o b)[i] = c[i]
  <2>1. CASE i <= m - k
    <3>1. i \in 1..(m - k) /\ i \in 1..Len(a) BY <1>1, <2>1
    <3> QED BY <1>1, <1>3, <1>4, <3>1
  <2>2. CASE ~(i <= m - k)
    <3> DEFINE j == i - (m - k)
    <3>1. j \in 1..(n - m) /\ (m - k) + j = i /\ m + j = k + i BY <2>2
    <3> HIDE DEF j
    <3>2. (a \o b)[i] = b[j] BY <1>1, <1>2, <1>4, <3>1
    <3>3. b[j] = s[k + i] BY <1>2, <3>1
    <3> QED BY <1>3, <3>2, <3>3
  <2> QED BY <2>1, <2>2
<1>6. Len(a \o b) = n - k BY <1>1, <1>2, <1>4
<1>7. a \o b = c BY <1>3, <1>4, <1>5, <1>6, SameSeq
<1> QED BY <1>7 DEF a, b, c

\* A part of a part.
LEMMA PartOfPart ==
  ASSUME NEW S, NEW s \in Seq(S), NEW m \in Nat, NEW n \in Nat, m <= n, n <= Len(s),
         NEW k \in Nat, NEW l \in Nat, k <= l, l <= n - m
  PROVE  SubSeq(SubSeq(s, m + 1, n), k + 1, l) = SubSeq(s, (m + k) + 1, m + l)
<1> DEFINE a == SubSeq(s, m + 1, n)  b == SubSeq(a, k + 1, l)
           p == m + k  q == m + l  c == SubSeq(s, p + 1, q)
<1>1. a \in Seq(S) /\ Len(a) = n - m /\ \A i \in 1..(n - m) : a[i] = s[m + i] BY Part
<1>2. p \in Nat /\ q \in Nat /\ p <= q /\ q <= Len(s) /\ q - p = l - k OBVIOUS
<1> HIDE DEF a
<1>3. b \in Seq(S) /\ Len(b) = l - k /\ \A i \in 1..(l - k) : b[i] = a[k + i]
  <2>1. l <= Len(a) BY <1>1
  <2> QED BY <1>1, <2>1, Part
<1> HIDE DEF b
<1>4. c \in Seq(S) /\ Len(c) = q - p /\ \A i \in 1..(q - p) : c[i] = s[p + i]
  <2> HIDE DEF p, q
  <2> QED BY <1>2, Part
<1> HIDE DEF c
<1>5. ASSUME NEW i \in 1..(l - k) PROVE b[i] = c[i]
  <2>1. k + i \in 1..(n - m) /\ m + (k + i) = p + i BY <1>1
  <2>2. b[i] = s[m + (k + i)] BY <1>1, <1>3, <2>1
  <2> QED BY <1>2, <1>4, <2>1, <2>2
<1>6. b = c BY <1>2, <1>3, <1>4, <1>5, SameSeq
<1> QED BY <1>6 DEF a, b, c, p, q

-----------------------------------------------------------------------------
(* The state of the parser.                                                *)

Fields ==
  {"m_read_buf", "m_checked_idx", "m_start_line", "m_check_state", "m_method", "m_url",
   "m_linger", "m_content_length", "line_status", "ret"}

\* What a request is made of, and what parse_line makes of it.
Symbols == {NUL} \union UNION {Range(r) : r \in Requests \union Broken}

\* What every round of process_read keeps.
Parsing(r) ==
  /\ r = [x \in Fields |-> r[x]]
  /\ r.m_read_buf \in Seq(Symbols)
  /\ r.m_check_state \in {"REQUESTLINE", "HEADER", "CONTENT"}
  /\ r.m_start_line \in Nat /\ r.m_checked_idx \in Nat
  /\ r.m_start_line <= r.m_checked_idx /\ r.m_checked_idx <= m_read_idx(r)
  /\ r.line_status \in {"OK", "OPEN", "BAD", "CONTENT_OPEN"}
  /\ r.line_status = "CONTENT_OPEN" => r.m_check_state = "CONTENT"

\* Where parse_line's scan stops, said without Min.
Stops(r, i) ==
  /\ i \in r.m_checked_idx..m_read_idx(r)
  /\ \A j \in r.m_checked_idx..(i - 1) : At(r, j) \notin {CR, LF}
  /\ i < m_read_idx(r) => At(r, i) \in {CR, LF}

LEMMA StopsUnique ==
  ASSUME NEW r, Parsing(r), NEW i, NEW j, Stops(r, i), Stops(r, j)
  PROVE  i = j
<1>1. m_read_idx(r) \in Nat /\ r.m_checked_idx \in Nat BY DEF Parsing, m_read_idx
<1>2. i \in Nat /\ j \in Nat BY <1>1 DEF Stops
<1>3. CASE i < j
  <2>1. i \in r.m_checked_idx..(j - 1) /\ i < m_read_idx(r) BY <1>1, <1>2, <1>3 DEF Stops
  <2> QED BY <2>1 DEF Stops
<1>4. CASE j < i
  <2>1. j \in r.m_checked_idx..(i - 1) /\ j < m_read_idx(r) BY <1>1, <1>2, <1>4 DEF Stops
  <2> QED BY <2>1 DEF Stops
<1> QED BY <1>2, <1>3, <1>4

LEMMA ScanStops ==
  ASSUME NEW r, Parsing(r)
  PROVE  Stops(r, ScanStop(r))
<1> DEFINE N == m_read_idx(r)
           S == {i \in r.m_checked_idx..(N - 1) : At(r, i) \in {CR, LF}} \union {N}
<1>1. N \in Nat /\ r.m_checked_idx \in Nat /\ r.m_checked_idx <= N
  BY DEF Parsing, m_read_idx
<1> HIDE DEF N
<1>2. S \in SUBSET Nat /\ S # {} BY <1>1
<1>3. Min(S) \in S /\ \A y \in S : Min(S) <= y BY <1>2, LeastOf
<1>4. ScanStop(r) = Min(S) BY DEF ScanStop, N
<1>5. ASSUME NEW j \in r.m_checked_idx..(ScanStop(r) - 1), At(r, j) \in {CR, LF}
      PROVE  FALSE
  <2>1. j \in S BY <1>1, <1>3, <1>4, <1>5
  <2> QED BY <1>1, <1>3, <1>4, <1>5, <2>1
<1> QED BY <1>1, <1>3, <1>4, <1>5 DEF Stops, N

\* The four ways in which parse_line ends.
LEMMA LineCases ==
  ASSUME NEW r, Parsing(r)
  PROVE  LET i == ScanStop(r)
             Stopped(status) == [r EXCEPT !.m_checked_idx = i, !.line_status = status]
         IN \/ /\ i = m_read_idx(r) \/ (At(r, i) = CR /\ i + 1 = m_read_idx(r))
               /\ ParseLine(r) = Stopped("OPEN")
            \/ /\ i < m_read_idx(r) /\ At(r, i) = CR /\ i + 1 < m_read_idx(r)
               /\ At(r, i + 1) = LF /\ ParseLine(r) = EndLine(r, i)
            \/ /\ i < m_read_idx(r) /\ At(r, i) = LF /\ i > 1 /\ At(r, i - 1) = CR
               /\ ParseLine(r) = EndLine(r, i - 1)
            \/ /\ i < m_read_idx(r)
               /\ \/ At(r, i) = CR /\ i + 1 < m_read_idx(r) /\ At(r, i + 1) # LF
                  \/ At(r, i) = LF /\ ~(i > 1 /\ At(r, i - 1) = CR)
               /\ ParseLine(r) = Stopped("BAD")
<1> DEFINE i == ScanStop(r)  N == m_read_idx(r)
<1>1. i \in Nat /\ N \in Nat /\ i <= N /\ (i < N => At(r, i) = CR \/ At(r, i) = LF)
  BY ScanStops DEF Stops, Parsing, m_read_idx
<1>2. CR # LF BY DEF CR, LF
<1>3. CASE i = N BY <1>1, <1>3 DEF ParseLine
<1>4. CASE i < N /\ At(r, i) = CR /\ i + 1 = N BY <1>1, <1>2, <1>4 DEF ParseLine
<1>5. CASE i < N /\ At(r, i) = CR /\ i + 1 < N BY <1>1, <1>2, <1>5 DEF ParseLine
<1>6. CASE i < N /\ At(r, i) = LF BY <1>1, <1>2, <1>6 DEF ParseLine
<1> QED BY <1>1, <1>3, <1>4, <1>5, <1>6

LEMMA EndLineFields ==
  ASSUME NEW r, Parsing(r), NEW i \in Nat, i + 1 < m_read_idx(r), r.m_checked_idx <= i + 1
  PROVE  /\ Parsing(EndLine(r, i))
         /\ m_read_idx(EndLine(r, i)) = m_read_idx(r)
         /\ EndLine(r, i).m_checked_idx = i + 2
         /\ EndLine(r, i).line_status = "OK"
         /\ \A x \in Fields \ {"m_read_buf", "m_checked_idx", "line_status"} :
              EndLine(r, i)[x] = r[x]
         /\ \A j \in 1..m_read_idx(r) :
              EndLine(r, i).m_read_buf[j] = IF j \in {i + 1, i + 2} THEN NUL ELSE r.m_read_buf[j]
<1> DEFINE q == EndLine(r, i)  buf == [r.m_read_buf EXCEPT ![i + 1] = NUL, ![i + 2] = NUL]
<1>1. q = [x \in Fields |-> CASE x = "m_read_buf" -> buf [] x = "m_checked_idx" -> i + 2
                              [] x = "line_status" -> "OK" [] OTHER -> r[x]]
  BY DEF EndLine, Parsing, Fields
<1>2. NUL \in Symbols BY DEF Symbols
<1>3. r.m_read_buf \in Seq(Symbols) /\ m_read_idx(r) = Len(r.m_read_buf)
  BY DEF Parsing, m_read_idx
<1>4. /\ buf \in Seq(Symbols) /\ Len(buf) = m_read_idx(r)
      /\ \A j \in 1..m_read_idx(r) :
           buf[j] = IF j \in {i + 1, i + 2} THEN NUL ELSE r.m_read_buf[j]
  BY <1>2, <1>3
<1> HIDE DEF buf
<1>5. /\ q.m_read_buf = buf /\ q.m_checked_idx = i + 2 /\ q.line_status = "OK"
      /\ \A x \in Fields \ {"m_read_buf", "m_checked_idx", "line_status"} : q[x] = r[x]
      /\ q = [x \in Fields |-> q[x]]
  BY <1>1 DEF Fields
<1>6. q.m_check_state = r.m_check_state /\ q.m_start_line = r.m_start_line
  BY <1>5 DEF Fields
<1> HIDE DEF q
<1>7. Parsing(q) BY <1>3, <1>4, <1>5, <1>6 DEF Parsing, m_read_idx
<1> QED BY <1>4, <1>5, <1>7 DEF q, m_read_idx

\* What parse_line leaves alone, and how far it goes.
LEMMA LineParsed ==
  ASSUME NEW r, Parsing(r)
  PROVE  LET q == ParseLine(r)
         IN /\ Parsing(q) /\ m_read_idx(q) = m_read_idx(r)
            /\ q.line_status \in {"OK", "OPEN", "BAD"}
            /\ q.line_status = "OK" => q.m_checked_idx > r.m_checked_idx
            /\ q.line_status # "OK" =>
                 /\ q = [r EXCEPT !.m_checked_idx = ScanStop(r), !.line_status = q.line_status]
                 /\ q.m_checked_idx = ScanStop(r)
            /\ \A x \in Fields \ {"m_read_buf", "m_checked_idx", "line_status"} : q[x] = r[x]
<1> DEFINE i == ScanStop(r)  N == m_read_idx(r)  q == ParseLine(r)
           Stopped(status) == [r EXCEPT !.m_checked_idx = i, !.line_status = status]
<1>1. i \in r.m_checked_idx..N /\ N \in Nat /\ r.m_checked_idx \in Nat
  BY ScanStops DEF Stops, Parsing, m_read_idx
<1>2. ASSUME NEW status \in {"OPEN", "BAD"}
      PROVE  /\ Parsing(Stopped(status)) /\ m_read_idx(Stopped(status)) = N
             /\ Stopped(status).line_status = status /\ Stopped(status).m_checked_idx = i
             /\ \A x \in Fields \ {"m_read_buf", "m_checked_idx", "line_status"} :
                  Stopped(status)[x] = r[x]
  <2>1. /\ Stopped(status) = [x \in Fields |-> Stopped(status)[x]]
        /\ Stopped(status).line_status = status /\ Stopped(status).m_checked_idx = i
        /\ Stopped(status).m_read_buf = r.m_read_buf
        /\ \A x \in Fields \ {"m_checked_idx", "line_status"} : Stopped(status)[x] = r[x]
    BY DEF Parsing, Fields
  <2>2. /\ Stopped(status).m_start_line = r.m_start_line
        /\ Stopped(status).m_check_state = r.m_check_state
    BY <2>1 DEF Fields
  <2> HIDE DEF Stopped
  <2> QED BY <1>1, <2>1, <2>2 DEF Parsing, m_read_idx
<1>3. CASE q = Stopped("OPEN") BY <1>2, <1>3
<1>4. CASE q = Stopped("BAD") BY <1>2, <1>4
<1>5. CASE q = EndLine(r, i) /\ i + 1 < N
  <2>1. i \in Nat /\ i + 1 < m_read_idx(r) /\ r.m_checked_idx <= i + 1 /\ i + 2 > r.m_checked_idx
    BY <1>1, <1>5
  <2> HIDE DEF i, N
  <2> QED BY <1>5, <2>1, EndLineFields
<1>6. CASE q = EndLine(r, i - 1) /\ i < N /\ i > 1
  <2> DEFINE k == i - 1
  <2>1. k \in Nat /\ k + 1 < m_read_idx(r) /\ r.m_checked_idx <= k + 1 /\ k + 2 > r.m_checked_idx
    BY <1>1, <1>6
  <2>2. q = EndLine(r, k) BY <1>6
  <2> HIDE DEF i, k, N, q
  <2> QED BY <2>1, <2>2, EndLineFields DEF q
<1> QED BY LineCases, <1>3, <1>4, <1>5, <1>6

-----------------------------------------------------------------------------
(* The loop of process_read.                                               *)

\* The line that the loop looks at next: it asks parse_line, or in the body
\* takes what there is.
Looked(r) == IF r.m_check_state = "CONTENT" /\ r.line_status = "OK" THEN r ELSE ParseLine(r)

LEMMA LookedFields ==
  ASSUME NEW r, Parsing(r)
  PROVE  LET q == Looked(r)
         IN /\ Parsing(q) /\ m_read_idx(q) = m_read_idx(r)
            /\ q.line_status \in {"OK", "OPEN", "BAD"}
            /\ \A x \in Fields \ {"m_read_buf", "m_checked_idx", "line_status"} : q[x] = r[x]
            /\ q.m_check_state = r.m_check_state /\ q.m_start_line = r.m_start_line
            /\ q.ret = r.ret
            /\ q.m_checked_idx >= r.m_checked_idx
            /\ q.m_start_line < q.m_checked_idx \/ q.line_status # "OK" \/ q = r
<1>1. CASE Looked(r) = r /\ r.line_status = "OK"
  BY <1>1 DEF Parsing
<1>2. CASE Looked(r) = ParseLine(r)
  <2> DEFINE q == ParseLine(r)
  <2>1. /\ Parsing(q) /\ m_read_idx(q) = m_read_idx(r)
        /\ q.line_status \in {"OK", "OPEN", "BAD"}
        /\ q.line_status = "OK" => q.m_checked_idx > r.m_checked_idx
        /\ q.line_status # "OK" => q.m_checked_idx = ScanStop(r)
        /\ \A x \in Fields \ {"m_read_buf", "m_checked_idx", "line_status"} : q[x] = r[x]
    BY LineParsed
  <2> HIDE DEF q
  <2>2. q.m_check_state = r.m_check_state /\ q.m_start_line = r.m_start_line /\ q.ret = r.ret
    BY <2>1 DEF Fields
  <2>3. ScanStop(r) >= r.m_checked_idx /\ r.m_start_line <= r.m_checked_idx
        /\ r.m_checked_idx \in Nat /\ q.m_checked_idx \in Nat /\ r.m_start_line \in Nat
    BY <2>1, ScanStops DEF Stops, Parsing
  <2> QED BY <1>2, <2>1, <2>2, <2>3 DEF q
<1> QED BY <1>1, <1>2 DEF Looked

\* The next line begins where this one ended.
Line(q) == [q EXCEPT !.m_start_line = q.m_checked_idx]

\* What is made of a line.
Digest(q, text) ==
  CASE q.m_check_state = "REQUESTLINE" -> ParseRequestLine(Line(q), text)
    [] q.m_check_state = "HEADER" -> ParseHeaders(Line(q), text)
    [] q.m_check_state = "CONTENT" -> ParseContent(Line(q))

LEMMA RoundIs ==
  ASSUME NEW r, Parsing(r)
  PROVE  Round(r) = IF Looked(r).line_status # "OK" THEN Looked(r)
                    ELSE Digest(Looked(r), At(Looked(r), Looked(r).m_start_line))
<1> DEFINE q == Looked(r)
<1>1. q.m_check_state \in {"REQUESTLINE", "HEADER", "CONTENT"} BY LookedFields DEF Parsing
<1>2. q = IF r.m_check_state = "CONTENT" /\ r.line_status = "OK" THEN r ELSE ParseLine(r)
  BY DEF Looked
<1> HIDE DEF q
<1>3. Round(r) = CASE q.line_status # "OK" -> q
       [] q.line_status = "OK" /\ q.m_check_state = "REQUESTLINE" ->
            ParseRequestLine(Line(q), At(q, q.m_start_line))
       [] q.line_status = "OK" /\ q.m_check_state = "HEADER" ->
            ParseHeaders(Line(q), At(q, q.m_start_line))
       [] q.line_status = "OK" /\ q.m_check_state = "CONTENT" -> ParseContent(Line(q))
  BY <1>2 DEF Round, Line
<1>4. CASE q.line_status # "OK" BY <1>3, <1>4 DEF q
<1>5. CASE q.line_status = "OK" /\ q.m_check_state = "REQUESTLINE"
  BY <1>3, <1>5 DEF Digest, q
<1>6. CASE q.line_status = "OK" /\ q.m_check_state = "HEADER"
  BY <1>3, <1>6 DEF Digest, q
<1>7. CASE q.line_status = "OK" /\ q.m_check_state = "CONTENT"
  BY <1>3, <1>7 DEF Digest, q
<1> QED BY <1>1, <1>4, <1>5, <1>6, <1>7

LEMMA LineFields ==
  ASSUME NEW q, Parsing(q)
  PROVE  /\ Parsing(Line(q)) /\ m_read_idx(Line(q)) = m_read_idx(q)
         /\ Line(q).m_start_line = q.m_checked_idx
         /\ \A x \in Fields \ {"m_start_line"} : Line(q)[x] = q[x]
<1>1. /\ Line(q) = [x \in Fields |-> Line(q)[x]]
      /\ Line(q).m_start_line = q.m_checked_idx
      /\ \A x \in Fields \ {"m_start_line"} : Line(q)[x] = q[x]
  BY DEF Line, Parsing, Fields
<1>2. /\ Line(q).m_read_buf = q.m_read_buf /\ Line(q).m_checked_idx = q.m_checked_idx
      /\ Line(q).m_check_state = q.m_check_state /\ Line(q).line_status = q.line_status
  BY <1>1 DEF Fields
<1> QED BY <1>1, <1>2 DEF Parsing, m_read_idx

LEMMA DigestFields ==
  ASSUME NEW q, Parsing(q), q.line_status = "OK", NEW text
  PROVE  LET t == Digest(q, text)
         IN /\ Parsing(t) /\ m_read_idx(t) = m_read_idx(q)
            /\ t.m_read_buf = q.m_read_buf
            /\ t.m_start_line = q.m_checked_idx /\ t.m_checked_idx = q.m_checked_idx
            /\ t.line_status \in {"OK", "CONTENT_OPEN"}
            /\ q.m_check_state # "CONTENT" => t.line_status = "OK"
            /\ q.m_check_state = "CONTENT" =>
                 /\ t.m_check_state = "CONTENT"
                 /\ t.ret = "GET_REQUEST" \/ (t.line_status = "CONTENT_OPEN" /\ t.ret = q.ret)
<1> DEFINE s == Line(q)  t == Digest(q, text)
<1>1. /\ Parsing(s) /\ m_read_idx(s) = m_read_idx(q) /\ s.m_start_line = q.m_checked_idx
      /\ s.m_check_state = q.m_check_state /\ s.m_read_buf = q.m_read_buf
      /\ s.m_checked_idx = q.m_checked_idx /\ s.line_status = "OK" /\ s.ret = q.ret
  BY LineFields DEF Fields
<1>2. q.m_check_state \in {"REQUESTLINE", "HEADER", "CONTENT"} BY DEF Parsing
<1> HIDE DEF s
<1>3. /\ t = [x \in Fields |-> t[x]]
      /\ t.m_read_buf = s.m_read_buf /\ t.m_start_line = s.m_start_line
      /\ t.m_checked_idx = s.m_checked_idx
      /\ t.m_check_state \in {"REQUESTLINE", "HEADER", "CONTENT"}
      /\ t.line_status \in {"OK", "CONTENT_OPEN"}
      /\ q.m_check_state # "CONTENT" => t.line_status = "OK"
      /\ q.m_check_state = "CONTENT" =>
           /\ t.m_check_state = "CONTENT"
           /\ t.ret = "GET_REQUEST" \/ (t.line_status = "CONTENT_OPEN" /\ t.ret = q.ret)
  <2>1. CASE q.m_check_state = "REQUESTLINE"
    <3>1. t = ParseRequestLine(s, text) BY <2>1 DEF Digest, s
    <3> HIDE DEF t
    <3> QED BY <1>1, <2>1, <3>1 DEF ParseRequestLine, Parsing, Fields
  <2>2. CASE q.m_check_state = "HEADER"
    <3>1. t = ParseHeaders(s, text) BY <2>2 DEF Digest, s
    <3> HIDE DEF t
    <3>2. /\ s = [x \in Fields |-> s[x]] /\ s.line_status = "OK"
          /\ s.m_check_state = "HEADER"
      BY <1>1, <2>2 DEF Parsing
    <3>3. \/ t = s \/ t = [s EXCEPT !.m_check_state = "CONTENT"]
          \/ t = [s EXCEPT !.ret = "GET_REQUEST"] \/ t = [s EXCEPT !.m_linger = TRUE]
          \/ t = [s EXCEPT !.m_content_length = text[2]]
      BY <3>1 DEF ParseHeaders
    <3> QED BY <2>2, <3>2, <3>3 DEF Fields
  <2>3. CASE q.m_check_state = "CONTENT"
    <3>1. t = ParseContent(s) BY <2>3 DEF Digest, s
    <3> HIDE DEF t
    <3> QED BY <1>1, <2>3, <3>1 DEF ParseContent, Parsing, Fields
  <2> QED BY <1>2, <2>1, <2>2, <2>3
<1> HIDE DEF t
<1>4. Parsing(t) /\ m_read_idx(t) = m_read_idx(q)
  BY <1>1, <1>3 DEF Parsing, m_read_idx
<1> QED BY <1>1, <1>3, <1>4 DEF t

\* How many rounds may be left.
Left(r) == m_read_idx(r) - r.m_checked_idx + (IF r.line_status = "CONTENT_OPEN" THEN 1 ELSE 2)

\* A round keeps the state of the parser together, and brings it nearer to
\* the end.
LEMMA RoundProgress ==
  ASSUME NEW r, Parsing(r), ~Over(r)
  PROVE  /\ Parsing(Round(r)) /\ m_read_idx(Round(r)) = m_read_idx(r)
         /\ Over(Round(r)) \/ Left(Round(r)) < Left(r)
<1> DEFINE q == Looked(r)  t == Digest(q, At(q, q.m_start_line))
<1>1. /\ r.ret = "NO_REQUEST" /\ r.line_status \in {"OK", "CONTENT_OPEN"}
      /\ r.line_status = "CONTENT_OPEN" => r.m_check_state = "CONTENT"
  BY DEF Over, Parsing
<1>2. /\ Parsing(q) /\ m_read_idx(q) = m_read_idx(r)
      /\ q.line_status \in {"OK", "OPEN", "BAD"}
      /\ q.m_check_state = r.m_check_state /\ q.ret = r.ret
  BY LookedFields
<1>3. CASE q.line_status # "OK"
  <2>1. Round(r) = q BY <1>3, RoundIs
  <2>2. Over(q) BY <1>2, <1>3 DEF Over
  <2> QED BY <1>2, <2>1, <2>2
<1>4. CASE q.line_status = "OK"
  <2>1. Round(r) = t BY <1>4, RoundIs
  <2>2. /\ Parsing(t) /\ m_read_idx(t) = m_read_idx(q)
        /\ t.m_checked_idx = q.m_checked_idx
        /\ t.line_status \in {"OK", "CONTENT_OPEN"}
        /\ q.m_check_state = "CONTENT" => t.ret = "GET_REQUEST" \/ t.line_status = "CONTENT_OPEN"
    BY <1>2, <1>4, DigestFields
  <2>3. \/ q = r /\ r.m_check_state = "CONTENT" /\ r.line_status = "OK"
        \/ /\ q.m_checked_idx > r.m_checked_idx
           /\ ~(r.m_check_state = "CONTENT" /\ r.line_status = "OK")
    BY <1>4, LineParsed DEF Looked
  <2>4. /\ m_read_idx(r) \in Nat /\ r.m_checked_idx \in Nat /\ q.m_checked_idx \in Nat
    BY <1>2 DEF Parsing, m_read_idx
  <2> HIDE DEF q, t
  <2>5. t.ret = "GET_REQUEST" => Over(t) BY DEF Over
  <2>6. CASE r.m_check_state = "CONTENT"
    BY <1>1, <1>2, <2>1, <2>2, <2>3, <2>4, <2>5, <2>6 DEF Left
  <2>7. CASE r.m_check_state # "CONTENT"
    BY <1>1, <1>2, <2>1, <2>2, <2>3, <2>4, <2>7 DEF Left
  <2> QED BY <2>6, <2>7
<1> QED BY <1>2, <1>3, <1>4

\* A round, or nothing more.
Turn(r) == IF Over(r) THEN r ELSE Round(r)

\* The states of the loop up to round n, and all of them.
IsRun(n, r, g) == g = [i \in 0..n |-> IF i = 0 THEN r ELSE Turn(g[i - 1])]
Rounds(r) == [n \in Nat |-> (CHOOSE g : IsRun(n, r, g))[n]]

LEMMA RunLinks ==
  ASSUME NEW n \in Nat, NEW r, NEW g
  PROVE  IsRun(n, r, g) <=> /\ g = [i \in 0..n |-> g[i]]
                            /\ g[0] = r
                            /\ \A i \in 0..n : i # 0 => g[i] = Turn(g[i - 1])
<1>1. 0 \in 0..n OBVIOUS
<1> QED BY <1>1 DEF IsRun

LEMMA RunExists ==
  ASSUME NEW r, NEW n \in Nat
  PROVE  \E g : IsRun(n, r, g)
<1> DEFINE P == {m \in Nat : \E g : IsRun(m, r, g)}
<1>1. 0 \in P
  <2> DEFINE g == [i \in 0..0 |-> r]
  <2>1. g = [i \in 0..0 |-> g[i]] /\ g[0] = r /\ \A i \in 0..0 : i = 0 OBVIOUS
  <2> HIDE DEF g
  <2>2. IsRun(0, r, g) BY <2>1, RunLinks
  <2> QED BY <2>2
<1>2. ASSUME NEW m \in Nat, m \in P PROVE m + 1 \in P
  <2>1. PICK g : IsRun(m, r, g) BY <1>2
  <2> DEFINE h == [i \in 0..(m + 1) |-> IF i = m + 1 THEN Turn(g[m]) ELSE g[i]]
  <2>2. g[0] = r /\ \A i \in 0..m : i # 0 => g[i] = Turn(g[i - 1]) BY <2>1, RunLinks
  <2>3. h = [i \in 0..(m + 1) |-> h[i]] OBVIOUS
  <2>4. h[0] = r BY <2>2
  <2>5. ASSUME NEW i \in 0..(m + 1), i # 0 PROVE h[i] = Turn(h[i - 1])
    <3>1. CASE i = m + 1 BY <3>1
    <3>2. CASE i # m + 1
      <4>1. i \in 0..m /\ i - 1 \in 0..(m + 1) /\ i - 1 # m + 1
          BY <2>5, <3>2
      <4>2. h[i] = g[i] /\ h[i - 1] = g[i - 1] BY <4>1
      <4> HIDE DEF h
      <4> QED BY <2>2, <2>5, <4>1, <4>2
    <3> QED BY <3>1, <3>2
  <2> DEFINE k == m + 1
  <2>6. k \in Nat OBVIOUS
  <2>7. h = [i \in 0..k |-> h[i]] /\ \A i \in 0..k : i # 0 => h[i] = Turn(h[i - 1])
    BY <2>3, <2>5
  <2> HIDE DEF h, k
  <2>8. IsRun(k, r, h) BY <2>4, <2>6, <2>7, RunLinks
  <2> QED BY <2>8 DEF k
<1> HIDE DEF P
<1>3. Nat \subseteq P BY <1>1, <1>2, Inductive
<1> QED BY <1>3 DEF P

\* Longer runs continue shorter ones.
LEMMA RunsAgree ==
  ASSUME NEW r, NEW n \in Nat, NEW m \in Nat, NEW g, NEW h, IsRun(n, r, g), IsRun(m, r, h),
         NEW k \in Nat, k <= n, k <= m
  PROVE  g[k] = h[k]
<1> DEFINE P == {i \in Nat : i <= n /\ i <= m => g[i] = h[i]}
<1>1. /\ g[0] = r /\ \A i \in 0..n : i # 0 => g[i] = Turn(g[i - 1])
      /\ h[0] = r /\ \A i \in 0..m : i # 0 => h[i] = Turn(h[i - 1])
  BY RunLinks
<1>2. 0 \in P BY <1>1
<1>3. ASSUME NEW i \in Nat, i \in P PROVE i + 1 \in P
  <2> SUFFICES ASSUME i + 1 <= n, i + 1 <= m PROVE g[i + 1] = h[i + 1]
    OBVIOUS
  <2>1. i + 1 \in 0..n /\ i + 1 \in 0..m /\ i + 1 # 0 /\ (i + 1) - 1 = i OBVIOUS
  <2>2. g[i + 1] = Turn(g[i]) /\ h[i + 1] = Turn(h[i]) BY <1>1, <2>1
  <2>3. g[i] = h[i] BY <1>3
  <2> QED BY <2>2, <2>3
<1> HIDE DEF P
<1>4. Nat \subseteq P BY <1>2, <1>3, Inductive
<1> QED BY <1>4 DEF P

LEMMA RoundsAre ==
  ASSUME NEW r
  PROVE  /\ Rounds(r)[0] = r
         /\ \A n \in Nat : Rounds(r)[n + 1] = Turn(Rounds(r)[n])
         /\ \A n \in Nat : \A g : IsRun(n, r, g) => g[n] = Rounds(r)[n]
<1> DEFINE G(n) == CHOOSE g : IsRun(n, r, g)
<1>1. \A n \in Nat : IsRun(n, r, G(n)) BY RunExists
<1>2. \A n \in Nat : Rounds(r)[n] = G(n)[n] BY DEF Rounds
<1> HIDE DEF G
<1>3. Rounds(r)[0] = r
  <2>1. IsRun(0, r, G(0)) BY <1>1
  <2>2. G(0)[0] = r BY <2>1, RunLinks
  <2> QED BY <1>2, <2>2
<1>4. ASSUME NEW n \in Nat PROVE Rounds(r)[n + 1] = Turn(Rounds(r)[n])
  <2>1. IsRun(n, r, G(n)) /\ IsRun(n + 1, r, G(n + 1)) /\ n + 1 \in Nat BY <1>1
  <2>2. n + 1 \in 0..(n + 1) /\ n + 1 # 0 /\ (n + 1) - 1 = n OBVIOUS
  <2>3. G(n + 1)[n + 1] = Turn(G(n + 1)[n])
    <3> DEFINE m == n + 1
    <3>1. \A i \in 0..m : i # 0 => G(m)[i] = Turn(G(m)[i - 1]) BY <2>1, RunLinks
    <3>2. m \in 0..m /\ m # 0 /\ m - 1 = n OBVIOUS
    <3> HIDE DEF m
    <3>3. G(m)[m] = Turn(G(m)[n]) BY <3>1, <3>2
    <3> QED BY <3>3 DEF m
  <2>4. G(n + 1)[n] = G(n)[n] BY <2>1, RunsAgree
  <2> QED BY <1>2, <2>3, <2>4
<1>5. ASSUME NEW n \in Nat, NEW g, IsRun(n, r, g) PROVE g[n] = Rounds(r)[n]
  <2>1. g[n] = G(n)[n] BY <1>1, <1>5, RunsAgree
  <2> QED BY <1>2, <2>1
<1> QED BY <1>3, <1>4, <1>5

\* What process() begins with.
Start(r) == [r EXCEPT !.line_status = "OK", !.ret = "NO_REQUEST"]

LEMMA ProcessReadIs ==
  ASSUME NEW r, m_read_idx(r) \in Nat
  PROVE  ProcessRead(r) = Rounds(Start(r))[m_read_idx(r) + 2]
<1> DEFINE step(s) == CHOOSE q \in {IF Over(p) THEN p ELSE Round(p) : p \in {s}} : TRUE
           N == m_read_idx(r) + 2
           IsAfter(g) == g = [n \in 0..N |-> IF n = 0 THEN Start(r) ELSE step(g[n - 1])]
<1>1. ASSUME NEW s PROVE step(s) = Turn(s)
  <2>1. {IF Over(p) THEN p ELSE Round(p) : p \in {s}} = {Turn(s)} BY DEF Turn
  <2>2. (CHOOSE q \in {Turn(s)} : TRUE) = Turn(s) OBVIOUS
  <2> QED BY <2>1, <2>2
<1> HIDE DEF step
<1>2. \A g : IsAfter(g) <=> IsRun(N, Start(r), g) BY <1>1 DEF IsRun
<1>3. ProcessRead(r) = (CHOOSE g : IsAfter(g))[N]
  BY DEF ProcessRead, Start, step
<1>4. N \in Nat OBVIOUS
<1> HIDE DEF N
<1>5. \E g : IsAfter(g) BY <1>2, <1>4, RunExists
<1> DEFINE after == CHOOSE g : IsAfter(g)
<1>6. IsRun(N, Start(r), after) BY <1>2, <1>5
<1> HIDE DEF after, IsAfter
<1>7. after[N] = Rounds(Start(r))[N] BY <1>4, <1>6, RoundsAre
<1> QED BY <1>3, <1>7 DEF N, after

LEMMA RoundsParse ==
  ASSUME NEW r, Parsing(r), NEW n \in Nat
  PROVE  Parsing(Rounds(r)[n]) /\ m_read_idx(Rounds(r)[n]) = m_read_idx(r)
<1> DEFINE R == Rounds(r)
           P == {k \in Nat : Parsing(R[k]) /\ m_read_idx(R[k]) = m_read_idx(r)}
<1>1. R[0] = r /\ \A k \in Nat : R[k + 1] = Turn(R[k]) BY RoundsAre
<1> HIDE DEF R
<1>2. 0 \in P BY <1>1
<1>3. ASSUME NEW k \in Nat, k \in P PROVE k + 1 \in P
  <2>1. Parsing(R[k]) /\ m_read_idx(R[k]) = m_read_idx(r) /\ R[k + 1] = Turn(R[k])
    BY <1>1, <1>3
  <2>2. Parsing(Turn(R[k])) /\ m_read_idx(Turn(R[k])) = m_read_idx(r)
    BY <2>1, RoundProgress DEF Turn
  <2> QED BY <2>1, <2>2
<1> HIDE DEF P
<1>4. Nat \subseteq P BY <1>2, <1>3, Inductive
<1> QED BY <1>4 DEF P, R

\* The loop is over within the rounds that ProcessRead allows.
LEMMA RoundsEnd ==
  ASSUME NEW r, Parsing(r)
  PROVE  Over(Rounds(r)[m_read_idx(r) + 2])
<1> DEFINE R == Rounds(r)  N == m_read_idx(r)
           P == {k \in Nat : Over(R[k]) \/ Left(R[k]) + k <= Left(r)}
<1>1. R[0] = r /\ \A k \in Nat : R[k + 1] = Turn(R[k]) BY RoundsAre
<1>2. \A k \in Nat : Parsing(R[k]) /\ m_read_idx(R[k]) = N BY RoundsParse
<1> HIDE DEF R
<1>3. N \in Nat /\ r.m_checked_idx \in Nat BY DEF Parsing, m_read_idx
<1>4. \A k \in Nat : Left(R[k]) \in Int /\ Left(R[k]) >= 1
  <2>1. ASSUME NEW x, Parsing(x) PROVE Left(x) \in Int /\ Left(x) >= 1
    BY <2>1 DEF Parsing, m_read_idx, Left
  <2> QED BY <1>2, <2>1
<1>5. Left(r) \in Int /\ Left(r) <= N + 2 BY <1>3 DEF Left
<1>6. 0 \in P BY <1>1, <1>5
<1>7. ASSUME NEW k \in Nat, k \in P PROVE k + 1 \in P
  <2>1. R[k + 1] = Turn(R[k]) /\ Parsing(R[k]) BY <1>1, <1>2
  <2>2. CASE Over(R[k]) BY <2>1, <2>2 DEF Turn
  <2>3. CASE ~Over(R[k])
    <3>1. R[k + 1] = Round(R[k]) BY <2>1, <2>3 DEF Turn
    <3>2. Over(R[k + 1]) \/ Left(R[k + 1]) < Left(R[k]) BY <2>1, <2>3, <3>1, RoundProgress
    <3>3. Left(R[k + 1]) \in Int /\ Left(R[k]) \in Int BY <1>4
    <3>4. Left(R[k]) + k <= Left(r) BY <1>7, <2>3
    <3> QED BY <1>5, <3>2, <3>3, <3>4
  <2> QED BY <2>2, <2>3
<1> HIDE DEF P
<1>8. N + 2 \in P BY <1>3, <1>6, <1>7, Inductive
<1>9. Left(R[N + 2]) \in Int /\ Left(R[N + 2]) >= 1 BY <1>3, <1>4
<1> HIDE DEF N
<1>10. Over(R[N + 2]) BY <1>3, <1>5, <1>8, <1>9 DEF P
<1> QED BY <1>10 DEF R, N

\* Where the loop ends.
Final(r) == Rounds(r)[m_read_idx(r) + 2]

LEMMA FinalFields ==
  ASSUME NEW r, Parsing(r)
  PROVE  Parsing(Final(r)) /\ Over(Final(r)) /\ m_read_idx(Final(r)) = m_read_idx(r)
<1>1. m_read_idx(r) + 2 \in Nat BY DEF Parsing, m_read_idx
<1> QED BY <1>1, RoundsParse, RoundsEnd DEF Final

\* It ends where it ends after the first round.
LEMMA FinalRound ==
  ASSUME NEW r, Parsing(r), ~Over(r)
  PROVE  Final(Round(r)) = Final(r)
<1> DEFINE R == Rounds(r)  S == Rounds(Round(r))  N == m_read_idx(r)
           P == {k \in Nat : R[k + 1] = S[k]}
<1>1. R[0] = r /\ \A k \in Nat : R[k + 1] = Turn(R[k]) BY RoundsAre
<1>2. S[0] = Round(r) /\ \A k \in Nat : S[k + 1] = Turn(S[k]) BY RoundsAre
<1>3. Over(R[N + 2]) BY RoundsEnd
<1>4. N + 2 \in Nat /\ m_read_idx(Round(r)) = N
  BY RoundProgress DEF Parsing, m_read_idx
<1>5. Final(r) = R[N + 2] /\ Final(Round(r)) = S[N + 2] BY <1>4 DEF Final
<1> HIDE DEF R, S, N
<1>6. 0 \in P
  <2>1. R[0 + 1] = Turn(R[0]) BY <1>1
  <2> QED BY <1>1, <1>2, <2>1 DEF Turn
<1>7. ASSUME NEW k \in Nat, k \in P PROVE k + 1 \in P
  <2> DEFINE j == k + 1
  <2>1. j \in Nat /\ R[j] = S[k] /\ S[j] = Turn(S[k]) BY <1>2, <1>7
  <2> HIDE DEF j
  <2>2. R[j + 1] = Turn(R[j]) BY <1>1, <2>1
  <2>3. j \in P BY <2>1, <2>2
  <2> QED BY <2>3 DEF j
<1> HIDE DEF P
<1>8. N + 2 \in P BY <1>4, <1>6, <1>7, Inductive
<1> DEFINE M == N + 2
<1>9. M \in Nat /\ Over(R[M]) /\ R[M + 1] = S[M] BY <1>3, <1>4, <1>8 DEF P
<1>10. Final(r) = R[M] /\ Final(Round(r)) = S[M] BY <1>5
<1> HIDE DEF M
<1> QED BY <1>1, <1>9, <1>10 DEF Turn

LEMMA ProcessReadFinal ==
  ASSUME NEW r, Parsing(r)
  PROVE  ProcessRead(r) = Final(Start(r))
<1>1. m_read_idx(r) \in Nat BY DEF Parsing, m_read_idx
<1>2. m_read_idx(Start(r)) = m_read_idx(r) BY DEF Start, Parsing, m_read_idx, Fields
<1> QED BY <1>1, <1>2, ProcessReadIs DEF Final

-----------------------------------------------------------------------------
(* More of the request arrives.                                            *)

Ext(r, e) == [r EXCEPT !.m_read_buf = @ \o e]

LEMMA StartFields ==
  ASSUME NEW r, Parsing(r)
  PROVE  /\ Parsing(Start(r)) /\ ~Over(Start(r)) /\ m_read_idx(Start(r)) = m_read_idx(r)
         /\ Start(r).line_status = "OK" /\ Start(r).ret = "NO_REQUEST"
         /\ \A x \in Fields \ {"line_status", "ret"} : Start(r)[x] = r[x]
<1>1. /\ Start(r) = [x \in Fields |-> Start(r)[x]]
      /\ Start(r).line_status = "OK" /\ Start(r).ret = "NO_REQUEST"
      /\ \A x \in Fields \ {"line_status", "ret"} : Start(r)[x] = r[x]
  BY DEF Start, Parsing, Fields
<1>2. /\ Start(r).m_read_buf = r.m_read_buf /\ Start(r).m_checked_idx = r.m_checked_idx
      /\ Start(r).m_check_state = r.m_check_state /\ Start(r).m_start_line = r.m_start_line
  BY <1>1 DEF Fields
<1> QED BY <1>1, <1>2 DEF Parsing, m_read_idx, Over

LEMMA ExtFields ==
  ASSUME NEW r, Parsing(r), NEW e \in Seq(Symbols)
  PROVE  /\ Parsing(Ext(r, e))
         /\ Ext(r, e).m_read_buf = r.m_read_buf \o e
         /\ m_read_idx(Ext(r, e)) = m_read_idx(r) + Len(e)
         /\ \A x \in Fields \ {"m_read_buf"} : Ext(r, e)[x] = r[x]
         /\ \A i \in 0..(m_read_idx(r) - 1) : At(Ext(r, e), i) = At(r, i)
<1>1. /\ Ext(r, e) = [x \in Fields |-> Ext(r, e)[x]]
      /\ Ext(r, e).m_read_buf = r.m_read_buf \o e
      /\ \A x \in Fields \ {"m_read_buf"} : Ext(r, e)[x] = r[x]
  BY DEF Ext, Parsing, Fields
<1>2. /\ Ext(r, e).line_status = r.line_status /\ Ext(r, e).m_checked_idx = r.m_checked_idx
      /\ Ext(r, e).m_check_state = r.m_check_state /\ Ext(r, e).m_start_line = r.m_start_line
  BY <1>1 DEF Fields
<1>3. r.m_read_buf \in Seq(Symbols) BY DEF Parsing
<1>4. /\ r.m_read_buf \o e \in Seq(Symbols)
      /\ Len(r.m_read_buf \o e) = Len(r.m_read_buf) + Len(e)
      /\ Len(e) \in Nat /\ Len(r.m_read_buf) \in Nat
      /\ \A i \in 1..Len(r.m_read_buf) : (r.m_read_buf \o e)[i] = r.m_read_buf[i]
  BY <1>3, Concat
<1>5. ASSUME NEW i \in 0..(m_read_idx(r) - 1) PROVE At(Ext(r, e), i) = At(r, i)
  <2>1. i + 1 \in 1..Len(r.m_read_buf) BY <1>4 DEF m_read_idx
  <2> QED BY <1>1, <1>4, <2>1 DEF At
<1>6. Parsing(Ext(r, e)) /\ m_read_idx(Ext(r, e)) = m_read_idx(r) + Len(e)
  <2> DEFINE x == Ext(r, e)
  <2>1. /\ x.m_read_buf \in Seq(Symbols)
        /\ Len(x.m_read_buf) = Len(r.m_read_buf) + Len(e)
        /\ Len(r.m_read_buf) \in Nat /\ Len(e) \in Nat
    BY <1>1, <1>4
  <2>2. x = [f \in Fields |-> x[f]] BY <1>1
  <2> HIDE DEF x
  <2>3. m_read_idx(x) = m_read_idx(r) + Len(e) BY <2>1 DEF m_read_idx
  <2>4. Parsing(x) BY <1>2, <2>1, <2>2, <2>3 DEF Parsing, m_read_idx, x
  <2> QED BY <2>3, <2>4 DEF x
<1> QED BY <1>1, <1>5, <1>6

\* parse_line makes of a whole line what it is, whatever comes after it.
LEMMA LineExtends ==
  ASSUME NEW r, Parsing(r), NEW e \in Seq(Symbols), ParseLine(r).line_status = "OK"
  PROVE  ParseLine(Ext(r, e)) = Ext(ParseLine(r), e)
<1> DEFINE y == Ext(r, e)  i == ScanStop(r)  N == m_read_idx(r)
<1>1. /\ Parsing(y) /\ m_read_idx(y) = N + Len(e) /\ y.m_checked_idx = r.m_checked_idx
      /\ y.m_read_buf = r.m_read_buf \o e
      /\ \A j \in 0..(N - 1) : At(y, j) = At(r, j)
  BY ExtFields DEF Fields
<1>2. N \in Nat /\ Len(e) \in Nat /\ r.m_checked_idx \in Nat BY DEF Parsing, m_read_idx
<1>3. \/ /\ i < N /\ At(r, i) = CR /\ i + 1 < N
         /\ At(r, i + 1) = LF /\ ParseLine(r) = EndLine(r, i)
      \/ /\ i < N /\ At(r, i) = LF /\ i > 1 /\ At(r, i - 1) = CR
         /\ ParseLine(r) = EndLine(r, i - 1)
  <2>1. [r EXCEPT !.m_checked_idx = i, !.line_status = "OPEN"].line_status # "OK"
        /\ [r EXCEPT !.m_checked_idx = i, !.line_status = "BAD"].line_status # "OK"
    BY DEF Parsing, Fields
  <2> QED BY LineCases, <2>1
<1>4. /\ i \in r.m_checked_idx..N
      /\ \A j \in r.m_checked_idx..(i - 1) : At(r, j) \notin {CR, LF}
      /\ i < N => At(r, i) \in {CR, LF}
  BY ScanStops DEF Stops
<1> HIDE DEF y, i, N
<1>5. i \in Nat /\ i < N BY <1>2, <1>3, <1>4
<1>6. Stops(y, i) BY <1>1, <1>2, <1>4, <1>5 DEF Stops
<1>7. ScanStop(y) = i BY <1>1, <1>6, ScanStops, StopsUnique
<1> DEFINE Stopped(status) == [y EXCEPT !.m_checked_idx = i, !.line_status = status]
<1>71. \/ /\ i = m_read_idx(y) \/ (At(y, i) = CR /\ i + 1 = m_read_idx(y))
          /\ ParseLine(y) = Stopped("OPEN")
       \/ /\ i < m_read_idx(y) /\ At(y, i) = CR /\ i + 1 < m_read_idx(y)
          /\ At(y, i + 1) = LF /\ ParseLine(y) = EndLine(y, i)
       \/ /\ i < m_read_idx(y) /\ At(y, i) = LF /\ i > 1 /\ At(y, i - 1) = CR
          /\ ParseLine(y) = EndLine(y, i - 1)
       \/ /\ i < m_read_idx(y)
          /\ \/ At(y, i) = CR /\ i + 1 < m_read_idx(y) /\ At(y, i + 1) # LF
             \/ At(y, i) = LF /\ ~(i > 1 /\ At(y, i - 1) = CR)
          /\ ParseLine(y) = Stopped("BAD")
  BY <1>1, <1>7, LineCases
<1> HIDE DEF Stopped
<1>8. ASSUME NEW k \in Nat, k + 1 < N, r.m_checked_idx <= k + 1
      PROVE  EndLine(y, k) = Ext(EndLine(r, k), e)
  <2> DEFINE a == EndLine(y, k)  b == EndLine(r, k)  c == Ext(b, e)
  <2>1. /\ Parsing(a) /\ m_read_idx(a) = N + Len(e)
        /\ a.m_checked_idx = k + 2 /\ a.line_status = "OK"
        /\ \A x \in Fields \ {"m_read_buf", "m_checked_idx", "line_status"} : a[x] = y[x]
        /\ \A j \in 1..(N + Len(e)) :
             a.m_read_buf[j] = IF j \in {k + 1, k + 2} THEN NUL ELSE y.m_read_buf[j]
    <3>1. k + 1 < m_read_idx(y) /\ y.m_checked_idx <= k + 1 BY <1>1, <1>2, <1>8
    <3> QED BY <1>1, <1>8, <3>1, EndLineFields
  <2>2. /\ Parsing(b) /\ m_read_idx(b) = N
        /\ b.m_checked_idx = k + 2 /\ b.line_status = "OK"
        /\ \A x \in Fields \ {"m_read_buf", "m_checked_idx", "line_status"} : b[x] = r[x]
        /\ \A j \in 1..N :
             b.m_read_buf[j] = IF j \in {k + 1, k + 2} THEN NUL ELSE r.m_read_buf[j]
    BY <1>8, EndLineFields DEF N
  <2> HIDE DEF a, b
  <2>3. /\ Parsing(c) /\ c.m_read_buf = b.m_read_buf \o e
        /\ m_read_idx(c) = N + Len(e)
        /\ \A x \in Fields \ {"m_read_buf"} : c[x] = b[x]
    BY <2>2, ExtFields
  <2> HIDE DEF c
  <2>4. a.m_read_buf = c.m_read_buf
    <3>1. /\ a.m_read_buf \in Seq(Symbols) /\ c.m_read_buf \in Seq(Symbols)
          /\ Len(a.m_read_buf) = N + Len(e) /\ Len(c.m_read_buf) = N + Len(e)
          /\ r.m_read_buf \in Seq(Symbols) /\ b.m_read_buf \in Seq(Symbols)
          /\ Len(r.m_read_buf) = N /\ Len(b.m_read_buf) = N
      BY <2>1, <2>2, <2>3 DEF Parsing, m_read_idx, N
    <3>2. ASSUME NEW j \in 1..(N + Len(e)) PROVE a.m_read_buf[j] = c.m_read_buf[j]
      <4>1. CASE j <= N
        BY <1>1, <1>2, <2>1, <2>2, <2>3, <3>1, <4>1
      <4>2. CASE j > N
        <5>1. j \notin {k + 1, k + 2} BY <1>2, <1>8, <4>2
        <5>2. a.m_read_buf[j] = (r.m_read_buf \o e)[j] BY <1>1, <2>1, <5>1
        <5> QED BY <1>2, <2>3, <3>1, <4>2, <5>2
      <4> QED BY <1>2, <4>1, <4>2
    <3> QED BY <3>1, <3>2, SameSeq
  <2>5. \A x \in Fields \ {"m_read_buf", "m_checked_idx", "line_status"} : a[x] = c[x]
    <3>1. \A x \in Fields \ {"m_read_buf"} : y[x] = r[x] BY ExtFields DEF y
    <3> QED BY <2>1, <2>2, <2>3, <3>1
  <2>6. /\ a = [x \in Fields |-> a[x]] /\ c = [x \in Fields |-> c[x]]
        /\ a.m_checked_idx = c.m_checked_idx /\ a.line_status = c.line_status
    BY <2>1, <2>2, <2>3 DEF Parsing, Fields
  <2>7. \A x \in Fields : a[x] = c[x] BY <2>4, <2>5, <2>6
  <2>8. a = c BY <2>6, <2>7
  <2> QED BY <2>8 DEF a, b, c
<1>9. CASE /\ At(r, i) = CR /\ i + 1 < N /\ At(r, i + 1) = LF /\ ParseLine(r) = EndLine(r, i)
  <2>1. /\ At(y, i) = CR /\ At(y, i + 1) = LF /\ CR # LF
        /\ i < m_read_idx(y) /\ i + 1 < m_read_idx(y)
    BY <1>1, <1>2, <1>5, <1>9 DEF CR, LF
  <2>2. ParseLine(y) = EndLine(y, i) BY <1>1, <1>2, <1>5, <1>71, <2>1
  <2>3. EndLine(y, i) = Ext(EndLine(r, i), e) BY <1>2, <1>4, <1>5, <1>8, <1>9
  <2> QED BY <1>9, <2>2, <2>3 DEF y
<1>10. CASE At(r, i) = LF /\ i > 1 /\ At(r, i - 1) = CR /\ ParseLine(r) = EndLine(r, i - 1)
  <2> DEFINE k == i - 1
  <2>1. k \in Nat /\ k + 1 < N /\ r.m_checked_idx <= k + 1 /\ k \in 0..(N - 1)
    BY <1>2, <1>4, <1>5, <1>10
  <2>2. /\ At(y, i) = LF /\ At(y, k) = CR /\ CR # LF /\ i < m_read_idx(y)
    BY <1>1, <1>2, <1>5, <1>10, <2>1 DEF CR, LF
  <2>3. ParseLine(y) = EndLine(y, k) BY <1>1, <1>2, <1>5, <1>71, <1>10, <2>2
  <2>4. EndLine(y, k) = Ext(EndLine(r, k), e) BY <1>8, <2>1
  <2>5. ParseLine(r) = EndLine(r, k) BY <1>10
  <2> QED BY <2>3, <2>4, <2>5 DEF y
<1> QED BY <1>3, <1>9, <1>10 DEF y

\* Where parse_line stopped in a line it takes the scan up again, and sees
\* what it would have seen from the line's beginning.
LEMMA LineResumes ==
  ASSUME NEW r, Parsing(r), r.ret = "NO_REQUEST", NEW e \in Seq(Symbols),
         ParseLine(r).line_status # "OK"
  PROVE  ParseLine(Start(Ext(ParseLine(r), e))) = ParseLine(Ext(r, e))
<1> DEFINE t == ParseLine(r)  y == Ext(r, e)  z == Start(Ext(t, e))
           i == ScanStop(r)  j == ScanStop(z)  N == m_read_idx(r)
<1>1. /\ t = [r EXCEPT !.m_checked_idx = i, !.line_status = t.line_status]
      /\ Parsing(t) /\ m_read_idx(t) = N
  BY LineParsed
<1>2. z = [y EXCEPT !.m_checked_idx = i, !.line_status = "OK"]
  <2>1. /\ Parsing(Ext(t, e)) /\ Ext(t, e).m_read_buf = t.m_read_buf \o e
        /\ \A x \in Fields \ {"m_read_buf"} : Ext(t, e)[x] = t[x]
    BY <1>1, ExtFields
  <2>2. /\ z = [x \in Fields |-> z[x]] /\ z.line_status = "OK" /\ z.ret = "NO_REQUEST"
        /\ \A x \in Fields \ {"line_status", "ret"} : z[x] = Ext(t, e)[x]
    BY <2>1, StartFields DEF Parsing
  <2>3. /\ y = [x \in Fields |-> y[x]] /\ y.m_read_buf = r.m_read_buf \o e
        /\ \A x \in Fields \ {"m_read_buf"} : y[x] = r[x]
    BY ExtFields DEF Parsing
  <2> HIDE DEF z, y, t
  <2>4. /\ t.m_read_buf = r.m_read_buf /\ t.m_checked_idx = i
        /\ \A x \in Fields \ {"m_checked_idx", "line_status"} : t[x] = r[x]
    BY <1>1 DEF Parsing, Fields
  <2>5. z.m_read_buf = y.m_read_buf BY <2>1, <2>2, <2>3, <2>4 DEF Fields
  <2>6. z.m_checked_idx = i BY <2>1, <2>2, <2>4 DEF Fields
  <2>7. z.ret = y.ret BY <2>2, <2>3 DEF Fields
  <2>8. \A x \in Fields \ {"m_checked_idx", "line_status"} : z[x] = y[x]
    BY <2>1, <2>2, <2>3, <2>4, <2>5, <2>7
  <2> QED BY <2>2, <2>3, <2>6, <2>8 DEF Fields
<1>3. /\ Parsing(y) /\ m_read_idx(y) = N + Len(e) /\ y.m_checked_idx = r.m_checked_idx
      /\ \A k \in 0..(N - 1) : At(y, k) = At(r, k)
  BY ExtFields DEF Fields
<1>4. Parsing(z) BY <1>1, ExtFields, StartFields
<1>5. /\ i \in r.m_checked_idx..N
      /\ \A k \in r.m_checked_idx..(i - 1) : At(r, k) \notin {CR, LF}
  BY ScanStops DEF Stops
<1>6. N \in Nat /\ Len(e) \in Nat /\ r.m_checked_idx \in Nat BY DEF Parsing, m_read_idx
<1> HIDE DEF t, y, i, N
<1>7. /\ z.m_checked_idx = i /\ z.m_read_buf = y.m_read_buf
      /\ m_read_idx(z) = m_read_idx(y) /\ \A k : At(z, k) = At(y, k)
  <2>1. z.m_checked_idx = i /\ z.m_read_buf = y.m_read_buf
    BY <1>2, <1>3 DEF Parsing, Fields
  <2> QED BY <2>1 DEF m_read_idx, At
<1>8. /\ \A k, status : [z EXCEPT !.m_checked_idx = k, !.line_status = status]
                          = [y EXCEPT !.m_checked_idx = k, !.line_status = status]
      /\ \A k : EndLine(z, k) = EndLine(y, k)
  <2>1. y = [x \in Fields |-> y[x]] BY <1>3 DEF Parsing
  <2> QED BY <1>2, <2>1 DEF EndLine, Fields
<1> HIDE DEF z
<1>9. Stops(z, j) BY <1>4, ScanStops
<1> HIDE DEF j
<1>10. Stops(y, j)
  <2>1. /\ j \in i..m_read_idx(y)
        /\ \A k \in i..(j - 1) : At(y, k) \notin {CR, LF}
        /\ j < m_read_idx(y) => At(y, j) \in {CR, LF}
    BY <1>7, <1>9 DEF Stops
  <2>2. ASSUME NEW k \in r.m_checked_idx..(j - 1) PROVE At(y, k) \notin {CR, LF}
    <3>1. CASE k < i
      <4>1. k \in r.m_checked_idx..(i - 1) /\ k \in 0..(N - 1) BY <1>5, <1>6, <3>1
      <4> QED BY <1>3, <1>5, <4>1
    <3>2. CASE k >= i
      <4>1. k \in i..(j - 1) BY <1>3, <1>5, <1>6, <2>1, <3>2
      <4> QED BY <2>1, <4>1
    <3> QED BY <1>5, <1>6, <3>1, <3>2
  <2>3. j \in r.m_checked_idx..m_read_idx(y) BY <1>3, <1>5, <1>6, <2>1
  <2> QED BY <1>3, <2>1, <2>2, <2>3 DEF Stops
<1>11. ScanStop(y) = j BY <1>3, <1>10, ScanStops, StopsUnique
<1>12. ScanStop(z) = j BY <1>4, <1>9, ScanStops, StopsUnique
<1>13. ParseLine(z) = ParseLine(y) BY <1>7, <1>8, <1>11, <1>12 DEF ParseLine
<1> QED BY <1>13 DEF t, y, z

\* What is made of a line does not depend on what comes after it.
LEMMA DigestExtends ==
  ASSUME NEW q, Parsing(q), NEW text, NEW e \in Seq(Symbols), q.m_check_state # "CONTENT"
  PROVE  Digest(Ext(q, e), text) = Ext(Digest(q, text), e)
<1> DEFINE s == Line(q)  y == Ext(q, e)
<1>1. q = [x \in Fields |-> q[x]] /\ q.m_check_state \in {"REQUESTLINE", "HEADER"}
  BY DEF Parsing
<1>2. Line(y) = Ext(s, e) /\ y.m_check_state = q.m_check_state
  BY <1>1 DEF Line, Ext, Fields
<1>3. s = [x \in Fields |-> s[x]] BY <1>1 DEF Line, Fields
<1>4. CASE q.m_check_state = "REQUESTLINE"
  <2>1. Digest(y, text) = ParseRequestLine(Ext(s, e), text)
        /\ Digest(q, text) = ParseRequestLine(s, text)
    BY <1>2, <1>4 DEF Digest
  <2> HIDE DEF s, y
  <2>2. ParseRequestLine(Ext(s, e), text) = Ext(ParseRequestLine(s, text), e)
    BY <1>3 DEF ParseRequestLine, Ext, Fields
  <2> QED BY <2>1, <2>2 DEF y
<1>5. CASE q.m_check_state = "HEADER"
  <2>1. Digest(y, text) = ParseHeaders(Ext(s, e), text)
        /\ Digest(q, text) = ParseHeaders(s, text)
    BY <1>2, <1>5 DEF Digest
  <2> HIDE DEF s, y
  <2>2. ParseHeaders(Ext(s, e), text) = Ext(ParseHeaders(s, text), e)
    <3> DEFINE z == Ext(s, e)
    <3>1. /\ [z EXCEPT !.m_check_state = "CONTENT"] = Ext([s EXCEPT !.m_check_state = "CONTENT"], e)
          /\ [z EXCEPT !.ret = "GET_REQUEST"] = Ext([s EXCEPT !.ret = "GET_REQUEST"], e)
          /\ [z EXCEPT !.m_linger = TRUE] = Ext([s EXCEPT !.m_linger = TRUE], e)
          /\ [z EXCEPT !.m_content_length = text[2]] = Ext([s EXCEPT !.m_content_length = text[2]], e)
          /\ z.m_content_length = s.m_content_length
      BY <1>3 DEF Ext, Fields
    <3> HIDE DEF z
    <3>2. CASE text = NUL /\ s.m_content_length # 0 BY <3>1, <3>2 DEF ParseHeaders, z
    <3>3. CASE text = NUL /\ s.m_content_length = 0 BY <3>1, <3>3 DEF ParseHeaders, z
    <3>4. CASE text # NUL /\ text = KeepAlive BY <3>1, <3>4 DEF ParseHeaders, z
    <3>5. CASE text # NUL /\ text # KeepAlive /\ text[1] = "Content-length"
      BY <3>1, <3>5 DEF ParseHeaders, z
    <3>6. CASE text # NUL /\ text # KeepAlive /\ text[1] # "Content-length"
      BY <3>1, <3>6 DEF ParseHeaders, z
    <3> QED BY <3>2, <3>3, <3>4, <3>5, <3>6
  <2> QED BY <2>1, <2>2 DEF y
<1> QED BY <1>1, <1>4, <1>5

LEMMA SameStart ==
  ASSUME NEW r, Parsing(r), r.line_status = "OK", r.ret = "NO_REQUEST"
  PROVE  Start(r) = r
  BY DEF Start, Parsing, Fields

\* After a round the parser comes to the same end as before it, if more
\* arrives: the round leaves nothing behind but what it has finished.
LEMMA RoundResumes ==
  ASSUME NEW r, Parsing(r), ~Over(r), Round(r).ret = "NO_REQUEST", NEW e \in Seq(Symbols),
         r.m_check_state = "CONTENT" => r.m_checked_idx = m_read_idx(r)
  PROVE  Final(Start(Ext(Round(r), e))) = Final(Start(Ext(r, e)))
<1> DEFINE q == Looked(r)  t == Round(r)  y == Start(Ext(r, e))  z == Start(Ext(t, e))
           text == At(q, q.m_start_line)
<1>1. /\ r.ret = "NO_REQUEST" /\ r.line_status \in {"OK", "CONTENT_OPEN"}
      /\ r.line_status = "CONTENT_OPEN" => r.m_check_state = "CONTENT"
      /\ r.m_check_state \in {"REQUESTLINE", "HEADER", "CONTENT"}
  BY DEF Over, Parsing
<1>2. Parsing(t) /\ m_read_idx(t) = m_read_idx(r) BY RoundProgress
<1>3. Parsing(y) /\ ~Over(y) /\ Parsing(z) /\ ~Over(z)
  BY <1>2, ExtFields, StartFields
<1>4. Round(y) = Round(z) => Final(z) = Final(y) BY <1>3, FinalRound
<1>5. t = IF q.line_status # "OK" THEN q ELSE Digest(q, text) BY RoundIs
<1>6. Parsing(Ext(r, e)) /\ \A x \in Fields \ {"m_read_buf"} : Ext(r, e)[x] = r[x]
  BY ExtFields
<1>7. CASE r.m_check_state = "CONTENT" /\ r.line_status = "OK"
  <2>1. q = r BY <1>7 DEF Looked
  <2>2. t = ParseContent(Line(r)) BY <1>5, <1>7, <2>1 DEF Digest
  <2>3. /\ Line(r) = [r EXCEPT !.m_start_line = r.m_checked_idx]
        /\ r = [x \in Fields |-> r[x]]
    BY DEF Line, Parsing
  <2>4. t = [Line(r) EXCEPT !.line_status = "CONTENT_OPEN"]
    <3>1. [Line(r) EXCEPT !.ret = "GET_REQUEST"].ret = "GET_REQUEST"
      BY <2>3 DEF Fields
    <3> QED BY <2>2, <3>1 DEF ParseContent
  <2>5. y = Ext(r, e) BY <1>1, <1>6, <1>7, SameStart DEF Fields
  <2>6. /\ y.m_check_state = "CONTENT" /\ y.line_status = "OK"
        /\ z.m_check_state = "CONTENT" /\ z.line_status = "OK"
        /\ Line(y) = Line(z)
    BY <1>1, <1>7, <2>3, <2>4, <2>5 DEF Line, Start, Ext, Fields
  <2> HIDE DEF y, z
  <2>7. Looked(y) = y /\ Looked(z) = z BY <2>6 DEF Looked
  <2>8. Round(y) = ParseContent(Line(y)) /\ Round(z) = ParseContent(Line(z))
    BY <1>3, <2>6, <2>7, RoundIs DEF Digest
  <2> QED BY <1>4, <2>6, <2>8 DEF y, z
<1>8. CASE r.line_status = "CONTENT_OPEN"
  <2>1. r.m_check_state = "CONTENT" /\ r.m_checked_idx = m_read_idx(r) BY <1>1, <1>8
  <2>2. q = ParseLine(r) BY <1>8 DEF Looked
  <2>3. q.line_status # "OK"
    <3>1. /\ q.line_status = "OK" => q.m_checked_idx > r.m_checked_idx
          /\ Parsing(q) /\ m_read_idx(q) = m_read_idx(r)
      BY <2>2, LineParsed
    <3>2. q.m_checked_idx <= m_read_idx(r) /\ m_read_idx(r) \in Nat /\ q.m_checked_idx \in Nat
      BY <3>1 DEF Parsing, m_read_idx
    <3> QED BY <2>1, <3>1, <3>2
  <2>4. /\ q = [r EXCEPT !.m_checked_idx = ScanStop(r), !.line_status = q.line_status]
        /\ ScanStop(r) = r.m_checked_idx
    <3>1. /\ q = [r EXCEPT !.m_checked_idx = ScanStop(r), !.line_status = q.line_status]
      BY <2>2, <2>3, LineParsed
    <3>2. ScanStop(r) \in r.m_checked_idx..m_read_idx(r) /\ r.m_checked_idx \in Nat
      BY ScanStops DEF Stops, Parsing
    <3> QED BY <2>1, <3>1, <3>2
  <2>5. t = q BY <1>5, <2>3
  <2>6. r = [x \in Fields |-> r[x]] BY DEF Parsing
  <2>7. t = [r EXCEPT !.line_status = q.line_status]
    BY <2>4, <2>5, <2>6 DEF Fields
  <2>8. z = y BY <2>6, <2>7 DEF Start, Ext, Fields
  <2> QED BY <2>8
<1>9. CASE r.m_check_state # "CONTENT" /\ r.line_status = "OK"
  <2>1. q = ParseLine(r) BY <1>9 DEF Looked
  <2>2. y = Ext(r, e) BY <1>1, <1>6, <1>9, SameStart DEF Fields
  <2>3. Looked(y) = ParseLine(y)
    BY <1>6, <1>9, <2>2 DEF Looked, Fields
  <2>4. CASE q.line_status # "OK"
    <3>1. t = q BY <1>5, <2>4
    <3>2. ParseLine(z) = ParseLine(y) BY <1>1, <2>1, <2>2, <2>4, <3>1, LineResumes
    <3>3. z.m_check_state # "CONTENT"
      <4>1. /\ Ext(t, e).m_check_state = t.m_check_state
        BY <1>2, ExtFields DEF Fields
      <4>2. z.m_check_state = Ext(t, e).m_check_state
        BY <1>2, ExtFields, StartFields DEF Fields
      <4>3. t.m_check_state = r.m_check_state BY <3>1, LookedFields
      <4> QED BY <1>9, <4>1, <4>2, <4>3
    <3>4. Looked(z) = ParseLine(z) BY <3>3 DEF Looked
    <3> HIDE DEF y, z
    <3>5. Looked(z) = Looked(y) BY <2>3, <3>2, <3>4
    <3>6. Round(z) = Round(y) BY <1>3, <3>5, RoundIs
    <3> QED BY <1>4, <3>6 DEF y, z
  <2>5. CASE q.line_status = "OK"
    <3>1. t = Digest(q, text) BY <1>5, <2>5
    <3>2. /\ Parsing(q) /\ m_read_idx(q) = m_read_idx(r)
          /\ q.m_check_state = r.m_check_state
          /\ q.m_start_line < q.m_checked_idx \/ q = r
      BY <2>5, LookedFields
    <3>3. ParseLine(y) = Ext(q, e) BY <2>1, <2>2, <2>5, LineExtends
    <3>4. At(Ext(q, e), Ext(q, e).m_start_line) = text
      <4>1. q.m_start_line < q.m_checked_idx
        <5>1. q.m_checked_idx > r.m_checked_idx BY <2>1, <2>5, LineParsed
        <5>2. r.m_checked_idx \in Nat BY DEF Parsing
        <5> QED BY <3>2, <5>1, <5>2
      <4>2. q.m_start_line \in 0..(m_read_idx(q) - 1)
        BY <3>2, <4>1 DEF Parsing, m_read_idx
      <4>3. Ext(q, e).m_start_line = q.m_start_line BY <3>2, ExtFields DEF Fields
      <4> QED BY <3>2, <4>2, <4>3, ExtFields
    <3>5. Ext(q, e).line_status = "OK" BY <2>5, <3>2, ExtFields DEF Fields
    <3>6. Round(y) = Digest(Ext(q, e), text)
      <4>1. Looked(y) = Ext(q, e) BY <2>3, <3>3
      <4> HIDE DEF q, y, text
      <4> QED BY <1>3, <3>4, <3>5, <4>1, RoundIs
    <3>7. Round(y) = Ext(t, e) BY <1>9, <3>1, <3>2, <3>6, DigestExtends
    <3>8. t.line_status = "OK"
      BY <1>9, <2>5, <3>1, <3>2, DigestFields
    <3>9. Parsing(Ext(t, e)) /\ Ext(t, e).line_status = "OK" /\ Ext(t, e).ret = "NO_REQUEST"
      BY <1>2, <3>8, ExtFields DEF Fields
    <3>10. z = Ext(t, e) BY <3>9, SameStart
    <3> HIDE DEF y, z
    <3>11. Final(Round(y)) = Final(y) BY <1>3, FinalRound
    <3> QED BY <3>7, <3>10, <3>11 DEF y, z
  <2> QED BY <2>4, <2>5
<1> QED BY <1>1, <1>7, <1>8, <1>9

\* What process() makes of a part of a request it makes something of that does
\* not depend on where the part ended.  (In a body it does, so none of it may
\* have arrived when the body's turn comes.)
LEMMA ProcessResumes ==
  ASSUME NEW r, Parsing(r), NEW e \in Seq(Symbols), ProcessRead(r).ret = "NO_REQUEST",
         \A n \in Nat : LET s == Rounds(Start(r))[n]
                        IN s.m_check_state = "CONTENT" => s.m_checked_idx = m_read_idx(r)
  PROVE  ProcessRead(Ext(ProcessRead(r), e)) = ProcessRead(Ext(r, e))
<1> DEFINE R == Rounds(Start(r))
           P == {n \in Nat : \/ R[n].ret # "NO_REQUEST"
                             \/ Final(Start(Ext(R[n], e))) = Final(Start(Ext(Start(r), e)))}
           N == m_read_idx(r)
<1>1. Parsing(Start(r)) /\ m_read_idx(Start(r)) = N BY StartFields
<1>2. /\ R[0] = Start(r) /\ \A n \in Nat : R[n + 1] = Turn(R[n])
      /\ \A n \in Nat : Parsing(R[n]) /\ m_read_idx(R[n]) = N
  BY <1>1, RoundsAre, RoundsParse
<1>3. ProcessRead(r) = R[N + 2] /\ N + 2 \in Nat
  BY <1>1, ProcessReadFinal DEF Final, Parsing, m_read_idx
<1>4. \A n \in Nat : R[n].m_check_state = "CONTENT" => R[n].m_checked_idx = N
  OBVIOUS
<1> HIDE DEF R, N
<1>5. 0 \in P BY <1>2
<1>6. ASSUME NEW n \in Nat, n \in P PROVE n + 1 \in P
  <2>1. R[n + 1] = Turn(R[n]) /\ Parsing(R[n]) /\ m_read_idx(R[n]) = N
        /\ (R[n].m_check_state = "CONTENT" => R[n].m_checked_idx = N)
    BY <1>2, <1>4
  <2>2. CASE Over(R[n]) BY <1>6, <2>1, <2>2 DEF Turn
  <2>3. CASE ~Over(R[n])
    <3>1. R[n + 1] = Round(R[n]) /\ R[n].ret = "NO_REQUEST" BY <2>1, <2>3 DEF Turn, Over
    <3>2. Round(R[n]).ret = "NO_REQUEST" =>
            Final(Start(Ext(Round(R[n]), e))) = Final(Start(Ext(R[n], e)))
      BY <2>1, <2>3, RoundResumes
    <3> QED BY <1>6, <3>1, <3>2
  <2> QED BY <2>2, <2>3
<1> HIDE DEF P
<1>7. N + 2 \in P BY <1>3, <1>5, <1>6, Inductive
<1>8. Final(Start(Ext(ProcessRead(r), e))) = Final(Start(Ext(Start(r), e)))
  BY <1>3, <1>7 DEF P
<1>9. Start(Ext(Start(r), e)) = Start(Ext(r, e))
  BY DEF Start, Ext, Parsing, Fields
<1>10. Parsing(ProcessRead(r)) BY <1>2, <1>3
<1> QED BY <1>8, <1>9, <1>10, ExtFields, ProcessReadFinal

-----------------------------------------------------------------------------
(* Where the body begins.                                                  *)

Fresh(a) == [FreshReq EXCEPT !.m_read_buf = a]

NoContent(a) == \A i \in 1..Len(a) : a[i][1] # "Content-length"

\* None of a body has arrived: an empty line, if there is one, is the end.
HeadOnly(a) ==
  \/ NoContent(a)
  \/ \A i \in 1..Len(a) :
       /\ a[i] # NUL
       /\ i + 2 <= Len(a) /\ a[i] = LF /\ a[i + 1] = CR /\ a[i + 2] = LF => i + 2 = Len(a)

\* What the parser has made of a, as long as it reads the head.
Scanned(r, a) ==
  /\ Len(r.m_read_buf) = Len(a)
  /\ \A i \in 1..Len(a) : i > r.m_start_line => r.m_read_buf[i] = a[i]
  /\ \A i \in 1..Len(a) : r.m_start_line < i /\ i <= r.m_checked_idx => a[i] \notin {CR, LF}
  /\ r.m_start_line > 0 => r.m_read_buf[r.m_start_line] = NUL
  /\ r.m_check_state = "HEADER" => r.m_start_line > 0 /\ a[r.m_start_line] = LF
  /\ r.m_check_state # "CONTENT"
  /\ NoContent(a) => r.m_content_length = 0

LEMMA FreshFields ==
  ASSUME NEW a \in Seq(Symbols)
  PROVE  /\ Parsing(Fresh(a)) /\ Fresh(a).m_read_buf = a /\ m_read_idx(Fresh(a)) = Len(a)
         /\ \A x \in Fields \ {"m_read_buf"} : Fresh(a)[x] = FreshReq[x]
  BY DEF Fresh, FreshReq, Parsing, Fields, m_read_idx

\* In the head a line ends with CR and LF.
LEMMA WholeLine ==
  ASSUME NEW r, Parsing(r), NEW a \in Seq(Symbols), Scanned(r, a),
         ParseLine(r).line_status = "OK"
  PROVE  LET i == ScanStop(r)
         IN /\ i \in Nat /\ i + 2 <= Len(a) /\ r.m_start_line <= i
            /\ a[i + 1] = CR /\ a[i + 2] = LF
            /\ ParseLine(r) = EndLine(r, i) /\ r.m_checked_idx <= i
<1> DEFINE i == ScanStop(r)  N == m_read_idx(r)
<1>1. \/ /\ i < N /\ At(r, i) = CR /\ i + 1 < N
         /\ At(r, i + 1) = LF /\ ParseLine(r) = EndLine(r, i)
      \/ /\ i < N /\ At(r, i) = LF /\ i > 1 /\ At(r, i - 1) = CR
         /\ ParseLine(r) = EndLine(r, i - 1)
  <2>1. [r EXCEPT !.m_checked_idx = i, !.line_status = "OPEN"].line_status # "OK"
        /\ [r EXCEPT !.m_checked_idx = i, !.line_status = "BAD"].line_status # "OK"
    BY DEF Parsing, Fields
  <2> QED BY LineCases, <2>1
<1>2. /\ i \in r.m_checked_idx..N
      /\ \A j \in r.m_checked_idx..(i - 1) : At(r, j) \notin {CR, LF}
  BY ScanStops DEF Stops
<1>3. /\ r.m_checked_idx \in Nat /\ r.m_start_line \in Nat /\ N \in Nat
      /\ r.m_start_line <= r.m_checked_idx /\ N = Len(r.m_read_buf) /\ N = Len(a)
  BY DEF Parsing, m_read_idx, Scanned
<1> HIDE DEF i, N
<1>4. i \in Nat /\ r.m_checked_idx <= i /\ r.m_start_line <= i BY <1>2, <1>3
<1>5. \A j \in Nat : At(r, j) = r.m_read_buf[j + 1] BY DEF At
<1>6. CASE /\ i < N /\ At(r, i) = CR /\ i + 1 < N
           /\ At(r, i + 1) = LF /\ ParseLine(r) = EndLine(r, i)
  <2>1. r.m_read_buf[i + 1] = CR /\ r.m_read_buf[i + 2] = LF
    <3>1. i + 1 \in Nat /\ (i + 1) + 1 = i + 2 BY <1>4
    <3> QED BY <1>4, <1>5, <1>6, <3>1
  <2>2. i + 1 \in 1..Len(a) /\ i + 2 \in 1..Len(a) BY <1>3, <1>4, <1>6
  <2>3. a[i + 1] = CR /\ a[i + 2] = LF
    <3>1. \A j \in 1..Len(a) : j > r.m_start_line => r.m_read_buf[j] = a[j] BY DEF Scanned
    <3>2. i + 1 > r.m_start_line /\ i + 2 > r.m_start_line BY <1>3, <1>4
    <3> QED BY <2>1, <2>2, <3>1, <3>2
  <2> QED BY <1>4, <1>6, <2>2, <2>3 DEF i
<1>7. CASE i < N /\ At(r, i) = LF /\ i > 1 /\ At(r, i - 1) = CR
  <2> DEFINE k == i - 1
  <2>0. k \in Nat /\ k + 1 = i /\ At(r, k) = CR BY <1>4, <1>7
  <2> HIDE DEF k
  <2>1. k \in Nat /\ k + 1 = i /\ At(r, k) = CR /\ r.m_read_buf[i] = CR
    BY <1>5, <2>0
  <2>2. k < r.m_checked_idx
    <3>1. k >= r.m_checked_idx => k \in r.m_checked_idx..(i - 1) BY <1>3, <1>4, <2>1
    <3> QED BY <1>2, <1>3, <2>1, <3>1
  <2>3. i = r.m_checked_idx /\ i \in 1..Len(a) BY <1>3, <1>4, <1>7, <2>1, <2>2
  <2>4. CASE i > r.m_start_line
    <3>1. r.m_read_buf[i] = a[i] /\ a[i] \notin {CR, LF} BY <1>3, <2>3, <2>4 DEF Scanned
    <3> QED BY <2>1, <3>1
  <2>5. CASE i = r.m_start_line
    <3>1. r.m_read_buf[i] = NUL BY <1>7, <2>5, <1>4 DEF Scanned
    <3> QED BY <2>1, <3>1 DEF NUL, CR
  <2> QED BY <1>3, <1>4, <2>4, <2>5
<1> QED BY <1>1, <1>6, <1>7

LEMMA Texts ==
  /\ NUL # KeepAlive /\ NUL[1] # "Content-length" /\ KeepAlive[1] # "Content-length"
  /\ CR # LF /\ NUL # CR /\ NUL # LF
  BY DEF NUL, KeepAlive, CR, LF

\* A round in the head: it goes on to the next line, or to the body, of which
\* nothing has arrived yet.
LEMMA HeadRound ==
  ASSUME NEW r, Parsing(r), ~Over(r), NEW a \in Seq(Symbols), Scanned(r, a), HeadOnly(a)
  PROVE  \/ Over(Round(r)) /\ Round(r).m_check_state # "CONTENT"
         \/ Scanned(Round(r), a)
         \/ Round(r).m_checked_idx = Len(a)
<1> DEFINE q == Looked(r)  t == Round(r)  text == At(q, q.m_start_line)  i == ScanStop(r)
<1>1. q = ParseLine(r) BY DEF Looked, Scanned
<1>2. /\ Parsing(q) /\ m_read_idx(q) = m_read_idx(r)
      /\ q.line_status \in {"OK", "OPEN", "BAD"}
      /\ q.m_check_state = r.m_check_state /\ q.m_start_line = r.m_start_line
      /\ q.m_content_length = r.m_content_length
  BY LookedFields DEF Fields
<1>3. r.m_check_state \in {"REQUESTLINE", "HEADER"} BY DEF Parsing, Scanned
<1>4. CASE q.line_status # "OK"
  <2>1. t = q BY <1>4, RoundIs
  <2>2. Over(q) BY <1>2, <1>4 DEF Over
  <2> QED BY <1>2, <1>3, <2>1, <2>2
<1>5. CASE q.line_status = "OK"
  <2>1. t = Digest(q, text) BY <1>5, RoundIs
  <2>2. /\ i \in Nat /\ i + 2 <= Len(a) /\ r.m_start_line <= i
        /\ a[i + 1] = CR /\ a[i + 2] = LF
        /\ q = EndLine(r, i) /\ r.m_checked_idx <= i
    BY <1>1, <1>5, WholeLine
  <2>3. /\ r.m_start_line \in Nat /\ r.m_checked_idx \in Nat /\ Len(a) = m_read_idx(r)
        /\ Len(a) \in Nat
    BY DEF Parsing, Scanned, m_read_idx
  <2>4. /\ q.m_checked_idx = i + 2
        /\ \A j \in 1..m_read_idx(r) :
             q.m_read_buf[j] = IF j \in {i + 1, i + 2} THEN NUL ELSE r.m_read_buf[j]
    <3>1. i + 1 < m_read_idx(r) /\ r.m_checked_idx <= i + 1 BY <2>2, <2>3
    <3> HIDE DEF i, q
    <3> QED BY <2>2, <3>1, EndLineFields
  <2>5. /\ Parsing(t) /\ t.m_read_buf = q.m_read_buf
        /\ t.m_start_line = i + 2 /\ t.m_checked_idx = i + 2
    BY <1>2, <1>5, <2>1, <2>4, DigestFields
  <2>6. text = IF r.m_start_line = i THEN NUL ELSE a[r.m_start_line + 1]
    <3>1. text = q.m_read_buf[r.m_start_line + 1] BY <1>2 DEF At
    <3>2. r.m_start_line + 1 \in 1..Len(a) BY <2>2, <2>3
    <3>3. r.m_read_buf[r.m_start_line + 1] = a[r.m_start_line + 1]
      <4>1. \A j \in 1..Len(a) : j > r.m_start_line => r.m_read_buf[j] = a[j] BY DEF Scanned
      <4> QED BY <2>3, <3>2, <4>1
    <3> HIDE DEF text, q, i
    <3> QED BY <2>2, <2>3, <2>4, <3>1, <3>2, <3>3
  <2>7. /\ NoContent(a) => t.m_content_length = 0 /\ t.m_check_state # "CONTENT"
        /\ t.m_check_state = "CONTENT" => r.m_check_state = "HEADER" /\ text = NUL
        /\ t.m_check_state \in {"REQUESTLINE", "HEADER", "CONTENT"}
    <3>1. Line(q) = [x \in Fields |-> Line(q)[x]] /\ Line(q).m_content_length = r.m_content_length
          /\ Line(q).m_check_state = r.m_check_state
      <4> HIDE DEF q
      <4>1. Parsing(Line(q)) /\ \A x \in Fields \ {"m_start_line"} : Line(q)[x] = q[x]
        BY <1>2, LineFields
      <4> QED BY <1>2, <4>1 DEF Parsing, Fields
    <3>2. NoContent(a) => r.m_content_length = 0 /\ text[1] # "Content-length"
      <4>1. r.m_start_line + 1 \in 1..Len(a) BY <2>2, <2>3
      <4>2. NUL[1] # "Content-length" BY DEF NUL
      <4>3. NoContent(a) => a[r.m_start_line + 1][1] # "Content-length"
        BY <4>1 DEF NoContent
      <4>4. NoContent(a) => r.m_content_length = 0 BY DEF Scanned
      <4> HIDE DEF text
      <4> QED BY <2>6, <4>2, <4>3, <4>4
    <3> DEFINE s == Line(q)
    <3>3. CASE r.m_check_state = "REQUESTLINE"
      <4>1. t = ParseRequestLine(s, text) BY <1>2, <2>1, <3>3 DEF Digest
      <4> HIDE DEF t, s, text
      <4>2. /\ t.m_content_length = s.m_content_length
            /\ t.m_check_state \in {"REQUESTLINE", "HEADER"}
        BY <3>1, <3>3, <4>1 DEF ParseRequestLine, Fields, s
      <4> QED BY <3>1, <3>2, <4>2 DEF s
    <3>4. CASE r.m_check_state = "HEADER"
      <4>1. t = ParseHeaders(s, text) BY <1>2, <2>1, <3>4 DEF Digest
      <4> HIDE DEF t, text, s
      <4>2. /\ s = [x \in Fields |-> s[x]] /\ s.m_content_length = r.m_content_length
            /\ s.m_check_state = "HEADER"
        BY <3>1, <3>4 DEF s
      <4>3. CASE text = NUL /\ s.m_content_length # 0
        <5>1. t = [s EXCEPT !.m_check_state = "CONTENT"] BY <4>1, <4>3, Texts DEF ParseHeaders
        <5>2. t.m_check_state = "CONTENT" BY <4>2, <5>1 DEF Fields
        <5> QED BY <3>2, <3>4, <4>2, <4>3, <5>2
      <4>4. CASE text = NUL /\ s.m_content_length = 0
        <5>1. t = [s EXCEPT !.ret = "GET_REQUEST"] BY <4>1, <4>4, Texts DEF ParseHeaders
        <5> QED BY <4>2, <4>4, <5>1 DEF Fields
      <4>5. CASE text # NUL /\ text = KeepAlive
        <5>1. t = [s EXCEPT !.m_linger = TRUE] BY <4>1, <4>5, Texts DEF ParseHeaders
        <5> QED BY <3>2, <4>2, <5>1 DEF Fields
      <4>6. CASE text # NUL /\ text # KeepAlive /\ text[1] = "Content-length"
        <5>1. t = [s EXCEPT !.m_content_length = text[2]] BY <4>1, <4>6 DEF ParseHeaders
        <5> QED BY <3>2, <4>2, <4>6, <5>1 DEF Fields
      <4>7. CASE text # NUL /\ text # KeepAlive /\ text[1] # "Content-length"
        <5>1. t = s BY <4>1, <4>7 DEF ParseHeaders
        <5> QED BY <3>2, <4>2, <5>1
      <4> QED BY <4>3, <4>4, <4>5, <4>6, <4>7
    <3> QED BY <1>3, <3>3, <3>4
  <2>8. CASE t.m_check_state = "CONTENT"
    <3>1. r.m_check_state = "HEADER" /\ text = NUL /\ ~NoContent(a) BY <2>7, <2>8
    <3>2. r.m_start_line > 0 /\ a[r.m_start_line] = LF BY <3>1 DEF Scanned
    <3>3. \A j \in 1..Len(a) :
            /\ a[j] # NUL
            /\ j + 2 <= Len(a) /\ a[j] = LF /\ a[j + 1] = CR /\ a[j + 2] = LF => j + 2 = Len(a)
      BY <3>1 DEF HeadOnly
    <3>4. r.m_start_line = i
      <4>1. r.m_start_line + 1 \in 1..Len(a) BY <2>2, <2>3
      <4>2. a[r.m_start_line + 1] # NUL BY <3>3, <4>1
      <4> HIDE DEF text, i
      <4> QED BY <2>6, <3>1, <4>2
    <3>5. i + 2 = Len(a)
      <4>1. i \in 1..Len(a) /\ a[i] = LF BY <2>2, <2>3, <3>2, <3>4
      <4> HIDE DEF i
      <4> QED BY <2>2, <3>3, <4>1
    <3> QED BY <2>5, <3>5
  <2>9. CASE t.m_check_state # "CONTENT"
    <3> HIDE DEF t, q, i, text
    <3>1. Len(t.m_read_buf) = Len(a) BY <1>2, <2>3, <2>5 DEF m_read_idx
    <3>2. ASSUME NEW j \in 1..Len(a), j > t.m_start_line PROVE t.m_read_buf[j] = a[j]
      <4>1. j \notin {i + 1, i + 2} /\ j > r.m_start_line BY <2>2, <2>3, <2>5, <3>2
      <4>2. q.m_read_buf[j] = r.m_read_buf[j] BY <2>3, <2>4, <4>1
      <4>3. r.m_read_buf[j] = a[j] BY <4>1 DEF Scanned
      <4> QED BY <2>5, <4>2, <4>3
    <3>3. t.m_read_buf[t.m_start_line] = NUL
      <4>1. i + 2 \in 1..m_read_idx(r) BY <2>2, <2>3
      <4> QED BY <2>4, <2>5, <4>1
    <3>4. a[t.m_start_line] = LF /\ t.m_start_line > 0 BY <2>2, <2>5
    <3>5. \A j \in 1..Len(a) : ~(t.m_start_line < j /\ j <= t.m_checked_idx)
      BY <2>2, <2>5
    <3>6. NoContent(a) => t.m_content_length = 0 BY <2>7
    <3>7. Scanned(t, a) BY <2>9, <3>1, <3>2, <3>3, <3>4, <3>5, <3>6 DEF Scanned
    <3> QED BY <3>7 DEF t
  <2> QED BY <2>8, <2>9
<1> QED BY <1>2, <1>4, <1>5

LEMMA BodyNotBegun ==
  ASSUME NEW a \in Seq(Symbols), HeadOnly(a), NEW n \in Nat
  PROVE  LET s == Rounds(Start(Fresh(a)))[n]
         IN s.m_check_state = "CONTENT" => s.m_checked_idx = m_read_idx(Fresh(a))
<1> DEFINE R == Rounds(Start(Fresh(a)))
           P == {k \in Nat : \/ Over(R[k]) /\ R[k].m_check_state # "CONTENT"
                             \/ Scanned(R[k], a)
                             \/ R[k].m_checked_idx = Len(a)}
<1>1. /\ Parsing(Fresh(a)) /\ Fresh(a).m_read_buf = a /\ m_read_idx(Fresh(a)) = Len(a)
      /\ \A x \in Fields \ {"m_read_buf"} : Fresh(a)[x] = FreshReq[x]
  BY FreshFields
<1>2. /\ Parsing(Start(Fresh(a))) /\ m_read_idx(Start(Fresh(a))) = Len(a)
      /\ \A x \in Fields \ {"line_status", "ret"} : Start(Fresh(a))[x] = Fresh(a)[x]
  BY <1>1, StartFields
<1>3. /\ R[0] = Start(Fresh(a)) /\ \A k \in Nat : R[k + 1] = Turn(R[k])
      /\ \A k \in Nat : Parsing(R[k]) /\ m_read_idx(R[k]) = Len(a)
  BY <1>2, RoundsAre, RoundsParse
<1> HIDE DEF R
<1>4. 0 \in P
  <2> DEFINE s == Start(Fresh(a))
  <2>1. /\ s.m_read_buf = a /\ s.m_start_line = 0 /\ s.m_checked_idx = 0
        /\ s.m_check_state = "REQUESTLINE" /\ s.m_content_length = 0
    BY <1>1, <1>2 DEF Fields, FreshReq
  <2> HIDE DEF s
  <2>2. Scanned(s, a) BY <2>1 DEF Scanned
  <2> QED BY <1>3, <2>2 DEF s
<1>5. ASSUME NEW k \in Nat, k \in P PROVE k + 1 \in P
  <2>1. R[k + 1] = Turn(R[k]) /\ Parsing(R[k]) /\ m_read_idx(R[k]) = Len(a) BY <1>3
  <2>2. CASE Over(R[k]) BY <1>5, <2>1, <2>2 DEF Turn
  <2>3. CASE ~Over(R[k])
    <3>1. R[k + 1] = Round(R[k]) BY <2>1, <2>3 DEF Turn
    <3>2. CASE Scanned(R[k], a) BY <2>1, <2>3, <3>1, <3>2, HeadRound
    <3>3. CASE R[k].m_checked_idx = Len(a)
      <4>1. Round(R[k]).m_checked_idx >= R[k].m_checked_idx
        <5> DEFINE r == R[k]  q == Looked(r)
        <5>1. Parsing(q) /\ q.m_checked_idx >= r.m_checked_idx BY <2>1, LookedFields
        <5>2. Round(r) = q \/ (q.line_status = "OK" /\ Round(r) = Digest(q, At(q, q.m_start_line)))
          BY <2>1, RoundIs
        <5> HIDE DEF q, r
        <5>3. Round(r).m_checked_idx = q.m_checked_idx BY <5>1, <5>2, DigestFields
        <5> QED BY <5>1, <5>3 DEF r
      <4>2. Parsing(R[k + 1]) /\ m_read_idx(R[k + 1]) = Len(a)
        BY <2>1, <2>3, <3>1, RoundProgress
      <4>3. R[k + 1].m_checked_idx \in Nat /\ R[k + 1].m_checked_idx <= Len(a) BY <4>2 DEF Parsing
      <4>4. Len(a) \in Nat OBVIOUS
      <4>5. R[k + 1].m_checked_idx = Len(a) BY <3>1, <3>3, <4>1, <4>3, <4>4
      <4> QED BY <4>5
    <3> QED BY <1>5, <2>3, <3>2, <3>3
  <2> QED BY <2>2, <2>3
<1> HIDE DEF P
<1>6. n \in P BY <1>4, <1>5, Inductive
<1>7. Scanned(R[n], a) => R[n].m_check_state # "CONTENT" BY DEF Scanned
<1>8. R[n].m_check_state = "CONTENT" => R[n].m_checked_idx = Len(a)
  BY <1>6, <1>7 DEF P
<1> QED BY <1>1, <1>8 DEF R

-----------------------------------------------------------------------------
(* Requests cut on their way.                                              *)

Taken == Len(request) - Len(unread)

\* What was read of the request, the last of it since init(), and what is not.
ReadSoFar ==
  /\ Taken \in 0..Len(request) /\ m_read_idx(req) <= Taken
  /\ unread = SubSeq(request, Taken + 1, Len(request))
  /\ WholeBody /\ unread # <<>> => Taken <= Len(request) - BodyLen(request)

\* What is left of the indices of a connection whose last recv failed.
InBounds(r) ==
  /\ r.m_check_state \in {"REQUESTLINE", "HEADER", "CONTENT"}
  /\ r.m_start_line \in Nat /\ r.m_start_line <= r.m_checked_idx
  /\ m_read_idx(r) <= ReadBuf

CutInv ==
  /\ InBounds(req)
  /\ request \in Requests \union Broken \union {<<>>} /\ m_trigger_mode \in TrigModes
  /\ pc # "closed" => Parsing(req) /\ ReadSoFar
  /\ pc = "in" => req.ret = "NO_REQUEST" /\ (m_read_idx(req) = 0 => req = FreshReq)
  /\ pc = "read" => m_read_idx(req) > 0
  /\ pc = "read" /\ WholeBody => ProcessRead(req) = ProcessRead(Fresh(Arrived))
  /\ pc \in {"in", "out", "write"} /\ m_read_idx(req) > 0 /\ WholeBody =>
       req = ProcessRead(Fresh(Arrived))

LEMMA RequestSymbols ==
  ASSUME request \in Requests \union Broken \union {<<>>}
  PROVE  request \in Seq(Symbols)
<1>1. CASE request = <<>> BY <1>1
<1>2. CASE request \in Requests \union Broken
  <2>1. Range(request) \subseteq Symbols BY <1>2 DEF Symbols
  <2>2. request \in Seq(Range(request)) BY <1>2, ConnAssumption
  <2> QED BY <2>1, <2>2
<1> QED BY <1>1, <1>2

LEMMA BodyLenType ==
  ASSUME NEW r, Len(r) \in Nat
  PROVE  BodyLen(r) \in Nat /\ BodyLen(r) <= Len(r)
<1> DEFINE B == {i \in 1..Len(r) : r[i] = <<"b">>}
<1>1. IsFiniteSet(1..Len(r)) /\ Cardinality(1..Len(r)) = Len(r) BY FS_Interval
<1>2. B \in SUBSET (1..Len(r)) OBVIOUS
<1> HIDE DEF B
<1>3. IsFiniteSet(B) /\ Cardinality(B) <= Len(r) BY <1>1, <1>2, FS_Subset
<1>4. Cardinality(B) \in Nat BY <1>3, FS_CardinalityType
<1> QED BY <1>3, <1>4 DEF BodyLen, B

LEMMA ArrivedSymbols ==
  ASSUME CutInv, ReadSoFar, Parsing(req)
  PROVE  /\ Arrived = SubSeq(request, Taken - m_read_idx(req) + 1, Taken)
         /\ Arrived \in Seq(Symbols) /\ Len(Arrived) = m_read_idx(req)
         /\ \A i \in 1..m_read_idx(req) :
              Arrived[i] = request[Taken - m_read_idx(req) + i]
<1> DEFINE t == Taken  n == m_read_idx(req)  m == t - n
<1>1. request \in Seq(Symbols) BY RequestSymbols DEF CutInv
<1>2. t \in Nat /\ n \in Nat /\ n <= t /\ t <= Len(request) /\ Len(request) \in Nat
  BY <1>1 DEF ReadSoFar, Parsing, m_read_idx
<1>3. Arrived = SubSeq(request, m + 1, t) BY DEF Arrived, Taken
<1>4. m \in Nat /\ m <= t /\ t - m = n BY <1>2
<1> HIDE DEF t, n, m
<1>5. /\ SubSeq(request, m + 1, t) \in Seq(Symbols)
      /\ Len(SubSeq(request, m + 1, t)) = t - m
      /\ \A i \in 1..(t - m) : SubSeq(request, m + 1, t)[i] = request[m + i]
  BY <1>1, <1>2, <1>4, Part
<1> QED BY <1>3, <1>4, <1>5 DEF m, t, n

\* What arrives when the body's turn has not come is all of the head at most.
LEMMA ArrivedHead ==
  ASSUME CutInv, ReadSoFar, Parsing(req), WholeBody, unread # <<>>
  PROVE  HeadOnly(Arrived)
<1> DEFINE A == Arrived  n == m_read_idx(req)  m == Taken - n
<1>1. /\ A \in Seq(Symbols) /\ Len(A) = n /\ \A i \in 1..n : A[i] = request[m + i]
  BY ArrivedSymbols
<1>2. request \in Seq(Symbols) BY RequestSymbols DEF CutInv
<1>3. /\ Taken \in Nat /\ n \in Nat /\ n <= Taken /\ Taken <= Len(request)
      /\ Len(request) \in Nat
      /\ Taken <= Len(request) - BodyLen(request)
      /\ BodyLen(request) \in Nat
  BY <1>2, BodyLenType DEF ReadSoFar, Parsing, m_read_idx
<1>4. m \in Nat /\ m + n = Taken BY <1>3
<1>5. request \in Requests \union Broken
  <2>1. request # <<>> BY <1>2 DEF ReadSoFar
  <2> QED BY <2>1 DEF CutInv
<1> HIDE DEF A, n, m
<1>6. CASE \E i \in 1..Len(request) : request[i][1] = "Content-length"
  <2>1. \A i \in 1..Len(request) :
          /\ request[i] # NUL
          /\ i + 2 <= Len(request) /\ request[i] = LF /\ request[i + 1] = CR
               /\ request[i + 2] = LF => i + 2 = Len(request) - BodyLen(request)
    BY <1>5, <1>6, BodyAssumption
  <2>2. ASSUME NEW i \in 1..n
        PROVE  /\ A[i] # NUL
               /\ i + 2 <= n /\ A[i] = LF /\ A[i + 1] = CR /\ A[i + 2] = LF => i + 2 = n
    <3> DEFINE j == m + i
    <3>1. j \in 1..Len(request) /\ A[i] = request[j] BY <1>1, <1>3, <1>4
    <3>2. ASSUME i + 2 <= n, A[i] = LF, A[i + 1] = CR, A[i + 2] = LF
          PROVE  i + 2 = n
      <4>1. i + 1 \in 1..n /\ i + 2 \in 1..n BY <1>3, <3>2
      <4>2. A[i + 1] = request[m + (i + 1)] /\ A[i + 2] = request[m + (i + 2)]
        BY <1>1, <4>1
      <4>3. m + (i + 1) = j + 1 /\ m + (i + 2) = j + 2 BY <1>4
      <4>4. request[j] = LF /\ request[j + 1] = CR /\ request[j + 2] = LF
        BY <3>1, <3>2, <4>2, <4>3
      <4>5. j + 2 <= Len(request) BY <1>3, <1>4, <3>2
      <4> HIDE DEF j
      <4>6. j + 2 = Len(request) - BodyLen(request) BY <2>1, <3>1, <4>4, <4>5
      <4> QED BY <1>3, <1>4, <3>2, <4>6 DEF j
    <3> HIDE DEF j
    <3> QED BY <2>1, <3>1, <3>2
  <2> QED BY <1>1, <2>2 DEF HeadOnly, A
<1>7. CASE ~\E i \in 1..Len(request) : request[i][1] = "Content-length"
  <2>1. ASSUME NEW i \in 1..Len(A) PROVE A[i][1] # "Content-length"
    <3>1. m + i \in 1..Len(request) /\ A[i] = request[m + i] BY <1>1, <1>3, <1>4
    <3> QED BY <1>7, <3>1
  <2> QED BY <2>1 DEF HeadOnly, NoContent, A
<1> QED BY <1>6, <1>7

LEMMA ReadOnceCut ==
  ASSUME CutInv, ReadOnce
  PROVE  CutInv'
<1>1. PICK n \in 1..Len(unread) :
        /\ m_read_idx(req) + n <= ReadBuf - m_trigger_mode
        /\ WholeBody => n = Len(unread) \/ n <= Len(unread) - BodyLen(request)
        /\ req' = Received(n)
        /\ unread' = SubSeq(unread, n + 1, Len(unread))
  BY DEF ReadOnce
<1>2. /\ pc = "in" /\ unread # <<>> /\ pc' \in {"read", "dropped"} /\ request' = request
      /\ m_trigger_mode' = m_trigger_mode
  BY DEF ReadOnce
<1> DEFINE t == Taken  L == Len(request)  k == m_read_idx(req)  e == SubSeq(unread, 1, n)
<1>3. request \in Seq(Symbols) /\ ReadSoFar /\ Parsing(req) BY <1>2, RequestSymbols DEF CutInv
<1>4. /\ t \in Nat /\ L \in Nat /\ t <= L /\ k \in Nat /\ k <= t
      /\ unread = SubSeq(request, t + 1, L)
  BY <1>3 DEF ReadSoFar, Parsing, m_read_idx
<1>5. unread \in Seq(Symbols) /\ Len(unread) = L - t BY <1>3, <1>4, Part
<1>6. n \in Nat /\ n >= 1 /\ t + n <= L /\ t + n \in Nat BY <1>1, <1>4, <1>5
<1>7. e = SubSeq(request, t + 1, t + n) /\ unread' = SubSeq(request, t + n + 1, L)
  <2>1. SubSeq(SubSeq(request, t + 1, L), 0 + 1, n) = SubSeq(request, (t + 0) + 1, t + n)
    <3>1. 0 <= n /\ n <= L - t /\ L <= Len(request) BY <1>4, <1>6
    <3> HIDE DEF t, L
    <3> QED BY <1>3, <1>4, <1>6, <3>1, PartOfPart DEF L
  <2>2. SubSeq(SubSeq(request, t + 1, L), n + 1, L - t) = SubSeq(request, (t + n) + 1, t + (L - t))
    <3> DEFINE l == L - t
    <3>1. n <= l /\ l <= L - t /\ l \in Nat /\ L <= Len(request) BY <1>4, <1>6
    <3> HIDE DEF t, L, l
    <3>2. SubSeq(SubSeq(request, t + 1, L), n + 1, l) = SubSeq(request, (t + n) + 1, t + l)
      BY <1>3, <1>4, <1>6, <3>1, PartOfPart
    <3> QED BY <3>2 DEF l
  <2>3. t + 0 = t /\ t + (L - t) = L /\ 0 + 1 = 1 BY <1>4
  <2> HIDE DEF t, L
  <2> QED BY <1>1, <1>4, <1>5, <2>1, <2>2, <2>3
<1>8. e \in Seq(Symbols) /\ Len(e) = n
  <2>1. t <= t + n BY <1>4, <1>6
  <2>2. /\ SubSeq(request, t + 1, t + n) \in Seq(Symbols)
        /\ Len(SubSeq(request, t + 1, t + n)) = (t + n) - t
    <3> DEFINE z == t + n
    <3>1. z \in Nat /\ t <= z /\ z <= Len(request) BY <1>4, <1>6
    <3> HIDE DEF z, t
    <3> QED BY <1>3, <1>4, <3>1, Part DEF z
  <2> QED BY <1>4, <1>6, <1>7, <2>2
<1>9. req' = Ext(req, e) BY <1>1 DEF Ext, Received
<1>10. /\ Parsing(req') /\ m_read_idx(req)' = k + n
       /\ \A x \in Fields \ {"m_read_buf"} : req'[x] = req[x]
  <2>1. m_read_idx(req)' = m_read_idx(req') BY DEF m_read_idx
  <2> QED BY <1>3, <1>8, <1>9, <2>1, ExtFields
<1>11. Taken' = t + n
  <2>1. Len(unread') = L - (t + n)
    <3> DEFINE z == t + n
    <3>1. z \in Nat /\ z <= L BY <1>6
    <3> HIDE DEF z, t
    <3>2. L \in Nat /\ L <= Len(request) BY <1>4
    <3> HIDE DEF L
    <3>3. Len(SubSeq(request, z + 1, L)) = L - z BY <1>3, <3>1, <3>2, Part
    <3> QED BY <1>7, <3>3 DEF z
  <2> QED BY <1>2, <1>4, <1>6, <2>1 DEF Taken
<1>12. ReadSoFar'
  <2>1. /\ Taken' \in 0..Len(request') /\ m_read_idx(req)' <= Taken'
        /\ unread' = SubSeq(request', Taken' + 1, Len(request'))
    BY <1>2, <1>4, <1>6, <1>7, <1>10, <1>11
  <2>2. ASSUME WholeBody, unread' # <<>> PROVE Taken' <= Len(request') - BodyLen(request')
    <3>1. n # Len(unread)
      <4> SUFFICES ASSUME n = Len(unread) PROVE FALSE OBVIOUS
      <4>1. t + n = L BY <1>4, <1>5
      <4> QED BY <1>3, <1>4, <1>7, <2>2, <4>1
    <3>2. n <= (L - t) - BodyLen(request) BY <1>1, <1>5, <2>2, <3>1
    <3>3. BodyLen(request) \in Nat BY <1>4, BodyLenType
    <3> QED BY <1>2, <1>4, <1>6, <1>11, <3>2, <3>3
  <2>3. BodyLen(request)' = BodyLen(request') BY DEF BodyLen
  <2> QED BY <2>1, <2>2, <2>3 DEF ReadSoFar
<1>13. m_read_idx(req)' <= ReadBuf
  <2>1. m_trigger_mode \in {0, 1} /\ ReadBuf \in Nat BY ConnAssumption DEF CutInv
  <2>2. k + n <= ReadBuf - m_trigger_mode BY <1>1
  <2> QED BY <1>4, <1>6, <1>10, <2>1, <2>2
<1>14. ASSUME WholeBody PROVE ProcessRead(req)' = ProcessRead(Fresh(Arrived'))
  <2> DEFINE A == Arrived
  <2>1. A \in Seq(Symbols) /\ A = SubSeq(request, t - k + 1, t) /\ HeadOnly(A)
    BY <1>2, <1>3, <1>14, ArrivedSymbols, ArrivedHead
  <2>2. Arrived' = A \o e
    <3>1. Arrived' = SubSeq(request, (t + n) - (k + n) + 1, t + n)
      BY <1>2, <1>10, <1>11 DEF Arrived, Taken
    <3>2. (t + n) - (k + n) = t - k BY <1>4, <1>6
    <3> DEFINE m == t - k  z == t + n
    <3>3. m \in Nat /\ z \in Nat /\ m <= t /\ t <= z /\ z <= Len(request) BY <1>4, <1>6
    <3>4. A = SubSeq(request, m + 1, t) /\ e = SubSeq(request, t + 1, z)
          /\ Arrived' = SubSeq(request, m + 1, z)
      BY <1>7, <2>1, <3>1, <3>2
    <3> HIDE DEF m, z, t, A, e
    <3> QED BY <1>3, <1>4, <3>3, <3>4, Parts
  <2> HIDE DEF A, e, t, k
  <2>3. Ext(Fresh(A), e) = Fresh(A \o e) BY DEF Ext, Fresh, FreshReq
  <2>4. Parsing(Fresh(A)) BY <2>1, FreshFields
  <2>5. CASE k = 0
    <3>1. req = FreshReq BY <1>2, <2>5 DEF CutInv, k
    <3>2. A = <<>>
      <4>1. Len(A) = 0 BY <1>3, <2>5, ArrivedSymbols DEF A, k
      <4> QED BY <2>1, <4>1
    <3>3. FreshReq = Fresh(A) BY <3>2 DEF Fresh, FreshReq
    <3> QED BY <1>9, <2>2, <2>3, <3>1, <3>3
  <2>6. CASE k # 0
    <3>1. req = ProcessRead(Fresh(A)) /\ req.ret = "NO_REQUEST"
      BY <1>2, <1>4, <1>14, <2>6 DEF CutInv, k, A
    <3>2. \A i \in Nat : LET s == Rounds(Start(Fresh(A)))[i]
                         IN s.m_check_state = "CONTENT" => s.m_checked_idx = m_read_idx(Fresh(A))
      BY <2>1, BodyNotBegun
    <3>3. ProcessRead(Ext(ProcessRead(Fresh(A)), e)) = ProcessRead(Ext(Fresh(A), e))
      BY <1>8, <2>4, <3>1, <3>2, ProcessResumes
    <3>4. ProcessRead(req') = ProcessRead(Fresh(Arrived')) BY <1>9, <2>2, <2>3, <3>1, <3>3
    <3> QED BY <3>4
  <2> QED BY <2>5, <2>6
<1>15. m_read_idx(req)' > 0 BY <1>4, <1>6, <1>10
<1>16. InBounds(req') BY <1>10, <1>13 DEF InBounds, Parsing, m_read_idx
<1> QED BY <1>2, <1>10, <1>12, <1>13, <1>14, <1>15, <1>16 DEF CutInv

\* process() sees the request as it is, however it came.
LEMMA ProcessCut ==
  ASSUME CutInv, Process
  PROVE  CutInv'
<1>1. /\ pc = "read" /\ req' = ProcessRead(req)
      /\ \/ req'.ret = "NO_REQUEST" /\ pc' = "in"
         \/ pc' = "out"
      /\ request' = request /\ unread' = unread /\ m_trigger_mode' = m_trigger_mode
  BY DEF Process
<1>2. Parsing(req) /\ ReadSoFar BY <1>1 DEF CutInv
<1>3. Parsing(req') /\ m_read_idx(req') = m_read_idx(req)
  BY <1>1, <1>2, ProcessReadFinal, StartFields, FinalFields
<1>4. m_read_idx(req)' = m_read_idx(req) BY <1>3 DEF m_read_idx
<1>5. Arrived' = Arrived /\ Taken' = Taken BY <1>1, <1>4 DEF Arrived, Taken
<1>6. ReadSoFar'
  <2>1. BodyLen(request)' = BodyLen(request) BY <1>1 DEF BodyLen
  <2> QED BY <1>1, <1>2, <1>4, <1>5, <2>1 DEF ReadSoFar
<1>7. WholeBody => req' = ProcessRead(Fresh(Arrived')) BY <1>1, <1>5 DEF CutInv
<1>8. m_read_idx(req) > 0 /\ m_read_idx(req) \in Nat
  BY <1>1, <1>2 DEF CutInv, Parsing, m_read_idx
<1>9. InBounds(req')
  <2>1. m_read_idx(req) <= ReadBuf BY DEF CutInv, InBounds
  <2> QED BY <1>3, <2>1 DEF InBounds, Parsing
<1> QED BY <1>1, <1>3, <1>4, <1>6, <1>7, <1>8, <1>9 DEF CutInv

LEMMA FreshReqFields ==
  /\ Parsing(FreshReq) /\ m_read_idx(FreshReq) = 0 /\ FreshReq.ret = "NO_REQUEST"
  /\ InBounds(FreshReq)
<1>1. Parsing(FreshReq) /\ m_read_idx(FreshReq) = 0 /\ FreshReq.ret = "NO_REQUEST"
  BY DEF FreshReq, Parsing, Fields, m_read_idx
<1>2. ReadBuf \in Nat BY ConnAssumption
<1> QED BY <1>1, <1>2 DEF InBounds, Parsing

LEMMA InitCut == Init => CutInv
<1> SUFFICES ASSUME Init PROVE CutInv
  OBVIOUS
<1> QED BY FreshReqFields, ConnAssumption DEF Init, CutInv

\* A step that leaves the request and what was read of it alone, or begins anew.
LEMMA SameCut ==
  ASSUME CutInv, request' = request, unread' = unread, m_trigger_mode' = m_trigger_mode,
         \/ req' = req /\ (pc' = "closed" \/ (pc' \in {"out", "write"} /\ pc \in {"out", "write"})
                           \/ pc' = pc)
         \/ req' = FreshReq /\ pc' = "in" /\ pc # "closed"
  PROVE  CutInv'
<1>1. CASE /\ req' = req
           /\ \/ pc' = "closed" \/ (pc' \in {"out", "write"} /\ pc \in {"out", "write"})
              \/ pc' = pc
  <2>1. /\ m_read_idx(req)' = m_read_idx(req) /\ Arrived' = Arrived /\ Taken' = Taken
        /\ BodyLen(request)' = BodyLen(request)
    BY <1>1 DEF m_read_idx, Arrived, Taken, BodyLen
  <2>2. ReadSoFar' <=> ReadSoFar BY <2>1 DEF ReadSoFar
  <2>3. CASE pc' = "closed" BY <1>1, <2>1, <2>3 DEF CutInv
  <2>4. CASE pc' # "closed" BY <1>1, <2>1, <2>2, <2>4 DEF CutInv
  <2> QED BY <2>3, <2>4
<1>2. CASE req' = FreshReq /\ pc' = "in" /\ pc # "closed"
  <2>1. /\ Taken' = Taken /\ BodyLen(request)' = BodyLen(request)
        /\ m_read_idx(req)' = 0
    BY <1>2, FreshReqFields DEF m_read_idx, Taken, BodyLen
  <2>2. ReadSoFar BY <1>2 DEF CutInv
  <2>3. ReadSoFar' BY <2>1, <2>2 DEF ReadSoFar
  <2> QED BY <1>2, <2>1, <2>3, FreshReqFields, ConnAssumption DEF CutInv
<1> QED BY <1>1, <1>2

\* A client that asks nothing.
LEMMA NothingAsked ==
  ASSUME CutInv, request' = <<>>, unread' = <<>>, m_trigger_mode' = m_trigger_mode,
         \/ pc' = "closed" /\ req' = req
         \/ pc' = "in" /\ req' = FreshReq
  PROVE  CutInv'
<1>1. CASE pc' = "closed" /\ req' = req
  <2>1. m_read_idx(req)' = m_read_idx(req) BY <1>1 DEF m_read_idx
  <2> QED BY <1>1, <2>1 DEF CutInv
<1>2. CASE pc' = "in" /\ req' = FreshReq
  <2>1. m_read_idx(req)' = 0 BY <1>2, FreshReqFields DEF m_read_idx
  <2>2. Taken' = 0 BY DEF Taken
  <2>3. ReadSoFar' BY <2>1, <2>2 DEF ReadSoFar
  <2> QED BY <1>2, <2>1, <2>3, FreshReqFields, ConnAssumption DEF CutInv
<1> QED BY <1>1, <1>2

\* A connection that is closed, whatever recv left in its buffer.
LEMMA ClosedCut ==
  ASSUME CutInv, pc' = "closed", InBounds(req'), request' \in {request, <<>>},
         m_trigger_mode' = m_trigger_mode
  PROVE  CutInv'
BY DEF CutInv

\* recv does not put more into the buffer than it has room for.
LEMMA ReceivedBounds ==
  ASSUME CutInv, pc = "in", NEW n \in Nat, n <= Len(unread), m_read_idx(req) + n <= ReadBuf
  PROVE  InBounds(Received(n))
<1>1. ReadSoFar /\ Parsing(req) /\ request \in Seq(Symbols)
  BY RequestSymbols DEF CutInv
<1>2. unread \in Seq(Symbols)
  <2> DEFINE t == Taken  L == Len(request)
  <2>1. t \in Nat /\ L \in Nat /\ t <= L /\ unread = SubSeq(request, t + 1, L)
    BY <1>1 DEF ReadSoFar
  <2>2. L <= Len(request) BY <2>1
  <2> HIDE DEF t, L
  <2> QED BY <1>1, <2>1, <2>2, Part
<1> DEFINE e == SubSeq(unread, 1, n)
<1>3. e \in Seq(Symbols) /\ Len(e) = n
  <2> DEFINE z == 0
  <2>1. z \in Nat /\ z <= n /\ z + 1 = 1 /\ n - z = n OBVIOUS
  <2> HIDE DEF z
  <2>2. SubSeq(unread, z + 1, n) \in Seq(Symbols) /\ Len(SubSeq(unread, z + 1, n)) = n - z
    BY <1>2, <2>1, Part
  <2> QED BY <2>1, <2>2
<1>4. Received(n) = Ext(req, e) BY DEF Received, Ext
<1> HIDE DEF e
<1>5. Parsing(Received(n)) /\ m_read_idx(Received(n)) = m_read_idx(req) + n
  BY <1>1, <1>3, <1>4, ExtFields
<1> QED BY <1>5 DEF InBounds, Parsing

LEMMA ReadFullCut ==
  ASSUME CutInv, ReadFull
  PROVE  CutInv'
<1> DEFINE k == m_read_idx(req)  n == ReadBuf - k
<1>1. /\ pc = "in" /\ pc' = "closed" /\ req' = Received(n) /\ request' = request
      /\ m_trigger_mode' = m_trigger_mode
      /\ k >= ReadBuf \/ k + Len(unread) >= ReadBuf
  BY DEF ReadFull
<1>2. k \in Nat /\ ReadBuf \in Nat /\ k <= ReadBuf /\ Len(unread) \in Nat
  <2>1. Parsing(req) /\ InBounds(req) /\ ReadSoFar /\ request \in Seq(Symbols)
    BY <1>1, RequestSymbols DEF CutInv
  <2>2. Len(unread) \in Nat BY <2>1 DEF ReadSoFar
  <2> QED BY <2>1, <2>2, ConnAssumption DEF Parsing, InBounds, m_read_idx
<1>3. n \in Nat /\ n <= Len(unread) /\ k + n <= ReadBuf BY <1>1, <1>2
<1>4. InBounds(Received(n)) BY <1>1, <1>3, ReceivedBounds
<1> QED BY <1>1, <1>4, ClosedCut

LEMMA ReadFailsCut ==
  ASSUME CutInv, ReadFails
  PROVE  CutInv'
<1>1. /\ pc = "in" /\ pc' = "closed" /\ request' = <<>>
      /\ m_trigger_mode' = m_trigger_mode
      /\ \/ req' = [req EXCEPT !.m_read_buf = Front(@)]
         \/ \E n \in 0..Len(unread) : m_read_idx(req) + n < ReadBuf /\ req' = Received(n)
  BY DEF ReadFails
<1>2. Parsing(req) /\ InBounds(req) BY <1>1 DEF CutInv
<1>3. CASE req' = [req EXCEPT !.m_read_buf = Front(@)]
  <2> DEFINE b == req.m_read_buf
  <2>1. b \in Seq(Symbols) /\ Len(b) \in Nat /\ Len(b) <= ReadBuf /\ ReadBuf \in Nat
    BY <1>2, ConnAssumption DEF Parsing, InBounds, m_read_idx
  <2>2. Len(Front(b)) <= ReadBuf BY <2>1 DEF Front
  <2>3. /\ req'.m_read_buf = Front(b) /\ req'.m_check_state = req.m_check_state
        /\ req'.m_start_line = req.m_start_line /\ req'.m_checked_idx = req.m_checked_idx
    BY <1>2, <1>3 DEF Parsing, Fields
  <2>4. InBounds(req') BY <1>2, <2>2, <2>3 DEF InBounds, m_read_idx
  <2> QED BY <1>1, <2>4, ClosedCut
<1>4. CASE \E n \in 0..Len(unread) : m_read_idx(req) + n < ReadBuf /\ req' = Received(n)
  <2>1. PICK n \in 0..Len(unread) : m_read_idx(req) + n < ReadBuf /\ req' = Received(n)
    BY <1>4
  <2>2. m_read_idx(req) \in Nat /\ ReadBuf \in Nat
    BY <1>2, ConnAssumption DEF Parsing, m_read_idx
  <2>3. n \in Nat /\ n <= Len(unread) /\ m_read_idx(req) + n <= ReadBuf BY <2>1, <2>2
  <2>4. InBounds(Received(n)) BY <1>1, <2>3, ReceivedBounds
  <2> QED BY <1>1, <2>1, <2>4, ClosedCut
<1> QED BY <1>1, <1>3, <1>4

LEMMA AskCut ==
  ASSUME CutInv, Ask
  PROVE  CutInv'
<1>1. /\ pc = "in" /\ pc' = "in" /\ req' = req /\ m_trigger_mode' = m_trigger_mode
      /\ request = <<>> \/ req = FreshReq
      /\ request' \in Requests \union Broken /\ unread' = request'
  BY DEF Ask
<1>2. m_read_idx(req)' = m_read_idx(req) BY <1>1 DEF m_read_idx
<1>3. m_read_idx(req) = 0
  <2>1. CASE request = <<>>
    <3>1. ReadSoFar /\ Parsing(req) BY <1>1 DEF CutInv
    <3>2. m_read_idx(req) \in Nat BY <3>1 DEF Parsing, m_read_idx
    <3> QED BY <2>1, <3>1, <3>2 DEF ReadSoFar
  <2>2. CASE req = FreshReq BY <2>2, FreshReqFields
  <2> QED BY <1>1, <2>1, <2>2
<1>4. request' \in Seq(Range(request')) /\ Len(request') \in Nat
  <2>1. request' \in Seq(Range(request')) BY <1>1, ConnAssumption
  <2> QED BY <2>1
<1>5. Taken' = 0 BY <1>1, <1>4 DEF Taken
<1>6. ReadSoFar'
  <2>1. BodyLen(request)' = BodyLen(request') BY DEF BodyLen
  <2>2. BodyLen(request') \in Nat /\ BodyLen(request') <= Len(request') BY <1>4, BodyLenType
  <2>3. unread' = SubSeq(request', 1, Len(request')) BY <1>1, <1>4
  <2> QED BY <1>2, <1>3, <1>4, <1>5, <2>1, <2>2, <2>3 DEF ReadSoFar
<1> QED BY <1>1, <1>2, <1>3, <1>6 DEF CutInv

LEMMA NextCut ==
  ASSUME CutInv, [Next]_vars
  PROVE  CutInv'
<1>1. CASE Connect BY <1>1, NothingAsked DEF Connect, InitConn
<1>2. CASE Ask BY <1>2, AskCut
<1>3. CASE Receive BY <1>3, SameCut DEF Receive
<1>4. CASE HangUp BY <1>4, NothingAsked DEF HangUp
<1>5. CASE WriteError BY <1>5, NothingAsked DEF WriteError
<1>6. CASE ReadOnce BY <1>6, ReadOnceCut
<1>7. CASE ReadFull BY <1>7, ReadFullCut
<1>8. CASE Process BY <1>8, ProcessCut
<1>9. CASE WriteNothing BY <1>9, SameCut DEF WriteNothing, InitConn
<1>10. CASE WriteSome BY <1>10, SameCut DEF WriteSome
<1>11. CASE WriteLast BY <1>11, SameCut DEF WriteLast
<1>12. CASE WriteAgain BY <1>12, SameCut DEF WriteAgain
<1>13. CASE UNCHANGED vars BY <1>13, SameCut DEF vars
<1>14. CASE ReadFails BY <1>14, ReadFailsCut
<1> QED BY <1>1, <1>2, <1>3, <1>4, <1>5, <1>6, <1>7, <1>8, <1>9, <1>10, <1>11, <1>12, <1>13,
           <1>14 DEF Next, Server

\* However a request is cut on its way, the parser makes the same of it
\* (process_read, whose state is kept in HTTP_CONN from one call to the next).
\* That a body comes in one piece is needed: http_body.
THEOREM CutMakesNoDifference ==
  ASSUME WholeBody PROVE Spec => []CutAnywhere
<1>1. CutInv => CutAnywhere
  <2> SUFFICES ASSUME CutInv, pc \in {"in", "out", "write"}, m_read_idx(req) > 0
               PROVE  req = ProcessRead([FreshReq EXCEPT !.m_read_buf = Arrived])
    BY DEF CutAnywhere
  <2>1. req = ProcessRead(Fresh(Arrived)) BY DEF CutInv
  <2> QED BY <2>1 DEF Fresh
<1> QED BY <1>1, InitCut, NextCut, PTL DEF Spec

-----------------------------------------------------------------------------
(* Requests that keep to HTTP.                                             *)

\* What has arrived of r.
Begins(a, r) == Len(a) <= Len(r) /\ \A i \in 1..Len(a) : a[i] = r[i]

\* What k lines have told.
HeadRead(s, k, r) ==
  /\ Accepted(r) /\ s.m_method = r[1][1] /\ s.m_url = Page(r)
  /\ s.m_linger \in BOOLEAN
  /\ s.m_linger <=> \E j \in 1..(k - 1) : r[3 * j + 1] = KeepAlive
  /\ s.m_content_length = IF \E j \in 1..(k - 1) : r[3 * j + 1][1] = "Content-length"
                          THEN BodyLen(r) ELSE 0

\* The parser before line k + 1.
OnLine(s, k, a, r) ==
  /\ s.m_start_line = 3 * k /\ s.m_checked_idx = 3 * k
  /\ Len(s.m_read_buf) = Len(a)
  /\ \A i \in 1..Len(a) : i > 3 * k => s.m_read_buf[i] = a[i]
  /\ s.line_status = "OK" /\ s.ret = "NO_REQUEST"
  /\ k = 0 => /\ s.m_check_state = "REQUESTLINE" /\ s.m_method = "GET"
              /\ s.m_linger = FALSE /\ s.m_content_length = 0
  /\ k > 0 => s.m_check_state = "HEADER" /\ HeadRead(s, k, r)

\* The parser before the body.
OnBody(s, n, r) ==
  /\ s.m_checked_idx = 3 * n + 2 /\ s.m_check_state = "CONTENT"
  /\ s.line_status = "OK" /\ s.ret = "NO_REQUEST"
  /\ HeadRead(s, n, r) /\ s.m_content_length = BodyLen(r)

\* The outcomes: there is more to come, all is there, or the first line is
\* enough to refuse.
Pending(s, a, r) ==
  /\ s.ret = "NO_REQUEST" /\ s.m_linger \in BOOLEAN /\ (s.m_linger => Linger(r))
  /\ Len(a) < Len(r)
  /\ \/ s.line_status = "OPEN"
     \/ s.line_status = "CONTENT_OPEN" /\ s.m_checked_idx = Len(a)
Complete(s, a, r) ==
  /\ s.ret = "GET_REQUEST" /\ Len(a) = Len(r) /\ Accepted(r)
  /\ s.m_method = r[1][1] /\ s.m_url = Page(r)
  /\ s.m_linger = Linger(r)
Refused(s, r) ==
  /\ s.ret = "BAD_REQUEST" /\ ~Accepted(r) /\ s.m_linger = FALSE
  /\ s.m_url = Page(r) /\ (s.m_method = r[1][1] \/ Page(r) = "garbled")

\* parse_line on a request of lines: it ends the line at its CR, or waits for
\* the rest of it.
LEMMA LineOnTrack ==
  ASSUME NEW r, NEW n \in Nat, HasLines(r, n), NEW a \in Seq(Symbols), Begins(a, r),
         NEW s, Parsing(s), NEW k \in 0..n, OnLine(s, k, a, r)
  PROVE  LET e == IF k < n THEN 3 * k + 1 ELSE 3 * n
         IN \/ /\ Len(a) < e + 2
               /\ ParseLine(s) = [s EXCEPT !.m_checked_idx = ScanStop(s), !.line_status = "OPEN"]
            \/ e + 2 <= Len(a) /\ ParseLine(s) = EndLine(s, e)
<1> DEFINE e == IF k < n THEN 3 * k + 1 ELSE 3 * n
           N == m_read_idx(s)  c == s.m_checked_idx
           i == IF e < N THEN e ELSE N
<1>1. N \in Nat /\ N = Len(a) /\ c = 3 * k /\ c \in Nat /\ c <= N
  BY DEF OnLine, Parsing, m_read_idx
<1>2. e \in Nat /\ c <= e /\ (e = c \/ (e = c + 1 /\ k < n)) BY <1>1
<1>3. \A j \in c..(N - 1) : At(s, j) = r[j + 1]
  <2>1. ASSUME NEW j \in c..(N - 1) PROVE At(s, j) = r[j + 1]
    <3>1. j + 1 \in 1..Len(a) /\ j + 1 > 3 * k BY <1>1
    <3>2. s.m_read_buf[j + 1] = a[j + 1] /\ a[j + 1] = r[j + 1]
      <4> DEFINE m == j + 1
      <4>1. m \in 1..Len(a) /\ m > 3 * k BY <3>1
      <4> HIDE DEF m
      <4>2. s.m_read_buf[m] = a[m] /\ a[m] = r[m] BY <4>1 DEF OnLine, Begins
      <4> QED BY <4>2 DEF m
    <3> QED BY <3>2 DEF At
  <2> QED BY <2>1
<1>4. r[e + 1] = CR /\ r[e + 2] = LF /\ (k < n => r[c + 1] \notin {CR, LF})
  <2>1. CASE k < n
    <3>1. k \in 0..(n - 1) BY <2>1
    <3>2. r[3 * k + 1] \notin {CR, LF, NUL} /\ r[3 * k + 2] = CR /\ r[3 * k + 3] = LF
      BY <3>1 DEF HasLines
    <3>3. e + 1 = 3 * k + 2 /\ e + 2 = 3 * k + 3 BY <2>1
    <3> QED BY <1>1, <3>2, <3>3
  <2>2. CASE ~(k < n)
    <3>1. e = 3 * n BY <2>2
    <3> QED BY <2>2, <3>1 DEF HasLines
  <2> QED BY <2>1, <2>2
<1> HIDE DEF e, N, c
<1>5. Stops(s, i)
  <2>1. i \in c..N BY <1>1, <1>2
  <2>2. ASSUME NEW j \in c..(i - 1) PROVE At(s, j) \notin {CR, LF}
    <3>1. j = c /\ k < n /\ j \in c..(N - 1) BY <1>1, <1>2
    <3> QED BY <1>3, <1>4, <3>1
  <2>3. ASSUME i < N PROVE At(s, i) \in {CR, LF}
    <3>1. i = e /\ e \in c..(N - 1) BY <1>1, <1>2, <2>3
    <3> QED BY <1>3, <1>4, <3>1
  <2> QED BY <2>1, <2>2, <2>3 DEF Stops, N, c
<1>6. ScanStop(s) = i BY <1>5, ScanStops, StopsUnique
<1>7. i < N => i = e /\ At(s, i) = CR
  <2> SUFFICES ASSUME i < N PROVE i = e /\ At(s, i) = CR OBVIOUS
  <2>1. i = e /\ e \in c..(N - 1) BY <1>1, <1>2
  <2> QED BY <1>3, <1>4, <2>1
<1>8. i + 1 < N => At(s, i + 1) = LF
  <2> SUFFICES ASSUME i + 1 < N PROVE At(s, i + 1) = LF OBVIOUS
  <2> DEFINE j == e + 1
  <2>1. i = e /\ j \in c..(N - 1) /\ j + 1 = e + 2 BY <1>1, <1>2
  <2>2. j = i + 1 BY <2>1
  <2> HIDE DEF j
  <2>3. At(s, j) = r[j + 1] BY <1>3, <2>1
  <2> QED BY <1>4, <2>1, <2>2, <2>3
<1>9. i \in Nat /\ (i < N \/ i = N) /\ (i = N => N <= e) BY <1>1, <1>2
<1> HIDE DEF i
<1>10. \/ /\ i = N \/ (At(s, i) = CR /\ i + 1 = N)
          /\ ParseLine(s) = [s EXCEPT !.m_checked_idx = ScanStop(s), !.line_status = "OPEN"]
       \/ i < N /\ i + 1 < N /\ ParseLine(s) = EndLine(s, i)
  <2>1. ~(i < N /\ At(s, i) = LF) BY <1>7, Texts
  <2> QED BY <1>6, <1>8, <2>1, LineCases DEF N
<1>11. CASE i < N /\ i + 1 < N /\ ParseLine(s) = EndLine(s, i)
  <2>1. i = e /\ e + 2 <= N BY <1>1, <1>2, <1>7, <1>11
  <2> QED BY <1>1, <1>11, <2>1 DEF e
<1>12. CASE /\ i = N \/ (At(s, i) = CR /\ i + 1 = N)
            /\ ParseLine(s) = [s EXCEPT !.m_checked_idx = ScanStop(s), !.line_status = "OPEN"]
  <2>1. N < e + 2 BY <1>1, <1>2, <1>7, <1>9, <1>12
  <2> QED BY <1>1, <1>12, <2>1 DEF e
<1> QED BY <1>10, <1>11, <1>12

\* Which symbol of a line a symbol is.
LEMMA LineOf ==
  ASSUME NEW n \in Nat, NEW i \in 1..(3 * n)
  PROVE  \E j \in 0..(n - 1) : i = 3 * j + 1 \/ i = 3 * j + 2 \/ i = 3 * j + 3
<1> DEFINE j == (i - 1) \div 3
<1>1. j \in Int /\ 3 * j <= i - 1 /\ i - 1 <= 3 * j + 2 OBVIOUS
<1> HIDE DEF j
<1>2. j \in 0..(n - 1) BY <1>1
<1>3. i = 3 * j + 1 \/ i = 3 * j + 2 \/ i = 3 * j + 3 BY <1>1
<1> QED BY <1>2, <1>3

\* What the lines tell in the end.
LEMMA HeadTold ==
  ASSUME NEW S, NEW r \in Seq(S), NEW n \in Nat \ {0}, HasLines(r, n),
         NEW s, NEW k \in 1..n, HeadRead(s, k, r)
  PROVE  /\ s.m_linger => Linger(r)
         /\ k = n => s.m_linger = Linger(r) /\ s.m_content_length = BodyLen(r)
<1>1. Len(r) = 3 * n + 2 + BodyLen(r) /\ BodyLen(r) \in Nat BY BodyLenType DEF HasLines
<1>2. \A i \in 1..Len(r) : r[i] \in Range(r) BY DEF Range
<1>3. ASSUME s.m_linger PROVE Linger(r)
  <2>1. PICK j \in 1..(k - 1) : r[3 * j + 1] = KeepAlive BY <1>3 DEF HeadRead
  <2>2. 3 * j + 1 \in 1..Len(r) BY <1>1
  <2>3. KeepAlive \in Range(r) BY <1>2, <2>1, <2>2
  <2> QED BY <2>3 DEF Linger, HeadRead
<1>4. ASSUME k = n, Linger(r) PROVE s.m_linger
  <2>1. KeepAlive \in Range(r) BY <1>4 DEF Linger
  <2>2. PICK i \in 1..Len(r) : r[i] = KeepAlive BY <2>1 DEF Range
  <2>3. CASE i <= 3 * n
    <3>1. i \in 1..(3 * n) BY <2>3
    <3>2. PICK j \in 0..(n - 1) : i = 3 * j + 1 \/ i = 3 * j + 2 \/ i = 3 * j + 3
      BY <3>1, LineOf
    <3>3. r[3 * j + 2] = CR /\ r[3 * j + 3] = LF BY DEF HasLines
    <3>4. KeepAlive # CR /\ KeepAlive # LF BY DEF KeepAlive, CR, LF
    <3>5. i = 3 * j + 1 BY <2>2, <3>2, <3>3, <3>4
    <3>6. j # 0
      <4>1. r[1] # KeepAlive BY DEF HasLines
      <4> QED BY <2>2, <3>5, <4>1
    <3>7. j \in 1..(k - 1) /\ r[3 * j + 1] = KeepAlive BY <1>4, <2>2, <3>5, <3>6
    <3> QED BY <3>7 DEF HeadRead
  <2>4. CASE i > 3 * n
    <3>1. i = 3 * n + 1 \/ i = 3 * n + 2 \/ i \in (3 * n + 3)..Len(r) BY <1>1, <2>4
    <3>2. r[i] = CR \/ r[i] = LF \/ r[i] = <<"b">> BY <3>1 DEF HasLines
    <3> QED BY <2>2, <3>2 DEF KeepAlive, CR, LF
  <2> QED BY <2>3, <2>4
<1>5. ASSUME k = n PROVE s.m_content_length = BodyLen(r)
  <2>1. CASE \E j \in 1..(k - 1) : r[3 * j + 1][1] = "Content-length" BY <2>1 DEF HeadRead
  <2>2. CASE ~\E j \in 1..(k - 1) : r[3 * j + 1][1] = "Content-length"
    <3>1. s.m_content_length = 0 BY <2>2 DEF HeadRead
    <3>2. ~(BodyLen(r) > 0) BY <1>5, <2>2 DEF HasLines
    <3> QED BY <1>1, <3>1, <3>2
  <2> QED BY <2>1, <2>2
<1>6. s.m_linger \in BOOLEAN /\ Linger(r) \in BOOLEAN BY DEF HeadRead, Linger
<1> QED BY <1>3, <1>4, <1>5, <1>6

\* What the loop has when parse_line has ended line k + 1.
LEMMA LineEnded ==
  ASSUME NEW r, NEW n \in Nat, HasLines(r, n), NEW a \in Seq(Symbols), Begins(a, r),
         NEW s, Parsing(s), NEW k \in 0..n, OnLine(s, k, a, r),
         NEW e, e = IF k < n THEN 3 * k + 1 ELSE 3 * n, e + 2 <= Len(a),
         ParseLine(s) = EndLine(s, e)
  PROVE  LET q == ParseLine(s)
         IN /\ Parsing(q) /\ q.line_status = "OK" /\ q.m_checked_idx = e + 2
            /\ Len(q.m_read_buf) = Len(a)
            /\ \A i \in 1..Len(a) : i > e + 2 => q.m_read_buf[i] = a[i]
            /\ At(q, q.m_start_line) = IF k < n THEN r[3 * k + 1] ELSE NUL
            /\ \A x \in Fields \ {"m_read_buf", "m_checked_idx", "line_status"} : q[x] = s[x]
<1> DEFINE q == ParseLine(s)  N == m_read_idx(s)
<1>1. N = Len(a) /\ N \in Nat /\ s.m_start_line = 3 * k /\ s.m_checked_idx = 3 * k
  BY DEF OnLine, Parsing, m_read_idx
<1>2. e \in Nat /\ e + 1 < N /\ s.m_checked_idx <= e + 1 BY <1>1
<1>3. /\ Parsing(q) /\ m_read_idx(q) = N
      /\ q.m_checked_idx = e + 2 /\ q.line_status = "OK"
      /\ \A x \in Fields \ {"m_read_buf", "m_checked_idx", "line_status"} : q[x] = s[x]
      /\ \A j \in 1..N : q.m_read_buf[j] = IF j \in {e + 1, e + 2} THEN NUL ELSE s.m_read_buf[j]
  <2> HIDE DEF q
  <2>1. q = EndLine(s, e) BY DEF q
  <2> QED BY <1>2, <2>1, EndLineFields DEF N
<1>4. Len(q.m_read_buf) = Len(a) BY <1>1, <1>3 DEF m_read_idx
<1> HIDE DEF q, N
<1>5. ASSUME NEW i \in 1..Len(a), i > e + 2 PROVE q.m_read_buf[i] = a[i]
  <2>1. i \notin {e + 1, e + 2} /\ i > 3 * k /\ i \in 1..N BY <1>1, <1>2, <1>5
  <2>2. s.m_read_buf[i] = a[i] BY <2>1 DEF OnLine
  <2> QED BY <1>3, <2>1, <2>2
<1>6. At(q, q.m_start_line) = IF k < n THEN r[3 * k + 1] ELSE NUL
  <2> DEFINE m == 3 * k + 1
  <2>1. m \in 1..N /\ m > 3 * k BY <1>1, <1>2
  <2>2. q.m_start_line = 3 * k BY <1>1, <1>3 DEF Fields
  <2>3. At(q, q.m_start_line) = q.m_read_buf[m] BY <2>2 DEF At
  <2>4. k < n => m \notin {e + 1, e + 2} BY <1>1
  <2>5. ~(k < n) => m = e + 1 BY <1>1
  <2> HIDE DEF m
  <2>6. s.m_read_buf[m] = a[m] /\ a[m] = r[m] BY <1>1, <2>1 DEF OnLine, Begins
  <2> QED BY <1>3, <2>1, <2>3, <2>4, <2>5, <2>6 DEF m
<1> QED BY <1>3, <1>4, <1>5, <1>6 DEF q

\* The first line.
LEMMA RequestLineRead ==
  ASSUME NEW S, NEW r \in Seq(S), NEW s, s = [x \in Fields |-> s[x]],
         s.m_check_state = "REQUESTLINE", s.m_method = "GET", s.m_linger = FALSE,
         s.m_content_length = 0, s.ret = "NO_REQUEST"
  PROVE  LET t == ParseRequestLine(s, r[1])
         IN \/ /\ HeadRead(t, 1, r) /\ t.m_check_state = "HEADER" /\ t.ret = "NO_REQUEST"
               /\ t.line_status = s.line_status
            \/ Refused(t, r)
<1> DEFINE t == ParseRequestLine(s, r[1])
<1>1. CASE r[1][1] \notin {"GET", "POST"}
  <2>1. t = [s EXCEPT !.m_url = "garbled", !.ret = "BAD_REQUEST"]
    BY <1>1 DEF ParseRequestLine
  <2> HIDE DEF t
  <2>2. t.m_url = "garbled" /\ t.ret = "BAD_REQUEST" /\ t.m_linger = FALSE BY <2>1 DEF Fields
  <2>3. Page(r) = "garbled" /\ ~Accepted(r) BY <1>1 DEF Page, Accepted
  <2> QED BY <2>2, <2>3 DEF Refused, t
<1>2. CASE r[1][1] \in {"GET", "POST"} /\ (r[1][3] # "HTTP/1.1" \/ r[1][2] \in Relative)
  <2>1. t = [s EXCEPT !.m_method = r[1][1], !.m_url = r[1][2], !.ret = "BAD_REQUEST"]
    BY <1>2 DEF ParseRequestLine
  <2> HIDE DEF t
  <2>2. /\ t.m_url = r[1][2] /\ t.m_method = r[1][1] /\ t.ret = "BAD_REQUEST"
        /\ t.m_linger = FALSE
    BY <2>1 DEF Fields
  <2>3. ~Accepted(r) BY <1>2 DEF Accepted
  <2>4. Page(r) = r[1][2] BY <1>2, <2>3 DEF Page
  <2> QED BY <2>2, <2>3, <2>4 DEF Refused, t
<1>3. CASE Accepted(r)
  <2>0. /\ r[1][1] \in {"GET", "POST"} /\ r[1][3] = "HTTP/1.1" /\ r[1][2] \notin Relative
    BY <1>3 DEF Accepted
  <2>1. t = [s EXCEPT !.m_method = r[1][1], !.m_url = Rewritten(r[1][2]),
                      !.m_check_state = "HEADER"]
    BY <2>0 DEF ParseRequestLine
  <2> HIDE DEF t
  <2>2. /\ t.m_method = r[1][1] /\ t.m_url = Rewritten(r[1][2]) /\ t.m_check_state = "HEADER"
        /\ t.m_linger = FALSE /\ t.m_content_length = 0 /\ t.ret = "NO_REQUEST"
        /\ t.line_status = s.line_status
    BY <2>1 DEF Fields
  <2>3. Accepted(r) BY <1>3
  <2>4. Page(r) = Rewritten(r[1][2]) BY <2>0, <2>3 DEF Page
  <2>5. \A j \in 1..(1 - 1) : FALSE OBVIOUS
  <2>6. HeadRead(t, 1, r) BY <2>2, <2>3, <2>4, <2>5 DEF HeadRead
  <2> QED BY <2>2, <2>6 DEF t
<1> QED BY <1>1, <1>2, <1>3 DEF Accepted

\* A header.
LEMMA HeaderRead ==
  ASSUME NEW r, NEW n \in Nat, HasLines(r, n), NEW s, s = [x \in Fields |-> s[x]],
         NEW k \in 1..(n - 1), HeadRead(s, k, r), s.m_check_state = "HEADER"
  PROVE  LET t == ParseHeaders(s, r[3 * k + 1])
         IN /\ HeadRead(t, k + 1, r) /\ t.m_check_state = "HEADER"
            /\ t.ret = s.ret /\ t.line_status = s.line_status
<1> DEFINE text == r[3 * k + 1]  t == ParseHeaders(s, text)
<1>1. text # NUL
  <2>1. k \in 0..(n - 1) BY DEF HasLines
  <2> QED BY <2>1 DEF HasLines
<1>2. text[1] = "Content-length" => text[2] = BodyLen(r) BY DEF HasLines
<1>3. \A j : j \in 1..((k + 1) - 1) <=> j \in 1..(k - 1) \/ j = k OBVIOUS
<1>4. /\ (\E j \in 1..((k + 1) - 1) : r[3 * j + 1] = KeepAlive) <=>
           (\E j \in 1..(k - 1) : r[3 * j + 1] = KeepAlive) \/ text = KeepAlive
      /\ (\E j \in 1..((k + 1) - 1) : r[3 * j + 1][1] = "Content-length") <=>
           (\E j \in 1..(k - 1) : r[3 * j + 1][1] = "Content-length")
             \/ text[1] = "Content-length"
  BY <1>3
<1> HIDE DEF text, t
<1>5. CASE text = KeepAlive
  <2>1. t = [s EXCEPT !.m_linger = TRUE] /\ text[1] # "Content-length"
    BY <1>1, <1>5, Texts DEF ParseHeaders, t
  <2>2. /\ t.m_method = s.m_method /\ t.m_url = s.m_url /\ t.m_linger = TRUE
        /\ t.m_content_length = s.m_content_length /\ t.m_check_state = s.m_check_state
        /\ t.ret = s.ret /\ t.line_status = s.line_status
    BY <2>1 DEF Fields
  <2>3. HeadRead(t, k + 1, r) BY <1>4, <1>5, <2>1, <2>2 DEF HeadRead
  <2> QED BY <2>2, <2>3 DEF t, text
<1>6. CASE text # KeepAlive /\ text[1] = "Content-length"
  <2>1. t = [s EXCEPT !.m_content_length = text[2]]
    BY <1>1, <1>6 DEF ParseHeaders, t
  <2>2. /\ t.m_method = s.m_method /\ t.m_url = s.m_url /\ t.m_linger = s.m_linger
        /\ t.m_content_length = BodyLen(r) /\ t.m_check_state = s.m_check_state
        /\ t.ret = s.ret /\ t.line_status = s.line_status
    BY <1>2, <1>6, <2>1 DEF Fields
  <2>3. HeadRead(t, k + 1, r) BY <1>4, <1>6, <2>2 DEF HeadRead
  <2> QED BY <2>2, <2>3 DEF t, text
<1>7. CASE text # KeepAlive /\ text[1] # "Content-length"
  <2>1. t = s BY <1>1, <1>7 DEF ParseHeaders, t
  <2>2. HeadRead(t, k + 1, r) BY <1>4, <1>7, <2>1 DEF HeadRead
  <2> QED BY <2>1, <2>2 DEF t, text
<1> QED BY <1>5, <1>6, <1>7

\* The empty line.
LEMMA EmptyLineRead ==
  ASSUME NEW S, NEW r \in Seq(S), NEW n \in Nat \ {0}, HasLines(r, n),
         NEW s, s = [x \in Fields |-> s[x]], HeadRead(s, n, r), s.ret = "NO_REQUEST",
         s.line_status = "OK"
  PROVE  LET t == ParseHeaders(s, NUL)
         IN \/ /\ t.m_check_state = "CONTENT" /\ t.line_status = "OK" /\ t.ret = "NO_REQUEST"
               /\ HeadRead(t, n, r) /\ t.m_content_length = BodyLen(r)
            \/ /\ BodyLen(r) = 0 /\ t.ret = "GET_REQUEST" /\ Accepted(r)
               /\ t.m_method = r[1][1] /\ t.m_url = Page(r) /\ t.m_linger = Linger(r)
<1> DEFINE t == ParseHeaders(s, NUL)
<1>1. n \in 1..n OBVIOUS
<1>2. s.m_linger = Linger(r) /\ s.m_content_length = BodyLen(r) BY <1>1, HeadTold
<1>3. CASE s.m_content_length # 0
  <2>1. t = [s EXCEPT !.m_check_state = "CONTENT"] BY <1>3, Texts DEF ParseHeaders
  <2> HIDE DEF t
  <2>2. /\ t.m_method = s.m_method /\ t.m_url = s.m_url /\ t.m_linger = s.m_linger
        /\ t.m_content_length = s.m_content_length /\ t.m_check_state = "CONTENT"
        /\ t.ret = s.ret /\ t.line_status = s.line_status
    BY <2>1 DEF Fields
  <2>3. HeadRead(t, n, r) BY <2>2 DEF HeadRead
  <2> QED BY <1>2, <2>2, <2>3 DEF t
<1>4. CASE s.m_content_length = 0
  <2>1. t = [s EXCEPT !.ret = "GET_REQUEST"] BY <1>4, Texts DEF ParseHeaders
  <2> HIDE DEF t
  <2>2. /\ t.m_method = s.m_method /\ t.m_url = s.m_url /\ t.m_linger = s.m_linger
        /\ t.ret = "GET_REQUEST"
    BY <2>1 DEF Fields
  <2> QED BY <1>2, <1>4, <2>2 DEF t, HeadRead
<1> QED BY <1>3, <1>4

\* A round on a request of lines.
LEMMA RoundOnLine ==
  ASSUME NEW r \in Seq(Symbols), NEW n \in Nat \ {0}, HasLines(r, n),
         NEW a \in Seq(Symbols), Begins(a, r),
         NEW s, Parsing(s), NEW k \in 0..n, OnLine(s, k, a, r)
  PROVE  LET t == Round(s)
         IN \/ Pending(t, a, r)
            \/ k < n /\ OnLine(t, k + 1, a, r)
            \/ OnBody(t, n, r)
            \/ Complete(t, a, r)
            \/ Refused(t, r)
<1> DEFINE t == Round(s)  q == ParseLine(s)  e == IF k < n THEN 3 * k + 1 ELSE 3 * n
           text == At(q, q.m_start_line)
<1>0. Len(r) = 3 * n + 2 + BodyLen(r) /\ BodyLen(r) \in Nat /\ Len(a) \in Nat
      /\ Len(a) <= Len(r)
  BY BodyLenType DEF HasLines, Begins
<1>1. Looked(s) = q
  <2>1. s.m_check_state # "CONTENT"
    <3>1. k = 0 \/ k > 0 OBVIOUS
    <3> QED BY <3>1 DEF OnLine
  <2> QED BY <2>1 DEF Looked
<1>2. s.m_linger \in BOOLEAN /\ (s.m_linger => Linger(r)) /\ s.ret = "NO_REQUEST"
  <2>1. CASE k = 0 BY <2>1 DEF OnLine
  <2>2. CASE k # 0
    <3>1. k \in 1..n /\ HeadRead(s, k, r) BY <2>2 DEF OnLine
    <3>2. s.m_linger => Linger(r) BY <3>1, HeadTold
    <3> QED BY <3>1, <3>2 DEF OnLine, HeadRead
  <2> QED BY <2>1, <2>2
<1>3. CASE /\ Len(a) < e + 2
           /\ q = [s EXCEPT !.m_checked_idx = ScanStop(s), !.line_status = "OPEN"]
  <2>1. q.line_status = "OPEN" /\ q.m_linger = s.m_linger /\ q.ret = s.ret
    BY <1>3 DEF Parsing, Fields
  <2>2. t = q BY <1>1, <2>1, RoundIs
  <2>3. Len(a) < Len(r) BY <1>0, <1>3
  <2> QED BY <1>2, <2>1, <2>2, <2>3 DEF Pending
<1>4. CASE e + 2 <= Len(a) /\ q = EndLine(s, e)
  <2>1. /\ Parsing(q) /\ q.line_status = "OK" /\ q.m_checked_idx = e + 2
        /\ Len(q.m_read_buf) = Len(a)
        /\ \A i \in 1..Len(a) : i > e + 2 => q.m_read_buf[i] = a[i]
        /\ text = IF k < n THEN r[3 * k + 1] ELSE NUL
        /\ \A x \in Fields \ {"m_read_buf", "m_checked_idx", "line_status"} : q[x] = s[x]
    <3> HIDE DEF q
    <3>1. e = IF k < n THEN 3 * k + 1 ELSE 3 * n OBVIOUS
    <3> HIDE DEF e
    <3> QED BY <1>4, <3>1, LineEnded DEF q
  <2> DEFINE l == Line(q)
  <2>2. t = Digest(q, text) BY <1>1, <2>1, RoundIs
  <2> HIDE DEF q, text, t
  <2>3. /\ Parsing(l) /\ l.m_start_line = e + 2 /\ l.m_checked_idx = e + 2
        /\ l.m_read_buf = q.m_read_buf /\ l.line_status = "OK"
        /\ l.m_check_state = s.m_check_state /\ l.m_method = s.m_method /\ l.m_url = s.m_url
        /\ l.m_linger = s.m_linger /\ l.m_content_length = s.m_content_length
        /\ l.ret = s.ret /\ l = [x \in Fields |-> l[x]]
    <3>1. /\ Parsing(l) /\ l.m_start_line = q.m_checked_idx
          /\ \A x \in Fields \ {"m_start_line"} : l[x] = q[x]
      BY <2>1, LineFields
    <3> HIDE DEF l
    <3> QED BY <2>1, <3>1 DEF Fields, Parsing
  <2>4. /\ t.m_read_buf = q.m_read_buf
        /\ t.m_start_line = e + 2 /\ t.m_checked_idx = e + 2
    BY <2>1, <2>2, DigestFields
  <2>5. q.m_check_state = s.m_check_state BY <2>1 DEF Fields
  <2> HIDE DEF l
  <2>6. CASE k = 0
    <3>1. s.m_check_state = "REQUESTLINE" /\ s.m_method = "GET" /\ s.m_linger = FALSE
          /\ s.m_content_length = 0
      BY <2>6 DEF OnLine
    <3>2. t = ParseRequestLine(l, r[1])
      <4>1. text = r[1] BY <2>1, <2>6
      <4> QED BY <2>2, <2>5, <3>1, <4>1 DEF Digest, l
    <3>3. \/ /\ HeadRead(t, 1, r) /\ t.m_check_state = "HEADER" /\ t.ret = "NO_REQUEST"
             /\ t.line_status = l.line_status
          \/ Refused(t, r)
      BY <1>2, <2>3, <3>1, <3>2, RequestLineRead
    <3>4. ASSUME HeadRead(t, 1, r), t.m_check_state = "HEADER", t.ret = "NO_REQUEST",
                 t.line_status = l.line_status
          PROVE  OnLine(t, 1, a, r)
      <4>1. e + 2 = 3 * 1 BY <2>6
      <4> HIDE DEF e
      <4> QED BY <2>1, <2>3, <2>4, <3>4, <4>1 DEF OnLine
    <3>5. 0 + 1 = 1 /\ 0 < n OBVIOUS
    <3> QED BY <2>6, <3>3, <3>4, <3>5 DEF t
  <2>7. CASE k > 0 /\ k < n
    <3>1. s.m_check_state = "HEADER" /\ HeadRead(s, k, r) BY <2>7 DEF OnLine
    <3>2. t = ParseHeaders(l, r[3 * k + 1])
      <4>1. text = r[3 * k + 1] BY <2>1, <2>7
      <4> QED BY <2>2, <2>5, <3>1, <4>1 DEF Digest, l
    <3>3. HeadRead(l, k, r) BY <2>3, <3>1 DEF HeadRead
    <3>4. k \in 1..(n - 1) BY <2>7
    <3>5. /\ HeadRead(t, k + 1, r) /\ t.m_check_state = "HEADER"
          /\ t.ret = l.ret /\ t.line_status = l.line_status
      BY <2>3, <3>1, <3>2, <3>3, <3>4, HeaderRead
    <3> DEFINE m == k + 1
    <3>6. e + 2 = 3 * m /\ m > 0 BY <2>7
    <3>7. HeadRead(t, m, r) BY <3>5
    <3> HIDE DEF e, m
    <3>8. OnLine(t, m, a, r) BY <1>2, <2>1, <2>3, <2>4, <3>5, <3>6, <3>7 DEF OnLine
    <3> QED BY <2>7, <3>8 DEF m, t
  <2>8. CASE k = n
    <3>1. s.m_check_state = "HEADER" /\ HeadRead(s, n, r) BY <2>8 DEF OnLine
    <3>2. t = ParseHeaders(l, NUL)
      <4>1. text = NUL BY <2>1, <2>8
      <4> QED BY <2>2, <2>5, <3>1, <4>1 DEF Digest, l
    <3>3. HeadRead(l, n, r) BY <2>3, <3>1 DEF HeadRead
    <3>4. \/ /\ t.m_check_state = "CONTENT" /\ t.line_status = "OK" /\ t.ret = "NO_REQUEST"
             /\ HeadRead(t, n, r) /\ t.m_content_length = BodyLen(r)
          \/ /\ BodyLen(r) = 0 /\ t.ret = "GET_REQUEST" /\ Accepted(r)
             /\ t.m_method = r[1][1] /\ t.m_url = Page(r) /\ t.m_linger = Linger(r)
      BY <1>2, <2>3, <3>2, <3>3, EmptyLineRead
    <3>5. e + 2 = 3 * n + 2 BY <2>8
    <3>6. BodyLen(r) = 0 => Len(a) = Len(r) BY <1>0, <1>4, <3>5
    <3> HIDE DEF e
    <3> QED BY <2>4, <3>4, <3>5, <3>6 DEF OnBody, Complete, t
  <2> QED BY <2>6, <2>7, <2>8
<1> HIDE DEF q, e
<1>5. \/ /\ Len(a) < e + 2
         /\ q = [s EXCEPT !.m_checked_idx = ScanStop(s), !.line_status = "OPEN"]
      \/ e + 2 <= Len(a) /\ q = EndLine(s, e)
  BY LineOnTrack DEF q, e
<1> QED BY <1>3, <1>4, <1>5

\* A round in the body, when all of it is there or nothing.
LEMMA RoundOnBody ==
  ASSUME NEW r \in Seq(Symbols), NEW n \in Nat \ {0}, HasLines(r, n),
         NEW a \in Seq(Symbols), Len(a) = 3 * n + 2 \/ Len(a) = Len(r),
         NEW s, Parsing(s), m_read_idx(s) = Len(a), OnBody(s, n, r)
  PROVE  Pending(Round(s), a, r) \/ Complete(Round(s), a, r)
<1> DEFINE t == Round(s)  l == Line(s)
<1>1. Len(r) = 3 * n + 2 + BodyLen(r) /\ BodyLen(r) \in Nat /\ Len(a) \in Nat
  BY BodyLenType DEF HasLines
<1>2. /\ s.m_checked_idx = 3 * n + 2 /\ s.m_check_state = "CONTENT"
      /\ s.line_status = "OK" /\ s.ret = "NO_REQUEST"
      /\ HeadRead(s, n, r) /\ s.m_content_length = BodyLen(r)
  BY DEF OnBody
<1>3. Looked(s) = s BY <1>2 DEF Looked
<1>4. t = ParseContent(l) BY <1>2, <1>3, RoundIs DEF Digest
<1>5. /\ l = [x \in Fields |-> l[x]] /\ m_read_idx(l) = Len(a)
      /\ l.m_checked_idx = 3 * n + 2 /\ l.m_content_length = BodyLen(r)
      /\ l.m_method = s.m_method /\ l.m_url = s.m_url /\ l.m_linger = s.m_linger
      /\ l.ret = "NO_REQUEST"
  <2>1. /\ Parsing(l) /\ m_read_idx(l) = m_read_idx(s)
        /\ \A x \in Fields \ {"m_start_line"} : l[x] = s[x]
    BY LineFields
  <2> HIDE DEF l
  <2> QED BY <1>2, <2>1 DEF Fields, Parsing
<1>6. s.m_linger = Linger(r) /\ s.m_linger \in BOOLEAN
  <2>1. n \in 1..n OBVIOUS
  <2>2. s.m_linger = Linger(r) BY <1>2, <2>1, HeadTold
  <2> QED BY <1>2, <2>2 DEF HeadRead
<1> HIDE DEF t, l
<1>7. CASE Len(a) >= BodyLen(r) + (3 * n + 2)
  <2>1. t = [l EXCEPT !.ret = "GET_REQUEST"] BY <1>4, <1>5, <1>7 DEF ParseContent
  <2>2. /\ t.ret = "GET_REQUEST" /\ t.m_method = s.m_method /\ t.m_url = s.m_url
        /\ t.m_linger = s.m_linger
    BY <1>5, <2>1 DEF Fields
  <2>3. Len(a) = Len(r) BY <1>1, <1>7
  <2> QED BY <1>2, <1>6, <2>2, <2>3 DEF Complete, HeadRead, t
<1>8. CASE ~(Len(a) >= BodyLen(r) + (3 * n + 2))
  <2>1. t = [l EXCEPT !.line_status = "CONTENT_OPEN"] BY <1>4, <1>5, <1>8 DEF ParseContent
  <2>2. /\ t.ret = "NO_REQUEST" /\ t.m_linger = s.m_linger
        /\ t.line_status = "CONTENT_OPEN" /\ t.m_checked_idx = 3 * n + 2
    BY <1>5, <2>1 DEF Fields
  <2>3. Len(a) < Len(r) /\ Len(a) = 3 * n + 2 BY <1>1, <1>8
  <2> QED BY <1>6, <2>2, <2>3 DEF Pending, t
<1> QED BY <1>7, <1>8

\* The round after the body was found to be missing.
LEMMA RoundPending ==
  ASSUME NEW r, NEW a, NEW s, Parsing(s), m_read_idx(s) = Len(a), ~Over(s), Pending(s, a, r)
  PROVE  Pending(Round(s), a, r)
<1>1. s.line_status = "CONTENT_OPEN" /\ s.m_checked_idx = Len(a) BY DEF Pending, Over
<1>2. Looked(s) = ParseLine(s) BY <1>1 DEF Looked
<1>3. ScanStop(s) = m_read_idx(s)
  <2>1. m_read_idx(s) \in Nat BY DEF Parsing, m_read_idx
  <2>2. Stops(s, m_read_idx(s)) BY <1>1, <2>1 DEF Stops
  <2> QED BY <2>2, ScanStops, StopsUnique
<1> DEFINE t == [s EXCEPT !.m_checked_idx = ScanStop(s), !.line_status = "OPEN"]
<1>4. ParseLine(s) = t
  <2>1. m_read_idx(s) \in Nat BY DEF Parsing, m_read_idx
  <2>2. ParseLine(s) = t \/ ScanStop(s) < m_read_idx(s) BY LineCases
  <2> QED BY <1>3, <2>1, <2>2
<1>5. t.line_status = "OPEN" /\ t.ret = s.ret /\ t.m_linger = s.m_linger
  BY DEF Parsing, Fields
<1> HIDE DEF t
<1>6. Round(s) = t BY <1>2, <1>4, <1>5, RoundIs
<1> QED BY <1>5, <1>6 DEF Pending

\* What process_read makes of a request that keeps to HTTP, or of what has
\* arrived of it when its body is all there or has not begun.
LEMMA ReadRight ==
  ASSUME NEW r \in Seq(Symbols), NEW n \in Nat \ {0}, HasLines(r, n),
         NEW a \in Seq(Symbols), Begins(a, r),
         Len(a) <= 3 * n + 2 \/ Len(a) = Len(r)
  PROVE  LET q == ProcessRead(Fresh(a))
         IN Pending(q, a, r) \/ Complete(q, a, r) \/ Refused(q, r)
<1> DEFINE R == Rounds(Start(Fresh(a)))  N == Len(a)
           Tracked(s) == \/ \E j \in 0..n : OnLine(s, j, a, r)
                         \/ OnBody(s, n, r)
                         \/ Pending(s, a, r) \/ Complete(s, a, r) \/ Refused(s, r)
           P == {k \in Nat : Tracked(R[k])}
<1>1. /\ Parsing(Fresh(a)) /\ Fresh(a).m_read_buf = a /\ m_read_idx(Fresh(a)) = N
      /\ \A x \in Fields \ {"m_read_buf"} : Fresh(a)[x] = FreshReq[x]
  BY FreshFields
<1>2. /\ Parsing(Start(Fresh(a))) /\ m_read_idx(Start(Fresh(a))) = N
      /\ Start(Fresh(a)).line_status = "OK" /\ Start(Fresh(a)).ret = "NO_REQUEST"
      /\ \A x \in Fields \ {"line_status", "ret"} : Start(Fresh(a))[x] = Fresh(a)[x]
  BY <1>1, StartFields
<1>3. /\ R[0] = Start(Fresh(a)) /\ \A k \in Nat : R[k + 1] = Turn(R[k])
      /\ \A k \in Nat : Parsing(R[k]) /\ m_read_idx(R[k]) = N
  BY <1>2, RoundsAre, RoundsParse
<1>4. ProcessRead(Fresh(a)) = R[N + 2] /\ Over(R[N + 2]) /\ N + 2 \in Nat
  <2>1. ProcessRead(Fresh(a)) = Final(Start(Fresh(a))) BY <1>1, ProcessReadFinal
  <2>2. Over(Final(Start(Fresh(a)))) BY <1>2, FinalFields
  <2> QED BY <1>2, <2>1, <2>2 DEF Final
<1>5. Tracked(R[0])
  <2> DEFINE s == Start(Fresh(a))
  <2>1. /\ s.m_read_buf = a /\ s.m_start_line = 0 /\ s.m_checked_idx = 0
        /\ s.m_check_state = "REQUESTLINE" /\ s.m_content_length = 0
        /\ s.m_linger = FALSE /\ s.m_method = "GET"
        /\ s.line_status = "OK" /\ s.ret = "NO_REQUEST"
    BY <1>1, <1>2 DEF Fields, FreshReq
  <2> HIDE DEF s
  <2>2. OnLine(s, 0, a, r) BY <2>1 DEF OnLine
  <2>3. 0 \in 0..n OBVIOUS
  <2> QED BY <1>3, <2>2, <2>3 DEF s
<1> HIDE DEF R
<1>6. ASSUME NEW k \in Nat, k \in P PROVE k + 1 \in P
  <2> DEFINE s == R[k]
  <2>1. R[k + 1] = Turn(s) /\ Parsing(s) /\ m_read_idx(s) = N /\ Tracked(s) BY <1>3, <1>6
  <2> HIDE DEF s
  <2>2. CASE Over(s) BY <2>1, <2>2 DEF Turn
  <2>3. CASE ~Over(s)
    <3>1. R[k + 1] = Round(s) BY <2>1, <2>3 DEF Turn
    <3>2. CASE \E j \in 0..n : OnLine(s, j, a, r)
      <4>1. PICK j \in 0..n : OnLine(s, j, a, r) BY <3>2
      <4>2. \/ Pending(Round(s), a, r)
            \/ j < n /\ OnLine(Round(s), j + 1, a, r)
            \/ OnBody(Round(s), n, r)
            \/ Complete(Round(s), a, r)
            \/ Refused(Round(s), r)
        BY <2>1, <4>1, RoundOnLine
      <4>3. j < n => j + 1 \in 0..n OBVIOUS
      <4> QED BY <3>1, <4>2, <4>3
    <3>3. CASE OnBody(s, n, r)
      <4>1. Len(a) = 3 * n + 2 \/ Len(a) = Len(r)
        <5>1. s.m_checked_idx = 3 * n + 2 /\ s.m_checked_idx <= N
          BY <2>1, <3>3 DEF OnBody, Parsing
        <5> QED BY <5>1
      <4>2. Pending(Round(s), a, r) \/ Complete(Round(s), a, r)
        BY <2>1, <3>3, <4>1, RoundOnBody
      <4> QED BY <3>1, <4>2
    <3>4. CASE Pending(s, a, r)
      <4>1. Pending(Round(s), a, r) BY <2>1, <2>3, <3>4, RoundPending
      <4> QED BY <3>1, <4>1
    <3>5. CASE Complete(s, a, r) \/ Refused(s, r)
      BY <2>3, <3>5 DEF Complete, Refused, Over
    <3> QED BY <2>1, <3>2, <3>3, <3>4, <3>5
  <2> QED BY <2>2, <2>3
<1>7. N + 2 \in P
  <2>1. 0 \in P BY <1>5
  <2> HIDE DEF P, N
  <2>2. Nat \subseteq P BY <1>6, <2>1, Inductive
  <2> QED BY <1>4, <2>2
<1> DEFINE q == R[N + 2]
<1>8. Tracked(q) /\ Over(q) BY <1>4, <1>7
<1> HIDE DEF q
<1>9. ~OnBody(q, n, r) /\ \A j \in 0..n : ~OnLine(q, j, a, r)
  BY <1>8 DEF OnBody, OnLine, Over
<1>10. Pending(q, a, r) \/ Complete(q, a, r) \/ Refused(q, r) BY <1>8, <1>9
<1> QED BY <1>4, <1>10 DEF q

-----------------------------------------------------------------------------
(* Mappings.                                                               *)

ResFields ==
  {"m_write_buf", "bytes_to_send", "bytes_have_send", "m_linger", "iov0", "iov1",
   "m_iv_count", "m_file"}

\* While a response is under way at most one mapping is not accounted for: that
\* of the file it sends.
MapsInv ==
  /\ res = [x \in ResFields |-> res[x]] /\ files \in FileSets
  /\ res.bytes_to_send \in Nat /\ maps \in Nat /\ dropped \in Nat
  /\ maps >= Mapped(res)
  /\ pc \notin {"out", "write"} => maps <= dropped
  /\ pc \in {"out", "write"} =>
       \/ res.m_iv_count # 2 /\ maps <= dropped
       \/ /\ res.m_iv_count = 2 /\ maps <= dropped + 1
          /\ res.m_file # "none" /\ res.bytes_to_send > 0

LEMMA MappedType == ASSUME NEW r PROVE Mapped(r) \in {0, 1} /\ (Mapped(r) = 0 <=> r.m_file = "none")
  BY DEF Mapped

LEMMA SendFields ==
  ASSUME NEW r, r = [x \in ResFields |-> r[x]], NEW status, NEW text
  PROVE  LET s == Send(r, status, text)
         IN /\ s = [x \in ResFields |-> s[x]]
            /\ s.m_file = r.m_file /\ s.m_iv_count \in {0, 1}
            /\ s.bytes_to_send \in Nat
            /\ s.m_linger = r.m_linger /\ s.iov1 = r.iov1 /\ s.bytes_have_send = 0
            /\ \/ /\ text \in LongTexts /\ s.bytes_to_send = 0 /\ s.iov0 = r.iov0
                  /\ s.m_write_buf = SubSeq(Header(status, text, r.m_linger), 1, HeadLen - 1)
               \/ /\ text \notin LongTexts /\ s.bytes_to_send = HeadLen /\ s.m_iv_count = 1
                  /\ s.iov0 = [base |-> 0, len |-> HeadLen]
                  /\ s.m_write_buf = Header(status, text, r.m_linger)
<1> DEFINE s == Send(r, status, text)  whole == Header(status, text, r.m_linger)
<1>1. CASE text \in LongTexts
  <2>1. s = [r EXCEPT !.m_write_buf = SubSeq(whole, 1, HeadLen - 1), !.m_iv_count = 0,
                    !.bytes_to_send = 0, !.bytes_have_send = 0]
    BY <1>1 DEF Send
  <2> HIDE DEF s, whole
  <2>2. /\ s = [x \in ResFields |-> s[x]]
        /\ s.m_file = r.m_file /\ s.m_iv_count = 0 /\ s.bytes_to_send = 0
        /\ s.m_linger = r.m_linger /\ s.iov1 = r.iov1 /\ s.bytes_have_send = 0
        /\ s.iov0 = r.iov0 /\ s.m_write_buf = SubSeq(whole, 1, HeadLen - 1)
    BY <2>1 DEF ResFields
  <2> QED BY <1>1, <2>2 DEF s, whole
<1>2. CASE text \notin LongTexts
  <2>1. s = [r EXCEPT !.m_write_buf = whole,
                    !.bytes_to_send = HeadLen, !.bytes_have_send = 0,
                    !.iov0 = [base |-> 0, len |-> HeadLen], !.m_iv_count = 1]
    BY <1>2 DEF Send
  <2> HIDE DEF s, whole
  <2>2. /\ s = [x \in ResFields |-> s[x]]
        /\ s.m_file = r.m_file /\ s.m_iv_count = 1 /\ s.bytes_to_send = HeadLen
        /\ s.m_linger = r.m_linger /\ s.iov1 = r.iov1 /\ s.bytes_have_send = 0
        /\ s.iov0 = [base |-> 0, len |-> HeadLen] /\ s.m_write_buf = whole
    BY <2>1 DEF ResFields
  <2> QED BY <1>2, <2>2, WriterAssumption DEF s, whole
<1> QED BY <1>1, <1>2

LEMMA RenderFields ==
  ASSUME NEW r, r = [x \in ResFields |-> r[x]], NEW status, NEW file
  PROVE  LET s == Render(r, status, file)
         IN /\ s = [x \in ResFields |-> s[x]]
            /\ s.m_file = file /\ s.m_iv_count = 2 /\ s.m_linger = r.m_linger
            /\ s.bytes_to_send = HeadLen + FileLen /\ s.bytes_have_send = 0
            /\ s.iov0 = [base |-> 0, len |-> HeadLen]
            /\ s.iov1 = [base |-> 0, len |-> FileLen]
            /\ s.m_write_buf = Header(status, file, r.m_linger)
  BY DEF Render, ResFields

LEMMA RenderFailsFields ==
  ASSUME NEW r, r = [x \in ResFields |-> r[x]]
  PROVE  LET s == RenderFails(r)
         IN /\ s = [x \in ResFields |-> s[x]]
            /\ s.m_file = "none" /\ s.m_iv_count = 0 /\ s.m_linger = r.m_linger
            /\ s.bytes_to_send = 0 /\ s.bytes_have_send = 0 /\ s.m_write_buf = <<>>
            /\ s.iov0 = r.iov0 /\ s.iov1 = r.iov1
  BY DEF RenderFails, Unmap, ResFields

LEMMA AdvanceFields ==
  ASSUME NEW r, r = [x \in ResFields |-> r[x]], NEW n
  PROVE  LET s == Advance(r, n)
         IN /\ s = [x \in ResFields |-> s[x]]
            /\ s.m_file = r.m_file /\ s.m_iv_count = r.m_iv_count /\ s.m_linger = r.m_linger
            /\ s.m_write_buf = r.m_write_buf
            /\ s.bytes_to_send = r.bytes_to_send - n
            /\ s.bytes_have_send = r.bytes_have_send + n
<1> DEFINE have == r.bytes_have_send + n  left == r.bytes_to_send - n
           u == [r EXCEPT !.bytes_have_send = have, !.bytes_to_send = left]
           s == Advance(r, n)
<1>1. /\ u = [x \in ResFields |-> u[x]]
      /\ u.m_file = r.m_file /\ u.m_iv_count = r.m_iv_count /\ u.m_linger = r.m_linger
      /\ u.m_write_buf = r.m_write_buf
      /\ u.bytes_to_send = left /\ u.bytes_have_send = have
  BY DEF ResFields
<1>2. \E a, b : s = [u EXCEPT !.iov0 = a, !.iov1 = b]
  <2>1. CASE have >= r.iov0.len
    <3>1. s = [u EXCEPT !.iov0.len = 0,
                 !.iov1 = [base |-> have - m_write_idx(r), len |-> left]]
      BY <2>1 DEF Advance
    <3> QED BY <3>1
  <2>2. CASE ~(have >= r.iov0.len)
    <3>1. s = [u EXCEPT !.iov0 = [base |-> have, len |-> r.iov0.len - have]]
      BY <2>2 DEF Advance
    <3> HIDE DEF u, s
    <3>2. s = [u EXCEPT !.iov0 = [base |-> have, len |-> r.iov0.len - have], !.iov1 = u.iov1]
      BY <1>1, <3>1 DEF ResFields
    <3> QED BY <3>2
  <2> QED BY <2>1, <2>2
<1> HIDE DEF u, s
<1>3. PICK a, b : s = [u EXCEPT !.iov0 = a, !.iov1 = b] BY <1>2
<1>4. /\ s = [x \in ResFields |-> s[x]]
      /\ s.m_file = u.m_file /\ s.m_iv_count = u.m_iv_count /\ s.m_linger = u.m_linger
      /\ s.m_write_buf = u.m_write_buf
      /\ s.bytes_to_send = u.bytes_to_send /\ s.bytes_have_send = u.bytes_have_send
  BY <1>1, <1>3 DEF ResFields
<1> QED BY <1>1, <1>4 DEF s

LEMMA ResetFields ==
  ASSUME NEW r, r = [x \in ResFields |-> r[x]]
  PROVE  LET s == ResetRes(r)
         IN /\ s = [x \in ResFields |-> s[x]]
            /\ s.m_file = r.m_file /\ s.m_iv_count = r.m_iv_count /\ s.m_linger = FALSE
            /\ s.bytes_to_send = 0 /\ s.bytes_have_send = 0 /\ s.m_write_buf = <<>>
            /\ s.iov0 = r.iov0 /\ s.iov1 = r.iov1
  BY DEF ResetRes, ResFields

LEMMA UnmapFields ==
  ASSUME NEW r, r = [x \in ResFields |-> r[x]]
  PROVE  LET s == Unmap(r)
         IN /\ s = [x \in ResFields |-> s[x]] /\ s.m_file = "none"
            /\ \A x \in ResFields \ {"m_file"} : s[x] = r[x]
  BY DEF Unmap, ResFields

LEMMA InitMaps == Init => MapsInv
  BY DEF Init, FirstRes, MapsInv, ResFields, Mapped

\* Steps that change neither the response nor its file.
LEMMA SameMaps ==
  ASSUME MapsInv, UNCHANGED <<res, maps, files, dropped>>,
         pc' \in {"out", "write"} <=> pc \in {"out", "write"}
  PROVE  MapsInv'
<1>1. Mapped(res)' = Mapped(res) BY DEF Mapped
<1> QED BY <1>1 DEF MapsInv

\* Steps after which no response is under way.
LEMMA IdleMaps ==
  ASSUME MapsInv, files' = files, pc' \notin {"out", "write"},
         res' = [x \in ResFields |-> res'[x]], res'.bytes_to_send \in Nat,
         maps' \in Nat, dropped' \in Nat, maps' >= Mapped(res'), maps' <= dropped'
  PROVE  MapsInv'
<1>1. Mapped(res)' = Mapped(res') BY DEF Mapped
<1> QED BY <1>1 DEF MapsInv

LEMMA HandleRequestMaps ==
  ASSUME MapsInv, NEW q, NEW r, r = [x \in ResFields |-> r[x]], r.m_file = res.m_file,
         HandleRequest(q, r), pc = "read", pc' = "out", UNCHANGED <<files, dropped>>
  PROVE  MapsInv'
<1>1. /\ maps \in Nat /\ dropped \in Nat /\ maps >= Mapped(res) /\ maps <= dropped
      /\ files \in FileSets
  BY DEF MapsInv
<1>2. Mapped(r) = Mapped(res) /\ Mapped(res) \in {0, 1} BY DEF Mapped
<1>3. Mapped(res)' = Mapped(res') BY DEF Mapped
<1>4. ASSUME NEW status, NEW text, NEW s, s = [x \in ResFields |-> s[x]],
             maps' \in Nat, maps' >= Mapped(s), maps' <= dropped, res' = Send(s, status, text)
      PROVE  MapsInv'
  <2>1. /\ res' = [x \in ResFields |-> res'[x]] /\ res'.m_file = s.m_file
        /\ res'.m_iv_count \in {0, 1} /\ res'.bytes_to_send \in Nat
    BY <1>4, SendFields
  <2>2. Mapped(res') = Mapped(s) BY <2>1 DEF Mapped
  <2> QED BY <1>1, <1>3, <1>4, <2>1, <2>2 DEF MapsInv
<1>5. ASSUME NEW status, NEW file, RenderFile(r, status, file)
      PROVE  MapsInv'
  <2>1. CASE file \in files
    <3>1. res' = Render(r, status, file) /\ maps' = maps + 1 BY <1>5, <2>1 DEF RenderFile
    <3>2. file # "none" BY <1>1, <2>1, ConnAssumption
    <3>3. /\ res' = [x \in ResFields |-> res'[x]] /\ res'.m_file = file
          /\ res'.m_iv_count = 2 /\ res'.bytes_to_send = HeadLen + FileLen
      BY <3>1, RenderFields
    <3>4. Mapped(res') = 1 BY <3>2, <3>3 DEF Mapped
    <3>5. HeadLen + FileLen \in Nat /\ HeadLen + FileLen > 0 BY WriterAssumption
    <3> QED BY <1>1, <1>3, <3>1, <3>2, <3>3, <3>4, <3>5 DEF MapsInv
  <2>2. CASE file \notin files
    <3>1. res' = RenderFails(r) /\ maps' = maps - Mapped(r) BY <1>5, <2>2 DEF RenderFile
    <3>2. /\ res' = [x \in ResFields |-> res'[x]] /\ res'.m_file = "none"
          /\ res'.m_iv_count = 0 /\ res'.bytes_to_send = 0
      BY <3>1, RenderFailsFields
    <3>3. Mapped(res') = 0 BY <3>2 DEF Mapped
    <3> QED BY <1>1, <1>2, <1>3, <3>1, <3>2, <3>3 DEF MapsInv
  <2> QED BY <2>1, <2>2
<1> DEFINE handler == <<q.m_method, q.m_url>>
<1>6. CASE res' = Send(r, 200, Routes[handler][2]) /\ UNCHANGED maps
  BY <1>1, <1>2, <1>4, <1>6
<1>7. CASE res' = Send(RenderFails(r), 404, "404 not found") /\ maps' = maps - Mapped(r)
  <2> DEFINE s == RenderFails(r)
  <2>1. s = [x \in ResFields |-> s[x]] /\ s.m_file = "none" BY RenderFailsFields
  <2> HIDE DEF s
  <2>2. Mapped(s) = 0 BY <2>1 DEF Mapped
  <2>3. maps' \in Nat /\ maps' >= 0 /\ maps' <= dropped
    <3>1. maps' = maps - Mapped(res) BY <1>2, <1>7
    <3> DEFINE m == Mapped(res)
    <3>2. maps' = maps - m /\ m \in {0, 1} /\ maps >= m BY <1>1, <1>2, <3>1
    <3> HIDE DEF m
    <3> QED BY <1>1, <3>2
  <2> QED BY <1>4, <1>7, <2>1, <2>2, <2>3 DEF s
<1> QED BY <1>5, <1>6, <1>7 DEF HandleRequest

LEMMA ProcessMaps ==
  ASSUME MapsInv, Process
  PROVE  MapsInv'
<1> DEFINE q == ProcessRead(req)
           r == [res EXCEPT !.m_linger = res.m_linger \/ q.m_linger]
<1>1. /\ pc = "read" /\ UNCHANGED <<files, dropped>>
      /\ \/ pc' = "in" /\ res' = r /\ UNCHANGED maps
         \/ pc' = "out" /\ HandleRequest(q, r)
  BY DEF Process
<1>2. /\ r = [x \in ResFields |-> r[x]] /\ r.m_file = res.m_file
      /\ r.bytes_to_send = res.bytes_to_send
  BY DEF MapsInv, ResFields
<1> HIDE DEF q, r
<1>3. CASE pc' = "in" /\ res' = r /\ UNCHANGED maps
  <2>1. Mapped(res') = Mapped(res) BY <1>2, <1>3 DEF Mapped
  <2>2. maps \in Nat /\ dropped \in Nat /\ maps <= dropped /\ maps >= Mapped(res)
        /\ res.bytes_to_send \in Nat
    BY <1>1 DEF MapsInv
  <2> QED BY <1>1, <1>2, <1>3, <2>1, <2>2, IdleMaps
<1>4. CASE pc' = "out" /\ HandleRequest(q, r)
  BY <1>1, <1>2, <1>4, HandleRequestMaps
<1> QED BY <1>1, <1>3, <1>4

LEMMA WriteSomeMaps ==
  ASSUME MapsInv, WriteSome
  PROVE  MapsInv'
<1>1. PICK n \in 1..(res.bytes_to_send - 1) : res' = Advance(res, n)
  BY DEF WriteSome
<1>2. pc \in {"out", "write"} /\ pc' = "write" /\ UNCHANGED <<maps, files, dropped>>
  BY DEF WriteSome
<1>3. res = [x \in ResFields |-> res[x]] /\ res.bytes_to_send \in Nat BY DEF MapsInv
<1>4. /\ res' = [x \in ResFields |-> res'[x]]
      /\ res'.m_file = res.m_file /\ res'.m_iv_count = res.m_iv_count
      /\ res'.bytes_to_send = res.bytes_to_send - n
  BY <1>1, <1>3, AdvanceFields
<1>5. res'.bytes_to_send \in Nat /\ res'.bytes_to_send > 0 BY <1>3, <1>4
<1>6. Mapped(res)' = Mapped(res) BY <1>4 DEF Mapped
<1> QED BY <1>2, <1>4, <1>5, <1>6 DEF MapsInv

LEMMA WriteLastMaps ==
  ASSUME MapsInv, WriteLast
  PROVE  MapsInv'
<1> DEFINE a == Advance(res, res.bytes_to_send)  done == Unmap(a)
<1>1. /\ pc \in {"out", "write"} /\ pc' \in {"in", "closed"} /\ UNCHANGED <<files, dropped>>
      /\ maps' = maps - Mapped(res)
      /\ res' = ResetRes(done) \/ res' = done
  BY DEF WriteLast
<1>2. res = [x \in ResFields |-> res[x]] /\ res.bytes_to_send \in Nat BY DEF MapsInv
<1>3. a = [x \in ResFields |-> a[x]] /\ a.bytes_to_send = res.bytes_to_send - res.bytes_to_send
  BY <1>2, AdvanceFields
<1> HIDE DEF a
<1>4. /\ done = [x \in ResFields |-> done[x]] /\ done.m_file = "none"
      /\ done.bytes_to_send = 0
  <2>1. /\ done = [x \in ResFields |-> done[x]] /\ done.m_file = "none"
        /\ \A x \in ResFields \ {"m_file"} : done[x] = a[x]
    BY <1>3, UnmapFields
  <2> HIDE DEF done
  <2>2. done.bytes_to_send = a.bytes_to_send BY <2>1 DEF ResFields
  <2> QED BY <1>2, <1>3, <2>1, <2>2
<1> HIDE DEF done
<1>5. /\ res' = [x \in ResFields |-> res'[x]] /\ res'.m_file = "none"
      /\ res'.bytes_to_send = 0
  BY <1>1, <1>4, ResetFields
<1>6. Mapped(res') = 0 BY <1>5 DEF Mapped
<1>7. Mapped(res) \in {0, 1} /\ (Mapped(res) = 0 <=> res.m_file = "none") BY MappedType
<1>8. maps' \in Nat /\ maps' <= dropped /\ dropped \in Nat BY <1>1, <1>7 DEF MapsInv
<1> QED BY <1>1, <1>5, <1>6, <1>8, IdleMaps

LEMMA NextMaps ==
  ASSUME MapsInv, [Next]_vars
  PROVE  MapsInv'
<1>0. /\ res = [x \in ResFields |-> res[x]] /\ res.bytes_to_send \in Nat
      /\ maps \in Nat /\ dropped \in Nat /\ maps >= Mapped(res)
      /\ Mapped(res) \in {0, 1} /\ (Mapped(res) = 0 <=> res.m_file = "none")
  BY MappedType DEF MapsInv
<1>1. CASE Connect
  <2>1. /\ pc = "closed" /\ pc' = "in" /\ res' = ResetRes(res)
        /\ UNCHANGED <<maps, files, dropped>>
    BY <1>1 DEF Connect, InitConn
  <2>2. /\ res' = [x \in ResFields |-> res'[x]] /\ res'.m_file = res.m_file
        /\ res'.bytes_to_send = 0
    BY <1>0, <2>1, ResetFields
  <2>3. Mapped(res') = Mapped(res) BY <2>2 DEF Mapped
  <2>4. maps <= dropped BY <2>1 DEF MapsInv
  <2> QED BY <1>0, <2>1, <2>2, <2>3, <2>4, IdleMaps
<1>2. CASE Ask BY <1>2, SameMaps DEF Ask
<1>3. CASE Receive BY <1>3, SameMaps DEF Receive
<1>4. CASE HangUp
  <2>1. /\ pc \in {"in", "out", "dropped"} /\ pc' = "closed" /\ UNCHANGED <<res, maps, files>>
        /\ dropped' = dropped + (IF pc = "out" THEN Mapped(res) ELSE 0)
    BY <1>4 DEF HangUp
  <2>2. maps <= dropped' /\ dropped' \in Nat BY <1>0, <2>1 DEF MapsInv
  <2>3. Mapped(res') = Mapped(res) BY <2>1
  <2> QED BY <1>0, <2>1, <2>2, <2>3, IdleMaps
<1>5. CASE WriteError
  <2>1. /\ pc \in {"out", "write"} /\ pc' = "closed" /\ res' = Unmap(res)
        /\ maps' = maps - Mapped(res) /\ UNCHANGED <<files, dropped>>
    BY <1>5 DEF WriteError
  <2>2. /\ res' = [x \in ResFields |-> res'[x]] /\ res'.m_file = "none"
        /\ res'.bytes_to_send = res.bytes_to_send
    BY <1>0, <2>1, UnmapFields DEF ResFields
  <2>3. Mapped(res') = 0 BY <2>2 DEF Mapped
  <2>4. maps' \in Nat /\ maps' <= dropped BY <1>0, <2>1 DEF MapsInv
  <2> QED BY <1>0, <2>1, <2>2, <2>3, <2>4, IdleMaps
<1>6. CASE ReadOnce BY <1>6, SameMaps DEF ReadOnce
<1>7. CASE ReadFull BY <1>7, SameMaps DEF ReadFull
<1>8. CASE Process BY <1>8, ProcessMaps
<1>9. CASE WriteNothing
  <2>1. /\ pc = "out" /\ pc' = "in" /\ res' = ResetRes(res) /\ res.bytes_to_send = 0
        /\ UNCHANGED <<maps, files, dropped>>
    BY <1>9 DEF WriteNothing, InitConn
  <2>2. /\ res' = [x \in ResFields |-> res'[x]] /\ res'.m_file = res.m_file
        /\ res'.bytes_to_send = 0
    BY <1>0, <2>1, ResetFields
  <2>3. Mapped(res') = Mapped(res) BY <2>2 DEF Mapped
  <2>4. maps <= dropped BY <2>1 DEF MapsInv
  <2> QED BY <1>0, <2>1, <2>2, <2>3, <2>4, IdleMaps
<1>10. CASE WriteSome BY <1>10, WriteSomeMaps
<1>11. CASE WriteLast BY <1>11, WriteLastMaps
<1>12. CASE WriteAgain BY <1>12, SameMaps DEF WriteAgain
<1>13. CASE UNCHANGED vars BY <1>13, SameMaps DEF vars
<1>14. CASE ReadFails BY <1>14, SameMaps DEF ReadFails
<1> QED BY <1>1, <1>2, <1>3, <1>4, <1>5, <1>6, <1>7, <1>8, <1>9, <1>10, <1>11, <1>12, <1>13,
           <1>14 DEF Next, Server

\* The mapping of a file lives as long as the file is sent, and each connection
\* closed by the loop meanwhile costs one mapping at most (render, write,
\* unmap; cb_func, which does not call unmap).
THEOREM MappingsKept == Spec => []MapsKept
<1>1. MapsInv => MapsKept BY DEF MapsInv, MapsKept
<1> QED BY <1>1, InitMaps, NextMaps, PTL DEF Spec

-----------------------------------------------------------------------------
(* A response on its way.                                                  *)

\* What is sent: texts and files.
Whats ==
  {Routes[h][2] : h \in DOMAIN Routes} \union (UNION FileSets) \union {"404 not found"}

Bytes ==
  {<<s, w, l, i>> : s \in {200, 202, 404}, w \in Whats, l \in BOOLEAN, i \in Nat}
    \union {<<w, i>> : w \in Whats, i \in Nat}

\* All of the response: the head, and the file if there is one.
Whole(r) ==
  IF r.m_iv_count = 2 THEN r.m_write_buf \o FileBytes(r.m_file, 1, FileLen)
  ELSE r.m_write_buf
Total(r) == IF r.m_iv_count = 2 THEN HeadLen + FileLen ELSE HeadLen

\* The vectors hold what is left.
Underway(r) ==
  /\ r.m_iv_count \in {1, 2} /\ m_write_idx(r) = HeadLen
  /\ r.m_iv_count = 2 => r.m_file \in Whats
  /\ r.bytes_to_send > 0 /\ r.bytes_have_send + r.bytes_to_send = Total(r)
  /\ \/ /\ r.bytes_have_send < HeadLen
        /\ r.iov0 = [base |-> r.bytes_have_send, len |-> HeadLen - r.bytes_have_send]
        /\ r.m_iv_count = 2 => r.iov1 = [base |-> 0, len |-> FileLen]
     \/ /\ r.bytes_have_send >= HeadLen /\ r.iov0.len = 0
        /\ r.iov1 = [base |-> r.bytes_have_send - HeadLen, len |-> r.bytes_to_send]

ResType(r) ==
  /\ r = [x \in ResFields |-> r[x]] /\ r.m_linger \in BOOLEAN
  /\ r.m_write_buf \in Seq(Bytes) /\ m_write_idx(r) \in {0, HeadLen - 1, HeadLen}
  /\ r.bytes_to_send \in 0..(HeadLen + FileLen)
  /\ r.bytes_have_send \in 0..(HeadLen + FileLen)
  /\ r.iov0 = [base |-> r.iov0.base, len |-> r.iov0.len]
  /\ r.iov0.base \in Nat /\ r.iov0.len \in 0..HeadLen
  /\ r.iov1.len \in 0..FileLen

LEMMA IsSequence ==
  ASSUME NEW S, NEW n \in Nat, NEW f, f = [i \in 1..n |-> f[i]], \A i \in 1..n : f[i] \in S
  PROVE  f \in Seq(S) /\ Len(f) = n
<1>1. f \in [1..n -> S] OBVIOUS
<1> QED BY <1>1

LEMMA HeaderBytes ==
  ASSUME NEW status \in {200, 202, 404}, NEW what \in Whats, NEW linger \in BOOLEAN
  PROVE  Header(status, what, linger) \in Seq(Bytes)
         /\ Len(Header(status, what, linger)) = HeadLen
<1>1. \A i \in 1..HeadLen : <<status, what, linger, i>> \in Bytes
  BY WriterAssumption DEF Bytes
<1> QED BY <1>1, WriterAssumption DEF Header

LEMMA FileBytesAre ==
  ASSUME NEW file \in Whats, NEW m \in Nat, NEW n \in Nat, m <= n
  PROVE  /\ FileBytes(file, m + 1, n) \in Seq(Bytes)
         /\ Len(FileBytes(file, m + 1, n)) = n - m
         /\ \A i \in 1..(n - m) : FileBytes(file, m + 1, n)[i] = <<file, m + i>>
<1>1. n - (m + 1) + 1 = n - m /\ n - m \in Nat OBVIOUS
<1>2. \A i \in 1..(n - m) : (m + 1) + i - 1 = m + i OBVIOUS
<1>3. FileBytes(file, m + 1, n) = [i \in 1..(n - m) |-> <<file, m + i>>]
  BY <1>1, <1>2 DEF FileBytes
<1> DEFINE l == n - m  f == FileBytes(file, m + 1, n)  B == [i \in 1..l |-> <<file, m + i>>]
<1>4. \A i \in 1..l : <<file, m + i>> \in Bytes BY DEF Bytes
<1>5. f = B /\ l \in Nat BY <1>1, <1>3
<1> HIDE DEF f, l
<1>6. B = [i \in 1..l |-> B[i]] /\ \A i \in 1..l : B[i] = <<file, m + i>> OBVIOUS
<1> HIDE DEF B
<1>7. B \in Seq(Bytes) /\ Len(B) = l
  <2>1. \A i \in 1..l : B[i] \in Bytes BY <1>4, <1>6
  <2>2. l \in Nat /\ B = [i \in 1..l |-> B[i]] BY <1>5, <1>6
  <2> QED BY <2>1, <2>2, IsSequence
<1> QED BY <1>5, <1>6, <1>7 DEF l, f

\* A part of the second of two sequences.
LEMMA PartOfSecond ==
  ASSUME NEW S, NEW s \in Seq(S), NEW t \in Seq(S), NEW m \in Nat, m <= Len(t),
         NEW u \in Seq(S), Len(u) = Len(t) - m, \A i \in 1..Len(u) : u[i] = t[m + i]
  PROVE  u = SubSeq(s \o t, Len(s) + m + 1, Len(s) + Len(t))
<1> DEFINE c == s \o t  a == Len(s) + m  b == Len(s) + Len(t)  v == SubSeq(c, a + 1, b)
<1>1. /\ c \in Seq(S) /\ Len(c) = b /\ Len(s) \in Nat /\ Len(t) \in Nat
      /\ \A i \in 1..Len(t) : c[Len(s) + i] = t[i]
  BY Concat
<1>2. a \in Nat /\ b \in Nat /\ a <= b /\ b - a = Len(t) - m BY <1>1
<1> HIDE DEF c
<1>3. v \in Seq(S) /\ Len(v) = b - a /\ \A i \in 1..(b - a) : v[i] = c[a + i]
  <2> HIDE DEF a, b
  <2> QED BY <1>1, <1>2, Part
<1>4. ASSUME NEW i \in 1..Len(u) PROVE u[i] = v[i]
  <2>1. m + i \in 1..Len(t) /\ a + i = Len(s) + (m + i) /\ i \in 1..(b - a) BY <1>1, <1>2
  <2> HIDE DEF a, b
  <2> QED BY <1>1, <1>3, <2>1
<1> HIDE DEF v
<1>5. u = v BY <1>2, <1>3, <1>4, SameSeq
<1> QED BY <1>5 DEF v, c, a, b

\* The end of the first, and all of the second.
LEMMA PartOfBoth ==
  ASSUME NEW S, NEW s \in Seq(S), NEW t \in Seq(S), NEW m \in Nat, m <= Len(s)
  PROVE  SubSeq(s, m + 1, Len(s)) \o t = SubSeq(s \o t, m + 1, Len(s) + Len(t))
<1> DEFINE c == s \o t  l == Len(s)  b == l + Len(t)  u == SubSeq(s, m + 1, l)
           v == SubSeq(c, m + 1, b)
<1>1. /\ c \in Seq(S) /\ Len(c) = b /\ l \in Nat /\ Len(t) \in Nat
      /\ \A i \in 1..l : c[i] = s[i]
      /\ \A i \in 1..Len(t) : c[l + i] = t[i]
  BY Concat
<1>2. b \in Nat /\ m <= b /\ m <= l BY <1>1
<1> HIDE DEF c
<1>3. v \in Seq(S) /\ Len(v) = b - m /\ \A i \in 1..(b - m) : v[i] = c[m + i]
  <2> HIDE DEF b
  <2> QED BY <1>1, <1>2, Part
<1>4. u \in Seq(S) /\ Len(u) = l - m /\ \A i \in 1..(l - m) : u[i] = s[m + i]
  BY <1>1, <1>2, Part
<1> HIDE DEF u, v
<1>5. /\ u \o t \in Seq(S) /\ Len(u \o t) = Len(u) + Len(t)
      /\ \A i \in 1..Len(u) : (u \o t)[i] = u[i]
      /\ \A i \in 1..Len(t) : (u \o t)[Len(u) + i] = t[i]
  <2>1. u \in Seq(S) BY <1>4
  <2> QED BY <2>1, Concat
<1>6. ASSUME NEW i \in 1..(b - m) PROVE (u \o t)[i] = v[i]
  <2>1. CASE i <= l - m
    <3>1. i \in 1..Len(u) /\ i \in 1..(l - m) /\ m + i \in 1..l BY <1>1, <1>4, <2>1
    <3> HIDE DEF l, b
    <3> QED BY <1>1, <1>3, <1>4, <1>5, <3>1
  <2>2. CASE ~(i <= l - m)
    <3> DEFINE j == i - (l - m)
    <3>1. j \in 1..Len(t) /\ i = Len(u) + j /\ m + i = l + j BY <1>1, <1>2, <1>4, <2>2
    <3> HIDE DEF l, b, j
    <3>2. (u \o t)[i] = t[j] BY <1>5, <3>1
    <3>3. v[i] = t[j] BY <1>1, <1>3, <3>1
    <3> QED BY <3>2, <3>3
  <2> QED BY <2>1, <2>2
<1>7. Len(u \o t) = Len(v) BY <1>1, <1>2, <1>3, <1>4, <1>5
<1>8. \A i \in 1..Len(u \o t) : (u \o t)[i] = v[i] BY <1>3, <1>6, <1>7
<1>9. u \o t = v
  <2> HIDE DEF b
  <2> QED BY <1>3, <1>5, <1>7, <1>8, SameSeq
<1> QED BY <1>9 DEF u, v, c, b, l

LEMMA WholeIs ==
  ASSUME NEW r, ResType(r), Underway(r)
  PROVE  /\ Whole(r) \in Seq(Bytes) /\ Len(Whole(r)) = Total(r)
         /\ r.bytes_have_send \in Nat /\ r.bytes_to_send \in Nat /\ Total(r) \in Nat
         /\ r.m_write_buf \in Seq(Bytes) /\ Len(r.m_write_buf) = HeadLen
         /\ r.m_iv_count = 2 =>
              /\ FileBytes(r.m_file, 1, FileLen) \in Seq(Bytes)
              /\ Len(FileBytes(r.m_file, 1, FileLen)) = FileLen
              /\ \A i \in 1..FileLen : FileBytes(r.m_file, 1, FileLen)[i] = <<r.m_file, i>>
<1>1. /\ r.bytes_have_send \in Nat /\ r.bytes_to_send \in Nat
      /\ r.m_write_buf \in Seq(Bytes) /\ Len(r.m_write_buf) = HeadLen
      /\ HeadLen \in Nat /\ FileLen \in Nat
  BY WriterAssumption DEF ResType, Underway, m_write_idx
<1>2. CASE r.m_iv_count = 2
  <2> DEFINE f == FileBytes(r.m_file, 1, FileLen)
  <2>1. r.m_file \in Whats BY <1>2 DEF Underway
  <2>2. f \in Seq(Bytes) /\ Len(f) = FileLen /\ \A i \in 1..FileLen : f[i] = <<r.m_file, i>>
    <3> DEFINE z == 0
    <3>1. z \in Nat /\ z <= FileLen BY <1>1
    <3>2. z + 1 = 1 /\ FileLen - z = FileLen /\ \A i \in 1..FileLen : z + i = i BY <1>1
    <3> HIDE DEF z
    <3> HIDE DEF f
    <3>3. /\ FileBytes(r.m_file, z + 1, FileLen) \in Seq(Bytes)
          /\ Len(FileBytes(r.m_file, z + 1, FileLen)) = FileLen - z
          /\ \A i \in 1..(FileLen - z) :
               FileBytes(r.m_file, z + 1, FileLen)[i] = <<r.m_file, z + i>>
      BY <1>1, <2>1, <3>1, FileBytesAre
    <3> QED BY <3>2, <3>3 DEF f
  <2> HIDE DEF f
  <2>3. /\ r.m_write_buf \o f \in Seq(Bytes)
        /\ Len(r.m_write_buf \o f) = Len(r.m_write_buf) + Len(f)
    BY <1>1, <2>2, Concat
  <2>4. Whole(r) = r.m_write_buf \o f /\ Total(r) = HeadLen + FileLen
    BY <1>2 DEF Whole, Total, f
  <2>5. Len(Whole(r)) = Total(r) /\ Total(r) \in Nat BY <1>1, <2>2, <2>3, <2>4
  <2>6. Whole(r) \in Seq(Bytes) BY <2>3, <2>4
  <2> QED BY <1>1, <2>2, <2>5, <2>6 DEF f
<1>3. CASE r.m_iv_count # 2 BY <1>1, <1>3 DEF Whole, Total
<1> QED BY <1>2, <1>3

\* What writev is offered is what is left of the response.
LEMMA GatheredIs ==
  ASSUME NEW r, ResType(r), Underway(r)
  PROVE  /\ Gathered(r) = SubSeq(Whole(r), r.bytes_have_send + 1, Total(r))
         /\ Gathered(r) \in Seq(Bytes) /\ Len(Gathered(r)) = r.bytes_to_send
<1> DEFINE w == r.m_write_buf  f == FileBytes(r.m_file, 1, FileLen)
           h == r.bytes_have_send  t == Total(r)  g == Gathered(r)
<1>1. /\ Whole(r) \in Seq(Bytes) /\ Len(Whole(r)) = t
      /\ h \in Nat /\ t \in Nat /\ h + r.bytes_to_send = t /\ r.bytes_to_send \in Nat
      /\ w \in Seq(Bytes) /\ Len(w) = HeadLen /\ HeadLen \in Nat /\ FileLen \in Nat
      /\ r.m_iv_count = 2 => /\ f \in Seq(Bytes) /\ Len(f) = FileLen
                             /\ \A i \in 1..FileLen : f[i] = <<r.m_file, i>>
                             /\ Whole(r) = w \o f /\ t = HeadLen + FileLen
      /\ r.m_iv_count # 2 => Whole(r) = w /\ t = HeadLen
  BY WholeIs, WriterAssumption DEF Underway, Whole, Total
<1>2. g = SubSeq(w, r.iov0.base + 1, r.iov0.base + r.iov0.len)
            \o (IF r.m_iv_count = 2
                THEN FileBytes(r.m_file, r.iov1.base + 1, r.iov1.base + r.iov1.len)
                ELSE <<>>)
  BY DEF Gathered
<1> HIDE DEF w, f, g, t
<1>3. g = SubSeq(Whole(r), h + 1, t)
  <2>1. CASE h < HeadLen
    <3>1. /\ r.iov0.base = h /\ r.iov0.len = HeadLen - h
          /\ r.m_iv_count = 2 => r.iov1.base = 0 /\ r.iov1.len = FileLen
      <4>1. /\ r.iov0 = [base |-> h, len |-> HeadLen - h]
            /\ r.m_iv_count = 2 => r.iov1 = [base |-> 0, len |-> FileLen]
        BY <1>1, <2>1 DEF Underway
      <4> HIDE DEF h
      <4> QED BY <4>1
    <3>2. r.iov0.base + 1 = h + 1 /\ r.iov0.base + r.iov0.len = HeadLen
      BY <1>1, <3>1
    <3>3. CASE r.m_iv_count = 2
      <4>1. r.iov1.base + 1 = 1 /\ r.iov1.base + r.iov1.len = FileLen BY <1>1, <3>1, <3>3
      <4>2. g = SubSeq(w, h + 1, HeadLen) \o f BY <1>2, <3>2, <3>3, <4>1 DEF f
      <4>3. SubSeq(w, h + 1, Len(w)) \o f = SubSeq(w \o f, h + 1, Len(w) + Len(f))
        <5>1. h <= Len(w) /\ f \in Seq(Bytes) BY <1>1, <2>1, <3>3
        <5> HIDE DEF h
        <5> QED BY <1>1, <5>1, PartOfBoth
      <4> QED BY <1>1, <3>3, <4>2, <4>3
    <3>4. CASE r.m_iv_count # 2
      <4>1. g = SubSeq(w, h + 1, HeadLen) \o <<>> BY <1>2, <3>2, <3>4
      <4>2. SubSeq(w, h + 1, HeadLen) \in Seq(Bytes)
        <5>1. h <= HeadLen /\ HeadLen <= Len(w) BY <1>1, <2>1
        <5> HIDE DEF h
        <5> QED BY <1>1, <5>1, Part
      <4>3. g = SubSeq(w, h + 1, HeadLen) BY <4>1, <4>2
      <4> QED BY <1>1, <3>4, <4>3
    <3> QED BY <3>3, <3>4
  <2>2. CASE ~(h < HeadLen)
    <3>1. r.iov0.len = 0 /\ r.iov1.base = h - HeadLen /\ r.iov1.len = r.bytes_to_send
          /\ r.iov0.base \in Nat
      BY <1>1, <2>2 DEF Underway, ResType
    <3>2. r.m_iv_count = 2 BY <1>1, <2>2 DEF Underway
    <3> DEFINE m == h - HeadLen  u == FileBytes(r.m_file, m + 1, FileLen)
    <3>3. m \in Nat /\ m <= FileLen /\ m + r.bytes_to_send = FileLen /\ HeadLen + m = h
      <4>1. t = HeadLen + FileLen BY <1>1, <3>2
      <4> DEFINE b == r.bytes_to_send
      <4>2. b \in Nat /\ h + b = t /\ h \in Nat /\ HeadLen \in Nat /\ FileLen \in Nat
        BY <1>1
      <4> HIDE DEF b, h
      <4>3. m \in Nat /\ m <= FileLen /\ m + b = FileLen /\ HeadLen + m = h
        BY <2>2, <4>1, <4>2
      <4> QED BY <4>3 DEF b
    <3>4. SubSeq(w, r.iov0.base + 1, r.iov0.base + r.iov0.len) = <<>>
      <4>1. r.iov0.base + r.iov0.len < r.iov0.base + 1 BY <3>1
      <4> QED BY <1>1, <3>1, <4>1
    <3>5. r.m_file \in Whats BY <3>2 DEF Underway
    <3>6. r.iov1.base + 1 = m + 1 /\ r.iov1.base + r.iov1.len = FileLen BY <1>1, <3>1, <3>3
    <3>7. g = <<>> \o u BY <1>2, <3>2, <3>4, <3>6
    <3> HIDE DEF m, h
    <3>8. u \in Seq(Bytes) /\ Len(u) = FileLen - m /\ \A i \in 1..(FileLen - m) : u[i] = <<r.m_file, m + i>>
      BY <1>1, <3>3, <3>5, FileBytesAre
    <3> HIDE DEF u
    <3>9. g = u BY <3>7, <3>8
    <3>10. f \in Seq(Bytes) /\ Len(f) = FileLen /\ \A i \in 1..FileLen : f[i] = <<r.m_file, i>>
      BY <1>1, <3>2
    <3>11. \A i \in 1..Len(u) : u[i] = f[m + i]
      <4>1. ASSUME NEW i \in 1..Len(u) PROVE u[i] = f[m + i]
        <5>1. i \in 1..(FileLen - m) /\ m + i \in 1..FileLen BY <1>1, <3>3, <3>8
        <5> QED BY <3>8, <3>10, <5>1
      <4> QED BY <4>1
    <3>12. u = SubSeq(w \o f, Len(w) + m + 1, Len(w) + Len(f))
      <4>1. m <= Len(f) /\ Len(u) = Len(f) - m BY <3>3, <3>8, <3>10
      <4>2. /\ w \in Seq(Bytes) /\ f \in Seq(Bytes) /\ u \in Seq(Bytes) /\ m \in Nat
            /\ Len(f) \in Nat
        BY <1>1, <3>3, <3>8, <3>10
      <4> QED BY <3>11, <4>1, <4>2, PartOfSecond
    <3>13. Len(w) + m + 1 = h + 1 /\ Len(w) + Len(f) = t BY <1>1, <3>2, <3>3, <3>10
    <3> QED BY <1>1, <3>2, <3>9, <3>12, <3>13
  <2> QED BY <2>1, <2>2
<1>4. SubSeq(Whole(r), h + 1, t) \in Seq(Bytes) /\ Len(SubSeq(Whole(r), h + 1, t)) = t - h
  <2>1. h <= t /\ t <= Len(Whole(r)) BY <1>1
  <2> HIDE DEF h
  <2> QED BY <1>1, <2>1, Part
<1> QED BY <1>1, <1>3, <1>4 DEF g, t

\* What Advance makes of the vectors.
LEMMA AdvanceVectors ==
  ASSUME NEW r, ResType(r), NEW n
  PROVE  LET s == Advance(r, n)
             have == r.bytes_have_send + n
         IN /\ have >= r.iov0.len =>
                 /\ s.iov0 = [base |-> r.iov0.base, len |-> 0]
                 /\ s.iov1 = [base |-> have - m_write_idx(r), len |-> r.bytes_to_send - n]
            /\ ~(have >= r.iov0.len) =>
                 s.iov0 = [base |-> have, len |-> r.iov0.len - have] /\ s.iov1 = r.iov1
<1> DEFINE have == r.bytes_have_send + n  left == r.bytes_to_send - n
           u == [r EXCEPT !.bytes_have_send = have, !.bytes_to_send = left]
           s == Advance(r, n)
<1>1. r = [x \in ResFields |-> r[x]] /\ r.iov0 = [base |-> r.iov0.base, len |-> r.iov0.len]
  BY DEF ResType
<1>2. u = [x \in ResFields |-> u[x]] /\ u.iov0 = r.iov0 /\ u.iov1 = r.iov1
  BY <1>1 DEF ResFields
<1>3. CASE have >= r.iov0.len
  <2> DEFINE v == [base |-> have - m_write_idx(r), len |-> left]
  <2>1. s = [u EXCEPT !.iov0.len = 0, !.iov1 = v] BY <1>3 DEF Advance
  <2> HIDE DEF u, v, s
  <2>2. s.iov0 = [u.iov0 EXCEPT !.len = 0] /\ s.iov1 = v BY <1>2, <2>1 DEF ResFields
  <2>3. s.iov0 = [base |-> r.iov0.base, len |-> 0] BY <1>1, <1>2, <2>2
  <2> QED BY <1>3, <2>2, <2>3 DEF s, v
<1>4. CASE ~(have >= r.iov0.len)
  <2> DEFINE v == [base |-> have, len |-> r.iov0.len - have]
  <2>1. s = [u EXCEPT !.iov0 = v] BY <1>4 DEF Advance
  <2> HIDE DEF u, v, s
  <2>2. s.iov0 = v /\ s.iov1 = r.iov1 BY <1>2, <2>1 DEF ResFields
  <2> QED BY <1>4, <2>2 DEF s, v
<1> QED BY <1>3, <1>4

\* After writev took n bytes, the vectors hold what is left of the same
\* response, if what was left of a head that had been cut went out in one.
LEMMA AdvanceUnderway ==
  ASSUME NEW r, ResType(r), Underway(r), NEW n \in 1..r.bytes_to_send,
         r.bytes_have_send > 0 => n >= r.iov0.len
  PROVE  LET s == Advance(r, n)
         IN /\ ResType(s) /\ (n < r.bytes_to_send => Underway(s))
            /\ s.bytes_have_send = r.bytes_have_send + n
            /\ s.bytes_to_send = r.bytes_to_send - n
            /\ Whole(s) = Whole(r) /\ s.m_linger = r.m_linger
<1> DEFINE s == Advance(r, n)  h == r.bytes_have_send  b == r.bytes_to_send  t == Total(r)
<1>1. /\ s = [x \in ResFields |-> s[x]]
      /\ s.m_file = r.m_file /\ s.m_iv_count = r.m_iv_count /\ s.m_linger = r.m_linger
      /\ s.m_write_buf = r.m_write_buf
      /\ s.bytes_to_send = b - n /\ s.bytes_have_send = h + n
  BY AdvanceFields DEF ResType
<1>2. /\ h \in Nat /\ b \in Nat /\ t \in Nat /\ h + b = t /\ n \in 1..b
      /\ HeadLen \in Nat /\ FileLen \in Nat
      /\ t = (IF r.m_iv_count = 2 THEN HeadLen + FileLen ELSE HeadLen)
      /\ m_write_idx(r) = HeadLen /\ m_write_idx(s) = HeadLen
  BY <1>1, WriterAssumption DEF ResType, Underway, Total, m_write_idx
<1>3. /\ h + n >= r.iov0.len =>
           /\ s.iov0 = [base |-> r.iov0.base, len |-> 0]
           /\ s.iov1 = [base |-> (h + n) - m_write_idx(r), len |-> b - n]
      /\ ~(h + n >= r.iov0.len) =>
           s.iov0 = [base |-> h + n, len |-> r.iov0.len - (h + n)] /\ s.iov1 = r.iov1
  BY AdvanceVectors
<1>4. \/ /\ h < HeadLen /\ r.iov0.len = HeadLen - h
         /\ r.m_iv_count = 2 => r.iov1 = [base |-> 0, len |-> FileLen]
      \/ h >= HeadLen /\ r.iov0.len = 0
  BY <1>2 DEF Underway
<1>5. r.iov0.base \in Nat /\ r.iov1.len \in 0..FileLen /\ r.m_linger \in BOOLEAN
      /\ r.m_write_buf \in Seq(Bytes) /\ m_write_idx(r) \in {0, HeadLen - 1, HeadLen}
  BY DEF ResType
<1>6. r.m_iv_count \in {1, 2} /\ (r.m_iv_count = 2 => r.m_file \in Whats) BY DEF Underway
<1>7. h > 0 => n >= r.iov0.len OBVIOUS
<1>8. Whole(s) = Whole(r) /\ Total(s) = t BY <1>1 DEF Whole, Total
<1> HIDE DEF s, h, b, t
<1>9. \/ /\ h + n >= HeadLen
         /\ s.iov0 = [base |-> r.iov0.base, len |-> 0]
         /\ s.iov1 = [base |-> h + n - HeadLen, len |-> b - n]
      \/ /\ h + n < HeadLen
         /\ s.iov0 = [base |-> h + n, len |-> HeadLen - (h + n)] /\ s.iov1 = r.iov1
         /\ r.m_iv_count = 2 => r.iov1 = [base |-> 0, len |-> FileLen]
  BY <1>2, <1>3, <1>4, <1>7
<1>10. /\ s.bytes_to_send \in 0..(HeadLen + FileLen)
       /\ s.bytes_have_send \in 0..(HeadLen + FileLen)
  BY <1>1, <1>2
<1>11. /\ s.iov0 = [base |-> s.iov0.base, len |-> s.iov0.len]
       /\ s.iov0.base \in Nat /\ s.iov0.len \in 0..HeadLen
  BY <1>2, <1>5, <1>9
<1>12. s.iov1.len \in 0..FileLen
  <2>1. CASE h + n >= HeadLen
    <3>1. s.iov1.len = b - n BY <1>2, <1>9, <2>1
    <3>2. b - n >= 0 /\ b - n <= FileLen BY <1>2, <2>1
    <3> QED BY <1>2, <3>1, <3>2
  <2>2. CASE ~(h + n >= HeadLen) BY <1>2, <1>5, <1>9, <2>2
  <2> QED BY <2>1, <2>2
<1>13. ResType(s)
  <2>1. s.m_linger \in BOOLEAN /\ s.m_write_buf \in Seq(Bytes) /\ m_write_idx(s) = HeadLen
    BY <1>1, <1>2, <1>5
  <2> QED BY <1>1, <1>10, <1>11, <1>12, <2>1 DEF ResType
<1>14. ASSUME n < b PROVE Underway(s)
  <2>1. s.bytes_to_send > 0 /\ s.bytes_have_send + s.bytes_to_send = Total(s)
    BY <1>1, <1>2, <1>8, <1>14
  <2>2. s.m_iv_count \in {1, 2} /\ (s.m_iv_count = 2 => s.m_file \in Whats) BY <1>1, <1>6
  <2>3. CASE h + n >= HeadLen
    <3>1. s.bytes_have_send >= HeadLen /\ s.iov0.len = 0
          /\ s.iov1 = [base |-> s.bytes_have_send - HeadLen, len |-> s.bytes_to_send]
      BY <1>1, <1>2, <1>9, <2>3
    <3> QED BY <1>2, <2>1, <2>2, <3>1 DEF Underway
  <2>4. CASE ~(h + n >= HeadLen)
    <3>1. s.bytes_have_send < HeadLen
          /\ s.iov0 = [base |-> s.bytes_have_send, len |-> HeadLen - s.bytes_have_send]
          /\ (s.m_iv_count = 2 => s.iov1 = [base |-> 0, len |-> FileLen])
      BY <1>1, <1>2, <1>9, <2>4
    <3> QED BY <1>2, <2>1, <2>2, <3>1 DEF Underway
  <2> QED BY <2>3, <2>4
<1> QED BY <1>1, <1>8, <1>13, <1>14 DEF s, h, b

\* What send, render and init leave of a response.
LEMMA SendResult ==
  ASSUME NEW r, ResType(r), NEW status \in {200, 202, 404}, NEW text \in Whats
  PROVE  LET s == Send(r, status, text)
         IN /\ ResType(s) /\ s.m_linger = r.m_linger
            /\ text \in LongTexts => s.bytes_to_send = 0
            /\ text \notin LongTexts =>
                 /\ Underway(s) /\ s.bytes_have_send = 0
                 /\ Whole(s) = Header(status, text, r.m_linger)
<1> DEFINE s == Send(r, status, text)  w == Header(status, text, r.m_linger)
<1>1. /\ r = [x \in ResFields |-> r[x]] /\ r.m_linger \in BOOLEAN
      /\ r.iov0 = [base |-> r.iov0.base, len |-> r.iov0.len]
      /\ r.iov0.base \in Nat /\ r.iov0.len \in 0..HeadLen /\ r.iov1.len \in 0..FileLen
  BY DEF ResType
<1>2. w \in Seq(Bytes) /\ Len(w) = HeadLen BY <1>1, HeaderBytes
<1>3. /\ s = [x \in ResFields |-> s[x]]
      /\ s.m_linger = r.m_linger /\ s.iov1 = r.iov1 /\ s.bytes_have_send = 0
      /\ \/ /\ text \in LongTexts /\ s.bytes_to_send = 0 /\ s.iov0 = r.iov0
            /\ s.m_write_buf = SubSeq(w, 1, HeadLen - 1)
         \/ /\ text \notin LongTexts /\ s.bytes_to_send = HeadLen /\ s.m_iv_count = 1
            /\ s.iov0 = [base |-> 0, len |-> HeadLen]
            /\ s.m_write_buf = w
  BY <1>1, SendFields
<1> HIDE DEF s, w
<1>4. HeadLen \in Nat /\ HeadLen > 0 /\ FileLen \in Nat BY WriterAssumption
<1>5. CASE text \in LongTexts
  <2>1. s.m_write_buf \in Seq(Bytes) /\ Len(s.m_write_buf) = HeadLen - 1
    <3> DEFINE m == HeadLen - 1  z == 0
    <3>1. m \in Nat /\ m <= HeadLen /\ z \in Nat /\ z <= m /\ m - z = m BY <1>4
    <3> HIDE DEF m, z
    <3>2. SubSeq(w, z + 1, m) \in Seq(Bytes) /\ Len(SubSeq(w, z + 1, m)) = m - z
      BY <1>2, <3>1, Part
    <3>3. s.m_write_buf = SubSeq(w, z + 1, m) BY <1>3, <1>5 DEF m, z
    <3> QED BY <3>1, <3>2, <3>3 DEF m
  <2>2. m_write_idx(s) \in {0, HeadLen - 1, HeadLen} BY <2>1 DEF m_write_idx
  <2>3. ResType(s) BY <1>1, <1>3, <1>4, <1>5, <2>1, <2>2 DEF ResType
  <2> QED BY <1>3, <1>5, <2>3 DEF s
<1>6. CASE text \notin LongTexts
  <2>1. m_write_idx(s) = HeadLen BY <1>2, <1>3, <1>6 DEF m_write_idx
  <2>2. ResType(s) BY <1>1, <1>2, <1>3, <1>4, <1>6, <2>1 DEF ResType
  <2>3. Underway(s) BY <1>3, <1>4, <1>6, <2>1 DEF Underway, Total
  <2>4. s.m_iv_count = 1 /\ s.m_write_buf = w BY <1>3, <1>6
  <2>5. Whole(s) = w BY <2>4 DEF Whole
  <2> QED BY <1>3, <1>6, <2>2, <2>3, <2>5 DEF s, w
<1> QED BY <1>5, <1>6

LEMMA RenderResult ==
  ASSUME NEW r, ResType(r), NEW status \in {200, 202, 404}, NEW file \in Whats
  PROVE  LET s == Render(r, status, file)
         IN /\ ResType(s) /\ s.m_linger = r.m_linger /\ Underway(s)
            /\ s.bytes_have_send = 0 /\ Whole(s) = FileAnswer(status, file, r.m_linger)
<1> DEFINE s == Render(r, status, file)  w == Header(status, file, r.m_linger)
<1>1. r = [x \in ResFields |-> r[x]] /\ r.m_linger \in BOOLEAN BY DEF ResType
<1>2. w \in Seq(Bytes) /\ Len(w) = HeadLen BY <1>1, HeaderBytes
<1>3. /\ s = [x \in ResFields |-> s[x]]
      /\ s.m_file = file /\ s.m_iv_count = 2 /\ s.m_linger = r.m_linger
      /\ s.bytes_to_send = HeadLen + FileLen /\ s.bytes_have_send = 0
      /\ s.iov0 = [base |-> 0, len |-> HeadLen]
      /\ s.iov1 = [base |-> 0, len |-> FileLen]
      /\ s.m_write_buf = w
  BY <1>1, RenderFields
<1>4. Whole(s) = FileAnswer(status, file, r.m_linger) BY <1>3 DEF Whole, FileAnswer
<1> HIDE DEF s, w
<1>5. HeadLen \in Nat /\ HeadLen > 0 /\ FileLen \in Nat BY WriterAssumption
<1>6. m_write_idx(s) = HeadLen BY <1>2, <1>3 DEF m_write_idx
<1>7. ResType(s) BY <1>1, <1>2, <1>3, <1>5, <1>6 DEF ResType
<1>8. Underway(s) BY <1>3, <1>5, <1>6 DEF Underway, Total
<1> QED BY <1>3, <1>4, <1>7, <1>8 DEF s

LEMMA RenderFailsResult ==
  ASSUME NEW r, ResType(r)
  PROVE  LET s == RenderFails(r)
         IN ResType(s) /\ s.m_linger = r.m_linger /\ s.bytes_to_send = 0
<1> DEFINE s == RenderFails(r)
<1>1. /\ s = [x \in ResFields |-> s[x]] /\ s.m_linger = r.m_linger
      /\ s.bytes_to_send = 0 /\ s.bytes_have_send = 0 /\ s.m_write_buf = <<>>
      /\ s.iov0 = r.iov0 /\ s.iov1 = r.iov1
  BY RenderFailsFields DEF ResType
<1> HIDE DEF s
<1>2. s.m_write_buf \in Seq(Bytes) /\ m_write_idx(s) = 0
  <2>1. <<>> \in Seq(Bytes) /\ Len(<<>>) = 0 OBVIOUS
  <2>2. s.m_write_buf = <<>> BY <1>1
  <2> QED BY <2>1, <2>2 DEF m_write_idx
<1>3. 0 \in 0..(HeadLen + FileLen) BY WriterAssumption
<1>4. /\ s.m_linger \in BOOLEAN
      /\ s.iov0 = [base |-> s.iov0.base, len |-> s.iov0.len]
      /\ s.iov0.base \in Nat /\ s.iov0.len \in 0..HeadLen /\ s.iov1.len \in 0..FileLen
  BY <1>1 DEF ResType
<1>5. ResType(s) BY <1>1, <1>2, <1>3, <1>4 DEF ResType
<1> QED BY <1>1, <1>5 DEF s

LEMMA ResetResult ==
  ASSUME NEW r, ResType(r)
  PROVE  ResType(ResetRes(r)) /\ ResetRes(r).m_linger = FALSE
<1> DEFINE s == ResetRes(r)
<1>1. /\ s = [x \in ResFields |-> s[x]] /\ s.m_linger = FALSE
      /\ s.bytes_to_send = 0 /\ s.bytes_have_send = 0 /\ s.m_write_buf = <<>>
      /\ s.iov0 = r.iov0 /\ s.iov1 = r.iov1
  BY ResetFields DEF ResType
<1> HIDE DEF s
<1>2. s.m_write_buf \in Seq(Bytes) /\ m_write_idx(s) = 0
  <2>1. <<>> \in Seq(Bytes) /\ Len(<<>>) = 0 OBVIOUS
  <2>2. s.m_write_buf = <<>> BY <1>1
  <2> QED BY <2>1, <2>2 DEF m_write_idx
<1>3. 0 \in 0..(HeadLen + FileLen) BY WriterAssumption
<1>4. /\ s.m_linger \in BOOLEAN
      /\ s.iov0 = [base |-> s.iov0.base, len |-> s.iov0.len]
      /\ s.iov0.base \in Nat /\ s.iov0.len \in 0..HeadLen /\ s.iov1.len \in 0..FileLen
  BY <1>1 DEF ResType
<1>5. ResType(s) BY <1>1, <1>2, <1>3, <1>4 DEF ResType
<1> QED BY <1>1, <1>5 DEF s

LEMMA UnmapResult ==
  ASSUME NEW r, ResType(r)
  PROVE  ResType(Unmap(r))
<1> DEFINE s == Unmap(r)
<1>1. s = [x \in ResFields |-> s[x]] /\ \A x \in ResFields \ {"m_file"} : s[x] = r[x]
  BY UnmapFields DEF ResType
<1> HIDE DEF s
<1>2. /\ s.m_linger = r.m_linger /\ s.m_write_buf = r.m_write_buf
      /\ s.bytes_to_send = r.bytes_to_send /\ s.bytes_have_send = r.bytes_have_send
      /\ s.iov0 = r.iov0 /\ s.iov1 = r.iov1
  BY <1>1 DEF ResFields
<1>3. m_write_idx(s) = m_write_idx(r) BY <1>2 DEF m_write_idx
<1>4. ResType(s) BY <1>1, <1>2, <1>3 DEF ResType
<1> QED BY <1>4 DEF s

\* The answer to what process_read has found.
Reply(handler, url, linger) ==
  CASE handler \in DOMAIN Routes /\ Routes[handler][1] = "send" ->
         IF Routes[handler][2] \in LongTexts THEN <<>>
         ELSE Header(200, Routes[handler][2], linger)
    [] handler \in DOMAIN Routes /\ Routes[handler][1] = "render" ->
         IF Routes[handler][2] \in files
         THEN FileAnswer(200, Routes[handler][2], linger) ELSE <<>>
    [] handler \notin DOMAIN Routes /\ url \in files -> FileAnswer(202, url, linger)
    [] OTHER -> Header(404, "404 not found", linger)

\* handleRequest sets up this answer, or nothing when there is none.
LEMMA HandleRequestResult ==
  ASSUME NEW q, NEW r, ResType(r), files \in FileSets, HandleRequest(q, r)
  PROVE  /\ ResType(res') /\ res'.m_linger = r.m_linger
         /\ LET reply == Reply(<<q.m_method, q.m_url>>, q.m_url, r.m_linger)
            IN \/ res'.bytes_to_send = 0 /\ reply = <<>>
               \/ Underway(res') /\ res'.bytes_have_send = 0 /\ Whole(res') = reply
<1> DEFINE h == <<q.m_method, q.m_url>>  l == r.m_linger  reply == Reply(h, q.m_url, l)
<1>1. \A s \in files : s \in Whats BY DEF Whats
<1>2. h \in DOMAIN Routes => Routes[h][2] \in Whats BY DEF Whats
<1>3. CASE /\ h \in DOMAIN Routes /\ Routes[h][1] = "send"
           /\ res' = Send(r, 200, Routes[h][2])
  <2> DEFINE text == Routes[h][2]
  <2>1. reply = IF text \in LongTexts THEN <<>> ELSE Header(200, text, l)
    BY <1>3 DEF Reply
  <2>2. text \in Whats /\ res' = Send(r, 200, text) BY <1>2, <1>3
  <2> HIDE DEF text, h, reply
  <2> QED BY <2>1, <2>2, SendResult DEF h, reply
<1>4. CASE h \in DOMAIN Routes /\ Routes[h][1] = "render" /\ RenderFile(r, 200, Routes[h][2])
  <2> DEFINE file == Routes[h][2]
  <2>1. reply = IF file \in files THEN FileAnswer(200, file, l) ELSE <<>>
    BY <1>4 DEF Reply
  <2>2. \/ file \in files /\ res' = Render(r, 200, file)
        \/ file \notin files /\ res' = RenderFails(r)
    BY <1>4 DEF RenderFile
  <2>3. file \in Whats BY <1>2, <1>4
  <2> HIDE DEF file, h, reply
  <2> QED BY <2>1, <2>2, <2>3, RenderResult, RenderFailsResult DEF h, reply
<1>5. CASE h \notin DOMAIN Routes /\ q.m_url \in files /\ RenderFile(r, 202, q.m_url)
  <2>1. reply = FileAnswer(202, q.m_url, l) BY <1>5 DEF Reply
  <2>2. res' = Render(r, 202, q.m_url) /\ q.m_url \in Whats BY <1>1, <1>5 DEF RenderFile
  <2> HIDE DEF h, reply
  <2> QED BY <2>1, <2>2, RenderResult DEF h, reply
<1>6. CASE /\ h \notin DOMAIN Routes /\ q.m_url \notin files
           /\ res' = Send(RenderFails(r), 404, "404 not found")
  <2> DEFINE s == RenderFails(r)
  <2>1. reply = Header(404, "404 not found", l) BY <1>6 DEF Reply
  <2>2. ResType(s) /\ s.m_linger = l BY RenderFailsResult
  <2> DEFINE text == "404 not found"
  <2>3. text \in Whats BY DEF Whats
  <2>4. text \notin LongTexts BY RequestAssumption
  <2>5. res' = Send(s, 404, text) /\ reply = Header(404, text, l) BY <1>6, <2>1
  <2> HIDE DEF s, h, reply, text
  <2>6. /\ ResType(res') /\ res'.m_linger = s.m_linger /\ Underway(res')
        /\ res'.bytes_have_send = 0 /\ Whole(res') = Header(404, text, s.m_linger)
    BY <2>2, <2>3, <2>4, <2>5, SendResult
  <2> QED BY <2>2, <2>5, <2>6 DEF h, reply
<1> QED BY <1>3, <1>4, <1>5, <1>6 DEF HandleRequest

-----------------------------------------------------------------------------
(* The types.                                                              *)

\* A response is on its way, or there was none to send, from process() on.
SendInv ==
  /\ pc \in {"in", "read", "out", "write", "dropped", "closed"}
  /\ ResType(res) /\ files \in FileSets
  /\ sock \in Seq(Bytes) /\ got \in Seq(Bytes) /\ Len(sock) <= SockBuf
  /\ pc \in {"out", "write"} =>
       Underway(res) \/ (pc = "out" /\ res.bytes_to_send = 0)

\* Each connection has cost at most one of the tries, and one is left to be
\* dropped while it is open.
TriesInv ==
  /\ pc \in {"in", "read", "out", "write", "dropped", "closed"}
  /\ tries \in Nat /\ tries <= MaxTries /\ dropped \in Nat
  /\ dropped <= tries /\ (pc # "closed" => dropped < tries)

LEMMA EmptyBytes == <<>> \in Seq(Bytes) /\ Len(<<>>) = 0 /\ 0 <= SockBuf
  BY ConnAssumption

LEMMA InitSend == Init => SendInv
<1> SUFFICES ASSUME Init PROVE SendInv
  OBVIOUS
<1>1. /\ res = FirstRes /\ pc = "closed" /\ files \in FileSets /\ sock = <<>> /\ got = <<>>
  BY DEF Init
<1>2. ResType(FirstRes)
  <2> DEFINE s == FirstRes
  <2>1. /\ s = [x \in ResFields |-> s[x]] /\ s.m_write_buf = <<>>
        /\ s.bytes_to_send = 0 /\ s.bytes_have_send = 0 /\ s.m_linger = FALSE
        /\ s.iov0 = [base |-> 0, len |-> 0] /\ s.iov1 = [base |-> 0, len |-> 0]
    BY DEF FirstRes, ResFields
  <2> HIDE DEF s
  <2>2. s.m_write_buf \in Seq(Bytes) /\ m_write_idx(s) = 0
    BY <2>1, EmptyBytes DEF m_write_idx
  <2>3. 0 \in 0..(HeadLen + FileLen) /\ 0 \in 0..HeadLen /\ 0 \in 0..FileLen
    BY WriterAssumption
  <2>4. /\ s.iov0 = [base |-> s.iov0.base, len |-> s.iov0.len]
        /\ s.iov0.base \in Nat /\ s.iov0.len \in 0..HeadLen /\ s.iov1.len \in 0..FileLen
    BY <2>1, <2>3
  <2>5. s.m_linger \in BOOLEAN BY <2>1
  <2>6. ResType(s) BY <2>1, <2>2, <2>3, <2>4, <2>5 DEF ResType
  <2> QED BY <2>6 DEF s
<1> QED BY <1>1, <1>2, EmptyBytes DEF SendInv

\* Steps that leave the response alone.
LEMMA SameSend ==
  ASSUME SendInv, UNCHANGED <<res, files>>,
         \/ UNCHANGED <<sock, got>>
         \/ sock' \in {sock, <<>>} /\ got' = <<>>,
         pc' \in {"in", "read", "out", "write", "dropped", "closed"},
         \/ pc' = pc \/ pc' \notin {"out", "write"}
         \/ pc = "write" /\ pc' = "out"
  PROVE  SendInv'
BY EmptyBytes DEF SendInv

LEMMA ReceiveSend ==
  ASSUME SendInv, Receive
  PROVE  SendInv' /\ got' \o sock' = got \o sock
<1>1. /\ sock # <<>> /\ got' = Append(got, sock[1]) /\ sock' = Tail(sock)
      /\ UNCHANGED <<pc, res, files>>
  BY DEF Receive
<1>2. sock \in Seq(Bytes) /\ got \in Seq(Bytes) /\ Len(sock) <= SockBuf BY DEF SendInv
<1>3. /\ sock' \in Seq(Bytes) /\ got' \in Seq(Bytes) /\ Len(sock') = Len(sock) - 1
      /\ \A i \in 1..Len(sock') : sock'[i] = sock[i + 1]
      /\ Len(got') = Len(got) + 1 /\ got'[Len(got) + 1] = sock[1]
      /\ \A i \in 1..Len(got) : got'[i] = got[i]
      /\ Len(sock) \in Nat /\ Len(sock) > 0 /\ Len(got) \in Nat
  BY <1>1, <1>2
<1>4. SendInv'
  <2>1. Len(sock') <= SockBuf BY <1>2, <1>3, ConnAssumption, WriterAssumption
  <2> QED BY <1>1, <1>3, <2>1 DEF SendInv
<1>5. got' \o sock' = got \o sock
  <2> DEFINE a == got'  b == sock'
  <2>1. /\ a \in Seq(Bytes) /\ b \in Seq(Bytes) /\ Len(b) = Len(sock) - 1
        /\ \A i \in 1..Len(b) : b[i] = sock[i + 1]
        /\ Len(a) = Len(got) + 1 /\ a[Len(got) + 1] = sock[1]
        /\ \A i \in 1..Len(got) : a[i] = got[i]
    BY <1>3
  <2> HIDE DEF a, b
  <2>2. /\ a \o b \in Seq(Bytes) /\ Len(a \o b) = Len(a) + Len(b)
        /\ \A i \in 1..Len(a) : (a \o b)[i] = a[i]
        /\ \A i \in 1..Len(b) : (a \o b)[Len(a) + i] = b[i]
    <3>1. a \in Seq(Bytes) /\ b \in Seq(Bytes) BY <2>1
    <3> QED BY <3>1, Concat
  <2>3. /\ got \o sock \in Seq(Bytes) /\ Len(got \o sock) = Len(got) + Len(sock)
        /\ \A i \in 1..Len(got) : (got \o sock)[i] = got[i]
        /\ \A i \in 1..Len(sock) : (got \o sock)[Len(got) + i] = sock[i]
    BY <1>2, Concat
  <2>4. Len(a \o b) = Len(got \o sock) BY <1>3, <2>1, <2>2, <2>3
  <2>5. ASSUME NEW i \in 1..Len(a \o b) PROVE (a \o b)[i] = (got \o sock)[i]
    <3>1. CASE i <= Len(got)
      <4>1. i \in 1..Len(got) /\ i \in 1..Len(a) BY <1>3, <2>1, <3>1
      <4> QED BY <2>1, <2>2, <2>3, <4>1
    <3>2. CASE i = Len(got) + 1
      <4>1. i \in 1..Len(a) /\ 1 \in 1..Len(sock) BY <1>3, <2>1, <3>2
      <4>2. (a \o b)[i] = sock[1] BY <2>1, <2>2, <3>2, <4>1
      <4>3. (got \o sock)[i] = sock[1] BY <2>3, <3>2, <4>1
      <4> QED BY <4>2, <4>3
    <3>3. CASE i > Len(got) + 1
      <4> DEFINE j == i - (Len(got) + 1)
      <4>1. j \in 1..Len(b) /\ i = Len(a) + j /\ j + 1 \in 1..Len(sock) /\ i = Len(got) + (j + 1)
        BY <1>3, <2>1, <2>2, <3>3
      <4> HIDE DEF j
      <4>2. (a \o b)[i] = sock[j + 1] BY <2>1, <2>2, <4>1
      <4>3. (got \o sock)[i] = sock[j + 1] BY <2>3, <4>1
      <4> QED BY <4>2, <4>3
    <3>4. Len(got) \in Nat /\ Len(a \o b) \in Nat BY <1>3, <2>2
    <3>5. i <= Len(got) \/ i = Len(got) + 1 \/ i > Len(got) + 1 BY <3>4
    <3> QED BY <3>1, <3>2, <3>3, <3>5
  <2>6. a \o b = got \o sock BY <2>2, <2>3, <2>4, <2>5, SameSeq
  <2> QED BY <2>6 DEF a, b
<1> QED BY <1>4, <1>5

\* Keep-alive is passed on from the request.
LEMMA LingerPassedOn ==
  ASSUME NEW r, ResType(r), NEW q
  PROVE  LET s == [r EXCEPT !.m_linger = r.m_linger \/ q.m_linger]
         IN /\ ResType(s) /\ (s.m_linger <=> r.m_linger \/ q.m_linger)
            /\ s.bytes_to_send = r.bytes_to_send
<1> DEFINE l == r.m_linger \/ q.m_linger  s == [r EXCEPT !.m_linger = l]
<1>1. l \in BOOLEAN OBVIOUS
<1>2. r = [x \in ResFields |-> r[x]] BY DEF ResType
<1>3. l <=> r.m_linger \/ q.m_linger OBVIOUS
<1> HIDE DEF l
<1>4. /\ s = [x \in ResFields |-> s[x]] /\ s.m_linger = l
      /\ s.m_write_buf = r.m_write_buf /\ s.bytes_to_send = r.bytes_to_send
      /\ s.bytes_have_send = r.bytes_have_send /\ s.iov0 = r.iov0 /\ s.iov1 = r.iov1
  BY <1>2 DEF ResFields
<1> HIDE DEF s
<1>5. m_write_idx(s) = m_write_idx(r) BY <1>4 DEF m_write_idx
<1>6. ResType(s) BY <1>1, <1>4, <1>5 DEF ResType
<1> QED BY <1>3, <1>4, <1>6 DEF s, l

LEMMA ProcessSend ==
  ASSUME SendInv, Process
  PROVE  SendInv'
<1> DEFINE q == ProcessRead(req)
           r == [res EXCEPT !.m_linger = res.m_linger \/ q.m_linger]
<1>1. /\ UNCHANGED <<files, sock, got>>
      /\ \/ pc' = "in" /\ res' = r
         \/ pc' = "out" /\ HandleRequest(q, r)
  BY DEF Process
<1>2. ResType(r) BY LingerPassedOn DEF SendInv
<1>3. files \in FileSets BY DEF SendInv
<1> HIDE DEF q, r
<1>4. CASE pc' = "in" /\ res' = r BY <1>1, <1>2, <1>4 DEF SendInv
<1>5. CASE pc' = "out" /\ HandleRequest(q, r)
  <2>1. ResType(res') /\ (res'.bytes_to_send = 0 \/ Underway(res'))
    BY <1>2, <1>3, <1>5, HandleRequestResult
  <2> QED BY <1>1, <1>5, <2>1 DEF SendInv
<1> QED BY <1>1, <1>4, <1>5

\* A round of the loop in write(): of what is left the first n bytes are sent.
LEMMA WriteRound ==
  ASSUME WholeHead, SendInv, pc \in {"out", "write"}, res.bytes_to_send > 0,
         NEW n \in 1..res.bytes_to_send, Takes(n)
  PROVE  LET s == Advance(res, n)
             piece == SubSeq(Gathered(res), 1, n)
         IN /\ ResType(s) /\ (n < res.bytes_to_send => Underway(s))
            /\ s.bytes_have_send = res.bytes_have_send + n
            /\ s.bytes_to_send = res.bytes_to_send - n
            /\ Whole(s) = Whole(res) /\ s.m_linger = res.m_linger
            /\ sock \o piece \in Seq(Bytes) /\ Len(sock \o piece) <= SockBuf
            /\ piece \in Seq(Bytes)
            /\ SubSeq(Whole(res), 1, res.bytes_have_send) \o piece
                 = SubSeq(Whole(res), 1, res.bytes_have_send + n)
<1> DEFINE g == Gathered(res)  w == Whole(res)  h == res.bytes_have_send
           b == res.bytes_to_send  t == Total(res)  p == SubSeq(g, 1, n)
<1>1. ResType(res) /\ Underway(res) /\ sock \in Seq(Bytes) /\ Len(sock) <= SockBuf
  BY DEF SendInv
<1>2. res.bytes_have_send > 0 => n >= res.iov0.len BY DEF Takes
<1>3. Len(sock) + n <= SockBuf BY DEF Takes
<1>4. /\ w \in Seq(Bytes) /\ Len(w) = t /\ h \in Nat /\ b \in Nat /\ t \in Nat
  BY <1>1, WholeIs
<1>5. h + b = t BY <1>1 DEF Underway
<1>6. g = SubSeq(w, h + 1, t) /\ g \in Seq(Bytes) /\ Len(g) = b BY <1>1, GatheredIs
<1>7. LET s == Advance(res, n)
      IN /\ ResType(s) /\ (n < res.bytes_to_send => Underway(s))
         /\ s.bytes_have_send = res.bytes_have_send + n
         /\ s.bytes_to_send = res.bytes_to_send - n
         /\ Whole(s) = Whole(res) /\ s.m_linger = res.m_linger
  BY <1>1, <1>2, AdvanceUnderway
<1>8. n \in Nat /\ n <= b /\ n \in 1..b BY <1>4
<1> HIDE DEF g, w, h, b, t
<1> DEFINE z == 0  e == h + n
<1>9. z \in Nat /\ z <= n /\ n - z = n /\ z + 1 = 1 /\ h + z = h /\ e \in Nat
      /\ h <= e /\ e <= t /\ n <= t - h /\ z <= h
  BY <1>4, <1>5, <1>8
<1> HIDE DEF z, e
<1>10. p \in Seq(Bytes) /\ Len(p) = n
  <2>1. SubSeq(g, z + 1, n) \in Seq(Bytes) /\ Len(SubSeq(g, z + 1, n)) = n - z
    BY <1>6, <1>8, <1>9, Part
  <2> QED BY <1>9, <2>1
<1>11. p = SubSeq(w, h + 1, e)
  <2>1. SubSeq(SubSeq(w, h + 1, t), z + 1, n) = SubSeq(w, (h + z) + 1, h + n)
    BY <1>4, <1>8, <1>9, PartOfPart
  <2> QED BY <1>6, <1>9, <2>1 DEF e
<1> HIDE DEF p
<1>12. SubSeq(w, 1, h) \o p = SubSeq(w, 1, e)
  <2>1. SubSeq(w, z + 1, h) \o SubSeq(w, h + 1, e) = SubSeq(w, z + 1, e)
    BY <1>4, <1>9, Parts
  <2> QED BY <1>9, <1>11, <2>1
<1>13. sock \o p \in Seq(Bytes) /\ Len(sock \o p) = Len(sock) + Len(p)
  BY <1>1, <1>10, Concat
<1>14. Len(sock \o p) <= SockBuf BY <1>3, <1>10, <1>13
<1> QED BY <1>7, <1>10, <1>12, <1>13, <1>14 DEF p, w, h, e, g

LEMMA WriteSomeSend ==
  ASSUME WholeHead, SendInv, WriteSome
  PROVE  SendInv'
<1>1. PICK n \in 1..(res.bytes_to_send - 1) :
        Takes(n) /\ sock' = sock \o SubSeq(Gathered(res), 1, n) /\ res' = Advance(res, n)
  BY DEF WriteSome
<1>2. /\ pc \in {"out", "write"} /\ res.bytes_to_send > 0 /\ pc' = "write"
      /\ UNCHANGED <<files, got>>
  BY DEF WriteSome
<1>3. res.bytes_to_send \in Nat BY WriterAssumption DEF SendInv, ResType
<1>4. n \in 1..res.bytes_to_send /\ n < res.bytes_to_send BY <1>3
<1>5. ResType(res') /\ Underway(res') /\ sock' \in Seq(Bytes) /\ Len(sock') <= SockBuf
  BY <1>1, <1>2, <1>4, WriteRound
<1> QED BY <1>2, <1>5 DEF SendInv

LEMMA WriteLastSend ==
  ASSUME WholeHead, SendInv, WriteLast
  PROVE  SendInv'
<1> DEFINE n == res.bytes_to_send  a == Advance(res, n)  g == Gathered(res)
<1>1. /\ pc \in {"out", "write"} /\ res.bytes_to_send > 0 /\ Takes(n)
      /\ sock' = sock \o g /\ UNCHANGED <<files, got>>
      /\ pc' \in {"in", "closed"}
      /\ res' = ResetRes(Unmap(a)) \/ res' = Unmap(a)
  BY DEF WriteLast
<1>2. n \in Nat /\ n \in 1..res.bytes_to_send
  BY <1>1, WriterAssumption DEF SendInv, ResType
<1>3. g = SubSeq(g, 1, n)
  <2>1. ResType(res) /\ Underway(res) BY <1>1 DEF SendInv
  <2>2. g \in Seq(Bytes) /\ Len(g) = n BY <2>1, GatheredIs
  <2> HIDE DEF g, n
  <2> QED BY <2>2
<1> HIDE DEF n
<1>4. ResType(a) /\ sock \o g \in Seq(Bytes) /\ Len(sock \o g) <= SockBuf
  BY <1>1, <1>2, <1>3, WriteRound
<1> HIDE DEF a, g
<1>5. ResType(res') BY <1>1, <1>4, UnmapResult, ResetResult
<1> QED BY <1>1, <1>4, <1>5 DEF SendInv

LEMMA NextSend ==
  ASSUME WholeHead, SendInv, [Next]_vars
  PROVE  SendInv'
<1>0. ResType(res) BY DEF SendInv
<1>1. CASE Connect
  <2>1. ResType(res') BY <1>0, <1>1, ResetResult DEF Connect, InitConn
  <2> QED BY <1>1, <2>1, EmptyBytes DEF Connect, SendInv
<1>2. CASE Ask BY <1>2, SameSend DEF Ask
<1>3. CASE Receive BY <1>3, ReceiveSend
<1>4. CASE HangUp BY <1>4, SameSend DEF HangUp
<1>5. CASE WriteError
  <2>1. ResType(res') BY <1>0, <1>5, UnmapResult DEF WriteError
  <2> QED BY <1>5, <2>1, EmptyBytes DEF WriteError, SendInv
<1>6. CASE ReadOnce BY <1>6, SameSend DEF ReadOnce
<1>7. CASE ReadFull BY <1>7, SameSend DEF ReadFull
<1>8. CASE Process BY <1>8, ProcessSend
<1>9. CASE WriteNothing
  <2>1. ResType(res') BY <1>0, <1>9, ResetResult DEF WriteNothing, InitConn
  <2> QED BY <1>9, <2>1 DEF WriteNothing, SendInv
<1>10. CASE WriteSome BY <1>10, WriteSomeSend
<1>11. CASE WriteLast BY <1>11, WriteLastSend
<1>12. CASE WriteAgain BY <1>12, SameSend DEF WriteAgain
<1>13. CASE UNCHANGED vars BY <1>13, SameSend DEF vars, SendInv
<1>14. CASE ReadFails BY <1>14, SameSend DEF ReadFails
<1> QED BY <1>1, <1>2, <1>3, <1>4, <1>5, <1>6, <1>7, <1>8, <1>9, <1>10, <1>11, <1>12, <1>13,
           <1>14 DEF Next, Server

LEMMA InitTries == Init => TriesInv
  BY ConnAssumption DEF Init, TriesInv

LEMMA NextTries ==
  ASSUME TriesInv, [Next]_vars
  PROVE  TriesInv'
<1>0. /\ tries \in Nat /\ tries <= MaxTries /\ dropped \in Nat /\ MaxTries \in Nat
      /\ dropped <= tries /\ (pc # "closed" => dropped < tries)
  BY ConnAssumption DEF TriesInv
<1>1. CASE Connect BY <1>0, <1>1 DEF Connect, TriesInv
<1>2. CASE Ask BY <1>0, <1>2 DEF Ask, TriesInv
<1>3. CASE HangUp
  <2>1. /\ pc \in {"in", "out", "dropped"} /\ pc' = "closed" /\ tries' = tries
        /\ dropped' = dropped \/ dropped' = dropped + Mapped(res)
    BY <1>0, <1>3 DEF HangUp
  <2>2. dropped' \in {dropped, dropped + 1} BY <1>0, <2>1 DEF Mapped
  <2> QED BY <1>0, <2>1, <2>2 DEF TriesInv
<1>4. CASE /\ UNCHANGED <<dropped, tries>> /\ pc' \in {"in", "read", "out", "write", "dropped", "closed"}
           /\ pc' # "closed" => pc # "closed"
  BY <1>0, <1>4 DEF TriesInv
<1>5. CASE \/ Receive \/ ReadFails \/ WriteError \/ ReadOnce \/ ReadFull \/ Process \/ WriteNothing
           \/ WriteSome \/ WriteLast \/ WriteAgain \/ UNCHANGED vars
  BY <1>4, <1>5 DEF Receive, ReadFails, WriteError, ReadOnce, ReadFull, Process, WriteNothing,
     WriteSome, WriteLast, WriteAgain, vars, TriesInv
<1> QED BY <1>1, <1>2, <1>3, <1>5 DEF Next, Server

\* The indices of the parser stay inside the read buffer, the vectors inside
\* the response, and the kernel's buffer is not overrun, whatever clients send
\* and however it is cut (read_once, process, write).  If less than what is left
\* of a head went out, the second vector would start before the file.
THEOREM TypeCorrect ==
  ASSUME WholeHead PROVE Spec => []TypeOK
<1>1. CutInv /\ MapsInv /\ SendInv /\ TriesInv => TypeOK
  <2> SUFFICES ASSUME CutInv, MapsInv, SendInv, TriesInv PROVE TypeOK
    OBVIOUS
  <2>1. /\ req.m_check_state \in {"REQUESTLINE", "HEADER", "CONTENT"}
        /\ req.m_start_line \in Nat /\ req.m_start_line <= req.m_checked_idx
        /\ pc # "closed" => req.m_checked_idx <= m_read_idx(req)
        /\ m_read_idx(req) <= ReadBuf
    BY DEF CutInv, InBounds, Parsing
  <2>2. ResType(res) /\ Len(sock) <= SockBuf BY DEF SendInv
  <2>3. maps \in Nat BY DEF MapsInv
  <2>4. /\ pc \in {"in", "read", "out", "write", "dropped", "closed"}
        /\ dropped \in 0..tries /\ tries \in 0..MaxTries
    BY ConnAssumption DEF TriesInv
  <2> QED BY <2>1, <2>2, <2>3, <2>4 DEF TypeOK, ResType
<1>2. Init => CutInv /\ MapsInv /\ SendInv /\ TriesInv
  BY InitCut, InitMaps, InitSend, InitTries
<1>3. CutInv /\ MapsInv /\ SendInv /\ TriesInv /\ [Next]_vars
        => (CutInv /\ MapsInv /\ SendInv /\ TriesInv)'
  BY NextCut, NextMaps, NextSend, NextTries
<1> QED BY <1>1, <1>2, <1>3, PTL DEF Spec

-----------------------------------------------------------------------------
(* Answers.                                                                *)

\* Requests fit the read buffer.
RequestsFit == \A r \in Requests : Len(r) < ReadBuf

\* The handler of a request that is refused has something to say.  What is left
\* unread of a refused request is parsed as the next one when it has not.
RefusalsAnswered ==
  \A r \in Requests :
    ~Accepted(r) /\ Handler(r) \in DOMAIN Routes =>
      Routes[Handler(r)][1] = "send" /\ Routes[Handler(r)][2] \notin LongTexts

Sent == got \o sock

\* The connection waits for a request.
Idle == pc = "in" /\ unread = <<>> /\ req = FreshReq /\ res.m_linger = FALSE

\* A request is read from its first byte on, and some of it has not arrived
\* when process() has asked for more.
Reading ==
  /\ pc \in {"in", "read", "dropped"} /\ got = <<>> /\ sock = <<>>
  /\ m_read_idx(req) = Taken /\ (res.m_linger => Linger(request))
  /\ pc = "in" => unread # <<>>

\* The answer is set up, and what is out of it is its beginning; or there is
\* none.
Responding ==
  /\ pc \in {"out", "write"} /\ req.m_linger = Linger(request)
  /\ Accepted(request) => unread = <<>>
  /\ \/ /\ pc = "out" /\ res.bytes_to_send = 0 /\ Answer(request) = <<>>
        /\ Sent = <<>> /\ Accepted(request)
     \/ /\ res.bytes_to_send > 0 /\ Whole(res) = Answer(request)
        /\ Sent = SubSeq(Whole(res), 1, res.bytes_have_send)

Answering ==
  \/ Reading \/ Responding
  \/ Idle /\ Sent = Answer(request)
  \/ pc = "closed" /\ Sent = Answer(request)

AnswerInv ==
  /\ request = <<>> =>
       pc \in {"in", "closed"} /\ (pc = "in" => Idle /\ got = <<>> /\ sock = <<>>)
  /\ request \in Requests => Answering

LEMMA LinesOf ==
  ASSUME NEW r \in Requests
  PROVE  /\ r \in Seq(Symbols) /\ Len(r) \in Nat /\ r # <<>>
         /\ \E n \in Nat \ {0} : HasLines(r, n)
<1>1. r \in Seq(Symbols)
  <2>1. Range(r) \subseteq Symbols BY DEF Symbols
  <2>2. r \in Seq(Range(r)) BY ConnAssumption
  <2> QED BY <2>1, <2>2
<1>2. PICK n \in 1..Len(r) : HasLines(r, n) BY RequestAssumption
<1>3. n \in Nat \ {0} /\ r # <<>> BY <1>1, <1>2
<1> QED BY <1>1, <1>2, <1>3

\* What process_read makes of what has arrived of a request.
LEMMA ArrivedRead ==
  ASSUME WholeBody, CutInv, Reading, pc = "read", request \in Requests
  PROVE  /\ Taken \in Nat /\ Len(request) \in Nat /\ Taken <= Len(request)
         /\ Len(Arrived) = Taken /\ Len(unread) = Len(request) - Taken
         /\ unread \in Seq(Symbols)
         /\ LET q == ProcessRead(req)
            IN \/ Pending(q, Arrived, request) \/ Complete(q, Arrived, request)
               \/ Refused(q, request)
<1> DEFINE r == request  a == Arrived  t == Taken  L == Len(request)
<1>1. PICK n \in Nat \ {0} : HasLines(r, n) BY LinesOf
<1>2. r \in Seq(Symbols) /\ L \in Nat BY LinesOf
<1>3. ReadSoFar /\ Parsing(req) /\ m_read_idx(req) = t BY DEF CutInv, Reading
<1>4. t \in Nat /\ t <= L /\ unread = SubSeq(r, t + 1, L) BY <1>2, <1>3 DEF ReadSoFar
<1>5. /\ a \in Seq(Symbols) /\ Len(a) = t
      /\ \A i \in 1..t : a[i] = r[t - t + i]
  BY <1>3, ArrivedSymbols
<1>6. unread \in Seq(Symbols) /\ Len(unread) = L - t
  <2> HIDE DEF t, r
  <2>1. L <= Len(r) BY <1>2 DEF r
  <2> HIDE DEF L
  <2> QED BY <1>2, <1>4, <2>1, Part
<1>7. Begins(a, r)
  <2>1. ASSUME NEW i \in 1..Len(a) PROVE a[i] = r[i]
    <3>1. i \in 1..t /\ t - t + i = i BY <1>4, <1>5
    <3> HIDE DEF a, r, t
    <3> QED BY <1>5, <3>1
  <2> QED BY <1>4, <1>5, <2>1 DEF Begins
<1>8. Len(a) <= 3 * n + 2 \/ Len(a) = Len(r)
  <2>1. CASE unread = <<>>
    <3>1. Len(unread) = 0 BY <2>1
    <3>2. t = L BY <1>2, <1>4, <1>6, <3>1
    <3> QED BY <1>5, <3>2
  <2>2. CASE unread # <<>>
    <3>1. t <= L - BodyLen(r) BY <1>3, <2>2 DEF ReadSoFar
    <3>2. L = 3 * n + 2 + BodyLen(r) BY <1>1 DEF HasLines
    <3>3. BodyLen(r) \in Nat BY <1>2, BodyLenType
    <3> QED BY <1>4, <1>5, <3>1, <3>2, <3>3
  <2> QED BY <2>1, <2>2
<1>9. ProcessRead(req) = ProcessRead(Fresh(a)) BY DEF CutInv
<1> HIDE DEF a, r, t, L
<1>10. LET q == ProcessRead(Fresh(a)) IN Pending(q, a, r) \/ Complete(q, a, r) \/ Refused(q, r)
  BY <1>1, <1>2, <1>5, <1>7, <1>8, ReadRight
<1> QED BY <1>2, <1>4, <1>5, <1>6, <1>9, <1>10 DEF a, r, t, L

LEMMA AnswerBytes ==
  ASSUME NEW status \in {200, 202, 404}, NEW what \in Whats, NEW linger \in BOOLEAN
  PROVE  /\ Header(status, what, linger) \in Seq(Bytes) \ {<<>>}
         /\ FileAnswer(status, what, linger) \in Seq(Bytes) \ {<<>>}
<1> DEFINE h == Header(status, what, linger)  f == FileBytes(what, 1, FileLen)
<1>1. h \in Seq(Bytes) /\ Len(h) = HeadLen BY HeaderBytes
<1>2. f \in Seq(Bytes)
  <2> DEFINE z == 0
  <2>1. z \in Nat /\ FileLen \in Nat /\ z <= FileLen /\ z + 1 = 1 BY WriterAssumption
  <2> HIDE DEF z
  <2>2. FileBytes(what, z + 1, FileLen) \in Seq(Bytes) BY <2>1, FileBytesAre
  <2> QED BY <2>1, <2>2
<1>3. FileAnswer(status, what, linger) = h \o f BY DEF FileAnswer
<1> HIDE DEF h, f
<1>4. h # <<>> BY <1>1, WriterAssumption
<1>5. h \o f \in Seq(Bytes) /\ h \o f # <<>> BY <1>1, <1>2, <1>4, ConcatEqualIffEmpty
<1> QED BY <1>1, <1>3, <1>4, <1>5 DEF h

LEMMA AnswerType ==
  ASSUME NEW r, files \in FileSets
  PROVE  Answer(r) \in Seq(Bytes)
<1> DEFINE h == Handler(r)  what == Routes[h][2]  l == Linger(r)  missing == "404 not found"
<1>1. \A s \in files : s \in Whats BY DEF Whats
<1>2. h \in DOMAIN Routes => what \in Whats BY DEF Whats
<1>3. l \in BOOLEAN /\ missing \in Whats BY DEF Linger, Whats
<1>4. \/ Answer(r) = <<>>
      \/ h \in DOMAIN Routes /\ Answer(r) \in {Header(200, what, l), FileAnswer(200, what, l)}
      \/ Page(r) \in files /\ Answer(r) = FileAnswer(202, Page(r), l)
      \/ Answer(r) = Header(404, missing, l)
  <2>1. CASE h \in DOMAIN Routes /\ Routes[h][1] = "send" BY <2>1 DEF Answer
  <2>2. CASE h \in DOMAIN Routes /\ Routes[h][1] = "render" BY <2>2 DEF Answer
  <2>3. CASE h \in DOMAIN Routes /\ Routes[h][1] \notin {"send", "render"} BY <2>3 DEF Answer
  <2>4. CASE h \notin DOMAIN Routes /\ Page(r) \in files BY <2>4 DEF Answer
  <2>5. CASE h \notin DOMAIN Routes /\ Page(r) \notin files BY <2>5 DEF Answer
  <2> QED BY <2>1, <2>2, <2>3, <2>4, <2>5
<1> HIDE DEF h, what, l, missing
<1>5. \A status \in {200, 202, 404}, w \in Whats :
        Header(status, w, l) \in Seq(Bytes) /\ FileAnswer(status, w, l) \in Seq(Bytes)
  BY <1>3, AnswerBytes
<1>6. <<>> \in Seq(Bytes) OBVIOUS
<1>7. CASE h \in DOMAIN Routes /\ Answer(r) \in {Header(200, what, l), FileAnswer(200, what, l)}
  BY <1>2, <1>5, <1>7
<1>8. CASE Page(r) \in files /\ Answer(r) = FileAnswer(202, Page(r), l) BY <1>1, <1>5, <1>8
<1>9. CASE Answer(r) = Header(404, missing, l) BY <1>3, <1>5, <1>9
<1> QED BY <1>4, <1>6, <1>7, <1>8, <1>9

\* There is an answer to what is refused.
LEMMA RefusedAnswered ==
  ASSUME RefusalsAnswered, NEW r \in Requests, ~Accepted(r), files \in FileSets
  PROVE  Answer(r) # <<>>
<1>1. \A s \in files : s \in Whats BY DEF Whats
<1>2. Handler(r) \in DOMAIN Routes => Routes[Handler(r)][2] \in Whats BY DEF Whats
<1>3. Linger(r) \in BOOLEAN BY DEF Linger
<1>4. ASSUME NEW status \in {200, 202, 404}, NEW what \in Whats
      PROVE  /\ Header(status, what, Linger(r)) # <<>>
             /\ FileAnswer(status, what, Linger(r)) # <<>>
  BY <1>3, AnswerBytes
<1> DEFINE missing == "404 not found"
<1>5. missing \in Whats BY DEF Whats
<1>6. CASE Handler(r) \in DOMAIN Routes
  <2>1. Routes[Handler(r)][1] = "send" /\ Routes[Handler(r)][2] \notin LongTexts
    BY <1>6 DEF RefusalsAnswered
  <2>2. Answer(r) = Header(200, Routes[Handler(r)][2], Linger(r))
    BY <1>6, <2>1 DEF Answer
  <2> QED BY <1>2, <1>4, <1>6, <2>2
<1>7. CASE Handler(r) \notin DOMAIN Routes /\ Page(r) \in files
  <2>1. Answer(r) = FileAnswer(202, Page(r), Linger(r)) BY <1>7 DEF Answer
  <2> QED BY <1>1, <1>4, <1>7, <2>1
<1>8. CASE Handler(r) \notin DOMAIN Routes /\ Page(r) \notin files
  <2>1. Answer(r) = Header(404, missing, Linger(r)) BY <1>8 DEF Answer
  <2> HIDE DEF missing
  <2>2. Header(404, missing, Linger(r)) # <<>> BY <1>4, <1>5
  <2> QED BY <2>1, <2>2
<1> QED BY <1>6, <1>7, <1>8

LEMMA ProcessAnswer ==
  ASSUME WholeBody, RefusalsAnswered, CutInv, SendInv, request \in Requests, Answering, Process
  PROVE  Answering'
<1> DEFINE q == ProcessRead(req)
           s == [res EXCEPT !.m_linger = res.m_linger \/ q.m_linger]
           h == <<q.m_method, q.m_url>>  l == Linger(request)
<1>1. /\ pc = "read" /\ UNCHANGED <<files, request, unread, sock, got>> /\ req' = q
      /\ \/ q.ret = "NO_REQUEST" /\ pc' = "in" /\ res' = s
         \/ q.ret # "NO_REQUEST" /\ pc' = "out" /\ HandleRequest(q, s)
  BY DEF Process
<1>2. Reading BY <1>1 DEF Answering, Responding, Idle
<1>3. /\ Taken \in Nat /\ Len(request) \in Nat /\ Taken <= Len(request)
      /\ Len(Arrived) = Taken /\ Len(unread) = Len(request) - Taken
      /\ unread \in Seq(Symbols)
  BY <1>1, <1>2, ArrivedRead
<1>4. Pending(q, Arrived, request) \/ Complete(q, Arrived, request) \/ Refused(q, request)
  BY <1>1, <1>2, ArrivedRead
<1>5. ResType(s) /\ (s.m_linger <=> res.m_linger \/ q.m_linger)
  BY LingerPassedOn DEF SendInv
<1>6. got = <<>> /\ sock = <<>> /\ m_read_idx(req) = Taken /\ (res.m_linger => l)
  BY <1>2 DEF Reading
<1>7. files \in FileSets BY DEF SendInv
<1>8. l \in BOOLEAN BY DEF Linger
<1>9. s.m_linger \in BOOLEAN BY <1>5 DEF ResType
<1>10. Linger(request)' = l /\ Taken' = Taken /\ Answer(request)' = Answer(request)
       /\ Accepted(request)' = Accepted(request)
  BY <1>1 DEF Linger, Accepted, Taken, Answer, Handler, Page
<1> HIDE DEF q, s, l
<1>11. CASE Pending(q, Arrived, request)
  <2>1. q.ret = "NO_REQUEST" /\ (q.m_linger => l) /\ Len(Arrived) < Len(request)
    BY <1>11 DEF Pending, l
  <2>2. pc' = "in" /\ res' = s BY <1>1, <2>1
  <2>3. unread # <<>>
    <3>1. Len(unread) > 0 BY <1>3, <2>1
    <3> QED BY <3>1
  <2>4. m_read_idx(req)' = m_read_idx(req)
    <3>1. Parsing(req) BY <1>1 DEF CutInv
    <3>2. m_read_idx(req') = m_read_idx(req)
      BY <1>1, <3>1, ProcessReadFinal, StartFields, FinalFields DEF q
    <3> QED BY <3>2 DEF m_read_idx
  <2>5. res'.m_linger => l BY <1>5, <1>6, <2>1, <2>2
  <2>6. Reading' BY <1>1, <1>6, <1>10, <2>2, <2>3, <2>4, <2>5 DEF Reading
  <2> QED BY <2>6 DEF Answering
<1>12. CASE Complete(q, Arrived, request) \/ Refused(q, request)
  <2>1. q.ret # "NO_REQUEST" BY <1>12 DEF Complete, Refused
  <2>2. pc' = "out" /\ HandleRequest(q, s) BY <1>1, <2>1
  <2>3. q.m_linger = l /\ s.m_linger = l
    <3>1. CASE Complete(q, Arrived, request)
      <4>1. q.m_linger = l BY <3>1 DEF Complete, l
      <4>2. s.m_linger <=> l BY <1>5, <1>6, <4>1
      <4> QED BY <1>8, <1>9, <4>1, <4>2
    <3>2. CASE Refused(q, request)
      <4>1. q.m_linger = FALSE /\ ~Accepted(request) BY <3>2 DEF Refused
      <4>2. l = FALSE BY <4>1 DEF l, Linger
      <4>3. ~s.m_linger BY <1>5, <1>6, <4>1, <4>2
      <4> QED BY <1>9, <4>1, <4>2, <4>3
    <3> QED BY <1>12, <3>1, <3>2
  <2>4. Reply(h, q.m_url, l) = Answer(request)
    <3>1. q.m_url = Page(request) BY <1>12 DEF Complete, Refused
    <3>2. CASE q.m_method = request[1][1]
      <4>1. h = Handler(request) BY <3>1, <3>2 DEF Handler
      <4> HIDE DEF h
      <4> QED BY <3>1, <4>1 DEF Reply, Answer, l
    <3>3. CASE q.m_method # request[1][1]
      <4>1. Page(request) = "garbled" BY <1>12, <3>3 DEF Complete, Refused
      <4>2. h \notin DOMAIN Routes /\ Handler(request) \notin DOMAIN Routes
        <5>1. h[2] = "garbled" /\ Handler(request)[2] = "garbled" BY <3>1, <4>1 DEF Handler
        <5> HIDE DEF h
        <5> QED BY <5>1, RequestAssumption
      <4> HIDE DEF h
      <4> QED BY <3>1, <4>2 DEF Reply, Answer, l
    <3> QED BY <3>2, <3>3
  <2>5. /\ ResType(res')
        /\ \/ res'.bytes_to_send = 0 /\ Answer(request) = <<>>
           \/ /\ Underway(res') /\ res'.bytes_have_send = 0
              /\ Whole(res') = Answer(request)
    BY <1>5, <1>7, <2>2, <2>3, <2>4, HandleRequestResult
  <2>6. Sent' = <<>> BY <1>1, <1>6 DEF Sent
  <2>7. Accepted(request) => unread = <<>>
    <3> SUFFICES ASSUME Accepted(request) PROVE unread = <<>>
      OBVIOUS
    <3>1. Len(Arrived) = Len(request) BY <1>12 DEF Complete, Refused
    <3>2. Len(unread) = 0 BY <1>3, <3>1
    <3> QED BY <1>3, <3>2
  <2>8. Accepted(request) \/ Answer(request) # <<>> BY <1>7, RefusedAnswered
  <2>9. CASE res'.bytes_to_send = 0 /\ Answer(request) = <<>>
    <3>1. Responding'
      BY <1>1, <1>10, <2>2, <2>3, <2>6, <2>7, <2>8, <2>9 DEF Responding, l
    <3> QED BY <3>1 DEF Answering
  <2>10. CASE /\ Underway(res') /\ res'.bytes_have_send = 0
              /\ Whole(res') = Answer(request)
    <3>1. SubSeq(Whole(res'), 1, res'.bytes_have_send) = <<>>
      <4>1. Whole(res') \in Seq(Bytes) BY <2>5, <2>10, WholeIs
      <4> DEFINE w == Whole(res')
      <4> HIDE DEF w
      <4>2. w \in Seq(Bytes) BY <4>1 DEF w
      <4>3. SubSeq(w, 1, 0) = <<>> BY <4>2
      <4> QED BY <2>10, <4>3 DEF w
    <3>2. res'.bytes_to_send > 0 BY <2>10 DEF Underway
    <3>3. Whole(res)' = Whole(res') BY DEF Whole
    <3>4. Responding'
      BY <1>1, <1>10, <2>2, <2>3, <2>6, <2>7, <2>10, <3>1, <3>2, <3>3 DEF Responding, l
    <3> QED BY <3>4 DEF Answering
  <2> QED BY <2>5, <2>9, <2>10
<1> QED BY <1>4, <1>11, <1>12

LEMMA WriteNothingAnswer ==
  ASSUME SendInv, Answering, WriteNothing
  PROVE  Answering'
<1>1. /\ pc = "out" /\ res.bytes_to_send = 0 /\ pc' = "in"
      /\ req' = FreshReq /\ res' = ResetRes(res)
      /\ UNCHANGED <<files, request, unread, sock, got>>
  BY DEF WriteNothing, InitConn
<1>2. Responding BY <1>1 DEF Answering, Reading, Idle
<1>3. Answer(request) = <<>> /\ Sent = <<>> /\ Accepted(request) /\ unread = <<>>
  BY <1>1, <1>2 DEF Responding
<1>4. res'.m_linger = FALSE BY <1>1, ResetResult DEF SendInv
<1>5. Answer(request)' = Answer(request) /\ Sent' = Sent BY <1>1 DEF Answer, Sent
<1> QED BY <1>1, <1>3, <1>4, <1>5 DEF Answering, Idle

\* What went out stays a beginning of the response, and becomes all of it.
LEMMA WriteAnswer ==
  ASSUME WholeHead, SendInv, Answering, pc \in {"out", "write"}, res.bytes_to_send > 0,
         NEW n \in 1..res.bytes_to_send, Takes(n)
  PROVE  LET piece == SubSeq(Gathered(res), 1, n)
         IN /\ got \o (sock \o piece) = SubSeq(Answer(request), 1, res.bytes_have_send + n)
            /\ Whole(res) = Answer(request)
            /\ n = res.bytes_to_send => got \o (sock \o piece) = Answer(request)
            /\ req.m_linger = Linger(request) /\ (Accepted(request) => unread = <<>>)
<1> DEFINE p == SubSeq(Gathered(res), 1, n)  w == Whole(res)  h == res.bytes_have_send
<1>1. Responding BY DEF Answering, Reading, Idle
<1>2. /\ req.m_linger = Linger(request) /\ (Accepted(request) => unread = <<>>)
      /\ w = Answer(request) /\ got \o sock = SubSeq(w, 1, h)
  <2>1. res.bytes_to_send # 0 OBVIOUS
  <2>2. /\ req.m_linger = Linger(request) /\ (Accepted(request) => unread = <<>>)
        /\ w = Answer(request) /\ Sent = SubSeq(w, 1, h)
    BY <1>1, <2>1 DEF Responding
  <2> HIDE DEF w, h
  <2> QED BY <2>2 DEF Sent
<1>3. p \in Seq(Bytes) /\ SubSeq(w, 1, h) \o p = SubSeq(w, 1, h + n) BY WriteRound
<1>4. sock \in Seq(Bytes) /\ got \in Seq(Bytes) BY DEF SendInv
<1>5. ResType(res) /\ Underway(res) BY DEF SendInv
<1>6. w \in Seq(Bytes) /\ Len(w) = Total(res) BY <1>5, WholeIs
<1>7. n = res.bytes_to_send => h + n = Len(w) BY <1>5, <1>6 DEF Underway
<1> HIDE DEF p, w, h
<1>8. got \o (sock \o p) = SubSeq(w, 1, h + n)
  <2>1. (got \o sock) \o p = got \o (sock \o p)
    <3>1. got \in Seq(Bytes) /\ sock \in Seq(Bytes) /\ p \in Seq(Bytes) BY <1>3, <1>4
    <3> QED BY ONLY <3>1, ConcatAssociative
  <2> QED BY <1>2, <1>3, <2>1
<1>9. n = res.bytes_to_send => SubSeq(w, 1, h + n) = w BY <1>6, <1>7
<1> QED BY <1>2, <1>8, <1>9 DEF p, w, h

LEMMA WriteSomeAnswer ==
  ASSUME WholeHead, SendInv, Answering, WriteSome
  PROVE  Answering'
<1>1. PICK n \in 1..(res.bytes_to_send - 1) :
        Takes(n) /\ sock' = sock \o SubSeq(Gathered(res), 1, n) /\ res' = Advance(res, n)
  BY DEF WriteSome
<1>2. /\ pc \in {"out", "write"} /\ res.bytes_to_send > 0 /\ pc' = "write"
      /\ UNCHANGED <<files, got, req, request, unread>>
  BY DEF WriteSome
<1>3. res.bytes_to_send \in Nat BY WriterAssumption DEF SendInv, ResType
<1>4. n \in 1..res.bytes_to_send /\ n < res.bytes_to_send BY <1>3
<1>5. /\ res'.bytes_to_send > 0 /\ res'.bytes_have_send = res.bytes_have_send + n
      /\ Whole(res') = Whole(res)
  BY <1>1, <1>2, <1>4, WriteRound DEF Underway
<1>6. /\ got \o sock' = SubSeq(Answer(request), 1, res.bytes_have_send + n)
      /\ Whole(res) = Answer(request)
      /\ req.m_linger = Linger(request) /\ (Accepted(request) => unread = <<>>)
  BY <1>1, <1>2, <1>4, WriteAnswer
<1>7. /\ Answer(request)' = Answer(request) /\ Linger(request)' = Linger(request)
      /\ Accepted(request)' = Accepted(request) /\ Sent' = got \o sock'
      /\ Whole(res)' = Whole(res')
  BY <1>2 DEF Answer, Handler, Page, Linger, Accepted, Sent, Whole
<1>8. Responding' BY <1>2, <1>5, <1>6, <1>7 DEF Responding
<1> QED BY <1>8 DEF Answering

LEMMA WriteLastAnswer ==
  ASSUME WholeHead, SendInv, Answering, WriteLast
  PROVE  Answering'
<1> DEFINE n == res.bytes_to_send  a == Advance(res, n)  g == Gathered(res)
<1>1. /\ pc \in {"out", "write"} /\ res.bytes_to_send > 0 /\ Takes(n)
      /\ sock' = sock \o g /\ UNCHANGED <<files, got, request, unread>>
      /\ \/ /\ req.m_linger /\ pc' = "in" /\ req' = FreshReq
            /\ res' = ResetRes(Unmap(a))
         \/ ~req.m_linger /\ pc' = "closed"
  BY DEF WriteLast
<1>2. n \in Nat /\ n \in 1..res.bytes_to_send
  BY <1>1, WriterAssumption DEF SendInv, ResType
<1>3. g = SubSeq(g, 1, n)
  <2>1. ResType(res) /\ Underway(res) BY <1>1 DEF SendInv
  <2>2. g \in Seq(Bytes) /\ Len(g) = n BY <2>1, GatheredIs
  <2> HIDE DEF g, n
  <2> QED BY <2>2
<1>4. ResType(a) BY <1>1, <1>2, WriteRound
<1>5. /\ got \o sock' = Answer(request) /\ req.m_linger = Linger(request)
      /\ Accepted(request) => unread = <<>>
  <2> HIDE DEF n
  <2>1. n = res.bytes_to_send BY DEF n
  <2> QED BY <1>1, <1>2, <1>3, <2>1, WriteAnswer
<1>6. Answer(request)' = Answer(request) /\ Sent' = got \o sock'
  BY <1>1 DEF Answer, Sent
<1> HIDE DEF a, g, n
<1>7. CASE /\ req.m_linger /\ pc' = "in" /\ req' = FreshReq
           /\ res' = ResetRes(Unmap(a))
  <2>1. res'.m_linger = FALSE BY <1>4, <1>7, UnmapResult, ResetResult
  <2>2. unread = <<>> BY <1>5, <1>7 DEF Linger
  <2> QED BY <1>1, <1>5, <1>6, <1>7, <2>1, <2>2 DEF Answering, Idle
<1>8. CASE pc' = "closed" BY <1>5, <1>6, <1>8 DEF Answering
<1> QED BY <1>1, <1>7, <1>8

LEMMA NobodyAsked ==
  ASSUME request' = <<>>,
         \/ pc' = "closed"
         \/ pc' = "in" /\ Idle' /\ got' = <<>> /\ sock' = <<>>
  PROVE  AnswerInv'
<1>1. request' \notin Requests BY LinesOf
<1> QED BY <1>1 DEF AnswerInv

LEMMA AskAnswer ==
  ASSUME SendInv, AnswerInv, Ask
  PROVE  AnswerInv'
<1>1. /\ pc = "in" /\ pc' = "in" /\ UNCHANGED <<req, res, files, sock>>
      /\ \/ request = <<>>
         \/ request \in Requests /\ got = Answer(request) /\ unread = <<>>
      /\ request' \in Requests \union Broken /\ unread' = request' /\ got' = <<>>
  BY DEF Ask
<1>2. sock = <<>> /\ req = FreshReq /\ res.m_linger = FALSE
  <2>1. CASE request = <<>> BY <1>1, <2>1 DEF AnswerInv, Idle
  <2>2. CASE request \in Requests /\ got = Answer(request) /\ unread = <<>>
    <3>1. Idle /\ Sent = Answer(request)
      BY <1>1, <2>2 DEF AnswerInv, Answering, Reading, Responding
    <3>2. got \o sock = got BY <2>2, <3>1 DEF Sent
    <3>3. got \in Seq(Bytes) /\ sock \in Seq(Bytes) BY DEF SendInv
    <3>4. sock = <<>> BY ONLY <3>2, <3>3, ConcatEqualIffEmpty
    <3> QED BY <3>1, <3>4 DEF Idle
  <2> QED BY <1>1, <2>1, <2>2
<1>3. CASE request' = <<>>
  <2>1. Idle' BY <1>1, <1>2, <1>3 DEF Idle
  <2> QED BY <1>1, <1>2, <1>3, <2>1, NobodyAsked
<1>4. CASE request' # <<>>
  <2>1. ASSUME request' \in Requests PROVE Reading'
    <3>1. Len(request') \in Nat BY <2>1, LinesOf
    <3>2. Taken' = 0 BY <1>1, <3>1 DEF Taken
    <3>3. m_read_idx(req)' = 0 BY <1>1, <1>2, FreshReqFields DEF m_read_idx
    <3> QED BY <1>1, <1>2, <1>4, <3>2, <3>3 DEF Reading
  <2> QED BY <1>4, <2>1 DEF AnswerInv, Answering
<1> QED BY <1>3, <1>4

LEMMA ReadOnceAnswer ==
  ASSUME CutInv, Answering, ReadOnce, request \in Requests
  PROVE  Answering'
<1>1. /\ pc = "in" /\ pc' \in {"read", "dropped"} /\ unread # <<>>
      /\ UNCHANGED <<res, files, request, sock, got>>
  BY DEF ReadOnce
<1>2. PICK n \in 1..Len(unread) :
        /\ req' = Received(n)
        /\ unread' = SubSeq(unread, n + 1, Len(unread))
  BY DEF ReadOnce
<1>3. Reading BY <1>1 DEF Answering, Responding, Idle
<1>4. ReadSoFar /\ Parsing(req) BY <1>1 DEF CutInv
<1>5. unread \in Seq(Symbols) /\ Len(unread) \in Nat
  <2> DEFINE t == Taken  L == Len(request)
  <2>1. t \in Nat /\ L \in Nat /\ t <= L /\ request \in Seq(Symbols)
        /\ unread = SubSeq(request, t + 1, L)
    BY <1>4, LinesOf DEF ReadSoFar
  <2>2. L <= Len(request) BY <2>1
  <2> HIDE DEF t, L
  <2> QED BY <2>1, <2>2, Part
<1> DEFINE e == SubSeq(unread, 1, n)  l == Len(unread)
<1>6. e \in Seq(Symbols) /\ Len(e) = n /\ Len(unread') = Len(unread) - n
  <2> DEFINE z == 0
  <2>1. z \in Nat /\ n \in Nat /\ z <= n /\ n <= l /\ z + 1 = 1 /\ n - z = n /\ l <= Len(unread)
    BY <1>5
  <2> HIDE DEF z, l
  <2>2. SubSeq(unread, z + 1, n) \in Seq(Symbols) /\ Len(SubSeq(unread, z + 1, n)) = n - z
    BY <1>5, <2>1, Part
  <2>3. l \in Nat BY <1>5 DEF l
  <2>4. Len(SubSeq(unread, n + 1, l)) = l - n BY <1>5, <2>1, <2>3, Part
  <2> QED BY <1>2, <2>1, <2>2, <2>4 DEF l
<1>7. req' = Ext(req, e) BY <1>2 DEF Ext, Received
<1> HIDE DEF e
<1>8. m_read_idx(req') = m_read_idx(req) + n BY <1>4, <1>6, <1>7, ExtFields
<1>9. m_read_idx(req)' = m_read_idx(req') BY DEF m_read_idx
<1>10. Taken' = Taken + n
  <2>1. Len(request) \in Nat BY LinesOf
  <2> QED BY <1>1, <1>5, <1>6, <2>1 DEF Taken
<1>11. Linger(request)' = Linger(request) BY <1>1 DEF Linger, Accepted
<1>12. Reading' BY <1>1, <1>3, <1>8, <1>9, <1>10, <1>11 DEF Reading
<1> QED BY <1>12 DEF Answering

\* A request that fits is not cut off.
LEMMA ReadFullNot ==
  ASSUME RequestsFit, CutInv, Answering, request \in Requests
  PROVE  ~ReadFull
<1> SUFFICES ASSUME ReadFull PROVE FALSE
  OBVIOUS
<1>1. /\ pc = "in" /\ unread # <<>>
      /\ m_read_idx(req) >= ReadBuf \/ m_read_idx(req) + Len(unread) >= ReadBuf
  BY DEF ReadFull
<1>2. Reading BY <1>1 DEF Answering, Responding, Idle
<1>3. m_read_idx(req) = Len(request) - Len(unread) BY <1>2 DEF Reading, Taken
<1>4. ReadSoFar BY <1>1 DEF CutInv
<1>5. Len(request) \in Nat /\ Len(request) < ReadBuf /\ ReadBuf \in Nat
  BY LinesOf, ConnAssumption DEF RequestsFit
<1>6. Taken \in 0..Len(request) BY <1>4 DEF ReadSoFar
<1>7. m_read_idx(req) \in Nat /\ m_read_idx(req) <= Len(request)
  BY <1>3, <1>5, <1>6 DEF Taken
<1>8. Len(unread) = Len(request) - Taken
  <2> DEFINE t == Taken  L == Len(request)
  <2>1. t \in Nat /\ L \in Nat /\ t <= L /\ request \in Seq(Symbols)
        /\ unread = SubSeq(request, t + 1, L)
    BY <1>4, LinesOf DEF ReadSoFar
  <2>2. L <= Len(request) BY <2>1
  <2> HIDE DEF t, L
  <2> QED BY <2>1, <2>2, Part DEF t, L
<1> QED BY <1>1, <1>3, <1>5, <1>6, <1>7, <1>8

\* Steps that leave alone what was asked and what was sent.
LEMMA SameAnswers ==
  ASSUME AnswerInv, UNCHANGED <<req, res, files, request, unread>>,
         got' \o sock' = got \o sock,
         UNCHANGED <<sock, got>> \/ sock # <<>>,
         pc' = pc \/ (pc = "write" /\ pc' = "out")
  PROVE  AnswerInv'
<1>1. /\ Answer(request)' = Answer(request) /\ Linger(request)' = Linger(request)
      /\ Accepted(request)' = Accepted(request) /\ Sent' = Sent /\ Taken' = Taken
      /\ m_read_idx(req)' = m_read_idx(req) /\ Whole(res)' = Whole(res)
  BY DEF Answer, Handler, Page, Linger, Accepted, Sent, Taken, m_read_idx, Whole
<1>2. CASE request = <<>>
  <2>1. pc' = pc BY <1>2 DEF AnswerInv
  <2>2. pc = "in" => UNCHANGED <<sock, got>> BY <1>2 DEF AnswerInv
  <2>3. request' \notin Requests BY <1>2, LinesOf
  <2> QED BY <1>2, <2>1, <2>2, <2>3 DEF AnswerInv, Idle
<1>3. CASE request \in Requests
  <2>1. Reading => Reading' BY <1>1 DEF Reading
  <2>2. Responding => Responding' BY <1>1 DEF Responding
  <2>3. Idle => Idle' BY DEF Idle
  <2>4. Answering' BY <1>1, <1>3, <2>1, <2>2, <2>3 DEF AnswerInv, Answering
  <2>5. request' # <<>> BY <1>3, LinesOf
  <2> QED BY <2>4, <2>5 DEF AnswerInv
<1>4. CASE request # <<>> /\ request \notin Requests BY <1>4 DEF AnswerInv
<1> QED BY <1>2, <1>3, <1>4

LEMMA NextAnswer ==
  ASSUME WholeBody, WholeHead, RequestsFit, RefusalsAnswered,
         CutInv, SendInv, AnswerInv, [Next]_vars
  PROVE  AnswerInv'
<1>0. ResType(res) BY DEF SendInv
<1>1. CASE Connect
  <2>1. /\ res' = ResetRes(res) /\ req' = FreshReq /\ pc' = "in" /\ sock' = <<>>
        /\ request' = <<>> /\ unread' = <<>> /\ got' = <<>>
    BY <1>1 DEF Connect, InitConn
  <2>2. Idle' BY <1>0, <2>1, ResetResult DEF Idle
  <2> QED BY <2>1, <2>2, NobodyAsked
<1>2. CASE Ask BY <1>2, AskAnswer
<1>3. CASE Receive
  <2>1. got' \o sock' = got \o sock BY <1>3, ReceiveSend
  <2> QED BY <1>3, <2>1, SameAnswers DEF Receive
<1>4. CASE HangUp BY <1>4, NobodyAsked DEF HangUp
<1>5. CASE ReadFails \/ WriteError BY <1>5, NobodyAsked DEF ReadFails, WriteError
<1>6. CASE WriteAgain BY <1>6, SameAnswers DEF WriteAgain
<1>7. CASE UNCHANGED vars BY <1>7, SameAnswers DEF vars
<1>8. CASE \/ ReadOnce \/ ReadFull \/ Process \/ WriteNothing \/ WriteSome \/ WriteLast
  <2>1. /\ request' = request
        /\ \/ pc = "in" /\ unread # <<>>
           \/ pc \in {"read", "out", "write"}
    BY <1>8 DEF ReadOnce, ReadFull, Process, WriteNothing, WriteSome, WriteLast
  <2>2. request # <<>> BY <2>1 DEF AnswerInv, Idle
  <2>3. ASSUME request \in Requests PROVE Answering'
    <3>1. Answering BY <2>3 DEF AnswerInv
    <3>2. ~ReadFull BY <2>3, <3>1, ReadFullNot
    <3> QED BY <1>8, <2>3, <3>1, <3>2, ReadOnceAnswer, ProcessAnswer, WriteNothingAnswer,
            WriteSomeAnswer, WriteLastAnswer
  <2> QED BY <2>1, <2>2, <2>3 DEF AnswerInv
<1> QED BY <1>1, <1>2, <1>3, <1>4, <1>5, <1>6, <1>7, <1>8 DEF Next, Server

LEMMA InitAnswer == Init => AnswerInv
<1> SUFFICES ASSUME Init PROVE AnswerInv
  OBVIOUS
<1>1. pc = "closed" /\ request = <<>> BY DEF Init
<1>2. request \notin Requests BY <1>1, LinesOf
<1> QED BY <1>1, <1>2 DEF AnswerInv

LEMMA AnswersKept ==
  ASSUME WholeBody, WholeHead, RequestsFit, RefusalsAnswered
  PROVE  Spec => [](CutInv /\ SendInv /\ AnswerInv)
<1>1. Init => CutInv /\ SendInv /\ AnswerInv BY InitCut, InitSend, InitAnswer
<1>2. CutInv /\ SendInv /\ AnswerInv /\ [Next]_vars => (CutInv /\ SendInv /\ AnswerInv)'
  BY NextCut, NextSend, NextAnswer
<1> QED BY <1>1, <1>2, PTL DEF Spec

\* The client gets the bytes of the answer to its request in order, none of
\* them twice and none from elsewhere, and all of them by the time the server
\* waits for the next request or closes (write, with the vectors send and
\* render set up), for all requests that fit the read buffer.
THEOREM ResponsesIntact ==
  ASSUME WholeBody, WholeHead, RequestsFit, RefusalsAnswered
  PROVE  Spec => []ResponseIntact
<1>1. CutInv /\ SendInv /\ AnswerInv => ResponseIntact
  <2> SUFFICES ASSUME SendInv, AnswerInv, request \in Requests
               PROVE  /\ IsPrefix(Sent, Answer(request))
                      /\ pc = "closed" \/ (pc = "in" /\ Sent # <<>>) => Sent = Answer(request)
    BY DEF ResponseIntact, Sent
  <2> DEFINE a == Answer(request)
  <2>1. Sent \in Seq(Bytes)
    <3>1. got \in Seq(Bytes) /\ sock \in Seq(Bytes) BY DEF SendInv
    <3> QED BY <3>1, Concat DEF Sent
  <2>2. CASE Sent = a
    <3>1. IsPrefix(Sent, Sent) BY <2>1 DEF IsPrefix
    <3> HIDE DEF a
    <3> QED BY <2>2, <3>1 DEF a
  <2>3. CASE Reading
    <3>1. Sent = <<>> BY <2>3 DEF Reading, Sent
    <3>2. pc \in {"in", "read", "dropped"} BY <2>3 DEF Reading
    <3>3. IsPrefix(<<>>, a)
      <4>1. a \in Seq(Bytes) BY AnswerType DEF SendInv
      <4> HIDE DEF a
      <4> QED BY <4>1 DEF IsPrefix
    <3> QED BY <3>1, <3>2, <3>3
  <2>4. CASE Responding /\ Sent # a
    <3>1. /\ res.bytes_to_send > 0 /\ Whole(res) = a /\ pc \in {"out", "write"}
          /\ Sent = SubSeq(a, 1, res.bytes_have_send)
      BY <2>4 DEF Responding
    <3>2. Underway(res) /\ ResType(res) BY <3>1 DEF SendInv
    <3>3. /\ a \in Seq(Bytes) /\ Len(a) = Total(res) /\ res.bytes_have_send \in Nat
          /\ res.bytes_to_send \in Nat
      BY <3>1, <3>2, WholeIs
    <3>4. res.bytes_have_send <= Len(a) BY <3>2, <3>3 DEF Underway
    <3> QED BY <2>1, <3>1, <3>3, <3>4 DEF IsPrefix
  <2> QED BY <2>2, <2>3, <2>4 DEF AnswerInv, Answering
<1> QED BY <1>1, AnswersKept, PTL

\* process() finds no request only in one that is incomplete
\* (http_coonection.h:63), if a body comes in one piece.
THEOREM NoRequestMeansIncomplete ==
  ASSUME WholeBody, WholeHead, RequestsFit, RefusalsAnswered
  PROVE  Spec => []NoRequestIsIncomplete
<1>1. CutInv /\ SendInv /\ AnswerInv => NoRequestIsIncomplete
  <2> SUFFICES ASSUME AnswerInv, request \in Requests, pc = "in", m_read_idx(req) > 0
               PROVE  unread # <<>>
    BY DEF NoRequestIsIncomplete
  <2>1. req # FreshReq BY FreshReqFields
  <2>2. Reading BY <2>1 DEF AnswerInv, Answering, Responding, Idle
  <2> QED BY <2>2 DEF Reading
<1> QED BY <1>1, AnswersKept, PTL
-----------------------------------------------------------------------------
(* The life of a connection.                                               *)

LEMMA LifeStep ==
  ASSUME MapsInv, MapsInv', Next
  PROVE  Life!Next \/ UNCHANGED Life!vars
<1> DEFINE b == res.bytes_to_send
           place == CASE pc = "write" -> "out" [] pc = "dropped" -> "lost" [] OTHER -> pc
<1> SUFFICES Life!Next \/ UNCHANGED <<place, b>> BY DEF Life!vars
<1>0. /\ res = [x \in ResFields |-> res[x]] /\ b \in Nat /\ b' \in Nat
  BY DEF MapsInv
<1>1. CASE Connect
  <2>1. b' = 0 BY <1>0, <1>1, ResetFields DEF Connect, InitConn
  <2>2. place = "closed" /\ place' = "in" BY <1>1 DEF Connect
  <2> QED BY <2>1, <2>2 DEF Life!Next, Life!Open
<1>2. CASE Ask \/ Receive
  <2>1. UNCHANGED <<pc, res>> BY <1>2 DEF Ask, Receive
  <2> QED BY <2>1
<1>3. CASE HangUp
  <2>1. place \in {"in", "out", "lost"} /\ place' = "closed" /\ b' = b
    BY <1>3 DEF HangUp
  <2> QED BY <1>0, <2>1 DEF Life!Next, Life!Close
<1>4. CASE WriteError
  <2>1. b' = b BY <1>0, <1>4, UnmapFields DEF WriteError, ResFields
  <2>2. place = "out" /\ place' = "closed" BY <1>4 DEF WriteError
  <2> QED BY <1>0, <2>1, <2>2 DEF Life!Next, Life!Close
<1>5. CASE ReadOnce
  <2>1. place = "in" /\ place' \in {"read", "lost"} /\ b' = b BY <1>5 DEF ReadOnce
  <2> QED BY <2>1 DEF Life!Next, Life!Read
<1>6. CASE ReadFull \/ ReadFails
  <2>1. place = "in" /\ place' = "closed" /\ b' = b BY <1>6 DEF ReadFull, ReadFails
  <2> QED BY <1>0, <2>1 DEF Life!Next, Life!Close
<1>7. CASE Process
  <2>1. /\ pc = "read"
        /\ \/ pc' = "in" /\ \E l : res' = [res EXCEPT !.m_linger = l]
           \/ pc' = "out"
    BY <1>7 DEF Process
  <2>2. CASE pc' = "in" /\ \E l : res' = [res EXCEPT !.m_linger = l]
    <3>1. b' = b BY <1>0, <2>2 DEF ResFields
    <3>2. place = "read" /\ place' = "in" BY <2>1, <2>2
    <3> QED BY <3>1, <3>2 DEF Life!Next, Life!Process
  <2>3. CASE pc' = "out"
    <3>1. place = "read" /\ place' = "out" BY <2>1, <2>3
    <3> QED BY <1>0, <3>1 DEF Life!Next, Life!Process
  <2> QED BY <2>1, <2>2, <2>3
<1>8. CASE WriteNothing
  <2>1. b' = 0 BY <1>0, <1>8, ResetFields DEF WriteNothing, InitConn
  <2>2. place = "out" /\ place' = "in" BY <1>8 DEF WriteNothing
  <2> QED BY <2>1, <2>2 DEF Life!Next, Life!WriteAll
<1>9. CASE WriteSome
  <2>1. PICK n \in 1..(b - 1) : res' = Advance(res, n) BY <1>9 DEF WriteSome
  <2>2. b' = b - n BY <1>0, <2>1, AdvanceFields
  <2>3. b' \in 1..(b - 1) BY <1>0, <2>2
  <2>4. place = "out" /\ place' = "out" BY <1>9 DEF WriteSome
  <2> QED BY <2>3, <2>4 DEF Life!Next, Life!WriteSome
<1>10. CASE WriteLast
  <2> DEFINE all == Advance(res, b)  done == Unmap(all)
  <2>1. all = [x \in ResFields |-> all[x]] /\ all.bytes_to_send = 0
    BY <1>0, AdvanceFields
  <2>2. /\ pc \in {"out", "write"}
        /\ \/ pc' = "in" /\ res' = ResetRes(done)
           \/ pc' = "closed" /\ res' = done
    BY <1>10 DEF WriteLast
  <2> HIDE DEF all
  <2>3. done = [x \in ResFields |-> done[x]] /\ done.bytes_to_send = 0
    BY <2>1, UnmapFields DEF ResFields
  <2> HIDE DEF done
  <2>4. b' = 0 BY <2>2, <2>3, ResetFields
  <2>5. place = "out" /\ place' \in {"in", "closed"} BY <2>2
  <2> QED BY <1>0, <2>4, <2>5 DEF Life!Next, Life!WriteAll, Life!Close
<1>11. CASE WriteAgain
  <2>1. place = "out" /\ place' = "out" /\ b' = b BY <1>11 DEF WriteAgain
  <2> QED BY <2>1
<1> QED
  BY <1>1, <1>2, <1>3, <1>4, <1>5, <1>6, <1>7, <1>8, <1>9, <1>10, <1>11 DEF Next, Server

\* read_once, process, write and the closing of a connection come in the order
\* in which Proactor is shown to call them (ConnectionsLead), and leave
\* bytes_to_send as it is modelled there, for any requests, routes and files.
THEOREM HandlersLead == Spec => IsConnLife
<1>1. Init => Life!Init BY DEF Init, FirstRes, Life!Init
<1>2. MapsInv /\ MapsInv' /\ [Next]_vars => [Life!Next]_(Life!vars)
  <2> SUFFICES ASSUME MapsInv, MapsInv', [Next]_vars PROVE [Life!Next]_(Life!vars)
    OBVIOUS
  <2>1. CASE Next BY <2>1, LifeStep
  <2>2. CASE UNCHANGED vars BY <2>2 DEF vars, Life!vars
  <2> QED BY <2>1, <2>2
<1> QED BY <1>1, <1>2, InitMaps, NextMaps, PTL DEF Spec, IsConnLife, Life!Spec
=============================================================================
