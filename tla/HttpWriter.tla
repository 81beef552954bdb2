----------------------------- MODULE HttpWriter -----------------------------
(***************************************************************************)
(* The response: send, render and unmap of HttpResponse (http_types.cpp),  *)
(* and the arithmetic of write() on the two I/O vectors                    *)
(* (http_connection.cpp:418-431).  A response is HeadLen symbols in the    *)
(* write buffer, which for text is all of it, and the FileLen symbols of a *)
(* mapped file.  A base is an offset into its buffer, from 0.              *)
(***************************************************************************)
EXTENDS Integers, Sequences

CONSTANTS
  HeadLen,   \* what fills the write buffer, which is below its size
  FileLen,   \* the size of a file
  LongTexts  \* texts that do not fit the write buffer behind their headers

ASSUME WriterAssumption == HeadLen \in Nat \ {0} /\ FileLen \in Nat \ {0}

\* The write buffer after the status line, the headers and the text.
Header(status, what, linger) == [i \in 1..HeadLen |-> <<status, what, linger, i>>]

\* What init() leaves: it resets neither the I/O vectors nor m_file_address,
\* the address of the mapped file, here its name.
ResetRes(r) ==
  [r EXCEPT !.m_write_buf = <<>>, !.bytes_to_send = 0, !.bytes_have_send = 0,
            !.m_linger = FALSE]

\* users is one large array of a fresh process, all zero.
FirstRes ==
  [m_write_buf |-> <<>>, bytes_to_send |-> 0, bytes_have_send |-> 0, m_linger |-> FALSE,
   iov0 |-> [base |-> 0, len |-> 0], iov1 |-> [base |-> 0, len |-> 0],
   m_iv_count |-> 0, m_file |-> "none"]

m_write_idx(r) == Len(r.m_write_buf)

\* send(): when the text does not fit, the headers stay in the write buffer
\* and nothing is set up to be sent.
Send(r, status, text) ==
  LET whole == Header(status, text, r.m_linger)
  IN IF text \in LongTexts
     THEN [r EXCEPT !.m_write_buf = SubSeq(whole, 1, HeadLen - 1), !.m_iv_count = 0,
                    !.bytes_to_send = 0, !.bytes_have_send = 0]
     ELSE [r EXCEPT !.m_write_buf = whole,
                    !.bytes_to_send = HeadLen, !.bytes_have_send = 0,
                    !.iov0 = [base |-> 0, len |-> HeadLen], !.m_iv_count = 1]

\* render() of a file that can be mapped.
Render(r, status, file) ==
  [r EXCEPT !.m_write_buf = Header(status, file, r.m_linger),
            !.bytes_to_send = HeadLen + FileLen, !.bytes_have_send = 0,
            !.iov0 = [base |-> 0, len |-> HeadLen],
            !.iov1 = [base |-> 0, len |-> FileLen],
            !.m_iv_count = 2, !.m_file = file]

\* How many mappings unmap() would undo.
Mapped(r) == IF r.m_file = "none" THEN 0 ELSE 1

\* unmap(), which the failing render() calls too.
Unmap(r) == [r EXCEPT !.m_file = "none"]
RenderFails(r) ==
  [Unmap(r) EXCEPT !.m_write_buf = <<>>, !.bytes_to_send = 0, !.bytes_have_send = 0,
                   !.m_iv_count = 0]

\* What the vectors hold: the bytes writev may take.
FileBytes(file, first, last) == [i \in 1..(last - first + 1) |-> <<file, first + i - 1>>]
Gathered(r) ==
  SubSeq(r.m_write_buf, r.iov0.base + 1, r.iov0.base + r.iov0.len)
    \o (IF r.m_iv_count = 2
        THEN FileBytes(r.m_file, r.iov1.base + 1, r.iov1.base + r.iov1.len)
        ELSE <<>>)

\* Slip: the file continues at the count of all bytes sent.
Advance_FromStart(r, n) ==
  LET have == r.bytes_have_send + n
      left == r.bytes_to_send - n
      s == [r EXCEPT !.bytes_have_send = have, !.bytes_to_send = left]
  IN IF have >= r.iov0.len
     THEN [s EXCEPT !.iov0.len = 0, !.iov1 = [base |-> have, len |-> left]]
     ELSE [s EXCEPT !.iov0 = [base |-> have, len |-> r.iov0.len - have]]

\* After writev took n bytes.  The head is taken to be out when the count of
\* all bytes sent reaches the length still in iov0.
Advance(r, n) ==
  LET have == r.bytes_have_send + n
      left == r.bytes_to_send - n
      s == [r EXCEPT !.bytes_have_send = have, !.bytes_to_send = left]
  IN IF have >= r.iov0.len
     THEN [s EXCEPT !.iov0.len = 0,
                    !.iov1 = [base |-> have - m_write_idx(r), len |-> left]]
     ELSE [s EXCEPT !.iov0 = [base |-> have, len |-> r.iov0.len - have]]
=============================================================================
