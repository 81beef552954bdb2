----------------------------- MODULE JsonParser -----------------------------
(***************************************************************************)
(* JSONNode::parse (http/jsonparser.cpp:119-226) on one text after         *)
(* another, whatever they are.                                             *)
(*                                                                         *)
(* The recursion of parseObject and parseArray is a stack of calls; a step *)
(* is one round of the innermost call's loop, or those of findBarcePairs   *)
(* for one brace.  Indices are the code's and count from 0.                *)
(***************************************************************************)
EXTENDS JsonNode

CONSTANT Symbols   \* what texts consist of
Texts == Seq(Symbols)

VARIABLES
  text,     \* s
  at,       \* i and stack of findBarcePairs
  stack,
  pairs,    \* bracePairs: opening index -> closing index
  calls,    \* the calls of parseObject and parseArray, the innermost last
  result    \* what parse returned or threw

vars == <<text, at, stack, pairs, calls, result>>

Pending == [type |-> "PENDING"]

-----------------------------------------------------------------------------
At(i) == text[i + 1]

\* Where the loops that look for a character of C, and past blanks, end.
Scan(end, C) ==
  [i \in Nat |-> IF i >= end THEN i ELSE Min({j \in i..end : j = end \/ At(j) \in C})]
SkipBlanks(end) ==
  [i \in Nat |-> IF i >= end THEN i ELSE Min({j \in i..end : j = end \/ At(j) # Blank})]

\* The value of the code's characters from i to j - 1.
Chars(i, j) == SubSeq(text, i + 1, j)

\* Slip: the oldest opening is taken off, as from a queue.
Matches_Oldest(i) ==
  /\ pairs' = Put(pairs, Head(stack), i)
  /\ stack' = Tail(stack)

\* The closing that ends an opening is the one that finds it on the back of
\* the stack, whatever the two are and whether in a string or not.
Matches(i) ==
  /\ pairs' = Put(pairs, Last(stack), i)
  /\ stack' = Front(stack)

\* The rounds of findBarcePairs up to the next brace.  What back() and
\* pop_back() do to an empty stack is undefined, and not followed further.
NextBrace == Scan(Len(text), Opening \union Closing)[at]

FindBrace ==
  /\ calls = <<>> /\ result = Pending /\ NextBrace < Len(text)
  /\ at' = NextBrace + 1
  /\ \/ /\ At(NextBrace) \in Opening
        /\ stack' = Append(stack, NextBrace) /\ UNCHANGED <<pairs, result>>
     \/ /\ At(NextBrace) \in Closing /\ stack # <<>>
        /\ Matches(NextBrace) /\ UNCHANGED result
     \/ /\ At(NextBrace) \in Closing /\ stack = <<>>
        /\ result' = [type |-> "UNDEFINED"] /\ UNCHANGED <<stack, pairs>>
  /\ UNCHANGED <<text, calls>>

\* bracePair[i]: a key that is not there is inserted with the value 0.
Pair(ps, i) == IF i \in DOMAIN ps THEN ps[i] ELSE 0

ObjectCall(i, end) ==
  [of |-> "object", i |-> i, end |-> end, node |-> ObjectNode(<<>>), key |-> <<>>]
\* Slip: parseArray's node is made as parseObject's is.
ArrayCall_Object(i, end) ==
  [of |-> "array", i |-> i + 1, end |-> end, node |-> ObjectNode(<<>>), key |-> <<>>]

ArrayCall(i, end) ==
  [of |-> "array", i |-> i + 1, end |-> end, node |-> ArrayNode(<<>>), key |-> <<>>]

\* The call for the container whose opening is at i.
Call(i, ps) ==
  IF i < Len(text) /\ At(i) = LBracket THEN ArrayCall(i, Pair(ps, i))
  ELSE ObjectCall(i, Pair(ps, i))

-----------------------------------------------------------------------------
Cur == Last(calls)
Running(of) == calls # <<>> /\ Cur.of = of
SetCur(c) == calls' = Front(calls) \o <<c>>

\* Past a comma, if there is one before the end.
SkipComma(i, end) == IF i < end /\ At(i) = Comma THEN i + 1 ELSE i

\* Slip: the caller's index is left at the nested container's opening.
Resume_Inside(c, v) ==
  [c EXCEPT !.node = SetMember(@, c.key, v), !.i = SkipComma(c.i, c.end)]

\* Slip: bracePair is asked for an index that holds no brace.
Resume_OffByOne(c, v) ==
  [c EXCEPT !.node = SetMember(@, c.key, v),
            !.i = SkipComma(Pair(pairs, c.i + 1) + 1, c.end)]

\* The caller's side of a nested call that returned v.
Resume(c, v) ==
  [c EXCEPT !.node = SetMember(@, c.key, v),
            !.i = SkipComma(Pair(pairs, c.i) + 1, c.end)]

Return(v) ==
  IF Len(calls) = 1 THEN calls' = <<>> /\ result' = v
  ELSE /\ calls' = Append(SubSeq(calls, 1, Len(calls) - 2),
                          Resume(calls[Len(calls) - 1], v))
       /\ UNCHANGED result

\* Nothing on the way out catches an exception.
Throw(what) == calls' = <<>> /\ result' = Thrown(what)

\* parseObject: where the next key opens and closes, its colon and its value.
KeyOpens(c) == Scan(c.end, {Quote})[c.i]
KeyCloses(c) == Scan(c.end, {Quote})[KeyOpens(c) + 1]
ColonAt(c) == Scan(c.end, {Colon})[KeyCloses(c) + 1]
ValueAt(c) == SkipBlanks(c.end)[ColonAt(c) + 1]
Key(c) == Chars(KeyOpens(c) + 1, KeyCloses(c))

HasKey(c) == KeyOpens(c) < c.end
Complete(c) == HasKey(c) /\ KeyCloses(c) < c.end /\ ColonAt(c) < c.end /\ ValueAt(c) < c.end

\* No further key: the object is complete.
ObjectEnds ==
  /\ Running("object") /\ ~HasKey(Cur)
  /\ Return(Cur.node)
  /\ UNCHANGED <<text, at, stack, pairs>>

\* "Unterminated key", "Expected ':' after key", "Expected value after ':'".
ObjectThrows ==
  /\ Running("object") /\ HasKey(Cur) /\ ~Complete(Cur)
  /\ Throw("runtime_error")
  /\ UNCHANGED <<text, at, stack, pairs>>

\* A nested container: its call, while the caller's i stays at its opening.
ObjectNested ==
  /\ Running("object") /\ Complete(Cur)
  /\ LET v == ValueAt(Cur)
     IN /\ At(v) \in Opening
        /\ calls' = Front(calls) \o
             <<[Cur EXCEPT !.key = Key(Cur), !.i = v], Call(v, pairs)>>
  /\ UNCHANGED <<text, at, stack, pairs, result>>

\* Any other value: what is there up to a comma or a closing brace.
ObjectValue ==
  /\ Running("object") /\ Complete(Cur) /\ At(ValueAt(Cur)) \notin Opening
  /\ \E j \in {Scan(Cur.end, {Comma, RBrace})[ValueAt(Cur)]} :
     \E chars \in {Chars(ValueAt(Cur), j)} :
       LET value == GetValue(chars)
       IN IF value.type = "THROWN" THEN Throw(value.what)
          ELSE /\ SetCur([Cur EXCEPT !.node = SetMember(@, Key(Cur), value),
                                     !.i = SkipComma(j, Cur.end)])
               /\ UNCHANGED result
  /\ UNCHANGED <<text, at, stack, pairs>>

\* An element is what stands before the next comma, whatever it is.  The
\* blanks are skipped without a look at the end.
ArrayElement ==
  /\ Running("array") /\ Cur.i < Cur.end
  /\ \E v \in {SkipBlanks(Len(text))[Cur.i]} :
     \E j \in {Scan(Cur.end, {Comma})[v]} :
     \E chars \in {Chars(v, j)} :
       LET value == GetValue(chars)
       IN IF value.type = "THROWN" THEN Throw(value.what)
          ELSE /\ SetCur([Cur EXCEPT !.node = AppendArray(@, value), !.i = j + 1])
               /\ UNCHANGED result
  /\ UNCHANGED <<text, at, stack, pairs>>

ArrayEnds ==
  /\ Running("array") /\ Cur.i >= Cur.end
  /\ Return(Cur.node)
  /\ UNCHANGED <<text, at, stack, pairs>>

-----------------------------------------------------------------------------
\* All pairs are found: the call for the first character that is no blank.
Start ==
  /\ calls = <<>> /\ result = Pending /\ NextBrace = Len(text)
  /\ calls' = <<Call(SkipBlanks(Len(text))[0], pairs)>>
  /\ UNCHANGED <<text, at, stack, pairs, result>>

ParseStep ==
  \/ FindBrace \/ Start
  \/ ObjectEnds \/ ObjectThrows \/ ObjectNested \/ ObjectValue
  \/ ArrayElement \/ ArrayEnds

Init ==
  /\ text \in Texts
  /\ at = 0 /\ stack = <<>> /\ pairs = <<>> /\ calls = <<>> /\ result = Pending

\* parse has returned, and is called for another text.
ParseAnother ==
  /\ result # Pending
  /\ text' \in Texts
  /\ at' = 0 /\ stack' = <<>> /\ pairs' = <<>> /\ calls' = <<>> /\ result' = Pending

Next == ParseStep \/ ParseAnother

Spec == Init /\ [][Next]_vars

-----------------------------------------------------------------------------
\* Type correctness.  A call builds a node of the type its text asks for, and
\* neither its index nor its end leaves the text: only s[s.length()], which
\* is a NUL, may be read beyond it.
JsonTypeOK ==
  /\ at \in 0..Len(text) /\ \A k \in DOMAIN stack : stack[k] \in 0..(at - 1)
  /\ \A i \in DOMAIN pairs : i \in 0..(Len(text) - 1) /\ pairs[i] \in (i + 1)..(Len(text) - 1)
  /\ \A k \in DOMAIN calls :
       /\ calls[k].i \in 0..Len(text) /\ calls[k].end \in 0..Len(text)
       /\ calls[k].of = "array" <=> calls[k].node.type = "ARRAY"
       /\ calls[k].of = "object" <=> calls[k].node.type = "OBJECT"
  /\ result.type \in {"PENDING", "OBJECT", "ARRAY", "THROWN", "UNDEFINED"}
  /\ result # Pending => calls = <<>>

\* The calls are nested as the containers are: a call stays between its
\* opening and its end, and that lies before its caller's end.  bracePair is
\* indexed without a look (jsonparser.cpp:179-185) and holds a 0 for what it
\* does not know: a nested call with such an end would put its caller's index
\* back to 1.
CallsNest ==
  \A k \in 2..Len(calls) :
    LET up == calls[k - 1]
    IN up.i < calls[k].end /\ calls[k].end < up.end
       /\ up.i <= calls[k].i /\ calls[k].i <= calls[k].end + 1

\* What parse has left to do at most.  A round moves on the index of the
\* innermost call, and what a call has passed its caller passes over when it
\* returns: two rounds per character are enough, after one per brace.
Remaining ==
  CASE calls # <<>> -> 2 * (Len(text) + 1 - Cur.i) + Len(calls)
    [] calls = <<>> /\ result = Pending -> 2 * Len(text) + 4 + Len(text) - at
    [] OTHER -> 0

\* Each step leaves less to do, so that no text makes parse read one piece of
\* it again for ever.
Advances == [][ParseStep => Remaining' < Remaining]_vars

\* parse always returns, with a node or an exception, whatever the client
\* sent: it runs in a pool thread (http_connection.cpp:343), which would not
\* take another request.
Returns == []<>(result # Pending)

\* "@throws std::runtime_error on parse errors" (jsonparser.h:496): what parse
\* throws is a runtime_error.
OnlyRuntimeErrors ==
  result.type = "THROWN" => result.what = "runtime_error"
=============================================================================
