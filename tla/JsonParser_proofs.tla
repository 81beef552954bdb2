------------------------- MODULE JsonParser_proofs -------------------------
(* Proofs about JsonParser, for texts of any length over any symbols.      *)
EXTENDS JsonParser, FiniteSetTheorems, WellFoundedInduction,
        SequenceTheorems, TLAPS

-----------------------------------------------------------------------------
(* Where the loops over the text end.                                      *)

\* A finite set of natural numbers that has an element has a least one.
LEMMA LeastOf ==
  ASSUME NEW n \in Nat, NEW S \in SUBSET (0..n), S # {}
  PROVE  Min(S) \in S /\ \A y \in S : Min(S) <= y
<1> DEFINE Below(x) == {y \in S : y < x}
           T == {Below(x) : x \in S}
<1>1. IsWellFoundedOn(StrictSubsetOrdering(S), SUBSET S)
  <2>1. IsFiniteSet(0..n) BY FS_Interval
  <2>2. IsFiniteSet(S) BY <2>1, FS_Subset
  <2> QED BY <2>2, FS_FiniteSubsetsOfFinite, FS_StrictSubsetOrderingWellFounded
<1>2. \E A \in T : \A B \in T : ~ (<<B, A>> \in StrictSubsetOrdering(S))
  <2>1. T \subseteq SUBSET S /\ T # {} OBVIOUS
  <2> HIDE DEF T
  <2> QED BY <1>1, <2>1, WFMin
<1>3. PICK x \in S : \A y \in S : ~ (<<Below(y), Below(x)>> \in StrictSubsetOrdering(S))
  BY <1>2
<1>4. ASSUME NEW y \in S, y < x PROVE FALSE
  <2>1. Below(y) \subseteq Below(x)
    <3>1. \A z \in S : z \in Nat OBVIOUS
    <3>2. x \in Nat /\ y \in Nat BY <3>1
    <3>3. ASSUME NEW z \in S, z < y PROVE z < x BY <1>4, <3>1, <3>2, <3>3
    <3> QED BY <3>3
  <2>2. y \in Below(x) /\ y \notin Below(y) BY <1>4
  <2>3. <<Below(y), Below(x)>> \in StrictSubsetOrdering(S)
    BY <2>1, <2>2 DEF StrictSubsetOrdering
  <2> QED BY <1>3, <2>3
<1>5. \A y \in S : x <= y BY <1>4
<1> QED BY <1>5 DEF Min

\* A loop that starts before its end stops there or at the first character it
\* looks for; one that starts at or after it does nothing.
LEMMA ScanStops ==
  ASSUME NEW i \in Nat, NEW end \in Nat, NEW C
  PROVE  LET j == Scan(end, C)[i]
         IN /\ j \in Nat /\ i <= j /\ (i >= end => j = i)
            /\ i <= end => j <= end
            /\ j < end => At(j) \in C
            /\ \A k \in i..(j - 1) : At(k) \notin C
<1> DEFINE S == {j \in i..end : j = end \/ At(j) \in C}
<1>1. CASE i >= end
  BY <1>1 DEF Scan
<1>2. CASE i < end
  <2>1. S \in SUBSET (0..end) /\ end \in S BY <1>2
  <2>2. Scan(end, C)[i] = Min(S) BY <1>2 DEF Scan
  <2> HIDE DEF S
  <2>3. Min(S) \in S /\ \A y \in S : Min(S) <= y BY <2>1, LeastOf
  <2> QED BY <1>2, <2>2, <2>3 DEF S
<1> QED BY <1>1, <1>2

LEMMA BlanksEnd ==
  ASSUME NEW i \in Nat, NEW end \in Nat
  PROVE  LET j == SkipBlanks(end)[i]
         IN /\ j \in Nat /\ i <= j /\ (i >= end => j = i)
            /\ i <= end => j <= end
            /\ \A k \in i..(j - 1) : At(k) = Blank
<1> DEFINE S == {j \in i..end : j = end \/ At(j) # Blank}
<1>1. CASE i >= end
  BY <1>1 DEF SkipBlanks
<1>2. CASE i < end
  <2>1. S \in SUBSET (0..end) /\ end \in S BY <1>2
  <2>2. SkipBlanks(end)[i] = Min(S) BY <1>2 DEF SkipBlanks
  <2> HIDE DEF S
  <2>3. Min(S) \in S /\ \A y \in S : Min(S) <= y BY <2>1, LeastOf
  <2> QED BY <1>2, <2>2, <2>3 DEF S
<1> QED BY <1>1, <1>2

\* The braces and the blank are told apart.
LEMMA Symbolic ==
  /\ \A x \in Opening : x \notin Closing
  /\ Blank \notin Opening \union Closing
  /\ LBracket \in Opening
BY DEF Opening, Closing, LBrace, LBracket, RBrace, RBracket, Blank

-----------------------------------------------------------------------------
(* The pairs of braces.                                                    *)

\* What findBarcePairs knows of the braces before `at': those on the stack in
\* their order, the pairs, which are one in the other or one after the other
\* and none around an opening on the stack; and it has seen every opening.
PairsInv ==
  /\ text \in Texts
  /\ at \in 0..Len(text)
  /\ stack \in Seq(Nat)
  /\ \A k \in DOMAIN stack : stack[k] < at
  /\ \A j, k \in DOMAIN stack : j < k => stack[j] < stack[k]
  /\ \A o \in DOMAIN pairs :
       /\ o \in Nat /\ pairs[o] \in Nat /\ o < pairs[o] /\ pairs[o] < at
       /\ At(pairs[o]) \in Closing
       /\ \A k \in DOMAIN stack : stack[k] < o \/ pairs[o] < stack[k]
  /\ \A o, p \in DOMAIN pairs : o < p => pairs[o] < p \/ pairs[p] < pairs[o]
  /\ \A j \in 0..(at - 1) : At(j) \in Opening =>
       j \in DOMAIN pairs \/ \E k \in DOMAIN stack : stack[k] = j

LEMMA PairsAtFirst ==
  ASSUME text \in Texts, at = 0, stack = <<>>, pairs = <<>>
  PROVE  PairsInv
<1>1. Len(text) \in Nat BY DEF Texts
<1>2. DOMAIN stack = {} /\ DOMAIN pairs = {} /\ stack \in Seq(Nat) OBVIOUS
<1> QED BY <1>1, <1>2 DEF PairsInv

\* An opening goes on the stack.
LEMMA OpeningKept ==
  ASSUME PairsInv, FindBrace, At(NextBrace) \in Opening
  PROVE  PairsInv'
<1> DEFINE i == NextBrace
<1>1. /\ i \in Nat /\ at <= i /\ i < Len(text) /\ Len(text) \in Nat /\ at \in Nat
      /\ \A k \in at..(i - 1) : At(k) \notin Opening
  BY ScanStops DEF PairsInv, Texts, FindBrace, NextBrace
<1>2. /\ at' = i + 1 /\ text' = text /\ pairs' = pairs /\ stack' = Append(stack, i)
  BY Symbolic DEF FindBrace
<1>3. /\ \A j \in Nat : text'[j + 1] = At(j)
  BY <1>2 DEF At
<1> HIDE DEF i
<1> DEFINE n == Len(stack)
<1>4. /\ stack' \in Seq(Nat) /\ n \in Nat /\ DOMAIN stack = 1..n
      /\ DOMAIN stack' = 1..(n + 1) /\ stack'[n + 1] = i
      /\ \A k \in 1..n : stack'[k] = stack[k] /\ stack[k] \in Nat /\ stack[k] < at
  BY <1>1, <1>2 DEF PairsInv
<1> HIDE DEF n
<1>5. \A k \in DOMAIN stack' : stack'[k] < at'
  BY <1>1, <1>2, <1>4
<1>6. \A j, k \in DOMAIN stack' : j < k => stack'[j] < stack'[k]
  <2> SUFFICES ASSUME NEW j \in 1..(n + 1), NEW k \in 1..(n + 1), j < k
               PROVE  stack'[j] < stack'[k]
    BY <1>4
  <2>1. j \in 1..n BY <1>4
  <2>2. CASE k = n + 1 BY <1>1, <1>4, <2>1, <2>2
  <2>3. CASE k \in 1..n BY <1>4, <2>1, <2>3 DEF PairsInv
  <2> QED BY <1>4, <2>2, <2>3
<1>7. \A o \in DOMAIN pairs' :
        /\ o \in Nat /\ pairs'[o] \in Nat /\ o < pairs'[o] /\ pairs'[o] < at'
        /\ text'[pairs'[o] + 1] \in Closing
        /\ \A k \in DOMAIN stack' : stack'[k] < o \/ pairs'[o] < stack'[k]
  <2> SUFFICES ASSUME NEW o \in DOMAIN pairs
               PROVE  /\ o \in Nat /\ pairs[o] \in Nat /\ o < pairs[o] /\ pairs[o] < at'
                      /\ text'[pairs[o] + 1] \in Closing
                      /\ \A k \in 1..(n + 1) : stack'[k] < o \/ pairs[o] < stack'[k]
    BY <1>2, <1>4
  <2>1. /\ o \in Nat /\ pairs[o] \in Nat /\ o < pairs[o] /\ pairs[o] < at
        /\ At(pairs[o]) \in Closing
        /\ \A k \in 1..n : stack[k] < o \/ pairs[o] < stack[k]
    BY <1>4 DEF PairsInv
  <2>2. \A k \in 1..(n + 1) : k \in 1..n \/ k = n + 1 BY <1>4
  <2> QED BY <1>1, <1>2, <1>3, <1>4, <2>1, <2>2 DEF At
<1>8. \A o, p \in DOMAIN pairs' : o < p => pairs'[o] < p \/ pairs'[p] < pairs'[o]
  BY <1>2 DEF PairsInv
<1>9. \A j \in 0..(at' - 1) : text'[j + 1] \in Opening =>
        j \in DOMAIN pairs' \/ \E k \in DOMAIN stack' : stack'[k] = j
  <2>0. 0..(at' - 1) = 0..i BY <1>1, <1>2
  <2> SUFFICES ASSUME NEW j \in 0..i, At(j) \in Opening
               PROVE  j \in DOMAIN pairs \/ \E k \in 1..(n + 1) : stack'[k] = j
    BY <1>2, <1>4, <2>0 DEF At
  <2>1. CASE j = i BY <1>4, <2>1
  <2>2. CASE j \in at..(i - 1) BY <1>1, <2>2
  <2>3. CASE j \in 0..(at - 1)
    <3>1. j \in DOMAIN pairs \/ \E k \in DOMAIN stack : stack[k] = j
      BY <2>3 DEF PairsInv
    <3> QED BY <1>4, <3>1
  <2> QED BY <1>1, <2>1, <2>2, <2>3
<1>10. text' \in Texts /\ at' \in 0..Len(text')
  BY <1>1, <1>2 DEF PairsInv, Texts
<1> QED BY <1>4, <1>5, <1>6, <1>7, <1>8, <1>9, <1>10 DEF PairsInv, At

\* A closing takes an opening off it.
LEMMA PairKept ==
  ASSUME PairsInv, FindBrace, At(NextBrace) \in Closing, stack # <<>>
  PROVE  PairsInv'
<1> DEFINE i == NextBrace
           n == Len(stack)
           s == stack[n]
<1>1. /\ i \in Nat /\ at <= i /\ i < Len(text) /\ Len(text) \in Nat /\ at \in Nat
      /\ \A k \in at..(i - 1) : At(k) \notin Opening
  BY ScanStops DEF PairsInv, Texts, FindBrace, NextBrace
<1>2. /\ at' = i + 1 /\ text' = text /\ stack' = SubSeq(stack, 1, n - 1)
      /\ pairs' = Put(pairs, s, i)
  BY Symbolic DEF FindBrace, Matches, Front, Last
<1>3. /\ \A j \in Nat : text'[j + 1] = At(j)
  BY <1>2 DEF At
<1>4. /\ n \in Nat \ {0} /\ DOMAIN stack = 1..n
      /\ \A k \in 1..n : stack[k] \in Nat /\ stack[k] < at
  BY DEF PairsInv
<1>5. /\ stack' \in Seq(Nat) /\ DOMAIN stack' = 1..(n - 1)
      /\ \A k \in 1..(n - 1) : stack'[k] = stack[k]
  BY <1>2, <1>4 DEF PairsInv
<1>6. /\ DOMAIN pairs' = DOMAIN pairs \union {s} /\ pairs'[s] = i
      /\ \A o \in DOMAIN pairs : o # s => pairs'[o] = pairs[o]
  BY <1>2 DEF Put
<1>7. \A k \in 1..(n - 1) : k \in 1..n /\ stack[k] < s
  BY <1>4 DEF PairsInv
<1>8. At(i) \in Closing OBVIOUS
<1>9. s \in Nat /\ s < at BY <1>4
<1>10. \A o \in DOMAIN pairs : /\ o \in Nat /\ pairs[o] \in Nat /\ o < pairs[o] /\ pairs[o] < at
                               /\ At(pairs[o]) \in Closing
                               /\ \A k \in 1..n : stack[k] < o \/ pairs[o] < stack[k]
                               /\ s < o \/ pairs[o] < s
  BY <1>4 DEF PairsInv
<1>11. s \notin DOMAIN pairs BY <1>9, <1>10
<1> HIDE DEF i, n, s
<1>12. \A k \in DOMAIN stack' : stack'[k] < at'
  BY <1>1, <1>2, <1>4, <1>5, <1>7
<1>13. \A j, k \in DOMAIN stack' : j < k => stack'[j] < stack'[k]
  BY <1>4, <1>5, <1>7 DEF PairsInv
<1>14. \A o \in DOMAIN pairs' :
        /\ o \in Nat /\ pairs'[o] \in Nat /\ o < pairs'[o] /\ pairs'[o] < at'
        /\ text'[pairs'[o] + 1] \in Closing
        /\ \A k \in DOMAIN stack' : stack'[k] < o \/ pairs'[o] < stack'[k]
  <2> TAKE o \in DOMAIN pairs'
  <2>1. CASE o = s BY <1>1, <1>2, <1>5, <1>6, <1>7, <1>8, <1>9, <2>1 DEF At
  <2>2. CASE o \in DOMAIN pairs /\ o # s
    <3>1. pairs'[o] = pairs[o] BY <1>6, <2>2
    <3>2. text'[pairs[o] + 1] \in Closing BY <1>2, <1>10, <2>2 DEF At
    <3> QED BY <1>1, <1>2, <1>5, <1>7, <1>10, <2>2, <3>1, <3>2
  <2> QED BY <1>6, <2>1, <2>2
<1>15. \A o, p \in DOMAIN pairs' : o < p => pairs'[o] < p \/ pairs'[p] < pairs'[o]
  <2> TAKE o, p \in DOMAIN pairs'
  <2>1. CASE o # s /\ p # s BY <1>6, <2>1 DEF PairsInv
  <2>2. CASE o = s /\ p # s BY <1>1, <1>6, <1>10, <2>2
  <2>3. CASE o # s /\ p = s BY <1>1, <1>6, <1>9, <1>10, <2>3
  <2>4. CASE o = s /\ p = s BY <1>9, <2>4
  <2> QED BY <2>1, <2>2, <2>3, <2>4
<1>16. \A j \in 0..(at' - 1) : text'[j + 1] \in Opening =>
        j \in DOMAIN pairs' \/ \E k \in DOMAIN stack' : stack'[k] = j
  <2>0. 0..(at' - 1) = 0..i BY <1>1, <1>2
  <2> SUFFICES ASSUME NEW j \in 0..i, At(j) \in Opening
               PROVE  j \in DOMAIN pairs' \/ \E k \in 1..(n - 1) : stack'[k] = j
    BY <1>2, <1>5, <2>0 DEF At
  <2>1. j # i BY <1>8, Symbolic
  <2>2. j \notin at..(i - 1) BY <1>1
  <2>3. j \in 0..(at - 1) BY <1>1, <2>1, <2>2
  <2>4. j \in DOMAIN pairs \/ \E k \in DOMAIN stack : stack[k] = j
    BY <2>3 DEF PairsInv
  <2>5. ASSUME NEW k \in 1..n, stack[k] = j
        PROVE  j = s \/ \E l \in 1..(n - 1) : stack'[l] = j
    <3>1. k = n \/ k \in 1..(n - 1) BY <1>4
    <3> QED BY <1>5, <2>5, <3>1 DEF s
  <2> QED BY <1>4, <1>6, <2>4, <2>5
<1>17. text' \in Texts /\ at' \in 0..Len(text')
  BY <1>1, <1>2 DEF PairsInv, Texts
<1> QED BY <1>5, <1>12, <1>13, <1>14, <1>15, <1>16, <1>17 DEF PairsInv, At

\* A closing that finds the stack empty changes nothing.
LEMMA UndefinedKept ==
  ASSUME PairsInv, FindBrace, At(NextBrace) \in Closing, stack = <<>>
  PROVE  PairsInv'
<1> DEFINE i == NextBrace
<1>1. /\ i \in Nat /\ at <= i /\ i < Len(text) /\ Len(text) \in Nat /\ at \in Nat
      /\ \A k \in at..(i - 1) : At(k) \notin Opening
  BY ScanStops DEF PairsInv, Texts, FindBrace, NextBrace
<1>2. /\ at' = i + 1 /\ text' = text /\ stack' = stack /\ pairs' = pairs
  BY Symbolic DEF FindBrace
<1>3. At(i) \notin Opening BY Symbolic
<1> HIDE DEF i
<1>4. \A j \in 0..(at' - 1) : j \in 0..(at - 1) \/ At(j) \notin Opening
  BY <1>1, <1>2, <1>3
<1>5. text' \in Texts /\ at' \in 0..Len(text')
  BY <1>1, <1>2 DEF PairsInv, Texts
<1>6. \A o \in DOMAIN pairs : pairs[o] \in Nat /\ pairs[o] < at' BY <1>1, <1>2 DEF PairsInv
<1>7. \A k \in DOMAIN stack' : stack'[k] < at' BY <1>2
<1> QED BY <1>2, <1>4, <1>5, <1>6, <1>7 DEF PairsInv, At

-----------------------------------------------------------------------------
(* The calls.  Their nodes are of no set one could name, so the calls are  *)
(* a sequence over themselves.                                             *)

Values(s) == {s[k] : k \in DOMAIN s}

LEMMA OverItself ==
  ASSUME NEW S, NEW s \in Seq(S)
  PROVE  s \in Seq(Values(s))
<1>1. Len(s) \in Nat /\ s = [k \in 1..Len(s) |-> s[k]] OBVIOUS
<1>2. \A k \in 1..Len(s) : s[k] \in Values(s) BY DEF Values
<1> QED BY <1>1, <1>2

LEMMA Beginning ==
  ASSUME NEW S, NEW s \in Seq(S), NEW m \in 0..Len(s)
  PROVE  LET t == SubSeq(s, 1, m)
         IN t \in Seq(S) /\ Len(t) = m /\ \A k \in 1..m : t[k] = s[k]
<1>1. \A k \in 1..m : s[k] \in S OBVIOUS
<1> QED BY <1>1, SubSeqProperties

\* The innermost call goes on.
LEMMA Replaced ==
  ASSUME NEW S, NEW s \in Seq(S), s # <<>>, NEW c
  PROVE  LET n == Len(s)  t == Front(s) \o <<c>>
         IN /\ t \in Seq(Values(t)) /\ Len(t) = n /\ t[n] = c /\ t # <<>>
            /\ \A k \in 1..(n - 1) : t[k] = s[k]
<1> DEFINE T == S \union {c}  t == Front(s) \o <<c>>
<1>1. s \in Seq(T) /\ <<c>> \in Seq(T) OBVIOUS
<1>2. Front(s) \in Seq(T) /\ Len(Front(s)) = Len(s) - 1
      /\ \A k \in 1..(Len(s) - 1) : Front(s)[k] = s[k]
  <2>1. Len(s) - 1 \in 0..Len(s) BY <1>1
  <2> QED BY <1>1, <2>1, Beginning DEF Front
<1>3. t \in Seq(T) /\ Len(t) = Len(s) /\ t[Len(s)] = c
      /\ \A k \in 1..(Len(s) - 1) : t[k] = s[k]
  BY <1>1, <1>2
<1> HIDE DEF T, t
<1>4. t \in Seq(Values(t)) BY <1>3, OverItself
<1>5. t # <<>> BY <1>3
<1> QED BY <1>3, <1>4, <1>5 DEF t

\* It calls another.
Push(s, c, d) == Front(s) \o <<c, d>>
IsPushed(t, s, c, d) ==
  /\ t \in Seq(Values(t)) /\ Len(t) = Len(s) + 1 /\ t # <<>>
  /\ t[Len(s)] = c /\ t[Len(s) + 1] = d
  /\ \A k \in 1..(Len(s) - 1) : t[k] = s[k]

LEMMA Pushed ==
  ASSUME NEW S, NEW s \in Seq(S), s # <<>>, NEW c, NEW d
  PROVE  IsPushed(Push(s, c, d), s, c, d)
<1> DEFINE T == S \union {c, d}  t == Push(s, c, d)
<1>0. t = Front(s) \o <<c, d>> BY DEF Push
<1>1. s \in Seq(T) /\ <<c, d>> \in Seq(T) /\ Len(<<c, d>>) = 2 OBVIOUS
<1>2. Front(s) \in Seq(T) /\ Len(Front(s)) = Len(s) - 1
      /\ \A k \in 1..(Len(s) - 1) : Front(s)[k] = s[k]
  <2>1. Len(s) - 1 \in 0..Len(s) BY <1>1
  <2> QED BY <1>1, <2>1, Beginning DEF Front
<1>3. t \in Seq(T) /\ Len(t) = Len(s) + 1 /\ t[Len(s)] = c /\ t[Len(s) + 1] = d
      /\ \A k \in 1..(Len(s) - 1) : t[k] = s[k]
  BY <1>0, <1>1, <1>2
<1> HIDE DEF T, t
<1>4. t \in Seq(Values(t)) BY <1>3, OverItself
<1>5. t # <<>> BY <1>3
<1> QED BY <1>3, <1>4, <1>5 DEF t, IsPushed

\* It returns to its caller.
LEMMA Popped ==
  ASSUME NEW S, NEW s \in Seq(S), Len(s) > 1, NEW c
  PROVE  LET n == Len(s)  t == Append(SubSeq(s, 1, n - 2), c)
         IN /\ t \in Seq(Values(t)) /\ Len(t) = n - 1 /\ t # <<>>
            /\ t[n - 1] = c
            /\ \A k \in 1..(n - 2) : t[k] = s[k]
<1> DEFINE T == S \union {c}  u == SubSeq(s, 1, Len(s) - 2)  t == Append(u, c)
<1>1. s \in Seq(T) /\ c \in T OBVIOUS
<1>2. u \in Seq(T) /\ Len(u) = Len(s) - 2
      /\ \A k \in 1..(Len(s) - 2) : u[k] = s[k]
  BY <1>1, Beginning
<1> HIDE DEF T, u
<1>3. t \in Seq(T) /\ Len(t) = Len(s) - 1 /\ t[Len(s) - 1] = c
      /\ \A k \in 1..(Len(s) - 2) : t[k] = s[k]
  BY <1>1, <1>2
<1> HIDE DEF t
<1>4. t \in Seq(Values(t)) BY <1>3, OverItself
<1>5. t # <<>> BY <1>3
<1> QED BY <1>3, <1>4, <1>5 DEF t, u

-----------------------------------------------------------------------------
(* The calls stay within the braces.                                       *)

\* The fields of the k-th call.  Its end is the closing of an opening it is
\* beyond, or the 0 of one without a closing; if it has called another, it is
\* an object whose index stays at the opening of that.
CallIs(k) ==
  LET c == calls[k]
  IN /\ c = [of |-> c.of, i |-> c.i, end |-> c.end, node |-> c.node, key |-> c.key]
     /\ \/ c.of = "object" /\ c.node.type = "OBJECT"
        \/ c.of = "array" /\ c.node.type = "ARRAY"
     /\ "type" \in DOMAIN c.node
     /\ c.i \in 0..Len(text)
     /\ \/ c.end = 0
        \/ \E o \in DOMAIN pairs : c.end = pairs[o] /\ o <= c.i /\ c.i <= c.end + 1
     /\ k < Len(calls) =>
          /\ c.of = "object" /\ c.i \in DOMAIN pairs /\ pairs[c.i] < c.end
          /\ calls[k + 1].end = pairs[c.i] /\ c.i <= calls[k + 1].i

CallsInv ==
  /\ calls \in Seq(Values(calls))
  /\ \A k \in DOMAIN calls : CallIs(k)
  /\ calls # <<>> =>
       /\ result = Pending
       /\ \A j \in at..(Len(text) - 1) : At(j) \notin Opening
  /\ result.type \in {"PENDING", "OBJECT", "ARRAY", "THROWN", "UNDEFINED"}

ParserInv == PairsInv /\ CallsInv

LEMMA NoCalls ==
  ASSUME calls = <<>>, result.type \in {"PENDING", "OBJECT", "ARRAY", "THROWN", "UNDEFINED"}
  PROVE  CallsInv
<1>1. calls \in Seq(Values(calls)) /\ DOMAIN calls = {} OBVIOUS
<1> QED BY <1>1 DEF CallsInv

LEMMA NoCallsAfter ==
  ASSUME calls' = <<>>, result'.type \in {"PENDING", "OBJECT", "ARRAY", "THROWN", "UNDEFINED"}
  PROVE  CallsInv'
<1>1. calls' \in Seq(Values(calls')) /\ DOMAIN calls' = {} OBVIOUS
<1> QED BY <1>1 DEF CallsInv

LEMMA ParserInit == Init => ParserInv
<1> SUFFICES ASSUME Init PROVE ParserInv OBVIOUS
<1>1. PairsInv BY PairsAtFirst DEF Init
<1>2. CallsInv BY NoCalls DEF Init, Pending
<1> QED BY <1>1, <1>2 DEF ParserInv

\* What the invariant says of the innermost call.
LEMMA Innermost ==
  ASSUME ParserInv, calls # <<>>
  PROVE  /\ Len(calls) \in Nat \ {0} /\ Cur = calls[Len(calls)] /\ CallIs(Len(calls))
         /\ DOMAIN calls = 1..Len(calls)
         /\ Cur.i \in Nat /\ Cur.end \in Nat /\ Cur.i <= Len(text) /\ Len(text) \in Nat
         /\ Cur.end < Len(text) \/ Cur.end = 0
<1>1. /\ Len(calls) \in Nat \ {0} /\ Cur = calls[Len(calls)]
      /\ DOMAIN calls = 1..Len(calls)
  BY DEF ParserInv, CallsInv, Cur, Last
<1>2. CallIs(Len(calls)) BY <1>1 DEF ParserInv, CallsInv
<1>3. Len(text) \in Nat /\ at <= Len(text) /\ at \in Nat BY DEF ParserInv, PairsInv, Texts
<1>4. \A o \in DOMAIN pairs : pairs[o] \in Nat /\ pairs[o] < Len(text)
  BY <1>3 DEF ParserInv, PairsInv
<1>5. Cur.i \in 0..Len(text) /\ (Cur.end = 0 \/ \E o \in DOMAIN pairs : Cur.end = pairs[o])
  BY <1>1, <1>2 DEF CallIs
<1> QED BY <1>1, <1>2, <1>3, <1>4, <1>5

\* All braces are seen while calls are under way, so an opening between the
\* two of a pair has its own in it.
LEMMA Inside ==
  ASSUME ParserInv, calls # <<>>, NEW o \in DOMAIN pairs, NEW v \in Nat,
         o < v, v < pairs[o], At(v) \in Opening
  PROVE  v \in DOMAIN pairs /\ pairs[v] \in Nat /\ v < pairs[v] /\ pairs[v] < pairs[o]
<1>1. /\ o \in Nat /\ pairs[o] \in Nat /\ pairs[o] < at /\ at \in Nat
      /\ \A k \in DOMAIN stack : stack[k] < o \/ pairs[o] < stack[k]
      /\ \A k \in DOMAIN stack : stack[k] \in Nat
  BY DEF ParserInv, PairsInv, Texts
<1>2. v \in 0..(at - 1) BY <1>1
<1>3. v \in DOMAIN pairs
  <2>1. v \in DOMAIN pairs \/ \E k \in DOMAIN stack : stack[k] = v
    BY <1>2 DEF ParserInv, PairsInv
  <2> QED BY <1>1, <2>1
<1>4. pairs[v] \in Nat /\ v < pairs[v] /\ (pairs[o] < v \/ pairs[v] < pairs[o])
  BY <1>3 DEF ParserInv, PairsInv
<1> QED BY <1>1, <1>3, <1>4

\* What it says of any.
LEMMA AnyCall ==
  ASSUME ParserInv, NEW m \in 1..Len(calls)
  PROVE  /\ Len(calls) \in Nat /\ DOMAIN calls = 1..Len(calls) /\ CallIs(m)
         /\ calls[m].i \in Nat /\ calls[m].end \in Nat /\ Len(text) \in Nat
         /\ calls[m].end < Len(text) \/ calls[m].end = 0
<1>1. Len(calls) \in Nat /\ DOMAIN calls = 1..Len(calls) BY DEF ParserInv, CallsInv
<1>2. CallIs(m) BY <1>1 DEF ParserInv, CallsInv
<1>3. Len(text) \in Nat /\ at <= Len(text) /\ at \in Nat BY DEF ParserInv, PairsInv, Texts
<1>4. \A o \in DOMAIN pairs : pairs[o] \in Nat /\ pairs[o] < Len(text)
  BY <1>3 DEF ParserInv, PairsInv
<1>5. /\ calls[m].i \in 0..Len(text)
      /\ calls[m].end = 0 \/ \E o \in DOMAIN pairs : calls[m].end = pairs[o]
  BY <1>2 DEF CallIs
<1> QED BY <1>1, <1>2, <1>3, <1>4, <1>5

\* A step that keeps the pairs and the first calls, and moves the index of
\* the last of these on.
LEMMA GoesOn ==
  ASSUME ParserInv, NEW m \in 1..Len(calls), NEW c,
         UNCHANGED <<text, at, stack, pairs, result>>,
         calls' \in Seq(Values(calls')), Len(calls') = m, calls'[m] = c, calls' # <<>>,
         \A k \in 1..(m - 1) : calls'[k] = calls[k],
         c = [of |-> c.of, i |-> c.i, end |-> c.end, node |-> c.node, key |-> c.key],
         c.of = calls[m].of, c.end = calls[m].end,
         c.node.type = calls[m].node.type, "type" \in DOMAIN c.node,
         c.i \in Nat, calls[m].i <= c.i, c.i <= Len(text),
         c.end # 0 => c.i <= c.end + 1
  PROVE  CallsInv'
<1>1. /\ m \in Nat /\ CallIs(m) /\ Len(calls) \in Nat /\ DOMAIN calls = 1..Len(calls)
      /\ calls[m].i \in Nat /\ calls[m].end \in Nat /\ Len(text) \in Nat
  BY AnyCall
<1>2. CallIs(m)'
  <2>1. \/ c.end = 0
        \/ \E o \in DOMAIN pairs : c.end = pairs[o] /\ o <= c.i /\ c.i <= c.end + 1
    <3>1. CASE c.end = 0 BY <3>1
    <3>2. CASE c.end # 0
      <4>1. PICK o \in DOMAIN pairs : c.end = pairs[o] /\ o <= calls[m].i
        BY <1>1, <3>2 DEF CallIs
      <4>2. o \in Nat BY DEF ParserInv, PairsInv
      <4> QED BY <1>1, <3>2, <4>1, <4>2
    <3> QED BY <3>1, <3>2
  <2>2. \/ c.of = "object" /\ c.node.type = "OBJECT"
        \/ c.of = "array" /\ c.node.type = "ARRAY"
    BY <1>1 DEF CallIs
  <2>3. c.i \in 0..Len(text) BY <1>1
  <2>4. ~ (m < Len(calls')) BY <1>1
  <2> QED BY <2>1, <2>2, <2>3, <2>4 DEF CallIs
<1>3. ASSUME NEW k \in 1..(m - 1) PROVE CallIs(k)'
  <2>1. CallIs(k) /\ k < Len(calls) /\ calls'[k] = calls[k] /\ k < Len(calls')
    BY <1>1 DEF ParserInv, CallsInv
  <2>2. calls'[k + 1].end = calls[k + 1].end /\ calls[k].i <= calls'[k + 1].i
    <3>1. CASE k + 1 = m
      <4>1. calls[k].i \in Nat /\ calls[k].i <= calls[m].i BY <1>1, <2>1, <3>1 DEF CallIs
      <4> QED BY <1>1, <3>1, <4>1
    <3>2. CASE k + 1 # m
      <4>1. k + 1 \in 1..(m - 1) BY <1>1, <3>2
      <4> QED BY <2>1, <4>1 DEF CallIs
    <3> QED BY <3>1, <3>2
  <2> QED BY <2>1, <2>2 DEF CallIs
<1>4. DOMAIN calls' = 1..m /\ \A k \in 1..m : k = m \/ k \in 1..(m - 1)
  BY <1>1
<1>5. calls # <<>> BY <1>1
<1> QED BY <1>2, <1>3, <1>4, <1>5 DEF CallsInv, ParserInv, At

\* The innermost call's index moves on, and its node may grow.
LEMMA Continues ==
  ASSUME ParserInv, calls # <<>>, NEW c,
         UNCHANGED <<text, at, stack, pairs, result>>, SetCur(c),
         c = [of |-> c.of, i |-> c.i, end |-> c.end, node |-> c.node, key |-> c.key],
         c.of = Cur.of, c.end = Cur.end,
         c.node.type = Cur.node.type, "type" \in DOMAIN c.node,
         c.i \in Nat, Cur.i <= c.i, c.i <= Len(text),
         Cur.end # 0 => c.i <= Cur.end + 1
  PROVE  CallsInv' /\ Cur' = c /\ Len(calls') = Len(calls)
<1> DEFINE t == Front(calls) \o <<c>>
<1>1. /\ t \in Seq(Values(t)) /\ Len(t) = Len(calls) /\ t[Len(calls)] = c /\ t # <<>>
      /\ \A k \in 1..(Len(calls) - 1) : t[k] = calls[k]
  <2>1. calls \in Seq(Values(calls)) BY DEF ParserInv, CallsInv
  <2> QED BY <2>1, Replaced, Zenon
<1>2. t = calls' BY DEF SetCur
<1>3. PICK m \in 1..Len(calls) : m = Len(calls) BY Innermost
<1> HIDE DEF t
<1>4. /\ calls' \in Seq(Values(calls')) /\ Len(calls') = m /\ calls'[m] = c
      /\ calls' # <<>> /\ \A k \in 1..(m - 1) : calls'[k] = calls[k]
  BY <1>1, <1>2, <1>3
<1>5. Cur = calls[m] BY <1>3, Innermost
<1>6. CallsInv' BY <1>4, <1>5, GoesOn
<1> QED BY <1>3, <1>4, <1>6 DEF Cur, Last

\* Where a key and its value are.
LEMMA Positions ==
  ASSUME ParserInv, calls # <<>>, Complete(Cur)
  PROVE  /\ ValueAt(Cur) \in Nat /\ Cur.i < ValueAt(Cur) /\ ValueAt(Cur) < Cur.end
<1>1. Cur.i \in Nat /\ Cur.end \in Nat BY Innermost
<1>2. KeyOpens(Cur) \in Nat /\ Cur.i <= KeyOpens(Cur) BY <1>1, ScanStops DEF KeyOpens
<1>3. KeyCloses(Cur) \in Nat /\ KeyOpens(Cur) < KeyCloses(Cur)
  BY <1>1, <1>2, ScanStops DEF KeyCloses
<1>4. ColonAt(Cur) \in Nat /\ KeyCloses(Cur) < ColonAt(Cur)
  BY <1>1, <1>3, ScanStops DEF ColonAt
<1>5. ValueAt(Cur) \in Nat /\ ColonAt(Cur) < ValueAt(Cur)
  BY <1>1, <1>4, BlanksEnd DEF ValueAt
<1> QED BY <1>1, <1>2, <1>3, <1>4, <1>5 DEF Complete

LEMMA CommaSkipped ==
  ASSUME NEW i \in Nat, NEW end \in Nat, i <= end
  PROVE  SkipComma(i, end) \in Nat /\ i <= SkipComma(i, end) /\ SkipComma(i, end) <= end
BY DEF SkipComma

LEMMA MemberKeepsType ==
  ASSUME NEW node, "type" \in DOMAIN node, NEW key, NEW v
  PROVE  SetMember(node, key, v).type = node.type /\ "type" \in DOMAIN SetMember(node, key, v)
BY DEF SetMember

LEMMA ElementKeepsType ==
  ASSUME NEW node, "type" \in DOMAIN node, NEW v
  PROVE  AppendArray(node, v).type = node.type /\ "type" \in DOMAIN AppendArray(node, v)
BY DEF AppendArray

-----------------------------------------------------------------------------
(* The steps.                                                              *)

LEMMA PairsStay ==
  ASSUME PairsInv, UNCHANGED <<text, at, stack, pairs>>
  PROVE  PairsInv'
BY DEF PairsInv, At

\* What is left to do while there are calls.
LEMMA Left ==
  ASSUME ParserInv, calls # <<>>
  PROVE  /\ Remaining = 2 * (Len(text) + 1 - Cur.i) + Len(calls)
         /\ Remaining \in Nat /\ 0 < Remaining
BY Innermost DEF Remaining

\* The last call returns, or something is thrown.
LEMMA Leaves ==
  ASSUME ParserInv, calls # <<>>, UNCHANGED <<text, at, stack, pairs>>, calls' = <<>>,
         result'.type \in {"OBJECT", "ARRAY", "THROWN"}
  PROVE  ParserInv' /\ Remaining' < Remaining
<1>1. PairsInv' BY PairsStay DEF ParserInv
<1>2. CallsInv' BY NoCallsAfter
<1>3. Remaining' = 0 BY DEF Remaining, Pending
<1> QED BY <1>1, <1>2, <1>3, Left DEF ParserInv

LEMMA ThrowsLeaves ==
  ASSUME ParserInv, calls # <<>>, UNCHANGED <<text, at, stack, pairs>>,
         NEW what, Throw(what)
  PROVE  ParserInv' /\ Remaining' < Remaining
<1>1. result'.type = "THROWN" BY DEF Throw, Thrown
<1> QED BY <1>1, Leaves DEF Throw

\* A call returns to its caller, whose index passes over what it read.
LEMMA ReturnsInside ==
  ASSUME ParserInv, calls # <<>>, UNCHANGED <<text, at, stack, pairs>>,
         Len(calls) # 1, Return(Cur.node)
  PROVE  ParserInv' /\ Remaining' < Remaining
<1>1. PICK n \in Nat : n = Len(calls) /\ n > 1
  <2>1. Len(calls) \in Nat /\ Len(calls) > 1 BY Innermost
  <2> QED BY <2>1
<1>2. PICK m \in 1..Len(calls) : m = n - 1 BY <1>1
<1> DEFINE up == calls[m]
           c == Resume(up, Cur.node)
           t == Append(SubSeq(calls, 1, Len(calls) - 2), c)
<1>3. calls' = t /\ result' = result BY <1>1, <1>2 DEF Return
<1>4. /\ t \in Seq(Values(t)) /\ Len(t) = m /\ t # <<>> /\ t[m] = c
      /\ \A k \in 1..(m - 1) : t[k] = calls[k]
  <2>1. calls \in Seq(Values(calls)) BY DEF ParserInv, CallsInv
  <2> HIDE DEF c
  <2>2. /\ t \in Seq(Values(t)) /\ Len(t) = Len(calls) - 1 /\ t # <<>>
        /\ t[Len(calls) - 1] = c
        /\ \A k \in 1..(Len(calls) - 2) : t[k] = calls[k]
    BY <1>1, <2>1, Popped, Zenon
  <2>3. Len(calls) - 1 = m /\ Len(calls) - 2 = m - 1 BY <1>1, <1>2
  <2> QED BY <2>2, <2>3
<1>5. /\ CallIs(m) /\ up.i \in Nat /\ up.end \in Nat /\ Len(text) \in Nat
      /\ up.end < Len(text) \/ up.end = 0
  BY AnyCall
<1>6. /\ up.of = "object" /\ up.i \in DOMAIN pairs /\ pairs[up.i] < up.end
      /\ Cur.end = pairs[up.i] /\ CallIs(n) /\ Cur = calls[n] /\ Cur.i \in Nat
  BY <1>1, <1>2, <1>5, Innermost DEF CallIs
<1>7. pairs[up.i] \in Nat /\ up.i < pairs[up.i] BY <1>6 DEF ParserInv, PairsInv
<1>8. Cur.i <= pairs[up.i] + 1
  <2>1. Cur.end # 0 BY <1>5, <1>6, <1>7
  <2>2. Cur.end = 0 \/ Cur.i <= Cur.end + 1 BY <1>6 DEF CallIs
  <2> QED BY <1>6, <2>1, <2>2
<1>9. Pair(pairs, up.i) + 1 = pairs[up.i] + 1 BY <1>6 DEF Pair
<1>10. /\ c.i = SkipComma(pairs[up.i] + 1, up.end) /\ c.of = up.of /\ c.end = up.end
       /\ c.node = SetMember(up.node, up.key, Cur.node)
       /\ c = [of |-> c.of, i |-> c.i, end |-> c.end, node |-> c.node, key |-> c.key]
  <2>1. up = [of |-> up.of, i |-> up.i, end |-> up.end, node |-> up.node, key |-> up.key]
    BY <1>5 DEF CallIs
  <2>2. c = [up EXCEPT !.node = SetMember(up.node, up.key, Cur.node),
                       !.i = SkipComma(pairs[up.i] + 1, up.end)]
    BY <1>9, <2>1 DEF Resume
  <2> HIDE DEF c, up
  <2> QED BY <2>1, <2>2
<1>11. c.node.type = up.node.type /\ "type" \in DOMAIN c.node
  BY <1>5, <1>10, MemberKeepsType DEF CallIs
<1>12. c.i \in Nat /\ pairs[up.i] + 1 <= c.i /\ c.i <= up.end
  <2>1. PICK e \in Nat : e = up.end BY <1>5
  <2>2. PICK x \in Nat : x = pairs[up.i] + 1 BY <1>7
  <2>3. x <= e BY <1>6, <1>7, <2>1, <2>2
  <2>4. SkipComma(x, e) \in Nat /\ x <= SkipComma(x, e) /\ SkipComma(x, e) <= e
    BY <2>3, CommaSkipped
  <2>5. c.i = SkipComma(x, e) BY <1>10, <2>1, <2>2
  <2> QED BY <2>1, <2>2, <2>4, <2>5
<1> HIDE DEF c, t, up
<1>13. CallsInv'
  <2>1. c.of = calls[m].of /\ c.end = calls[m].end /\ c.node.type = calls[m].node.type
        /\ calls[m].i <= c.i /\ c.i <= Len(text) /\ (c.end # 0 => c.i <= c.end + 1)
    BY <1>5, <1>6, <1>7, <1>10, <1>11, <1>12 DEF up
  <2> QED BY <1>3, <1>4, <1>10, <1>11, <1>12, <2>1, GoesOn
<1>14. Remaining' < Remaining
  <2>1. Remaining = 2 * (Len(text) + 1 - Cur.i) + n BY <1>1, Left
  <2>2. Remaining' = 2 * (Len(text) + 1 - c.i) + m
    BY <1>3, <1>4 DEF Remaining, Cur, Last
  <2>3. Cur.i <= c.i BY <1>6, <1>7, <1>8, <1>12
  <2>4. m = n - 1 /\ Len(text) \in Nat BY <1>2, <1>5
  <2>5. Cur.i \in Nat /\ c.i \in Nat BY <1>6, <1>12
  <2> QED BY <2>1, <2>2, <2>3, <2>4, <2>5
<1>15. PairsInv' BY PairsStay DEF ParserInv
<1> QED BY <1>13, <1>14, <1>15 DEF ParserInv

LEMMA ReturnKept ==
  ASSUME ParserInv, calls # <<>>, UNCHANGED <<text, at, stack, pairs>>, Return(Cur.node)
  PROVE  ParserInv' /\ Remaining' < Remaining
<1>1. CASE Len(calls) = 1
  <2>1. Cur.node.type \in {"OBJECT", "ARRAY"} BY Innermost DEF CallIs
  <2>2. calls' = <<>> /\ result' = Cur.node BY <1>1 DEF Return
  <2> QED BY <2>1, <2>2, Leaves
<1>2. CASE Len(calls) # 1 BY <1>2, ReturnsInside
<1> QED BY <1>1, <1>2

LEMMA ObjectEndsKept ==
  ASSUME ParserInv, ObjectEnds PROVE ParserInv' /\ Remaining' < Remaining
BY ReturnKept DEF ObjectEnds, Running

LEMMA ArrayEndsKept ==
  ASSUME ParserInv, ArrayEnds PROVE ParserInv' /\ Remaining' < Remaining
BY ReturnKept DEF ArrayEnds, Running

LEMMA ObjectThrowsKept ==
  ASSUME ParserInv, ObjectThrows PROVE ParserInv' /\ Remaining' < Remaining
BY ThrowsLeaves DEF ObjectThrows, Running

\* A member: its text ends at the object's end at the latest, and begins
\* after the index the loop was at.
LEMMA ObjectValueKept ==
  ASSUME ParserInv, ObjectValue PROVE ParserInv' /\ Remaining' < Remaining
<1>1. /\ calls # <<>> /\ Complete(Cur) /\ UNCHANGED <<text, at, stack, pairs>>
  BY DEF ObjectValue, Running
<1> DEFINE c(j, value) == [Cur EXCEPT !.node = SetMember(@, Key(Cur), value),
                                      !.i = SkipComma(j, Cur.end)]
<1>2. PICK j, chars :
        /\ j = Scan(Cur.end, {Comma, RBrace})[ValueAt(Cur)]
        /\ IF GetValue(chars).type = "THROWN" THEN Throw(GetValue(chars).what)
           ELSE SetCur(c(j, GetValue(chars))) /\ UNCHANGED result
  BY DEF ObjectValue
<1>3. CASE Throw(GetValue(chars).what)
  BY <1>1, <1>3, ThrowsLeaves
<1>4. CASE SetCur(c(j, GetValue(chars))) /\ UNCHANGED result
  <2> DEFINE d == c(j, GetValue(chars))
  <2>1. PICK e \in Nat, v \in Nat : e = Cur.end /\ v = ValueAt(Cur) /\ Cur.i < v /\ v < e
    BY <1>1, Positions, Innermost
  <2>2. /\ Cur.i \in Nat /\ Len(text) \in Nat /\ (e < Len(text) \/ e = 0)
        /\ CallIs(Len(calls)) /\ Cur = calls[Len(calls)]
    BY <1>1, <2>1, Innermost
  <2>3. j \in Nat /\ v <= j /\ j <= e
    BY <1>2, <2>1, ScanStops
  <2>4. SkipComma(j, e) \in Nat /\ j <= SkipComma(j, e) /\ SkipComma(j, e) <= e
    BY <2>3, CommaSkipped
  <2>5. Cur = [of |-> Cur.of, i |-> Cur.i, end |-> Cur.end, node |-> Cur.node, key |-> Cur.key]
    BY <2>2 DEF CallIs
  <2>6. /\ d.i = SkipComma(j, e) /\ d.of = Cur.of /\ d.end = Cur.end
        /\ d.node = SetMember(Cur.node, Key(Cur), GetValue(chars))
        /\ d = [of |-> d.of, i |-> d.i, end |-> d.end, node |-> d.node, key |-> d.key]
    <3>1. d = [Cur EXCEPT !.node = SetMember(Cur.node, Key(Cur), GetValue(chars)),
                          !.i = SkipComma(j, e)]
      BY <2>1, <2>5
    <3> HIDE DEF d
    <3> QED BY <2>5, <3>1
  <2>7. d.node.type = Cur.node.type /\ "type" \in DOMAIN d.node
    BY <2>2, <2>6, MemberKeepsType DEF CallIs
  <2>8. SetCur(d) /\ UNCHANGED <<text, at, stack, pairs, result>> BY <1>1, <1>4
  <2> HIDE DEF d
  <2>9. Cur.i < d.i /\ d.i \in Nat /\ d.i <= Len(text) /\ d.i <= Cur.end
    BY <2>1, <2>2, <2>3, <2>4, <2>6
  <2>10. Cur.i <= d.i /\ (Cur.end # 0 => d.i <= Cur.end + 1) BY <2>1, <2>2, <2>9
  <2>11. CallsInv' /\ Cur' = d /\ Len(calls') = Len(calls)
    BY <1>1, <2>6, <2>7, <2>8, <2>9, <2>10, Continues
  <2>12. PairsInv' BY <1>1, PairsStay DEF ParserInv
  <2>13. Remaining' < Remaining
    <3>1. Len(calls) \in Nat \ {0} /\ calls' # <<>> BY <1>1, <2>11, Innermost
    <3>2. Remaining' = 2 * (Len(text) + 1 - d.i) + Len(calls)
      BY <1>1, <2>11, <3>1 DEF Remaining
    <3>3. Remaining = 2 * (Len(text) + 1 - Cur.i) + Len(calls) BY <1>1, Left
    <3> QED BY <2>2, <2>9, <3>1, <3>2, <3>3
  <2> QED BY <2>11, <2>12, <2>13 DEF ParserInv
<1> QED BY <1>2, <1>3, <1>4

\* An element: the blanks before it end before the array does, for what
\* closes the array is no blank.
LEMMA ArrayElementKept ==
  ASSUME ParserInv, ArrayElement PROVE ParserInv' /\ Remaining' < Remaining
<1>1. /\ calls # <<>> /\ Cur.i < Cur.end /\ UNCHANGED <<text, at, stack, pairs>>
  BY DEF ArrayElement, Running
<1> DEFINE c(j, value) == [Cur EXCEPT !.node = AppendArray(@, value), !.i = j + 1]
<1>2. PICK v, j, chars :
        /\ v = SkipBlanks(Len(text))[Cur.i]
        /\ j = Scan(Cur.end, {Comma})[v]
        /\ IF GetValue(chars).type = "THROWN" THEN Throw(GetValue(chars).what)
           ELSE SetCur(c(j, GetValue(chars))) /\ UNCHANGED result
  BY DEF ArrayElement
<1>3. CASE Throw(GetValue(chars).what)
  BY <1>1, <1>3, ThrowsLeaves
<1>4. CASE SetCur(c(j, GetValue(chars))) /\ UNCHANGED result
  <2> DEFINE d == c(j, GetValue(chars))
  <2>1. PICK e \in Nat, b \in Nat : e = Cur.end /\ b = Cur.i /\ b < e
    BY <1>1, Innermost
  <2>2. /\ Len(text) \in Nat /\ e < Len(text)
        /\ CallIs(Len(calls)) /\ Cur = calls[Len(calls)]
    BY <1>1, <2>1, Innermost
  <2>3. At(e) # Blank
    <3>1. PICK o \in DOMAIN pairs : e = pairs[o] BY <2>1, <2>2 DEF CallIs
    <3>2. At(e) \in Closing BY <3>1 DEF ParserInv, PairsInv
    <3> QED BY <3>2, Symbolic
  <2>4. v \in Nat /\ b <= v /\ v <= e
    <3>1. v \in Nat /\ b <= v /\ \A k \in b..(v - 1) : At(k) = Blank
      BY <1>2, <2>1, <2>2, BlanksEnd
    <3>2. e \notin b..(v - 1) BY <2>3, <3>1
    <3> QED BY <2>1, <3>1, <3>2
  <2>5. j \in Nat /\ v <= j /\ j <= e
    BY <1>2, <2>1, <2>4, ScanStops
  <2>6. Cur = [of |-> Cur.of, i |-> Cur.i, end |-> Cur.end, node |-> Cur.node, key |-> Cur.key]
    BY <2>2 DEF CallIs
  <2>7. /\ d.i = j + 1 /\ d.of = Cur.of /\ d.end = Cur.end
        /\ d.node = AppendArray(Cur.node, GetValue(chars))
        /\ d = [of |-> d.of, i |-> d.i, end |-> d.end, node |-> d.node, key |-> d.key]
    <3>1. d = [Cur EXCEPT !.node = AppendArray(Cur.node, GetValue(chars)), !.i = j + 1]
      BY <2>6
    <3> HIDE DEF d
    <3> QED BY <2>6, <3>1
  <2>8. d.node.type = Cur.node.type /\ "type" \in DOMAIN d.node
    BY <2>2, <2>7, ElementKeepsType DEF CallIs
  <2>9. SetCur(d) /\ UNCHANGED <<text, at, stack, pairs, result>> BY <1>1, <1>4
  <2> HIDE DEF d
  <2>10. /\ b < d.i /\ d.i \in Nat /\ d.i <= Len(text) /\ Cur.i <= d.i
         /\ Cur.end # 0 => d.i <= Cur.end + 1
    BY <2>1, <2>2, <2>4, <2>5, <2>7
  <2>11. CallsInv' /\ Cur' = d /\ Len(calls') = Len(calls)
    BY <1>1, <2>7, <2>8, <2>9, <2>10, Continues
  <2>12. PairsInv' BY <1>1, PairsStay DEF ParserInv
  <2>13. Remaining' < Remaining
    <3>1. Len(calls) \in Nat \ {0} /\ calls' # <<>> BY <1>1, <2>11, Innermost
    <3>2. Remaining' = 2 * (Len(text) + 1 - d.i) + Len(calls)
      BY <1>1, <2>11, <3>1 DEF Remaining
    <3>3. Remaining = 2 * (Len(text) + 1 - b) + Len(calls) BY <1>1, <2>1, Left
    <3> QED BY <2>2, <2>10, <3>1, <3>2, <3>3
  <2> QED BY <2>11, <2>12, <2>13 DEF ParserInv
<1> QED BY <1>2, <1>3, <1>4

\* A container that is opened between the braces of another is closed there.
LEMMA ObjectNestedKept ==
  ASSUME ParserInv, ObjectNested PROVE ParserInv' /\ Remaining' < Remaining
<1>1. /\ calls # <<>> /\ Complete(Cur)
      /\ UNCHANGED <<text, at, stack, pairs>> /\ result' = result
      /\ At(ValueAt(Cur)) \in Opening
      /\ calls' = Front(calls) \o <<[Cur EXCEPT !.key = Key(Cur), !.i = ValueAt(Cur)],
                                    Call(ValueAt(Cur), pairs)>>
  BY DEF ObjectNested, Running
<1>2. PICK n \in 1..Len(calls) : n = Len(calls)
  <2>1. Len(calls) \in Nat \ {0} BY <1>1, Innermost
  <2> QED BY <2>1
<1>3. PICK e \in Nat, v \in Nat, b \in Nat :
        e = Cur.end /\ v = ValueAt(Cur) /\ b = Cur.i /\ b < v /\ v < e
  BY <1>1, Positions, Innermost
<1>4. /\ n \in Nat \ {0} /\ Len(text) \in Nat /\ e < Len(text)
      /\ CallIs(n) /\ Cur = calls[n] /\ DOMAIN calls = 1..n
  BY <1>1, <1>2, <1>3, Innermost
<1>5. PICK o \in DOMAIN pairs : e = pairs[o] /\ o <= b
  BY <1>3, <1>4 DEF CallIs
<1>6. o \in Nat BY DEF ParserInv, PairsInv
<1>7. v \in DOMAIN pairs /\ pairs[v] \in Nat /\ v < pairs[v] /\ pairs[v] < e
  BY <1>1, <1>3, <1>5, <1>6, Inside
<1> DEFINE c == [Cur EXCEPT !.key = Key(Cur), !.i = v]
           d == Call(v, pairs)
           t == Front(calls) \o <<c, d>>
<1>8. /\ t \in Seq(Values(t)) /\ Len(t) = n + 1 /\ t # <<>> /\ t[n] = c /\ t[n + 1] = d
      /\ \A k \in 1..(n - 1) : t[k] = calls[k]
  <2>1. calls \in Seq(Values(calls)) BY DEF ParserInv, CallsInv
  <2> HIDE DEF c, d
  <2>2. t = Push(calls, c, d) /\ calls # <<>> BY <1>1 DEF Push
  <2> HIDE DEF t
  <2>3. IsPushed(t, calls, c, d) BY <2>1, <2>2, Pushed
  <2> QED BY <1>2, <2>3 DEF IsPushed
<1>9. calls' = t BY <1>1, <1>3
<1>10. /\ c.i = v /\ c.of = Cur.of /\ c.end = e /\ c.node = Cur.node
       /\ c = [of |-> c.of, i |-> c.i, end |-> c.end, node |-> c.node, key |-> c.key]
  <2>1. Cur = [of |-> Cur.of, i |-> Cur.i, end |-> Cur.end, node |-> Cur.node, key |-> Cur.key]
    BY <1>4 DEF CallIs
  <2>2. c = [Cur EXCEPT !.key = Key(Cur), !.i = v] OBVIOUS
  <2> HIDE DEF c
  <2> QED BY <1>3, <2>1, <2>2
<1>11. /\ \/ d.of = "object" /\ d.node.type = "OBJECT" /\ d.i = v
          \/ d.of = "array" /\ d.node.type = "ARRAY" /\ d.i = v + 1
       /\ "type" \in DOMAIN d.node /\ d.end = pairs[v]
       /\ d = [of |-> d.of, i |-> d.i, end |-> d.end, node |-> d.node, key |-> d.key]
  BY <1>7 DEF Call, ArrayCall, ObjectCall, ArrayNode, ObjectNode, Pair
<1>12. Cur.of = "object"
  BY <1>1 DEF ObjectNested, Running
<1> HIDE DEF c, d, t
<1>13. CallIs(n)'
  <2>1. c.of = "object" /\ c.node.type = "OBJECT" /\ "type" \in DOMAIN c.node
    BY <1>4, <1>10, <1>12 DEF CallIs
  <2>2. c.i \in 0..Len(text) /\ c.end = pairs[o] /\ o <= c.i /\ c.i <= c.end + 1
    BY <1>3, <1>4, <1>5, <1>6, <1>10
  <2>3. c.i \in DOMAIN pairs /\ pairs[c.i] < c.end /\ d.end = pairs[c.i] /\ c.i <= d.i
    BY <1>3, <1>7, <1>10, <1>11
  <2>4. calls'[n] = c /\ calls'[n + 1] = d /\ pairs' = pairs /\ text' = text
    BY <1>1, <1>8, <1>9
  <2> QED BY <1>10, <2>1, <2>2, <2>3, <2>4 DEF CallIs
<1>14. CallIs(n + 1)'
  <2>1. d.i \in Nat /\ v <= d.i /\ d.i <= d.end + 1 /\ d.i <= Len(text)
    BY <1>3, <1>4, <1>7, <1>11
  <2>0. Len(calls') = n + 1 BY <1>8, <1>9
  <2>2. calls'[n + 1] = d /\ pairs' = pairs /\ text' = text /\ ~ (n + 1 < Len(calls'))
    <3>1. calls'[n + 1] = d BY <1>8, <1>9
    <3>2. pairs' = pairs /\ text' = text BY <1>1
    <3>3. n \in Nat BY <1>4
    <3>4. ~ (n + 1 < Len(calls')) BY <2>0, <3>3
    <3> QED BY <3>1, <3>2, <3>4
  <2> QED BY <1>4, <1>7, <1>11, <2>1, <2>2 DEF CallIs
<1>15. ASSUME NEW k \in 1..(n - 1) PROVE CallIs(k)'
  <2>1. CallIs(k) /\ k < Len(calls) /\ k < Len(calls') /\ calls'[k] = calls[k]
    BY <1>2, <1>4, <1>8, <1>9 DEF ParserInv, CallsInv
  <2>2. calls'[k + 1].end = calls[k + 1].end /\ calls[k].i <= calls'[k + 1].i
    <3>1. CASE k + 1 = n
      <4>1. calls[k].i \in Nat /\ calls[k].i <= calls[n].i BY <1>4, <2>1, <3>1 DEF CallIs
      <4> QED BY <1>3, <1>4, <1>8, <1>9, <1>10, <3>1, <4>1
    <3>2. CASE k + 1 # n
      <4>1. k + 1 \in 1..(n - 1) BY <1>4, <3>2
      <4> QED BY <1>8, <1>9, <2>1, <4>1 DEF CallIs
    <3> QED BY <3>1, <3>2
  <2> QED BY <1>1, <2>1, <2>2 DEF CallIs
<1>16. CallsInv'
  <2>1. \A k \in DOMAIN calls' : k = n \/ k = n + 1 \/ k \in 1..(n - 1)
    BY <1>4, <1>8, <1>9
  <2>2. \A k \in DOMAIN calls' : CallIs(k)' BY <1>13, <1>14, <1>15, <2>1
  <2> QED BY <1>1, <1>8, <1>9, <2>2 DEF CallsInv, ParserInv, At
<1>17. PairsInv' BY <1>1, PairsStay DEF ParserInv
<1>18. Remaining' < Remaining
  <2>1. Remaining = 2 * (Len(text) + 1 - b) + n BY <1>1, <1>2, <1>3, Left
  <2>0. Len(calls') = n + 1 /\ calls'[n + 1] = d /\ calls' # <<>> BY <1>8, <1>9
  <2>2. Remaining' = 2 * (Len(text) + 1 - d.i) + (n + 1)
    BY <1>1, <2>0 DEF Remaining, Cur, Last
  <2>3. PICK x \in Nat : x = d.i /\ b < x BY <1>3, <1>11
  <2>4. n \in Nat /\ Len(text) \in Nat BY <1>4
  <2> QED BY <2>1, <2>2, <2>3, <2>4
<1> QED BY <1>16, <1>17, <1>18 DEF ParserInv

LEMMA FindBraceKept ==
  ASSUME ParserInv, FindBrace PROVE ParserInv' /\ Remaining' < Remaining
<1>1. PairsInv'
  <2>1. \/ At(NextBrace) \in Opening
        \/ At(NextBrace) \in Closing /\ stack # <<>>
        \/ At(NextBrace) \in Closing /\ stack = <<>>
    BY DEF FindBrace
  <2> QED BY <2>1, OpeningKept, PairKept, UndefinedKept DEF ParserInv
<1>2. calls' = <<>> /\ (result' = Pending \/ result' = [type |-> "UNDEFINED"])
  BY DEF FindBrace
<1>3. result'.type \in {"PENDING", "UNDEFINED"} BY <1>2 DEF Pending
<1>4. CallsInv' BY <1>2, <1>3, NoCallsAfter
<1>5. Remaining' < Remaining
  <2>1. /\ NextBrace \in Nat /\ at <= NextBrace /\ NextBrace < Len(text)
        /\ Len(text) \in Nat /\ at \in Nat
    BY ScanStops DEF ParserInv, PairsInv, Texts, FindBrace, NextBrace
  <2>2. at' = NextBrace + 1 /\ text' = text /\ calls = <<>> /\ result = Pending
    BY DEF FindBrace
  <2>3. Remaining = 2 * Len(text) + 4 + Len(text) - at BY <2>2 DEF Remaining
  <2>4. Remaining' = 0 \/ Remaining' = 2 * Len(text) + 4 + Len(text) - (NextBrace + 1)
    BY <1>2, <2>2 DEF Remaining, Pending
  <2> HIDE DEF Remaining
  <2> QED BY <2>1, <2>3, <2>4
<1> QED BY <1>1, <1>4, <1>5 DEF ParserInv

\* The first call: no opening is left unseen by then.
LEMMA StartKept ==
  ASSUME ParserInv, Start PROVE ParserInv' /\ Remaining' < Remaining
<1> DEFINE i == SkipBlanks(Len(text))[0]
           c == Call(i, pairs)
<1>1. /\ UNCHANGED <<text, at, stack, pairs, result>> /\ result = Pending
      /\ calls' = <<c>> /\ NextBrace = Len(text)
  BY DEF Start
<1>2. Len(text) \in Nat /\ at \in Nat /\ i \in Nat /\ i <= Len(text)
  BY BlanksEnd DEF ParserInv, PairsInv, Texts
<1>3. \A k \in at..(Len(text) - 1) : At(k) \notin Opening
  BY <1>1, <1>2, ScanStops DEF NextBrace
<1> HIDE DEF i
<1>4. /\ \/ c.of = "object" /\ c.node.type = "OBJECT" /\ c.i = i
         \/ c.of = "array" /\ c.node.type = "ARRAY" /\ c.i = i + 1 /\ i < Len(text)
      /\ "type" \in DOMAIN c.node /\ c.end = Pair(pairs, i)
      /\ c = [of |-> c.of, i |-> c.i, end |-> c.end, node |-> c.node, key |-> c.key]
  BY DEF Call, ArrayCall, ObjectCall, ArrayNode, ObjectNode
<1> HIDE DEF c
<1>5. \/ c.end = 0
      \/ \E o \in DOMAIN pairs : c.end = pairs[o] /\ o <= c.i /\ c.i <= c.end + 1
  <2>1. CASE i \notin DOMAIN pairs BY <1>4, <2>1 DEF Pair
  <2>2. CASE i \in DOMAIN pairs
    <3>1. pairs[i] \in Nat /\ i < pairs[i] BY <2>2 DEF ParserInv, PairsInv
    <3>2. c.end = pairs[i] BY <1>4, <2>2 DEF Pair
    <3> QED BY <1>2, <1>4, <2>2, <3>1, <3>2
  <2> QED BY <2>1, <2>2
<1>6. /\ calls' \in Seq(Values(calls')) /\ Len(calls') = 1 /\ DOMAIN calls' = {1}
      /\ calls'[1] = c
  <2>1. PICK x : x = c OBVIOUS
  <2>2. calls' = <<x>> BY <1>1, <2>1
  <2>3. <<x>> \in Seq({x}) /\ Len(<<x>>) = 1 /\ DOMAIN <<x>> = {1} OBVIOUS
  <2>4. <<x>> \in Seq(Values(<<x>>)) BY <2>3, OverItself
  <2> QED BY <2>1, <2>2, <2>3, <2>4
<1>7. CallIs(1)'
  <2>1. c.i \in 0..Len(text) BY <1>2, <1>4
  <2> QED BY <1>1, <1>4, <1>5, <1>6, <2>1 DEF CallIs
<1>8. result'.type = "PENDING" BY <1>1 DEF Pending
<1>9. CallsInv' BY <1>1, <1>3, <1>6, <1>7, <1>8 DEF CallsInv, At
<1>10. PairsInv' BY <1>1, PairsStay DEF ParserInv
<1>11. Remaining' < Remaining
  <2>1. calls = <<>> BY DEF Start
  <2>2. Remaining = 2 * Len(text) + 4 + Len(text) - at BY <1>1, <2>1 DEF Remaining
  <2>3. Remaining' = 2 * (Len(text) + 1 - c.i) + 1
    <3>1. calls' # <<>> BY <1>6
    <3> QED BY <1>1, <1>6, <3>1 DEF Remaining, Cur, Last
  <2>4. PICK x \in Nat : x = c.i BY <1>2, <1>4
  <2>5. at <= Len(text) BY DEF ParserInv, PairsInv
  <2> QED BY <1>2, <2>2, <2>3, <2>4, <2>5
<1> QED BY <1>9, <1>10, <1>11 DEF ParserInv

LEMMA ParseAnotherKept ==
  ASSUME ParserInv, ParseAnother PROVE ParserInv'
<1>1. text' \in Texts /\ at' = 0 /\ stack' = <<>> /\ pairs' = <<>> /\ calls' = <<>>
      /\ result' = Pending
  BY DEF ParseAnother
<1>2. PairsInv'
  <2>1. Len(text') \in Nat BY <1>1 DEF Texts
  <2>2. DOMAIN stack' = {} /\ DOMAIN pairs' = {} /\ stack' \in Seq(Nat) BY <1>1
  <2> QED BY <1>1, <2>1, <2>2 DEF PairsInv
<1>3. CallsInv' BY <1>1, NoCallsAfter DEF Pending
<1> QED BY <1>2, <1>3 DEF ParserInv

\* A step of the parse keeps the invariant and has less to do.
LEMMA ParsingKept ==
  ASSUME ParserInv, ParseStep
  PROVE  ParserInv' /\ Remaining' < Remaining
BY FindBraceKept, StartKept, ObjectEndsKept, ObjectThrowsKept, ObjectNestedKept,
   ObjectValueKept, ArrayElementKept, ArrayEndsKept DEF ParseStep

LEMMA ParserStep ==
  ParserInv /\ [Next]_vars => ParserInv'
<1> SUFFICES ASSUME ParserInv, [Next]_vars PROVE ParserInv' OBVIOUS
<1>1. CASE ParseStep BY <1>1, ParsingKept
<1>2. CASE ParseAnother BY <1>2, ParseAnotherKept
<1>3. CASE UNCHANGED vars
  BY <1>3 DEF vars, ParserInv, PairsInv, CallsInv, CallIs, Values, At
<1> QED BY <1>1, <1>2, <1>3 DEF Next

THEOREM ParserInvariant == Spec => []ParserInv
BY ParserInit, ParserStep, PTL DEF Spec

\* For every text, over any symbols: what findBarcePairs has found are pairs
\* of positions within the text, an opening before its closing; each call
\* builds a node of its own kind, with its index and its end in the text; and
\* when parse is over, no call is left (jsonparser.cpp:10-226).
THEOREM JsonTypeCorrect == Spec => []JsonTypeOK
<1>1. ParserInv => JsonTypeOK
  <2> SUFFICES ASSUME ParserInv PROVE JsonTypeOK OBVIOUS
  <2>1. Len(text) \in Nat /\ at \in 0..Len(text)
    BY DEF ParserInv, PairsInv, Texts
  <2>2. \A k \in DOMAIN stack : stack[k] \in 0..(at - 1)
    <3> TAKE k \in DOMAIN stack
    <3>1. stack[k] \in Nat /\ stack[k] < at BY DEF ParserInv, PairsInv
    <3> QED BY <2>1, <3>1
  <2>3. \A i \in DOMAIN pairs : i \in 0..(Len(text) - 1) /\ pairs[i] \in (i + 1)..(Len(text) - 1)
    <3> TAKE i \in DOMAIN pairs
    <3>1. i \in Nat /\ pairs[i] \in Nat /\ i < pairs[i] /\ pairs[i] < at
      BY DEF ParserInv, PairsInv
    <3> QED BY <2>1, <3>1
  <2>4. \A k \in DOMAIN calls :
          /\ calls[k].i \in 0..Len(text) /\ calls[k].end \in 0..Len(text)
          /\ calls[k].of = "array" <=> calls[k].node.type = "ARRAY"
          /\ calls[k].of = "object" <=> calls[k].node.type = "OBJECT"
    <3> TAKE k \in DOMAIN calls
    <3>1. k \in 1..Len(calls) BY DEF ParserInv, CallsInv
    <3>2. /\ CallIs(k) /\ calls[k].i \in Nat /\ calls[k].end \in Nat
          /\ calls[k].end < Len(text) \/ calls[k].end = 0
      BY <3>1, AnyCall
    <3> QED BY <2>1, <3>2 DEF CallIs
  <2>5. result # Pending => calls = <<>> BY DEF ParserInv, CallsInv
  <2>6. result.type \in {"PENDING", "OBJECT", "ARRAY", "THROWN", "UNDEFINED"}
    BY DEF ParserInv, CallsInv
  <2> QED BY <2>1, <2>2, <2>3, <2>4, <2>5, <2>6 DEF JsonTypeOK
<1> QED BY <1>1, ParserInvariant, PTL

\* Whatever braces a client sends, in whatever order, a nested call of
\* parseObject or parseArray ends before its caller does and never reads
\* before the opening it is for (jsonparser.cpp:119-214): the 0 that
\* bracePair gives for an unknown index ends no call but the first.
THEOREM CallsStayNested == Spec => []CallsNest
<1>1. ParserInv => CallsNest
  <2> SUFFICES ASSUME ParserInv, NEW k \in 2..Len(calls)
               PROVE  /\ calls[k - 1].i < calls[k].end /\ calls[k].end < calls[k - 1].end
                      /\ calls[k - 1].i <= calls[k].i /\ calls[k].i <= calls[k].end + 1
    BY DEF CallsNest
  <2>1. Len(calls) \in Nat BY DEF ParserInv, CallsInv
  <2>2. PICK m \in 1..Len(calls) : m = k - 1 /\ m + 1 = k /\ m < Len(calls) BY <2>1
  <2>3. CallIs(m) /\ calls[m].i \in Nat /\ calls[m].end \in Nat BY AnyCall
  <2>4. CallIs(k) /\ calls[k].i \in Nat /\ calls[k].end \in Nat
    <3>1. k \in 1..Len(calls) BY <2>1
    <3> QED BY <3>1, AnyCall
  <2>5. /\ calls[m].i \in DOMAIN pairs /\ pairs[calls[m].i] < calls[m].end
        /\ calls[k].end = pairs[calls[m].i] /\ calls[m].i <= calls[k].i
    BY <2>2, <2>3 DEF CallIs
  <2>6. calls[m].i < pairs[calls[m].i] /\ pairs[calls[m].i] \in Nat
    BY <2>5 DEF ParserInv, PairsInv
  <2>7. calls[k].end # 0 BY <2>3, <2>5, <2>6
  <2>8. calls[k].i <= calls[k].end + 1 BY <2>4, <2>7 DEF CallIs
  <2> QED BY <2>2, <2>5, <2>6, <2>8
<1> QED BY <1>1, ParserInvariant, PTL

\* Every step of findBarcePairs, parseObject and parseArray leaves less to do
\* than there was, and what there is to do is a number that the length of the
\* text bounds: whatever the text, parse is over after 3 * Len(text) + 4 of
\* them (jsonparser.cpp:10-226).  The safety half of "parse returns".
THEOREM ParseAdvances ==
  Spec => Advances /\ [](Remaining \in 0..(3 * Len(text) + 4))
<1>1. ParserInv => [ParseStep => Remaining' < Remaining]_vars
  BY ParsingKept
<1> DEFINE Bounded == Remaining \in 0..(3 * Len(text) + 4)
<1> DEFINE Counted == Len(text) \in Nat /\ Remaining \in Nat
<1>2. ParserInv => Counted
  <2> SUFFICES ASSUME ParserInv PROVE Counted OBVIOUS
  <2>1. Len(text) \in Nat /\ at \in 0..Len(text) BY DEF ParserInv, PairsInv, Texts
  <2>2. CASE calls = <<>> BY <2>1, <2>2 DEF Remaining
  <2>3. CASE calls # <<>> BY <2>1, <2>3, Left
  <2> QED BY <2>2, <2>3
<1>3. Init => Bounded
  BY DEF Init, Texts, Remaining
<1>4. ASSUME ParserInv, Counted, Counted', Bounded, [Next]_vars PROVE Bounded'
  <2>1. Len(text') \in Nat /\ Remaining' \in Nat BY <1>4
  <2>2. CASE ParseStep
    <3>1. text' = text
      BY <2>2 DEF ParseStep, FindBrace, Start, ObjectEnds, ObjectThrows, ObjectNested,
                  ObjectValue, ArrayElement, ArrayEnds
    <3>2. Remaining' < Remaining BY <1>4, <2>2, ParsingKept
    <3> HIDE DEF Remaining
    <3> QED BY <1>4, <2>1, <3>1, <3>2
  <2>3. CASE ParseAnother
    <3>1. Remaining' = 2 * Len(text') + 4 + Len(text') - 0
      BY <2>3 DEF ParseAnother, Remaining
    <3> HIDE DEF Remaining
    <3> QED BY <2>1, <3>1
  <2>4. CASE UNCHANGED vars BY <1>4, <2>4 DEF vars, Remaining, Cur
  <2> QED BY <1>4, <2>2, <2>3, <2>4 DEF Next
<1> QED BY <1>1, <1>2, <1>3, <1>4, ParserInvariant, PTL DEF Spec, Advances
=============================================================================
