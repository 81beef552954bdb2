-------------------------- MODULE AsyncLog_proofs --------------------------
(* Proofs about AsyncLog, for any numbers of threads, lines and days, any   *)
(* queue size and any number of lines per file.                             *)
EXTENDS AsyncLog, FiniteSetTheorems, TLAPS

USE QueueAssumption

-----------------------------------------------------------------------------
(* The ring of BlockQueue is a queue, whatever its size: what push and pop  *)
(* do to the indices is Append and Tail on the contents.                    *)

\* The indices agree with the size (the slot that a push would take is the one
\* m_size + 1 after m_front, also while both are still -1), and the slots in
\* use were put to use.
RingOK ==
  /\ NextSlot(m_back) = (m_front + m_size + 1) % m_max_size
  /\ \A i \in 1..m_size : m_array[(m_front + i) % m_max_size] \in Items

\* % on the indices that occur.
LEMMA Wrapped ==
  ASSUME NEW a \in 0..(2 * m_max_size)
  PROVE  /\ a < m_max_size => a % m_max_size = a
         /\ a >= m_max_size /\ a < 2 * m_max_size => a % m_max_size = a - m_max_size
         /\ a = 2 * m_max_size => a % m_max_size = 0
         /\ a % m_max_size \in Slots
  BY DEF Slots

\* What makes a sequence the tail of another, or the other with an item more.
LEMMA TailIs ==
  ASSUME NEW c \in Seq(Items), NEW d \in Seq(Items), c # <<>>,
         Len(d) = Len(c) - 1, \A i \in 1..Len(d) : d[i] = c[i + 1]
  PROVE  d = Tail(c)
<1>1. Tail(c) \in Seq(Items) /\ Len(Tail(c)) = Len(c) - 1
  OBVIOUS
<1>2. \A i \in 1..Len(d) : Tail(c)[i] = c[i + 1]
  OBVIOUS
<1> QED BY <1>1, <1>2

LEMMA AppendIs ==
  ASSUME NEW c \in Seq(Items), NEW d \in Seq(Items), NEW x \in Items,
         Len(d) = Len(c) + 1, d[Len(c) + 1] = x,
         \A i \in 1..Len(c) : d[i] = c[i]
  PROVE  d = Append(c, x)
<1>1. Append(c, x) \in Seq(Items) /\ Len(Append(c, x)) = Len(c) + 1
  OBVIOUS
<1>2. \A i \in 1..Len(d) : Append(c, x)[i] = d[i]
  OBVIOUS
<1> QED BY <1>1, <1>2

\* The contents are a sequence of items.
ContentsOK ==
  /\ Contents \in Seq(Items) /\ Len(Contents) = m_size
  /\ \A i \in 1..m_size : Contents[i] = m_array[(m_front + i) % m_max_size]

LEMMA ContentsType == QueueTypeOK /\ RingOK => ContentsOK
<1> SUFFICES ASSUME QueueTypeOK, RingOK PROVE ContentsOK OBVIOUS
<1> DEFINE f(i) == m_array[(m_front + i) % m_max_size]
<1>1. m_size \in Nat /\ \A i \in 1..m_size : f(i) \in Items
  BY DEF QueueTypeOK, RingOK
<1>2. Contents = [i \in 1..m_size |-> f(i)]
  BY DEF Contents
<1> HIDE DEF f
<1>3. /\ Contents \in Seq(Items) /\ Len(Contents) = m_size
      /\ \A i \in 1..m_size : Contents[i] = f(i)
  BY <1>1, <1>2
<1> QED BY <1>3 DEF f, ContentsOK

LEMMA RingInit == InitQueue => QueueTypeOK /\ RingOK /\ Contents = <<>>
  BY Wrapped DEF InitQueue, QueueTypeOK, RingOK, Contents, Slots, NextSlot

\* The slots of different items are different, and that of a new item is new.
LEMMA OwnSlot ==
  ASSUME QueueTypeOK, NEW i \in 1..m_max_size, NEW j \in 1..m_max_size,
         (m_front + i) % m_max_size = (m_front + j) % m_max_size
  PROVE  i = j
<1>1. /\ m_front \in -1..(m_max_size - 1)
      /\ m_front + i \in 0..(2 * m_max_size - 1)
      /\ m_front + j \in 0..(2 * m_max_size - 1)
  BY DEF QueueTypeOK, Slots
<1>2. ASSUME NEW k \in 1..m_max_size
      PROVE  /\ m_front + k < m_max_size => (m_front + k) % m_max_size = m_front + k
             /\ m_front + k >= m_max_size =>
                  (m_front + k) % m_max_size = (m_front + k) - m_max_size
  <2> DEFINE a == m_front + k
  <2>1. a \in 0..(2 * m_max_size) /\ a < 2 * m_max_size BY <1>1
  <2> HIDE DEF a
  <2>2. /\ a < m_max_size => a % m_max_size = a
        /\ a >= m_max_size => a % m_max_size = a - m_max_size
    BY <2>1, Wrapped
  <2> QED BY <2>2 DEF a
<1> QED BY <1>1, <1>2

\* push() on a queue that has room appends to its contents.
LEMMA PushAppends ==
  ASSUME QueueTypeOK, RingOK, ~Full, NEW x \in Items, PushItem(x)
  PROVE  QueueTypeOK' /\ RingOK' /\ Contents' = Append(Contents, x)
<1> DEFINE at(i) == (m_front + i) % m_max_size
<1>1. /\ m_size \in 0..(m_max_size - 1) /\ m_size' = m_size + 1
      /\ m_front \in -1..(m_max_size - 1) /\ m_front' = m_front
      /\ m_array \in [Slots -> Items \union {Empty}]
      /\ m_back + 1 \in 0..(2 * m_max_size - 1)
  BY DEF QueueTypeOK, Full, PushItem, Slots
<1>2. \A i \in 1..(m_size + 1) : at(i) \in Slots
  BY <1>1, Wrapped
<1>3. m_back' = at(m_size + 1)
  BY <1>1 DEF RingOK, PushItem
<1>4. \A i \in 1..m_size : at(i) # at(m_size + 1)
  BY <1>1, OwnSlot
<1>5. ASSUME NEW i \in 1..m_size
      PROVE  at(i) = (m_front' + i) % m_max_size /\ at(i) \in Slots
  <2>1. i \in 1..(m_size + 1) /\ m_front' = m_front BY <1>1
  <2> QED BY <1>2, <2>1
<1>6. /\ at(m_size + 1) = (m_front' + m_size') % m_max_size
      /\ at(m_size + 1) \in Slots
  <2>1. m_size + 1 \in 1..(m_size + 1) BY <1>1
  <2>2. m_front' = m_front /\ m_size' = m_size + 1 BY <1>1
  <2> QED BY <1>2, <2>1, <2>2
<1>7. \A i \in 1..m_size : m_array[at(i)] \in Items
  BY DEF RingOK
<1> HIDE DEF at
<1>8. m_array' = [m_array EXCEPT ![at(m_size + 1)] = x]
  BY <1>3 DEF PushItem
<1>9. /\ m_array'[at(m_size + 1)] = x
      /\ \A i \in 1..m_size : m_array'[at(i)] = m_array[at(i)]
  BY <1>1, <1>4, <1>5, <1>6, <1>8
<1>10. QueueTypeOK'
  <2>1. m_array' \in [Slots -> Items \union {Empty}] BY <1>1, <1>6, <1>8
  <2>2. m_back' \in Slots BY <1>3, <1>6
  <2> QED BY <1>1, <2>1, <2>2 DEF QueueTypeOK, Slots
<1>11. RingOK'
  <2>1. NextSlot(m_back') = (m_front' + m_size' + 1) % m_max_size
    <3> DEFINE a == m_front + m_size + 1
    <3>1. a \in 0..(2 * m_max_size - 1) /\ m_front' + m_size' = a BY <1>1
    <3>2. m_back' = a % m_max_size BY <1>3, <1>6, <3>1
    <3> HIDE DEF a
    <3>3. ((a % m_max_size) + 1) % m_max_size = (a + 1) % m_max_size
      <4>1. CASE a < m_max_size BY <3>1, <4>1, Wrapped
      <4>2. CASE a >= m_max_size
        <5>1. a % m_max_size = a - m_max_size BY <3>1, <4>2, Wrapped
        <5>2. CASE a + 1 = 2 * m_max_size
          <6>1. (a + 1) % m_max_size = 0 BY <3>1, <5>2, Wrapped
          <6>2. (a % m_max_size) + 1 = m_max_size BY <3>1, <5>1, <5>2
          <6> QED BY <6>1, <6>2
        <5>3. CASE a + 1 # 2 * m_max_size
          <6>1. (a + 1) % m_max_size = a + 1 - m_max_size
            BY <3>1, <4>2, <5>3, Wrapped
          <6>2. (a - m_max_size + 1) % m_max_size = a - m_max_size + 1
            BY <3>1, <4>2, <5>3, Wrapped
          <6> QED BY <3>1, <5>1, <6>1, <6>2
        <5> QED BY <5>2, <5>3
      <4> QED BY <3>1, <4>1, <4>2
    <3> QED BY <3>1, <3>2, <3>3 DEF NextSlot
  <2>2. ASSUME NEW i \in 1..m_size'
        PROVE  m_array'[(m_front' + i) % m_max_size] \in Items
    <3>1. CASE i \in 1..m_size BY <1>5, <1>7, <1>9, <3>1
    <3>2. CASE i = m_size' BY <1>6, <1>9, <3>2
    <3> QED BY <1>1, <3>1, <3>2
  <2> QED BY <2>1, <2>2 DEF RingOK, NextSlot
<1>12. Contents' = Append(Contents, x)
  <2>1. /\ Contents \in Seq(Items) /\ Len(Contents) = m_size
        /\ \A i \in 1..m_size : Contents[i] = m_array[at(i)]
    BY ContentsType DEF at, ContentsOK
  <2>2. /\ Contents' \in Seq(Items) /\ Len(Contents') = m_size'
        /\ \A i \in 1..m_size' :
             Contents'[i] = m_array'[(m_front' + i) % m_max_size]
    <3>1. ContentsOK' BY <1>10, <1>11, ContentsType, PTL
    <3> QED BY <3>1 DEF ContentsOK
  <2>3. \A i \in 1..m_size : Contents'[i] = Contents[i]
    <3>1. \A i \in 1..m_size : i \in 1..m_size' BY <1>1
    <3> QED BY <1>5, <1>9, <2>1, <2>2, <3>1
  <2>4. Contents'[m_size + 1] = x
    BY <1>1, <1>6, <1>9, <2>2
  <2> QED BY <1>1, <2>1, <2>2, <2>3, <2>4, AppendIs
<1> QED BY <1>10, <1>11, <1>12

\* pop() on a queue that holds something takes the head of its contents.
LEMMA PopTakesHead ==
  ASSUME QueueTypeOK, RingOK, m_size > 0, PopItem
  PROVE  /\ QueueTypeOK' /\ RingOK'
         /\ Contents # <<>> /\ Contents' = Tail(Contents)
         /\ Oldest = Head(Contents) /\ Oldest \in Items
<1>1. /\ m_size \in 1..m_max_size /\ m_size' = m_size - 1
      /\ m_front \in -1..(m_max_size - 1)
      /\ m_array' = m_array /\ m_back' = m_back
      /\ m_front' = (m_front + 1) % m_max_size
  BY DEF QueueTypeOK, PopItem, NextSlot, Slots
<1>2. /\ m_front' \in Slots
      /\ m_front + 1 < m_max_size => m_front' = m_front + 1
      /\ m_front + 1 = m_max_size => m_front' = 0
      /\ m_front + 1 \in 0..m_max_size
  <2>1. m_front + 1 \in 0..m_max_size BY <1>1
  <2> QED BY <1>1, <2>1, Wrapped
<1>3. ASSUME NEW i \in 0..m_size
      PROVE  (m_front' + i) % m_max_size = (m_front + (i + 1)) % m_max_size
  <2>1. CASE m_front + 1 < m_max_size
    <3>1. m_front' + i = m_front + (i + 1) BY <1>1, <1>2, <2>1
    <3> QED BY <3>1
  <2>2. CASE m_front + 1 = m_max_size
    <3>1. m_front' + i = i /\ m_front + (i + 1) = i + m_max_size
      BY <1>1, <1>2, <2>2
    <3>2. i % m_max_size = (i + m_max_size) % m_max_size
      BY <1>1, Wrapped
    <3> QED BY <3>1, <3>2
  <2> QED BY <1>2, <2>1, <2>2
<1>4. QueueTypeOK'
  BY <1>1, <1>2 DEF QueueTypeOK
<1>5. RingOK'
  <2>1. NextSlot(m_back') = (m_front' + m_size' + 1) % m_max_size
    <3>0. m_size \in 0..m_size BY <1>1
    <3>1. (m_front' + m_size) % m_max_size = (m_front + (m_size + 1)) % m_max_size
      BY <3>0, <1>3
    <3>2. m_front' + m_size' + 1 = m_front' + m_size
      BY <1>1, <1>2 DEF Slots
    <3>3. m_front + (m_size + 1) = m_front + m_size + 1
      BY <1>1
    <3> QED BY <1>1, <3>1, <3>2, <3>3 DEF RingOK, NextSlot
  <2>2. ASSUME NEW i \in 1..m_size'
        PROVE  m_array'[(m_front' + i) % m_max_size] \in Items
    <3>1. i \in 0..m_size /\ i + 1 \in 1..m_size BY <1>1
    <3>2. m_array[(m_front + (i + 1)) % m_max_size] \in Items BY <3>1 DEF RingOK
    <3>3. (m_front' + i) % m_max_size = (m_front + (i + 1)) % m_max_size
      BY <3>1, <1>3
    <3> QED BY <1>1, <3>2, <3>3
  <2> QED BY <2>1, <2>2 DEF RingOK, NextSlot
<1>6. /\ Contents \in Seq(Items) /\ Len(Contents) = m_size
      /\ \A i \in 1..m_size : Contents[i] = m_array[(m_front + i) % m_max_size]
  BY ContentsType DEF ContentsOK
<1>7. Contents' = Tail(Contents)
  <2>1. /\ Contents' \in Seq(Items) /\ Len(Contents') = m_size'
        /\ \A i \in 1..m_size' :
             Contents'[i] = m_array'[(m_front' + i) % m_max_size]
    <3>1. ContentsOK' BY <1>4, <1>5, ContentsType, PTL
    <3> QED BY <3>1 DEF ContentsOK
  <2>2. ASSUME NEW i \in 1..m_size' PROVE Contents'[i] = Contents[i + 1]
    <3>1. Contents'[i] = m_array[(m_front' + i) % m_max_size]
      BY <1>1, <2>1
    <3>0. i \in 0..m_size BY <1>1
    <3>2. (m_front' + i) % m_max_size = (m_front + (i + 1)) % m_max_size
      BY <3>0, <1>3
    <3>3. Contents[i + 1] = m_array[(m_front + (i + 1)) % m_max_size]
      BY <1>1, <1>6
    <3> QED BY <3>1, <3>2, <3>3
  <2>3. Contents # <<>> BY <1>1, <1>6
  <2> QED BY <1>1, <1>6, <2>1, <2>2, <2>3, TailIs
<1>8. Oldest = Head(Contents) /\ Contents # <<>> /\ Oldest \in Items
  <2>1. Oldest = Contents[1]
    BY <1>1, <1>6 DEF Oldest, NextSlot
  <2>2. Contents[1] = Head(Contents) /\ Contents # <<>> /\ Contents[1] \in Items
    BY <1>1, <1>6
  <2> QED BY <2>1, <2>2
<1> QED BY <1>4, <1>5, <1>6, <1>7, <1>8

-----------------------------------------------------------------------------
(* The log.                                                                 *)

USE LogAssumption

\* What each thread has in its hands: from the call on its line, from Format
\* on the text of that line; the log thread, between pop and fputs, a line.
InHands ==
  /\ \A t \in Threads : pc[t] # "idle" => line[t] \in Items
  /\ \A t \in Threads : Carries(t) => log_str[t] = line[t]
  /\ log_pc = "write" => single_log \in Items

LogInv == TypeOK /\ RingOK /\ InHands

\* What TypeOK says of all but the queue.
LEMMA LogTypes ==
  ASSUME TypeOK
  PROVE  /\ day \in Nat /\ MaxDay \in Nat /\ day <= MaxDay
         /\ pc \in [Threads -> PCs] /\ mday \in [Threads -> 0..day]
         /\ line \in [Threads -> Items \union {Empty}]
         /\ log_str \in [Threads -> Items \union {Empty}]
         /\ out \in Seq([line : Items, file : Files])
         /\ m_fp \in Files
  BY DEF TypeOK

\* A step of write_log up to the queue leaves the queue and the log thread be.
LEMMA QueueStays ==
  ASSUME QueueTypeOK, RingOK, UNCHANGED queue
  PROVE  QueueTypeOK' /\ RingOK' /\ Contents' = Contents
<1>1. /\ m_array' = m_array /\ m_size' = m_size
      /\ m_front' = m_front /\ m_back' = m_back
  BY DEF queue
<1> QED BY <1>1 DEF QueueTypeOK, RingOK, Contents, NextSlot

LEMMA LogInit == Init => LogInv /\ Contents = <<>>
<1> SUFFICES ASSUME Init PROVE LogInv /\ Contents = <<>> OBVIOUS
<1>1. QueueTypeOK /\ RingOK /\ Contents = <<>> BY RingInit DEF Init
<1>2. TypeOK BY <1>1 DEF Init, TypeOK, PCs, Files
<1>3. InHands BY DEF Init, InHands, Carries
<1> QED BY <1>1, <1>2, <1>3 DEF LogInv

LEMMA Quotient ==
  ASSUME NEW a \in Nat, NEW b \in Nat \ {0} PROVE a \div b \in Nat
  OBVIOUS

\* A file's name is a day and a number.
LEMMA OpenFileType ==
  ASSUME TypeOK, NEW d \in 0..day, OpenFile(d)
  PROVE  m_today' \in 0..day /\ m_count' \in Nat /\ m_fp' \in Files
<1>1. m_count + 1 \in Nat /\ (m_count + 1) \div m_split_line \in Nat
  <2>1. m_count + 1 \in Nat BY DEF TypeOK
  <2> QED BY <2>1, Quotient
<1>2. d \in 0..MaxDay BY DEF TypeOK
<1>3. m_fp \in Files BY DEF TypeOK
<1>4. <<d, 0>> \in Files /\ <<d, (m_count + 1) \div m_split_line>> \in Files
  BY <1>1, <1>2 DEF Files
<1>5. m_fp' \in {<<d, 0>>, <<d, (m_count + 1) \div m_split_line>>, m_fp}
  BY DEF OpenFile
<1>6. m_today' = d /\ m_count' \in {0, m_count + 1} BY DEF OpenFile
<1> QED BY <1>1, <1>3, <1>4, <1>5, <1>6

LEMMA FputsType ==
  ASSUME TypeOK, NEW l \in Items, Fputs(l)
  PROVE  out' \in Seq([line : Items, file : Files])
<1>1. [line |-> l, file |-> m_fp] \in [line : Items, file : Files]
  BY DEF TypeOK
<1> QED BY <1>1 DEF TypeOK, Fputs

\* One thread goes on with what it is doing.
LEMMA ThreadStep ==
  ASSUME LogInv, NEW t \in Threads, Call(t) \/ WriteLog(t)
  PROVE  /\ LogInv'
         /\ \/ Contents' = Contents
            \/ \E x \in Items : Len(Contents) < m_max_size
                                /\ Contents' = Append(Contents, x)
<1> USE DEF Goes
<1>0. TypeOK /\ RingOK /\ InHands /\ QueueTypeOK BY DEF LogInv, TypeOK
<1>1. CASE Call(t)
  <2>1. QueueTypeOK' /\ RingOK' /\ Contents' = Contents
    BY <1>0, <1>1, QueueStays DEF Call
  <2>2. calls' \in Items /\ calls' \in 0..MaxLines BY <1>0, <1>1 DEF Call, TypeOK
  <2>3. TypeOK' BY <1>0, <1>1, <2>1, <2>2
                DEF Call, TypeOK, PCs, clock, file, logger
  <2>4. InHands' BY <1>0, <1>1, <2>2 DEF Call, InHands, TypeOK, Carries, logger
  <2> QED BY <2>1, <2>3, <2>4 DEF LogInv
<1>2. CASE Localtime(t)
  <2>1. QueueTypeOK' /\ RingOK' /\ Contents' = Contents
    BY <1>0, <1>2, QueueStays DEF Localtime
  <2>3. TypeOK' BY <1>0, <1>2, <2>1 DEF Localtime, TypeOK, PCs, file, logger
  <2>4. InHands' BY <1>0, <1>2 DEF Localtime, InHands, TypeOK, Carries, logger
  <2> QED BY <2>1, <2>3, <2>4 DEF LogInv
<1>3. CASE CopyTm(t)
  <2>1. QueueTypeOK' /\ RingOK' /\ Contents' = Contents
    BY <1>0, <1>3, QueueStays DEF CopyTm
  <2>3. TypeOK' BY <1>0, <1>3, <2>1 DEF CopyTm, TypeOK, PCs, clock, file, logger
  <2>4. InHands' BY <1>0, <1>3 DEF CopyTm, InHands, TypeOK, Carries, logger
  <2> QED BY <2>1, <2>3, <2>4 DEF LogInv
<1>4. CASE Rotate(t)
  <2>1. QueueTypeOK' /\ RingOK' /\ Contents' = Contents
    BY <1>0, <1>4, QueueStays DEF Rotate
  <2>2. m_today' \in 0..day /\ m_count' \in Nat /\ m_fp' \in Files
    BY <1>0, <1>4, OpenFileType DEF Rotate, TypeOK
  <2>3. TypeOK' BY <1>0, <1>4, <2>1, <2>2 DEF Rotate, TypeOK, PCs, clock, logger
  <2>4. InHands' BY <1>0, <1>4 DEF Rotate, InHands, TypeOK, Carries, logger
  <2> QED BY <2>1, <2>3, <2>4 DEF LogInv
<1>5. CASE Format(t)
  <2>1. QueueTypeOK' /\ RingOK' /\ Contents' = Contents
    BY <1>0, <1>5, QueueStays DEF Format
  <2>3. TypeOK' BY <1>0, <1>5, <2>1 DEF Format, TypeOK, PCs, clock, file, logger
  <2>4. InHands' BY <1>0, <1>5 DEF Format, InHands, TypeOK, Carries, logger
  <2> QED BY <2>1, <2>3, <2>4 DEF LogInv
<1>6. CASE Choose(t)
  <2>1. QueueTypeOK' /\ RingOK' /\ Contents' = Contents
    BY <1>0, <1>6, QueueStays DEF Choose
  <2>3. TypeOK' BY <1>0, <1>6, <2>1 DEF Choose, TypeOK, PCs, clock, file, logger
  <2>4. InHands' BY <1>0, <1>6 DEF Choose, InHands, TypeOK, Carries, logger
  <2> QED BY <2>1, <2>3, <2>4 DEF LogInv
<1>7. CASE Push(t)
  <2>1. LogStr(t) \in Items
    BY <1>0, <1>7 DEF Push, Return, InHands, Carries, LogStr
  <2>2. /\ QueueTypeOK' /\ RingOK'
        /\ \/ Contents' = Contents
           \/ \E x \in Items : Len(Contents) < m_max_size
                               /\ Contents' = Append(Contents, x)
    <3>1. CASE Full BY <1>0, <1>7, <3>1, QueueStays DEF Push
    <3>2. CASE ~Full
      <4>1. PushItem(LogStr(t)) BY <1>7, <3>2 DEF Push
      <4>2. Len(Contents) < m_max_size
        BY <1>0, <3>2, ContentsType DEF ContentsOK, Full, QueueTypeOK
      <4> QED BY <1>0, <2>1, <3>2, <4>1, <4>2, PushAppends
    <3> QED BY <3>1, <3>2
  <2>3. TypeOK' BY <1>0, <1>7, <2>2
                DEF Push, Return, Broadcast, TypeOK, PCs, clock, file
  <2>4. InHands'
    BY <1>0, <1>7 DEF Push, Return, Broadcast, InHands, TypeOK, Carries
  <2> QED BY <2>2, <2>3, <2>4 DEF LogInv
<1>8. CASE Direct(t)
  <2>1. QueueTypeOK' /\ RingOK' /\ Contents' = Contents
    BY <1>0, <1>8, QueueStays DEF Direct
  <2>2. LogStr(t) \in Items
    BY <1>0, <1>8 DEF Direct, Return, InHands, Carries, LogStr
  <2>3. out' \in Seq([line : Items, file : Files])
    BY <1>0, <1>8, <2>2, FputsType DEF Direct
  <2>4. TypeOK' BY <1>0, <1>8, <2>1, <2>3
                DEF Direct, Return, TypeOK, PCs, clock, file, logger
  <2>5. InHands' BY <1>0, <1>8 DEF Direct, Return, InHands, TypeOK, Carries, logger
  <2> QED BY <2>1, <2>4, <2>5 DEF LogInv
<1> QED BY <1>1, <1>2, <1>3, <1>4, <1>5, <1>6, <1>7, <1>8 DEF WriteLog

\* The log thread, the calendar and a spurious wakeup.
LEMMA LogThreadStep ==
  ASSUME LogInv, Midnight \/ SpuriousWakeup \/ AsyncWriteLog \/ UNCHANGED vars
  PROVE  /\ LogInv'
         /\ \/ Contents' = Contents
            \/ Contents # <<>> /\ Contents' = Tail(Contents)
<1>0. TypeOK /\ RingOK /\ InHands /\ QueueTypeOK BY DEF LogInv, TypeOK
<1>1. CASE Midnight
  <2>1. QueueTypeOK' /\ RingOK' /\ Contents' = Contents
    BY <1>0, <1>1, QueueStays DEF Midnight
  <2>2. day' \in 0..MaxDay /\ \A n \in 0..day : n \in 0..day'
    BY <1>0, <1>1 DEF Midnight, TypeOK
  <2>3. tm' \in 0..day' /\ m_today' \in 0..day' /\ mday' \in [Threads -> 0..day']
    BY <1>0, <1>1, <2>2 DEF Midnight, TypeOK, file, writer
  <2>4. TypeOK' BY <1>0, <1>1, <2>1, <2>2, <2>3
                DEF Midnight, TypeOK, file, writer, logger
  <2>5. InHands' BY <1>0, <1>1 DEF Midnight, InHands, Carries, writer, logger
  <2> QED BY <2>1, <2>4, <2>5 DEF LogInv
<1>2. CASE SpuriousWakeup \/ Sleep \/ UNCHANGED vars
  <2>1. QueueTypeOK' /\ RingOK' /\ Contents' = Contents
    BY <1>0, <1>2, QueueStays DEF SpuriousWakeup, Sleep, vars
  <2>2. TypeOK' BY <1>0, <1>2, <2>1
    DEF SpuriousWakeup, Sleep, TypeOK, vars, clock, file, writer, logger
  <2>3. InHands' BY <1>0, <1>2
    DEF SpuriousWakeup, Sleep, InHands, Carries, vars, writer, logger
  <2> QED BY <2>1, <2>2, <2>3 DEF LogInv
<1>3. CASE Pop
  <2>1. m_size > 0 /\ PopItem /\ single_log' = Oldest /\ log_pc' = "write"
    BY <1>3 DEF Pop
  <2>2. /\ QueueTypeOK' /\ RingOK' /\ Oldest \in Items
        /\ Contents # <<>> /\ Contents' = Tail(Contents)
    BY <1>0, <2>1, PopTakesHead
  <2>3. TypeOK' BY <1>0, <1>3, <2>1, <2>2 DEF Pop, TypeOK, clock, file, writer
  <2>4. InHands' BY <1>0, <1>3, <2>1, <2>2 DEF Pop, InHands, Carries, writer
  <2> QED BY <2>2, <2>3, <2>4 DEF LogInv
<1>4. CASE WriteLine
  <2>1. QueueTypeOK' /\ RingOK' /\ Contents' = Contents
    BY <1>0, <1>4, QueueStays DEF WriteLine
  <2>2. out' \in Seq([line : Items, file : Files])
    BY <1>0, <1>4, FputsType DEF WriteLine, InHands
  <2>3. TypeOK' BY <1>0, <1>4, <2>1, <2>2
                DEF WriteLine, TypeOK, clock, file, writer
  <2>4. InHands' BY <1>0, <1>4 DEF WriteLine, InHands, Carries, writer
  <2> QED BY <2>1, <2>3, <2>4 DEF LogInv
<1> QED BY <1>1, <1>2, <1>3, <1>4 DEF AsyncWriteLog

LEMMA LogStep == LogInv /\ [Next]_vars => LogInv' /\ [FifoQueue!Next]_Contents
<1> SUFFICES ASSUME LogInv, [Next]_vars
    PROVE LogInv' /\ [FifoQueue!Next]_Contents
  OBVIOUS
<1>1. CASE \E t \in Threads : Call(t) \/ WriteLog(t)
  BY <1>1, ThreadStep DEF FifoQueue!Next, FifoQueue!Put
<1>2. CASE Midnight \/ SpuriousWakeup \/ AsyncWriteLog \/ UNCHANGED vars
  BY <1>2, LogThreadStep DEF FifoQueue!Next, FifoQueue!Get
<1> QED BY <1>1, <1>2 DEF Next

LEMMA LogInvariant == Spec => []LogInv
BY LogInit, LogStep, PTL DEF Spec

\* The log's variables have their types in every reachable state, the indices
\* of the ring among them.
THEOREM LogTypeCorrect == Spec => []TypeOK
<1>1. LogInv => TypeOK BY DEF LogInv
<1> QED BY <1>1, LogInvariant, PTL

\* The ring of block_queue.h, as the log uses it, is a bounded FIFO queue,
\* whatever its size and however many threads push into it.
THEOREM LogQueueIsFifo == Spec => ImplementsFifo
<1>1. Init => FifoQueue!Init BY LogInit DEF FifoQueue!Init
<1> QED BY <1>1, LogStep, LogInit, PTL DEF Spec, ImplementsFifo, FifoQueue!Spec
-----------------------------------------------------------------------------
(* No line is in two places.  Lines move from a thread to the queue, to the *)
(* log thread, to the file; laid end to end, the file, the log thread's     *)
(* hands and the queue are one sequence, which most moves do not change.    *)

Passed == Lines(out) \o Held \o Contents

\* A sequence without repetition, of lines that were begun and that no thread
\* still works on; and every thread works on a line of its own.
Unique ==
  /\ \A i, j \in DOMAIN Passed : Passed[i] = Passed[j] => i = j
  /\ \A i \in DOMAIN Passed : Passed[i] \in 1..calls
  /\ \A t \in Threads : pc[t] # "idle" =>
       line[t] \in 1..calls /\ \A i \in DOMAIN Passed : Passed[i] # line[t]
  /\ \A t, u \in Threads :
       pc[t] # "idle" /\ pc[u] # "idle" /\ line[t] = line[u] => t = u

LEMMA ElementType ==
  ASSUME NEW S, NEW s \in Seq(S) PROVE \A i \in 1..Len(s) : s[i] \in S
  OBVIOUS

LEMMA LinesType ==
  ASSUME TypeOK
  PROVE  Lines(out) \in Seq(Items) /\ Len(Lines(out)) = Len(out)
<1> DEFINE f(i) == out[i].line
<1>1. /\ Len(out) \in Nat /\ DOMAIN out = 1..Len(out)
      /\ \A i \in 1..Len(out) : f(i) \in Items
  <2>1. out \in Seq([line : Items, file : Files]) BY DEF TypeOK
  <2>2. \A i \in 1..Len(out) : out[i] \in [line : Items, file : Files]
    BY <2>1, ElementType
  <2>3. \A r \in [line : Items, file : Files] : r.line \in Items OBVIOUS
  <2> QED BY <2>1, <2>2, <2>3
<1>2. Lines(out) = [i \in 1..Len(out) |-> f(i)] BY <1>1 DEF Lines
<1> HIDE DEF f
<1> QED BY <1>1, <1>2

LEMMA PassedType ==
  LogInv => /\ Lines(out) \in Seq(Items) /\ Held \in Seq(Items)
            /\ Contents \in Seq(Items) /\ Passed \in Seq(Items)
<1> SUFFICES ASSUME LogInv
             PROVE /\ Lines(out) \in Seq(Items) /\ Held \in Seq(Items)
                   /\ Contents \in Seq(Items) /\ Passed \in Seq(Items)
  OBVIOUS
<1>1. Lines(out) \in Seq(Items) BY LinesType DEF LogInv
<1>2. Held \in Seq(Items)
  <2>1. CASE log_pc = "write"
    <3>1. single_log \in Items BY <2>1 DEF LogInv, InHands
    <3> QED BY <2>1, <3>1 DEF Held
  <2>2. CASE log_pc # "write" BY <2>2 DEF Held
  <2> QED BY <2>1, <2>2
<1>3. Contents \in Seq(Items) BY ContentsType DEF LogInv, TypeOK, ContentsOK
<1> QED BY <1>1, <1>2, <1>3 DEF Passed

\* fputs() adds its line to the lines written.
LEMMA FputsLines ==
  ASSUME TypeOK, NEW l \in Items, Fputs(l)
  PROVE  Lines(out)' = Append(Lines(out), l)
<1> DEFINE r == [line |-> l, file |-> m_fp]
<1>1. out \in Seq([line : Items, file : Files]) /\ out' = Append(out, r)
  BY DEF TypeOK, Fputs
<1>2. r \in [line : Items, file : Files] /\ r.line = l BY DEF TypeOK
<1> HIDE DEF r
<1>3. /\ DOMAIN out' = 1..(Len(out) + 1)
      /\ out'[Len(out) + 1] = r /\ \A i \in 1..Len(out) : out'[i] = out[i]
  BY <1>1, <1>2
<1>4. /\ Lines(out)' = [i \in 1..(Len(out) + 1) |-> out'[i].line]
      /\ Lines(out) = [i \in 1..Len(out) |-> out[i].line]
  BY <1>1, <1>3 DEF Lines
<1>5. Lines(out) \in Seq(Items) /\ Len(Lines(out)) = Len(out) BY LinesType
<1>6. /\ Lines(out)' \in Seq(Items) /\ Len(Lines(out)') = Len(out) + 1
      /\ Lines(out)'[Len(out) + 1] = l
      /\ \A i \in 1..Len(out) : Lines(out)'[i] = Lines(out)[i]
  <2> DEFINE f(i) == out'[i].line
  <2>1. \A i \in 1..Len(out) : f(i) = Lines(out)[i] /\ Lines(out)[i] \in Items
    BY <1>1, <1>3, <1>4, <1>5
  <2>2. f(Len(out) + 1) = l BY <1>2, <1>3
  <2>3. Lines(out)' = [i \in 1..(Len(out) + 1) |-> f(i)] BY <1>4
  <2>4. Len(out) \in Nat BY <1>1
  <2> HIDE DEF f
  <2>5. \A i \in 1..(Len(out) + 1) : f(i) \in Items BY <2>1, <2>2, <2>4
  <2> QED BY <2>1, <2>2, <2>3, <2>4, <2>5
<1> QED BY <1>5, <1>6, AppendIs

\* How a line that goes from one place to the next is seen in Passed.
LEMMA Associative ==
  ASSUME NEW a \in Seq(Items), NEW b \in Seq(Items), NEW c \in Seq(Items)
  PROVE  a \o b \in Seq(Items) /\ a \o b \o c = a \o (b \o c)
  OBVIOUS

LEMMA MoveOn ==
  ASSUME NEW a \in Seq(Items), NEW c \in Seq(Items), NEW x \in Items
  PROVE  /\ Append(a, x) \o <<>> \o c = a \o <<x>> \o c
         /\ c # <<>> => a \o <<Head(c)>> \o Tail(c) = a \o <<>> \o c
<1>1. Append(a, x) \o <<>> \o c = a \o <<x>> \o c OBVIOUS
<1>2. c # <<>> => a \o <<Head(c)>> \o Tail(c) = a \o <<>> \o c OBVIOUS
<1> QED BY <1>1, <1>2

\* q is p with x put in somewhere.
Inserts(p, x, q) ==
  \E a, d \in Seq(Items) : p = a \o d /\ q = a \o <<x>> \o d

LEMMA MoveToQueue ==
  ASSUME NEW a \in Seq(Items), NEW b \in Seq(Items), NEW c \in Seq(Items),
         NEW x \in Items, NEW p, NEW q,
         p = a \o b \o c, q = a \o b \o Append(c, x)
  PROVE  Inserts(p, x, q)
<1>1. q = p \o <<x>> \o <<>> OBVIOUS
<1>2. p \in Seq(Items) /\ p = p \o <<>> /\ <<>> \in Seq(Items) OBVIOUS
<1> QED BY <1>1, <1>2 DEF Inserts

LEMMA MoveToFile ==
  ASSUME NEW a \in Seq(Items), NEW b \in Seq(Items), NEW c \in Seq(Items),
         NEW x \in Items, NEW p, NEW q,
         p = a \o b \o c, q = Append(a, x) \o b \o c
  PROVE  Inserts(p, x, q)
<1>1. PICK d : d = b \o c OBVIOUS
<1>2. d \in Seq(Items) /\ p = a \o d BY <1>1, Associative
<1>3. q = a \o <<x>> \o d
  <2>1. <<x>> \in Seq(Items) /\ Append(a, x) = a \o <<x>> OBVIOUS
  <2>2. PICK e : e = a \o <<x>> OBVIOUS
  <2>3. e \in Seq(Items) /\ q = e \o b \o c BY <2>1, <2>2, Associative
  <2>4. q = e \o (b \o c) BY <2>3, Associative
  <2> QED BY <1>1, <2>2, <2>4
<1> QED BY <1>2, <1>3 DEF Inserts

\* A new line put in somewhere comes up once, and nothing else comes in.
LEMMA InsertNew ==
  ASSUME NEW a \in Seq(Items), NEW d \in Seq(Items), NEW x \in Items,
         IsInjective(a \o d), x \notin Range(a \o d)
  PROVE  /\ IsInjective(a \o <<x>> \o d)
         /\ Range(a \o <<x>> \o d) \subseteq Range(a \o d) \union {x}
<1> PICK p, q : p = a \o d /\ q = a \o <<x>> \o d OBVIOUS
<1>0. /\ \A i, j \in DOMAIN p : p[i] = p[j] => i = j
      /\ \A i \in DOMAIN p : p[i] # x
  BY DEF IsInjective, Range
<1> DEFINE n == Len(a) + 1
           old(i) == IF i < n THEN i ELSE i - 1
<1>1. /\ DOMAIN p = 1..(Len(a) + Len(d))
      /\ DOMAIN q = 1..(Len(a) + Len(d) + 1)
      /\ n \in DOMAIN q /\ q[n] = x
  OBVIOUS
<1>2. ASSUME NEW i \in DOMAIN q, i # n
      PROVE  old(i) \in DOMAIN p /\ q[i] = p[old(i)]
  BY <1>1, <1>2
<1>3. ASSUME NEW i \in DOMAIN q, NEW j \in DOMAIN q, i # n, j # n, old(i) = old(j)
      PROVE  i = j
  BY <1>1, <1>3
<1> HIDE DEF n, old
<1>4. ASSUME NEW i \in DOMAIN q, NEW j \in DOMAIN q, q[i] = q[j] PROVE i = j
  <2>1. CASE i # n /\ j # n
    <3>1. /\ old(i) \in DOMAIN p /\ q[i] = p[old(i)]
          /\ old(j) \in DOMAIN p /\ q[j] = p[old(j)]
      BY <1>2, <2>1
    <3>2. old(i) = old(j) BY <1>0, <1>4, <3>1
    <3> QED BY <1>3, <2>1, <3>2
  <2>2. CASE i = n
    <3>1. CASE j # n
      <4>1. old(j) \in DOMAIN p /\ q[j] = p[old(j)] BY <1>2, <3>1
      <4> QED BY <1>0, <1>1, <1>4, <2>2, <4>1
    <3> QED BY <2>2, <3>1
  <2>3. CASE j = n
    <3>1. CASE i # n
      <4>1. old(i) \in DOMAIN p /\ q[i] = p[old(i)] BY <1>2, <3>1
      <4> QED BY <1>0, <1>1, <1>4, <2>3, <4>1
    <3> QED BY <2>3, <3>1
  <2> QED BY <2>1, <2>2, <2>3
<1>5. \A i \in DOMAIN q : q[i] = x \/ \E j \in DOMAIN p : q[i] = p[j]
  BY <1>1, <1>2
<1>6. IsInjective(q) BY <1>4 DEF IsInjective
<1>7. Range(q) \subseteq Range(p) \union {x}
  <2>1. ASSUME NEW y \in Range(q) PROVE y \in Range(p) \union {x}
    <3>1. PICK i \in DOMAIN q : y = q[i] BY DEF Range
    <3>2. CASE y = x BY <3>2
    <3>3. CASE \E j \in DOMAIN p : y = p[j] BY <3>3 DEF Range
    <3> QED BY <1>5, <3>1, <3>2, <3>3
  <2> QED BY <2>1
<1> QED BY <1>6, <1>7

HIDE LogAssumption

\* A line that its thread pushes while there is room, or writes itself, comes
\* into Passed.
LEMMA LineArrives ==
  ASSUME LogInv, NEW t \in Threads, (Push(t) /\ ~Full) \/ Direct(t)
  PROVE  Inserts(Passed, line[t], Passed')
<1>0. TypeOK /\ QueueTypeOK /\ RingOK /\ InHands BY DEF LogInv, TypeOK
<1>1. PICK a, b, c \in Seq(Items) : a = Lines(out) /\ b = Held /\ c = Contents
  BY PassedType
<1>2. PICK x \in Items : x = line[t] /\ x = LogStr(t)
  BY <1>0 DEF Push, Direct, Return, Goes, InHands, Carries, LogStr
<1>3. Passed = a \o b \o c BY <1>1 DEF Passed
<1>4. CASE Push(t) /\ ~Full
  <2>1. Lines(out)' = a /\ Held' = b
    BY <1>1, <1>4 DEF Push, Return, Goes, Broadcast, Lines, Held
  <2>2. PushItem(x) BY <1>2, <1>4 DEF Push
  <2>3. Contents' = Append(c, x) BY <1>0, <1>1, <1>2, <1>4, <2>2, PushAppends
  <2>4. Passed' = a \o b \o Append(c, x) BY <2>1, <2>3 DEF Passed
  <2> QED BY <1>1, <1>2, <1>3, <2>4, MoveToQueue
<1>5. CASE Direct(t)
  <2>1. Contents' = c BY <1>0, <1>1, <1>5, QueueStays DEF Direct
  <2>2. Held' = b BY <1>1, <1>5 DEF Direct, Held, logger
  <2>3. Lines(out)' = Append(a, x)
    BY <1>0, <1>1, <1>2, <1>5, FputsLines DEF Direct
  <2>4. Passed' = Append(a, x) \o b \o c BY <2>1, <2>2, <2>3 DEF Passed
  <2> QED BY <1>1, <1>2, <1>3, <2>4, MoveToFile
<1> QED BY <1>4, <1>5

\* What a step does to Passed: it adds the line of the thread that takes it, if
\* it is the thread's last, and changes nothing otherwise.
LEMMA PassedStep ==
  ASSUME LogInv, [Next]_vars
  PROVE  \/ Passed' = Passed
         \/ \E t \in Threads :
              (Push(t) \/ Direct(t)) /\ Inserts(Passed, line[t], Passed')
<1>0. /\ TypeOK /\ QueueTypeOK /\ RingOK /\ InHands
      /\ Lines(out) \in Seq(Items) /\ Held \in Seq(Items)
      /\ Contents \in Seq(Items) /\ Passed \in Seq(Items)
  BY PassedType DEF LogInv, TypeOK
<1>1. ASSUME UNCHANGED <<queue, out, logger>> PROVE Passed' = Passed
  <2>1. Contents' = Contents BY <1>0, <1>1, QueueStays
  <2>2. Lines(out)' = Lines(out) /\ Held' = Held
    BY <1>1 DEF Lines, Held, logger
  <2> QED BY <2>1, <2>2 DEF Passed
<1>2. ASSUME NEW t \in Threads, Push(t)
      PROVE  Passed' = Passed \/ Inserts(Passed, line[t], Passed')
  <2>1. CASE Full
    <3>1. Contents' = Contents BY <1>0, <1>2, <2>1, QueueStays DEF Push
    <3>2. Lines(out)' = Lines(out) /\ Held' = Held
      BY <1>2 DEF Push, Broadcast, Lines, Held
    <3> QED BY <3>1, <3>2 DEF Passed
  <2>2. CASE ~Full BY <1>2, <2>2, LineArrives
  <2> QED BY <2>1, <2>2
<1>3. ASSUME NEW t \in Threads, Direct(t)
      PROVE  Inserts(Passed, line[t], Passed')
  BY <1>3, LineArrives
<1>4. ASSUME Pop PROVE Passed' = Passed
  <2>1. m_size > 0 /\ PopItem /\ log_pc = "pop" BY <1>4 DEF Pop
  <2>2. Contents # <<>> /\ Contents' = Tail(Contents) /\ Oldest = Head(Contents)
    BY <1>0, <2>1, PopTakesHead
  <2>3. Lines(out)' = Lines(out) /\ Held = <<>> /\ Held' = <<Head(Contents)>>
    BY <1>4, <2>1, <2>2 DEF Pop, Lines, Held
  <2>4. Head(Contents) \in Items BY <1>0, <2>2
  <2> QED BY <1>0, <2>2, <2>3, <2>4, MoveOn DEF Passed
<1>5. ASSUME WriteLine PROVE Passed' = Passed
  <2>1. single_log \in Items BY <1>0, <1>5 DEF WriteLine, InHands
  <2>2. Contents' = Contents BY <1>0, <1>5, QueueStays DEF WriteLine
  <2>3. Held = <<single_log>> /\ Held' = <<>> BY <1>5 DEF WriteLine, Held
  <2>4. Lines(out)' = Append(Lines(out), single_log)
    BY <1>0, <1>5, <2>1, FputsLines DEF WriteLine
  <2> QED BY <1>0, <2>1, <2>2, <2>3, <2>4, MoveOn DEF Passed
<1>6. ASSUME Sleep \/ SpuriousWakeup PROVE Passed' = Passed
  <2>1. Contents' = Contents
    BY <1>0, <1>6, QueueStays DEF Sleep, SpuriousWakeup
  <2>2. Lines(out)' = Lines(out) /\ Held' = Held
    BY <1>6 DEF Sleep, SpuriousWakeup, Lines, Held
  <2> QED BY <2>1, <2>2 DEF Passed
<1>7. ASSUME NEW t \in Threads,
             \/ Call(t) \/ Localtime(t) \/ CopyTm(t) \/ Rotate(t) \/ Format(t)
             \/ Choose(t)
      PROVE  Passed' = Passed
  BY <1>1, <1>7 DEF Call, Localtime, CopyTm, Rotate, Format, Choose
<1>8. ASSUME Midnight \/ UNCHANGED vars PROVE Passed' = Passed
  BY <1>1, <1>8 DEF Midnight, vars
<1>9. CASE \E t \in Threads : Call(t) \/ WriteLog(t)
  BY <1>2, <1>3, <1>7, <1>9 DEF WriteLog
<1>10. CASE ~ \E t \in Threads : Call(t) \/ WriteLog(t)
  BY <1>4, <1>5, <1>6, <1>8, <1>10 DEF Next, AsyncWriteLog
<1> QED BY <1>9, <1>10

\* What a step does to the lines threads work on: a call takes the next one,
\* and a thread that returns has none.
LEMMA WorkStep ==
  ASSUME LogInv, [Next]_vars
  PROVE  \/ \E t \in Threads :
              /\ pc[t] = "idle" /\ pc' = [pc EXCEPT ![t] = "now"]
              /\ calls' = calls + 1 /\ line' = [line EXCEPT ![t] = calls + 1]
              /\ Call(t)
         \/ \E t \in Threads :
              /\ pc[t] # "idle" /\ pc' = [pc EXCEPT ![t] = "idle"]
              /\ calls' = calls /\ line' = [line EXCEPT ![t] = Empty]
              /\ Push(t) \/ Direct(t)
         \/ /\ \A t \in Threads : pc'[t] = "idle" <=> pc[t] = "idle"
            /\ calls' = calls /\ line' = line
            /\ ~ \E t \in Threads : Push(t) \/ Direct(t)
<1>0. pc \in [Threads -> PCs] BY DEF LogInv, TypeOK
<1>1. CASE \E t \in Threads : Call(t)
  BY <1>1 DEF Call, Goes
<1>2. CASE \E t \in Threads : Push(t) \/ Direct(t)
  BY <1>2 DEF Push, Direct, Return, Goes
<1>3. CASE \E t \in Threads : \/ Localtime(t) \/ CopyTm(t) \/ Rotate(t)
                              \/ Format(t) \/ Choose(t)
  <2>1. PICK t \in Threads : \/ Localtime(t) \/ CopyTm(t) \/ Rotate(t)
                             \/ Format(t) \/ Choose(t)
    BY <1>3
  <2>2. /\ pc[t] # "idle" /\ calls' = calls /\ line' = line
        /\ \E to \in PCs \ {"idle"} : pc' = [pc EXCEPT ![t] = to]
    BY <2>1 DEF Localtime, CopyTm, Rotate, Format, Choose, Goes, PCs
  <2>3. \A u \in Threads : pc'[u] = "idle" <=> pc[u] = "idle"
    BY <1>0, <2>2
  <2>4. CASE \E u \in Threads : Push(u) \/ Direct(u) BY <1>2, <2>4
  <2> QED BY <2>2, <2>3, <2>4
<1>4. CASE ~ \E t \in Threads : Call(t) \/ WriteLog(t)
  <2>1. pc' = pc /\ calls' = calls /\ line' = line
    BY <1>4 DEF Next, Midnight, SpuriousWakeup, AsyncWriteLog, Pop, Sleep,
                WriteLine, vars, writer
  <2> QED BY <1>4, <2>1 DEF WriteLog
<1> QED BY <1>1, <1>2, <1>3, <1>4 DEF WriteLog

LEMMA UniqueInit == Init => Unique
<1> SUFFICES ASSUME Init PROVE Unique OBVIOUS
<1>1. Lines(out) = <<>> /\ Held = <<>> /\ Contents = <<>>
  BY LogInit DEF Init, Lines, Held
<1>2. Passed = <<>> BY <1>1 DEF Passed
<1> QED BY <1>2 DEF Unique, Init

LEMMA UniqueStep == LogInv /\ Unique /\ [Next]_vars => Unique'
<1> SUFFICES ASSUME LogInv, Unique, [Next]_vars PROVE Unique' OBVIOUS
<1>0. /\ pc \in [Threads -> PCs] /\ line \in [Threads -> Items \union {Empty}]
      /\ calls \in Nat
  BY LogAssumption DEF LogInv, TypeOK
<1>1. ASSUME NEW t \in Threads,
             pc[t] = "idle", pc' = [pc EXCEPT ![t] = "now"],
             calls' = calls + 1, line' = [line EXCEPT ![t] = calls + 1],
             Call(t)
      PROVE  Unique'
  <2>1. Passed' = Passed
    <3>1. ~ \E u \in Threads : Push(u) \/ Direct(u)
      <4>1. calls' # calls BY <1>0, <1>1
      <4> QED BY <4>1 DEF Push, Direct
    <3> QED BY <3>1, PassedStep
  <2>2. \A u \in Threads : pc'[u] # "idle" =>
          \/ u = t /\ line'[u] = calls + 1
          \/ u # t /\ pc[u] # "idle" /\ line'[u] = line[u]
    BY <1>0, <1>1
  <2>3. \A i \in DOMAIN Passed : Passed[i] \in 1..calls' /\ Passed[i] # calls + 1
    BY <1>0, <1>1 DEF Unique
  <2>4. \A u \in Threads : pc[u] # "idle" =>
          line[u] \in 1..calls' /\ line[u] # calls + 1
    BY <1>0, <1>1 DEF Unique
  <2>5. \A i, j \in DOMAIN Passed' : Passed'[i] = Passed'[j] => i = j
    BY <2>1 DEF Unique
  <2>6. \A i \in DOMAIN Passed' : Passed'[i] \in 1..calls'
    BY <2>1, <2>3
  <2>7. \A u \in Threads : pc'[u] # "idle" =>
          line'[u] \in 1..calls' /\ \A i \in DOMAIN Passed' : Passed'[i] # line'[u]
    <3>1. calls + 1 \in 1..calls' BY <1>0, <1>1
    <3> QED BY <2>1, <2>2, <2>3, <2>4, <3>1 DEF Unique
  <2>8. \A u, v \in Threads :
          pc'[u] # "idle" /\ pc'[v] # "idle" /\ line'[u] = line'[v] => u = v
    BY <2>2, <2>4 DEF Unique
  <2> QED BY <2>5, <2>6, <2>7, <2>8 DEF Unique
<1>2. ASSUME NEW t \in Threads,
             pc[t] # "idle", pc' = [pc EXCEPT ![t] = "idle"],
             calls' = calls, line' = [line EXCEPT ![t] = Empty],
             Push(t) \/ Direct(t)
      PROVE  Unique'
  <2>1. \A u \in Threads : pc'[u] # "idle" =>
          u # t /\ pc[u] # "idle" /\ line'[u] = line[u] /\ line[u] # line[t]
    BY <1>0, <1>2 DEF Unique
  <2>2. \A u, v \in Threads :
          pc'[u] # "idle" /\ pc'[v] # "idle" /\ line'[u] = line'[v] => u = v
    BY <2>1 DEF Unique
  <2>3. CASE Passed' = Passed
    BY <1>2, <2>1, <2>2, <2>3 DEF Unique
  <2>4. CASE Inserts(Passed, line[t], Passed')
    <3>1. PICK a \in Seq(Items), d \in Seq(Items) :
            Passed = a \o d /\ Passed' = a \o <<line[t]>> \o d
      BY <2>4 DEF Inserts
    <3>2. line[t] \in Items BY <1>2 DEF LogInv, InHands
    <3>3. /\ \A i, j \in DOMAIN Passed' : Passed'[i] = Passed'[j] => i = j
          /\ \A i \in DOMAIN Passed' :
               Passed'[i] = line[t] \/ \E j \in DOMAIN Passed : Passed'[i] = Passed[j]
      <4>1. IsInjective(Passed) /\ line[t] \notin Range(Passed)
        BY <1>2 DEF Unique, IsInjective, Range
      <4>2. IsInjective(a \o d) /\ line[t] \notin Range(a \o d)
        BY <3>1, <4>1
      <4>3. /\ IsInjective(a \o <<line[t]>> \o d)
            /\ Range(a \o <<line[t]>> \o d) \subseteq Range(a \o d) \union {line[t]}
        BY <3>2, <4>2, InsertNew
      <4>4. /\ IsInjective(Passed')
            /\ Range(Passed') \subseteq Range(Passed) \union {line[t]}
        BY <3>1, <4>3
      <4> QED BY <4>4 DEF IsInjective, Range
    <3>4. \A i \in DOMAIN Passed' : Passed'[i] \in 1..calls'
      BY <1>2, <3>3 DEF Unique
    <3>5. \A u \in Threads : pc'[u] # "idle" =>
            line'[u] \in 1..calls' /\ \A i \in DOMAIN Passed' : Passed'[i] # line'[u]
      BY <1>2, <2>1, <3>3 DEF Unique
    <3> QED BY <2>2, <3>3, <3>4, <3>5 DEF Unique
  <2>5. \A u \in Threads : Push(u) \/ Direct(u) => u = t
    <3>1. \A u \in Threads : Push(u) \/ Direct(u) =>
            pc[u] # "idle" /\ pc' = [pc EXCEPT ![u] = "idle"]
      BY DEF Push, Direct, Return, Goes
    <3> QED BY <1>0, <1>2, <3>1
  <2> QED BY <2>3, <2>4, <2>5, PassedStep
<1>3. ASSUME \A t \in Threads : pc'[t] = "idle" <=> pc[t] = "idle",
             calls' = calls, line' = line,
             ~ \E t \in Threads : Push(t) \/ Direct(t)
      PROVE  Unique'
  <2>1. Passed' = Passed BY <1>3, PassedStep
  <2> QED BY <1>3, <2>1 DEF Unique
<1> QED BY <1>1, <1>2, <1>3, WorkStep

\* No line of the log is ever in two places, nor written twice, nor replaced
\* by another that was formatted in the same buffer.
THEOREM LinesInOnePlace == Spec => []InOnePlace
<1>1. LogInv /\ Unique => InOnePlace
  <2> SUFFICES ASSUME LogInv, Unique PROVE InOnePlace OBVIOUS
  <2>1. \A t \in Threads : Carries(t) => LogStr(t) = line[t] /\ pc[t] # "idle"
    BY DEF LogInv, InHands, LogStr, Carries
  <2>2. IsInjective(Passed) BY DEF Unique, IsInjective
  <2>3. {LogStr(t) : t \in {u \in Threads : Carries(u)}} \intersect Range(Passed) = {}
    BY <2>1 DEF Unique, Range
  <2> QED BY <2>1, <2>2, <2>3 DEF InOnePlace, Passed
<1> QED BY <1>1, LogInvariant, UniqueInit, UniqueStep, PTL DEF Spec

-----------------------------------------------------------------------------
(* Which lines are lost.  A line that was begun is with its thread or in    *)
(* Passed; it leaves neither but for a step of its thread, and that step    *)
(* takes it from the one to the other unless it pushes onto a full queue.   *)

InPassed(l) == Contains(Passed, l)
AtWork(l) == \E t \in Threads : pc[t] # "idle" /\ line[t] = l

LEMMA ContainsJoined ==
  ASSUME NEW a \in Seq(Items), NEW b \in Seq(Items), NEW x, NEW p, p = a \o b
  PROVE  Contains(p, x) <=> Contains(a, x) \/ Contains(b, x)
<1>1. /\ Len(p) = Len(a) + Len(b) /\ Len(a) \in Nat /\ Len(b) \in Nat
      /\ \A i \in 1..Len(a) : p[i] = a[i]
      /\ \A i \in 1..Len(b) : p[Len(a) + i] = b[i]
  OBVIOUS
<1>2. ASSUME NEW i \in 1..Len(a), a[i] = x PROVE \E j \in 1..Len(p) : p[j] = x
  <2>1. i \in 1..Len(p) /\ p[i] = x BY <1>1, <1>2
  <2> QED BY <2>1
<1>3. ASSUME NEW i \in 1..Len(b), b[i] = x PROVE \E j \in 1..Len(p) : p[j] = x
  <2>1. Len(a) + i \in 1..Len(p) /\ p[Len(a) + i] = x BY <1>1, <1>3
  <2> QED BY <2>1
<1>4. ASSUME NEW i \in 1..Len(p), p[i] = x
      PROVE  (\E j \in 1..Len(a) : a[j] = x) \/ (\E j \in 1..Len(b) : b[j] = x)
  <2>1. CASE i <= Len(a)
    <3>1. i \in 1..Len(a) /\ a[i] = x BY <1>1, <1>4, <2>1
    <3> QED BY <3>1
  <2>2. CASE i > Len(a)
    <3>1. PICK j \in 1..Len(b) : i = Len(a) + j
      <4>1. i - Len(a) \in 1..Len(b) /\ i = Len(a) + (i - Len(a)) BY <1>1, <2>2
      <4> QED BY <4>1
    <3>2. b[j] = x BY <1>1, <1>4, <3>1
    <3> QED BY <3>2
  <2> QED BY <1>1, <2>1, <2>2
<1> QED BY <1>2, <1>3, <1>4 DEF Contains

\* The places of the property, in these terms.
LEMMA Places ==
  ASSUME LogInv, NEW l PROVE Somewhere(l) <=> InPassed(l) \/ AtWork(l)
<1>1. PICK a, b, c \in Seq(Items) : a = Lines(out) /\ b = Held /\ c = Contents
  BY PassedType
<1>2. PICK d : d = b \o c OBVIOUS
<1>3. d \in Seq(Items) /\ a \o b \o c = a \o d BY <1>2, Associative
<1>4. PICK p : p = a \o d OBVIOUS
<1>5. Passed = p BY <1>1, <1>3, <1>4 DEF Passed
<1>6. Contains(p, l) <=> Contains(a, l) \/ Contains(d, l)
  BY <1>3, <1>4, ContainsJoined
<1> QED BY <1>1, <1>2, <1>5, <1>6 DEF Somewhere, Written, InPassed, AtWork

\* Putting a line in keeps the others.
LEMMA InsertKeeps ==
  ASSUME NEW p, NEW q, NEW x \in Items, Inserts(p, x, q),
         NEW l, l = x \/ Contains(p, l)
  PROVE  Contains(q, l)
<1>1. PICK a, d \in Seq(Items) : p = a \o d /\ q = a \o <<x>> \o d
  BY DEF Inserts
<1>2. PICK e : e = <<x>> OBVIOUS
<1>3. e \in Seq(Items) /\ Len(e) = 1 /\ e[1] = x BY <1>2
<1>4. PICK b : b = a \o e OBVIOUS
<1>5. b \in Seq(Items) /\ q = b \o d BY <1>1, <1>2, <1>3, <1>4
<1>6. Contains(e, x) BY <1>3 DEF Contains
<1>7. Contains(b, l) <=> Contains(a, l) \/ Contains(e, l)
  BY <1>1, <1>3, <1>4, ContainsJoined
<1>8. Contains(p, l) <=> Contains(a, l) \/ Contains(d, l)
  BY <1>1, ContainsJoined
<1>9. Contains(q, l) <=> Contains(b, l) \/ Contains(d, l)
  BY <1>1, <1>5, ContainsJoined
<1>10. CASE l = x BY <1>6, <1>7, <1>9, <1>10
<1>11. CASE Contains(p, l) BY <1>7, <1>8, <1>9, <1>11
<1> QED BY <1>10, <1>11

LEMMA PassedStays ==
  ASSUME LogInv, [Next]_vars, NEW l, InPassed(l) PROVE InPassed(l)'
<1>1. CASE Passed' = Passed BY <1>1 DEF InPassed
<1>2. ASSUME NEW t \in Threads, Push(t) \/ Direct(t),
             Inserts(Passed, line[t], Passed')
      PROVE  InPassed(l)'
  <2>1. line[t] \in Items
    BY <1>2 DEF LogInv, InHands, Push, Direct, Return, Goes
  <2> QED BY <1>2, <2>1, InsertKeeps DEF InPassed
<1> QED BY <1>1, <1>2, PassedStep

\* What becomes of a line, and that the line of a call is with its thread.
LEMMA KeptStep ==
  ASSUME LogInv, [Next]_vars
  PROVE  /\ calls' \in {calls, calls + 1}
         /\ calls' # calls => AtWork(calls)'
         /\ \A l : Somewhere(l) =>
              Somewhere(l)' \/ \E t \in Threads : Push(t) /\ Drops(t, l)
<1>0. /\ pc \in [Threads -> PCs] /\ line \in [Threads -> Items \union {Empty}]
      /\ calls \in Nat
  BY LogAssumption DEF LogInv, TypeOK
<1>1. LogInv' BY LogStep
<1>2. \A l : Somewhere(l)' <=> InPassed(l)' \/ AtWork(l)'
  <2>1. ASSUME NEW l PROVE Somewhere(l)' <=> InPassed(l)' \/ AtWork(l)'
    BY <1>1, Places, PTL
  <2> QED BY <2>1
<1>3. ASSUME NEW t \in Threads,
             pc[t] = "idle", pc' = [pc EXCEPT ![t] = "now"],
             calls' = calls + 1, line' = [line EXCEPT ![t] = calls + 1]
      PROVE  /\ AtWork(calls)'
             /\ \A l : AtWork(l) => AtWork(l)'
  <2>1. pc'[t] # "idle" /\ line'[t] = calls + 1 BY <1>0, <1>3
  <2>2. \A u \in Threads : pc[u] # "idle" => pc'[u] # "idle" /\ line'[u] = line[u]
    BY <1>0, <1>3
  <2>3. AtWork(calls)'
    <3>1. \E u \in Threads : pc'[u] # "idle" /\ line'[u] = calls' BY <1>3, <2>1
    <3> QED BY <3>1 DEF AtWork
  <2>4. \A l : AtWork(l) => AtWork(l)' BY <2>2 DEF AtWork
  <2> QED BY <2>3, <2>4
<1>4. ASSUME NEW t \in Threads,
             pc[t] # "idle", pc' = [pc EXCEPT ![t] = "idle"],
             line' = [line EXCEPT ![t] = Empty],
             Push(t) \/ Direct(t), NEW l, AtWork(l)
      PROVE  InPassed(l)' \/ AtWork(l)' \/ (Push(t) /\ Drops(t, l))
  <2>1. CASE \E u \in Threads : u # t /\ pc[u] # "idle" /\ line[u] = l
    <3>1. PICK u \in Threads : u # t /\ pc[u] # "idle" /\ line[u] = l BY <2>1
    <3>2. pc'[u] # "idle" /\ line'[u] = l BY <1>0, <1>4, <3>1
    <3> QED BY <3>2 DEF AtWork
  <2>2. CASE line[t] = l
    <3>1. CASE Push(t) /\ Full
      BY <2>2, <3>1 DEF Drops, Push, Return, Goes
    <3>2. CASE (Push(t) /\ ~Full) \/ Direct(t)
      <4>1. Inserts(Passed, line[t], Passed') BY <3>2, LineArrives
      <4>2. line[t] \in Items BY <1>4 DEF LogInv, InHands
      <4> QED BY <2>2, <4>1, <4>2, InsertKeeps DEF InPassed
    <3> QED BY <1>4, <3>1, <3>2
  <2> QED BY <1>4, <2>1, <2>2 DEF AtWork
<1>5. ASSUME \A t \in Threads : pc'[t] = "idle" <=> pc[t] = "idle",
             line' = line, NEW l, AtWork(l)
      PROVE  AtWork(l)'
  BY <1>5 DEF AtWork
<1>6. calls' \in {calls, calls + 1} /\ (calls' # calls => AtWork(calls)')
  BY <1>3, WorkStep
<1>7. ASSUME NEW l, Somewhere(l)
      PROVE  Somewhere(l)' \/ \E t \in Threads : Push(t) /\ Drops(t, l)
  <2>1. CASE InPassed(l) BY <1>2, <2>1, PassedStays
  <2>2. CASE AtWork(l) BY <1>2, <1>3, <1>4, <1>5, <2>2, WorkStep
  <2> QED BY <1>7, <2>1, <2>2, Places
<1> QED BY <1>6, <1>7

\* The one way to lose a line, for any number of threads and any queue size, is
\* to push it onto a queue that has filled up since full() said no.
THEOREM LostOnlyInPush == Spec => LostInPushOnly
<1>1. LogInv /\ [Next]_vars =>
        [\A l \in 1..calls :
           Somewhere(l) => Somewhere(l)' \/ \E t \in Threads : Drops(t, l)]_vars
  BY KeptStep
<1> QED BY <1>1, LogInvariant, PTL DEF Spec, LostInPushOnly

\* A thread is told to push only while there is room, and there still is when
\* it does if no other thread pushes: pop() only makes more.
PushFits ==
  /\ ~m_is_async => \A t \in Threads : pc[t] # "push"
  /\ OneWriter => \A t \in Threads : pc[t] = "push" => ~Full

LEMMA PushFitsStep == LogInv /\ PushFits /\ [Next]_vars => PushFits'
<1> SUFFICES ASSUME LogInv, PushFits, [Next]_vars PROVE PushFits' OBVIOUS
<1>0. /\ pc \in [Threads -> PCs] /\ m_size \in Int /\ m_max_size \in Int
  BY DEF LogInv, TypeOK, QueueTypeOK
<1>1. CASE \E t \in Threads : Choose(t)
  <2>1. PICK t \in Threads : Choose(t) BY <1>1
  <2>2. PICK to \in {"push", "direct"} :
          pc' = [pc EXCEPT ![t] = to] /\ (to = "push" => m_is_async /\ ~Full)
    BY <2>1 DEF Choose, Goes
  <2>3. m_is_async' = m_is_async /\ m_size' = m_size
    BY <2>1 DEF Choose, queue
  <2>4. pc'[t] = to /\ \A u \in Threads : u # t => pc'[u] = pc[u]
    BY <1>0, <2>2
  <2>5. ~m_is_async' => \A u \in Threads : pc'[u] # "push"
    BY <2>2, <2>3, <2>4 DEF PushFits
  <2>6. OneWriter => \A u \in Threads : pc'[u] = "push" => ~Full'
    BY <2>2, <2>3, <2>4 DEF OneWriter, Full
  <2> QED BY <2>5, <2>6 DEF PushFits
<1>2. ASSUME NEW t \in Threads,
             \/ Call(t) \/ Localtime(t) \/ CopyTm(t) \/ Rotate(t) \/ Format(t)
             \/ Push(t) \/ Direct(t)
      PROVE  PushFits'
  <2>1. /\ m_is_async' = m_is_async
        /\ \E to \in PCs \ {"push"} : pc' = [pc EXCEPT ![t] = to]
    BY <1>2 DEF Call, Localtime, CopyTm, Rotate, Format, Push, Direct, Return,
                Goes, PCs
  <2>2. pc'[t] # "push" /\ \A u \in Threads : u # t => pc'[u] = pc[u]
    BY <1>0, <2>1
  <2>3. ~m_is_async' => \A u \in Threads : pc'[u] # "push"
    BY <2>1, <2>2 DEF PushFits
  <2>4. OneWriter => \A u \in Threads : pc'[u] # "push"
    BY <2>2 DEF OneWriter
  <2> QED BY <2>3, <2>4 DEF PushFits
<1>3. CASE Midnight \/ SpuriousWakeup \/ AsyncWriteLog \/ UNCHANGED vars
  <2>1. pc' = pc /\ m_is_async' = m_is_async
    BY <1>3 DEF Midnight, SpuriousWakeup, AsyncWriteLog, Pop, Sleep, WriteLine,
                vars, writer
  <2>2. m_size' \in {m_size, m_size - 1}
    BY <1>3 DEF Midnight, SpuriousWakeup, AsyncWriteLog, Pop, PopItem, Sleep,
                WriteLine, vars, queue
  <2>3. ~Full => ~Full' BY <1>0, <2>2 DEF Full
  <2> QED BY <2>1, <2>3 DEF PushFits
<1> QED BY <1>1, <1>2, <1>3 DEF Next, WriteLog

Kept == PushFits /\ KeptByOneWriter

LEMMA KeptInit == Init => Kept
<1> SUFFICES ASSUME Init PROVE Kept OBVIOUS
<1>1. calls = 0 /\ \A t \in Threads : pc[t] = "idle" BY DEF Init
<1>2. 1..calls = {} BY <1>1
<1> QED BY <1>1, <1>2 DEF Kept, PushFits, KeptByOneWriter, NoLineLost

LEMMA KeptNext == LogInv /\ Kept /\ [Next]_vars => Kept'
<1> SUFFICES ASSUME LogInv, Kept, [Next]_vars PROVE Kept' OBVIOUS
<1>1. PushFits' BY PushFitsStep DEF Kept
<1>2. m_is_async' = m_is_async
  BY DEF Next, WriteLog, AsyncWriteLog, Midnight, SpuriousWakeup, Pop, Sleep,
         WriteLine, Call, Localtime, CopyTm, Rotate, Format, Choose, Push,
         Direct, vars
<1>3. ASSUME OneWriter \/ ~m_is_async, NEW l \in 1..calls' PROVE Somewhere(l)'
  <2>1. ~ \E t \in Threads : Drops(t, l)
    BY <1>3 DEF Kept, PushFits, Drops
  <2>2. CASE l \in 1..calls
    <3>1. Somewhere(l) BY <1>3, <2>2 DEF Kept, KeptByOneWriter, NoLineLost
    <3> QED BY <2>1, <3>1, KeptStep
  <2>3. CASE l \notin 1..calls
    <3>1. calls \in Nat BY LogAssumption DEF LogInv, TypeOK
    <3>2. calls' # calls /\ l = calls + 1 BY <2>3, <3>1, KeptStep
    <3>3. AtWork(calls)' /\ calls' = l BY <3>2, KeptStep
    <3>4. \E t \in Threads : pc'[t] # "idle" /\ line'[t] = l
      BY <3>3 DEF AtWork
    <3> QED BY <3>4 DEF Somewhere
  <2> QED BY <2>2, <2>3
<1>4. KeptByOneWriter' BY <1>2, <1>3 DEF KeptByOneWriter, NoLineLost, OneWriter
<1> QED BY <1>1, <1>4 DEF Kept

\* No line is lost if one thread logs, or if the log writes directly: what
\* log.h says of write_log holds then, for any queue size.
THEOREM OneWriterLosesNothing == Spec => []KeptByOneWriter
<1>1. Kept => KeptByOneWriter BY DEF Kept
<1> QED BY <1>1, LogInvariant, KeptInit, KeptNext, PTL DEF Spec

-----------------------------------------------------------------------------
(* How many lines a file gets.  A line is counted before it is written, so  *)
(* the lines written lag behind the count by the threads between the two,   *)
(* of which there are as many as threads at most: a file is opened when a   *)
(* multiple of m_split_line is counted, gets the lines that lag, and is     *)
(* left when the next multiple is counted.                                  *)

USE LogAssumption

Counted == {t \in Threads : pc[t] \in {"format", "choose", "direct"}}

\* The count up to which the lines go to the file before m_fp.
CountAtOpen == m_count - (m_count % m_split_line)

SplitInv ==
  ~m_is_async =>
    /\ log_pc = "off" /\ \A t \in Threads : pc[t] # "push"
    /\ day = 0 =>
         /\ m_fp = <<0, m_count \div m_split_line>>
         /\ Len(out) + Cardinality(Counted) = m_count
         /\ \A i \in DOMAIN out : out[i].file[2] <= m_fp[2]
         /\ LinesIn(m_fp) + CountAtOpen <= Len(out) + Cardinality(Threads)
         /\ \A f \in Files : LinesIn(f) <= m_split_line + Cardinality(Threads) - 1

\* Division with a remainder, and what the successor's is.
LEMMA DivMod ==
  ASSUME NEW s \in Nat \ {0}, NEW a \in Nat
  PROVE  a \div s \in Nat /\ a % s \in 0..(s - 1) /\ a = s * (a \div s) + (a % s)
  OBVIOUS

LEMMA SmallMultiple ==
  ASSUME NEW s \in Nat \ {0}, NEW d \in Int, s * d < s, 0 - s < s * d
  PROVE  d = 0
<1>1. CASE d >= 1
  <2>1. s * (d - 1) >= 0 BY <1>1
  <2>2. s * (d - 1) = s * d - s OBVIOUS
  <2> QED BY <2>1, <2>2
<1>2. CASE d <= 0 - 1
  <2>1. s * (0 - d - 1) >= 0 BY <1>2
  <2>2. s * (0 - d - 1) = 0 - s * d - s OBVIOUS
  <2> QED BY <2>1, <2>2
<1> QED BY <1>1, <1>2

LEMMA SuccessorDiv ==
  ASSUME NEW s \in Nat \ {0}, NEW a \in Nat, NEW b \in Nat, b = a + 1
  PROVE  \/ b % s = 0 /\ b \div s = a \div s + 1
         \/ b % s # 0 /\ b % s = (a % s) + 1 /\ b \div s = a \div s
<1> DEFINE q == a \div s  r == a % s  q2 == b \div s  r2 == b % s
<1>1. q \in Nat /\ r \in 0..(s - 1) /\ a = s * q + r BY DivMod
<1>2. q2 \in Nat /\ r2 \in 0..(s - 1) /\ b = s * q2 + r2 BY DivMod
<1> HIDE DEF q, r, q2, r2
<1>3. CASE r + 1 < s
  <2>1. s * (q2 - q) = r + 1 - r2
    <3>1. s * (q2 - q) = s * q2 - s * q BY <1>1, <1>2
    <3> QED BY <1>1, <1>2, <3>1
  <2>2. q2 - q = 0 BY <1>1, <1>2, <1>3, <2>1, SmallMultiple
  <2> QED BY <1>1, <1>2, <2>1, <2>2 DEF q, r, q2, r2
<1>4. CASE r + 1 = s
  <2>1. s * (q2 - q - 1) = 0 - r2
    <3>1. s * (q2 - q - 1) = s * q2 - s * q - s BY <1>1, <1>2
    <3> QED BY <1>1, <1>2, <1>4, <3>1
  <2>2. q2 - q - 1 = 0 BY <1>1, <1>2, <1>4, <2>1, SmallMultiple
  <2> QED BY <1>1, <1>2, <2>1, <2>2 DEF q, r, q2, r2
<1> QED BY <1>1, <1>3, <1>4

LEMMA CountedFinite ==
  /\ IsFiniteSet(Counted) /\ Cardinality(Counted) \in Nat
  /\ Cardinality(Threads) \in Nat /\ Cardinality(Counted) <= Cardinality(Threads)
  BY FS_CardinalityType, FS_Subset DEF Counted

LEMMA LinesInFinite ==
  ASSUME TypeOK, NEW f
  PROVE  /\ IsFiniteSet({i \in DOMAIN out : out[i].file = f})
         /\ LinesIn(f) \in Nat
<1>1. Len(out) \in Nat /\ DOMAIN out = 1..Len(out) BY DEF TypeOK
<1>2. IsFiniteSet(DOMAIN out) BY <1>1, FS_Interval
<1>3. IsFiniteSet({i \in DOMAIN out : out[i].file = f}) BY <1>2, FS_Subset
<1> QED BY <1>3, FS_CardinalityType DEF LinesIn

LEMMA OutFiles ==
  ASSUME TypeOK, NEW i \in DOMAIN out
  PROVE  out[i].file \in Files /\ out[i].file[2] \in Nat
<1>1. out \in Seq([line : Items, file : Files]) BY DEF TypeOK
<1>2. i \in 1..Len(out) BY <1>1
<1>3. out[i] \in [line : Items, file : Files] BY <1>1, <1>2, ElementType
<1>4. out[i].file \in Files BY <1>3
<1> QED BY <1>4 DEF Files

\* fputs() adds one line to the file that is open, and none to another.
LEMMA FputsCounts ==
  ASSUME TypeOK, NEW l \in Items, Fputs(l)
  PROVE  /\ Len(out') = Len(out) + 1
         /\ \A f : LinesIn(f)' = LinesIn(f) + (IF f = m_fp THEN 1 ELSE 0)
         /\ \A i \in DOMAIN out' : out'[i].file = m_fp
                                   \/ (i \in DOMAIN out /\ out'[i] = out[i])
<1> DEFINE r == [line |-> l, file |-> m_fp]  n == Len(out)
<1>1. out \in Seq([line : Items, file : Files]) /\ out' = Append(out, r)
  BY DEF TypeOK, Fputs
<1>2. r \in [line : Items, file : Files] /\ r.file = m_fp BY DEF TypeOK
<1> HIDE DEF r
<1>3. /\ n \in Nat /\ DOMAIN out = 1..n /\ Len(out') = n + 1
      /\ DOMAIN out' = 1..(n + 1)
      /\ out'[n + 1] = r /\ \A i \in 1..n : out'[i] = out[i]
  BY <1>1, <1>2
<1>4. ASSUME NEW f
      PROVE  LinesIn(f)' = LinesIn(f) + (IF f = m_fp THEN 1 ELSE 0)
  <2> DEFINE A == {i \in DOMAIN out : out[i].file = f}
             B == {i \in DOMAIN out' : out'[i].file = f}
  <2>0. IsFiniteSet(A) BY LinesInFinite
  <2>1. IsFiniteSet(A) /\ n + 1 \notin A BY <1>3, <2>0
  <2>2. B = IF f = m_fp THEN A \union {n + 1} ELSE A BY <1>2, <1>3
  <2>3. Cardinality(A \union {n + 1}) = Cardinality(A) + 1
    BY <2>1, FS_AddElement
  <2>4. Cardinality(A) \in Nat BY <2>1, FS_CardinalityType
  <2>5. LinesIn(f) = Cardinality(A) /\ LinesIn(f)' = Cardinality(B) BY DEF LinesIn
  <2> HIDE DEF A, B
  <2> QED BY <2>2, <2>3, <2>4, <2>5
<1>5. \A i \in DOMAIN out' : out'[i].file = m_fp
                               \/ (i \in DOMAIN out /\ out'[i] = out[i])
  BY <1>2, <1>3
<1>6. Len(out') = Len(out) + 1 BY <1>3
<1> QED BY <1>4, <1>5, <1>6

LEMMA SplitStays ==
  ASSUME SplitInv, m_is_async' = m_is_async, day' = day, file' = file, out' = out,
         ~m_is_async => /\ log_pc' = log_pc
                        /\ \A t \in Threads : pc'[t] # "push"
                        /\ Counted' = Counted
  PROVE  SplitInv'
<1>1. m_fp' = m_fp /\ m_count' = m_count BY DEF file
<1>2. \A f : LinesIn(f)' = LinesIn(f) BY DEF LinesIn
<1>3. LinesIn(m_fp)' = LinesIn(m_fp) BY <1>1 DEF LinesIn
<1>4. CountAtOpen' = CountAtOpen BY <1>1 DEF CountAtOpen
<1> QED BY <1>1, <1>2, <1>3, <1>4 DEF SplitInv

LEMMA SplitRotate ==
  ASSUME LogInv, SplitInv, NEW t \in Threads, Rotate(t)
  PROVE  SplitInv'
<1> SUFFICES ASSUME ~m_is_async PROVE SplitInv'
  BY DEF Rotate, SplitInv
<1>1. TypeOK BY DEF LogInv
<1>2. /\ pc[t] = "count" /\ pc' = [pc EXCEPT ![t] = "format"]
      /\ OpenFile(mday[t]) /\ out' = out /\ day' = day
      /\ m_is_async' = m_is_async /\ log_pc' = log_pc
  BY DEF Rotate, Goes, clock, logger
<1>3. log_pc' = "off" /\ \A u \in Threads : pc'[u] # "push"
  BY <1>1, <1>2 DEF SplitInv, TypeOK
<1>4. \A f : LinesIn(f)' = LinesIn(f) BY <1>2 DEF LinesIn
<1>5. ASSUME day = 0
      PROVE  /\ m_fp' = <<0, m_count' \div m_split_line>>
             /\ Len(out') + Cardinality(Counted') = m_count'
             /\ \A i \in DOMAIN out' : out'[i].file[2] <= m_fp'[2]
             /\ LinesIn(m_fp)' + CountAtOpen' <= Len(out') + Cardinality(Threads)
             /\ \A f \in Files :
                  LinesIn(f)' <= m_split_line + Cardinality(Threads) - 1
  <2>1. /\ m_fp = <<0, m_count \div m_split_line>>
        /\ Len(out) + Cardinality(Counted) = m_count
        /\ \A i \in DOMAIN out : out[i].file[2] <= m_fp[2]
        /\ LinesIn(m_fp) + CountAtOpen <= Len(out) + Cardinality(Threads)
        /\ \A f \in Files : LinesIn(f) <= m_split_line + Cardinality(Threads) - 1
    BY <1>5 DEF SplitInv
  <2>2. m_today = 0 /\ mday[t] = 0 BY <1>1, <1>5 DEF TypeOK
  <2> DEFINE b == m_count + 1
  <2>3. m_count \in Nat /\ b \in Nat /\ b = m_count + 1 BY <1>1 DEF TypeOK
  <2>4. /\ m_count' = b
        /\ m_fp' = IF b % m_split_line = 0 THEN <<0, b \div m_split_line>> ELSE m_fp
    BY <1>2, <2>2 DEF OpenFile
  <2> HIDE DEF b
  <2>5. \/ /\ b % m_split_line = 0
           /\ b \div m_split_line = m_count \div m_split_line + 1
        \/ /\ b % m_split_line # 0
           /\ b % m_split_line = (m_count % m_split_line) + 1
           /\ b \div m_split_line = m_count \div m_split_line
    BY <2>3, SuccessorDiv
  <2>6. m_count \div m_split_line \in Nat /\ m_count % m_split_line \in Nat
    <3>1. /\ m_count % m_split_line \in 0..(m_split_line - 1)
          /\ m_count \div m_split_line \in Nat
      BY <2>3, DivMod
    <3> QED BY <3>1
  <2>7. Counted' = Counted \union {t} /\ t \notin Counted
    BY <1>1, <1>2 DEF Counted, TypeOK
  <2>8. Cardinality(Counted') = Cardinality(Counted) + 1
    BY <2>7, CountedFinite, FS_AddElement
  <2>9. Cardinality(Counted') <= Cardinality(Threads)
    BY <2>7, <2>8, CountedFinite, FS_Subset, Counted' \in SUBSET Threads DEF Counted
  <2>10. Len(out) \in Nat /\ Cardinality(Counted) \in Nat /\ Cardinality(Threads) \in Nat
    BY <1>1, CountedFinite DEF TypeOK
  <2>11. Len(out') + Cardinality(Counted') = m_count'
    BY <1>2, <2>1, <2>3, <2>4, <2>8, <2>10
  <2>12. m_fp' = <<0, m_count' \div m_split_line>> BY <2>1, <2>4, <2>5
  <2>13. \A i \in DOMAIN out' : out'[i].file[2] <= m_fp'[2]
    <3> SUFFICES ASSUME NEW i \in DOMAIN out PROVE out[i].file[2] <= m_fp'[2]
      BY <1>2
    <3>1. out[i].file[2] <= m_fp[2] BY <2>1
    <3>2. m_fp[2] <= m_fp'[2] /\ m_fp[2] \in Nat /\ m_fp'[2] \in Nat
      BY <2>1, <2>5, <2>6, <2>4, <2>12
    <3>3. out[i].file[2] \in Nat BY <1>1, OutFiles
    <3> QED BY <3>1, <3>2, <3>3
  <2>14. LinesIn(m_fp)' + CountAtOpen' <= Len(out') + Cardinality(Threads)
    <3>1. CASE b % m_split_line = 0
      <4>1. m_fp' = <<0, m_fp[2] + 1>> BY <2>1, <2>4, <2>5, <3>1
      <4>2. \A i \in DOMAIN out : out[i].file # m_fp'
        <5> SUFFICES ASSUME NEW i \in DOMAIN out, out[i].file = m_fp' PROVE FALSE
          OBVIOUS
        <5>1. out[i].file[2] <= m_fp[2] BY <2>1
        <5>2. m_fp'[2] = m_fp[2] + 1 /\ m_fp[2] \in Nat BY <2>1, <2>6, <4>1
        <5> QED BY <5>1, <5>2
      <4>3. LinesIn(m_fp)' = 0
        <5>1. {i \in DOMAIN out' : out'[i].file = m_fp'} = {} BY <1>2, <4>2
        <5> QED BY <5>1, FS_EmptySet DEF LinesIn
      <4>4. CountAtOpen' = m_count' BY <2>3, <2>4, <3>1 DEF CountAtOpen
      <4> QED BY <1>2, <2>9, <2>11, <2>10, <4>3, <4>4, <2>8
    <3>2. CASE b % m_split_line # 0
      <4>1. m_fp' = m_fp BY <2>4, <3>2
      <4>2. LinesIn(m_fp)' = LinesIn(m_fp) BY <1>2, <4>1 DEF LinesIn
      <4>3. CountAtOpen' = CountAtOpen
        BY <2>3, <2>4, <2>5, <2>6, <3>2 DEF CountAtOpen
      <4> QED BY <1>2, <2>1, <4>2, <4>3
    <3> QED BY <3>1, <3>2
  <2> QED BY <1>4, <2>1, <2>11, <2>12, <2>13, <2>14
<1>6. m_is_async' = m_is_async /\ day' = day BY <1>2
<1> QED BY <1>3, <1>5, <1>6 DEF SplitInv

LEMMA SplitDirect ==
  ASSUME LogInv, SplitInv, NEW t \in Threads, Direct(t)
  PROVE  SplitInv'
<1> SUFFICES ASSUME ~m_is_async PROVE SplitInv'
  BY DEF Direct, SplitInv
<1>1. TypeOK BY DEF LogInv
<1>2. /\ pc[t] = "direct" /\ pc' = [pc EXCEPT ![t] = "idle"]
      /\ Fputs(LogStr(t)) /\ m_fp' = m_fp /\ m_count' = m_count
      /\ day' = day /\ m_is_async' = m_is_async /\ log_pc' = log_pc
  BY DEF Direct, Return, Goes, clock, logger, file
<1>3. log_pc' = "off" /\ \A u \in Threads : pc'[u] # "push"
  BY <1>1, <1>2 DEF SplitInv, TypeOK
<1>4. LogStr(t) \in Items
  BY <1>2 DEF LogInv, InHands, Carries, LogStr
<1>5. /\ Len(out') = Len(out) + 1
      /\ \A f : LinesIn(f)' = LinesIn(f) + (IF f = m_fp THEN 1 ELSE 0)
      /\ \A i \in DOMAIN out' : out'[i].file = m_fp
                                \/ (i \in DOMAIN out /\ out'[i] = out[i])
  BY <1>1, <1>2, <1>4, FputsCounts
<1>6. ASSUME day = 0
      PROVE  /\ m_fp' = <<0, m_count' \div m_split_line>>
             /\ Len(out') + Cardinality(Counted') = m_count'
             /\ \A i \in DOMAIN out' : out'[i].file[2] <= m_fp'[2]
             /\ LinesIn(m_fp)' + CountAtOpen' <= Len(out') + Cardinality(Threads)
             /\ \A f \in Files :
                  LinesIn(f)' <= m_split_line + Cardinality(Threads) - 1
  <2>1. /\ m_fp = <<0, m_count \div m_split_line>>
        /\ Len(out) + Cardinality(Counted) = m_count
        /\ \A i \in DOMAIN out : out[i].file[2] <= m_fp[2]
        /\ LinesIn(m_fp) + CountAtOpen <= Len(out) + Cardinality(Threads)
        /\ \A f \in Files : LinesIn(f) <= m_split_line + Cardinality(Threads) - 1
    BY <1>6 DEF SplitInv
  <2>2. m_count \in Nat /\ m_fp \in Files /\ Len(out) \in Nat BY <1>1 DEF TypeOK
  <2>3. /\ m_count % m_split_line \in 0..(m_split_line - 1)
        /\ m_count \div m_split_line \in Nat
    BY <2>2, DivMod
  <2>4. Counted' = Counted \ {t} /\ t \in Counted
    BY <1>1, <1>2 DEF Counted, TypeOK
  <2>5. Cardinality(Counted') = Cardinality(Counted) - 1
    BY <2>4, CountedFinite, FS_RemoveElement
  <2>6. /\ Cardinality(Counted') \in Nat /\ Cardinality(Counted) \in Nat
        /\ Cardinality(Threads) \in Nat
    <3>1. IsFiniteSet(Counted') BY <2>4, CountedFinite, FS_RemoveElement
    <3> QED BY <3>1, CountedFinite, FS_CardinalityType
  <2>7. Len(out') + Cardinality(Counted') = m_count'
    BY <1>2, <1>5, <2>1, <2>2, <2>5, <2>6
  <2>8. \A i \in DOMAIN out' : out'[i].file[2] <= m_fp'[2]
    <3>1. m_fp[2] \in Nat BY <2>1, <2>3
    <3> QED BY <1>2, <1>5, <2>1, <3>1
  <2>9. LinesIn(m_fp) \in Nat /\ LinesIn(m_fp)' = LinesIn(m_fp) + 1
    <3>1. PICK f : f = m_fp OBVIOUS
    <3>2. LinesIn(f)' = LinesIn(f) + 1 BY <1>5, <3>1
    <3>3. LinesIn(m_fp)' = LinesIn(f)' BY <1>2, <3>1 DEF LinesIn
    <3>4. LinesIn(m_fp) = LinesIn(f) BY <3>1 DEF LinesIn
    <3> QED BY <1>1, <3>2, <3>3, <3>4, LinesInFinite
  <2>10. CountAtOpen' = CountAtOpen /\ CountAtOpen = m_count - (m_count % m_split_line)
    BY <1>2 DEF CountAtOpen
  <2>11. LinesIn(m_fp)' + CountAtOpen' <= Len(out') + Cardinality(Threads)
    <3>1. Len(out') = Len(out) + 1 BY <1>5
    <3>2. CountAtOpen \in Int BY <2>2, <2>3, <2>10
    <3>3. LinesIn(m_fp) + CountAtOpen <= Len(out) + Cardinality(Threads) BY <2>1
    <3> QED BY <2>2, <2>6, <2>9, <2>10, <3>1, <3>2, <3>3
  <2>12. LinesIn(m_fp)' <= m_split_line + Cardinality(Threads) - 1
    <3>1. Len(out') = Len(out) + 1 /\ m_count' = m_count BY <1>2, <1>5
    <3>2. LinesIn(m_fp)' \in Nat BY <2>9
    <3> QED BY <2>2, <2>3, <2>6, <2>7, <2>10, <2>11, <3>1, <3>2
  <2>13. ASSUME NEW f \in Files
         PROVE  LinesIn(f)' <= m_split_line + Cardinality(Threads) - 1
    <3>1. CASE f = m_fp
      <4>1. LinesIn(f)' = LinesIn(m_fp)' BY <1>2, <3>1 DEF LinesIn
      <4> QED BY <2>12, <4>1
    <3>2. CASE f # m_fp
      <4>1. LinesIn(f)' = LinesIn(f) + 0 BY <1>5, <3>2
      <4>2. LinesIn(f) \in Nat BY <1>1, LinesInFinite
      <4> QED BY <2>1, <4>1, <4>2
    <3> QED BY <3>1, <3>2
  <2> QED BY <1>2, <2>1, <2>7, <2>8, <2>11, <2>13
<1>7. m_is_async' = m_is_async /\ day' = day BY <1>2
<1> QED BY <1>3, <1>6, <1>7 DEF SplitInv

LEMMA SplitStep ==
  ASSUME LogInv, SplitInv, [Next]_vars
  PROVE  SplitInv'
<1>1. TypeOK BY DEF LogInv
<1>2. CASE Midnight
  <2>1. /\ day' # 0 /\ log_pc' = log_pc /\ pc' = pc /\ m_is_async' = m_is_async
    BY <1>1, <1>2 DEF Midnight, TypeOK, logger, writer
  <2> QED BY <2>1 DEF SplitInv
<1>3. CASE SpuriousWakeup \/ AsyncWriteLog
  <2>1. log_pc # "off" /\ m_is_async' = m_is_async
    BY <1>3 DEF SpuriousWakeup, AsyncWriteLog, Pop, Sleep, WriteLine
  <2> QED BY <2>1 DEF SplitInv
<1>4. ASSUME NEW t \in Threads, Rotate(t) PROVE SplitInv' BY <1>4, SplitRotate
<1>5. ASSUME NEW t \in Threads, Direct(t) PROVE SplitInv' BY <1>5, SplitDirect
<1>6. ASSUME NEW t \in Threads, Push(t) PROVE SplitInv'
  <2>1. m_is_async /\ m_is_async' = m_is_async
    BY <1>6 DEF Push, Return, Goes, SplitInv
  <2> QED BY <2>1 DEF SplitInv
<1>7. ASSUME NEW t \in Threads, NEW from, NEW to, Goes(t, from, to),
             to # "push" \/ m_is_async,
             from \in {"format", "choose", "direct"} <=> to \in {"format", "choose", "direct"},
             UNCHANGED <<m_is_async, day, file, out, log_pc>>
      PROVE  SplitInv'
  <2>1. ~m_is_async => /\ Counted' = Counted
                       /\ \A u \in Threads : pc'[u] # "push"
    BY <1>1, <1>7 DEF Goes, SplitInv, TypeOK, Counted
  <2> QED BY <1>7, <2>1, SplitStays DEF SplitInv
<1>8. ASSUME NEW t \in Threads, Call(t) \/ Localtime(t) \/ CopyTm(t) \/ Format(t)
      PROVE  SplitInv'
  <2>1. UNCHANGED <<m_is_async, day, file, out, log_pc>>
    BY <1>8 DEF Call, Localtime, CopyTm, Format, clock, logger
  <2>2. CASE Call(t) BY <1>7, <2>1, <2>2 DEF Call
  <2>3. CASE Localtime(t) BY <1>7, <2>1, <2>3 DEF Localtime
  <2>4. CASE CopyTm(t) BY <1>7, <2>1, <2>4 DEF CopyTm
  <2>5. CASE Format(t) BY <1>7, <2>1, <2>5 DEF Format
  <2> QED BY <1>8, <2>2, <2>3, <2>4, <2>5
<1>9. ASSUME NEW t \in Threads, Choose(t) PROVE SplitInv'
  <2>1. UNCHANGED <<m_is_async, day, file, out, log_pc>>
    BY <1>9 DEF Choose, clock, logger
  <2>2. CASE m_is_async BY <2>1, <2>2 DEF SplitInv
  <2>3. CASE ~m_is_async
    <3>1. Goes(t, "choose", "direct") BY <1>9, <2>3 DEF Choose
    <3> QED BY <1>7, <2>1, <3>1
  <2> QED BY <2>2, <2>3
<1>10. CASE UNCHANGED vars
  <2>1. UNCHANGED <<m_is_async, day, file, out, log_pc, pc>>
    BY <1>10 DEF vars, clock, logger, writer
  <2>2. Counted' = Counted BY <2>1 DEF Counted
  <2> QED BY <2>1, <2>2, SplitStays DEF SplitInv
<1> QED BY <1>2, <1>3, <1>4, <1>5, <1>6, <1>8, <1>9, <1>10 DEF Next, WriteLog

LEMMA SplitInit == Init => SplitInv
<1> SUFFICES ASSUME Init, ~m_is_async PROVE SplitInv BY DEF SplitInv
<1>1. /\ log_pc = "off" /\ \A t \in Threads : pc[t] = "idle"
      /\ m_fp = <<0, 0>> /\ m_count = 0 /\ out = <<>>
  BY DEF Init
<1>2. Counted = {} BY <1>1 DEF Counted
<1>3. Cardinality(Counted) = 0 /\ Cardinality(Threads) \in Nat
  BY <1>2, FS_EmptySet, CountedFinite
<1>4. \A f : LinesIn(f) = 0
  <2>1. \A f : {i \in DOMAIN out : out[i].file = f} = {} BY <1>1
  <2> QED BY <2>1, FS_EmptySet DEF LinesIn
<1>5. LinesIn(m_fp) = 0
  <2>1. {i \in DOMAIN out : out[i].file = m_fp} = {} BY <1>1
  <2> QED BY <2>1, FS_EmptySet DEF LinesIn
<1>6. 0 \div m_split_line = 0 /\ 0 % m_split_line = 0 OBVIOUS
<1>7. CountAtOpen = 0 BY <1>1, <1>6 DEF CountAtOpen
<1> QED BY <1>1, <1>3, <1>4, <1>5, <1>6, <1>7 DEF SplitInv

\* With direct writing and on one day a file gets no more lines than are
\* counted for it and one late line of every thread but the one that opened
\* it, however many threads there are and whatever a file's worth of lines is.
THEOREM SplitNearlyExact == Spec => []SplitRoughly
<1>1. LogInv /\ SplitInv => SplitRoughly
  <2> SUFFICES ASSUME LogInv, SplitInv, day = 0, ~m_is_async, NEW i \in DOMAIN out
               PROVE  LinesIn(out[i].file) <= m_split_line + Cardinality(Threads) - 1
    BY DEF SplitRoughly
  <2>3. PICK f \in Files : f = out[i].file BY OutFiles DEF LogInv
  <2>4. LinesIn(f) <= m_split_line + Cardinality(Threads) - 1 BY DEF SplitInv
  <2>5. LinesIn(out[i].file) = LinesIn(f) BY <2>3
  <2> QED BY <2>4, <2>5
<1> QED BY <1>1, LogInvariant, SplitInit, SplitStep, PTL DEF Spec
=============================================================================
