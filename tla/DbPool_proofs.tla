---------------------------- MODULE DbPool_proofs ----------------------------
(* Proofs about DbPool, for any numbers of threads and connections, however *)
(* many of the connections failed.                                          *)
EXTENDS DbPool, FiniteSetTheorems, TLAPS

USE PoolAssumption

LEMMA TypeStep == TypeOK /\ [Next]_vars => TypeOK'
<1> SUFFICES ASSUME TypeOK, [Next]_vars PROVE TypeOK' OBVIOUS
<1> USE DEF Goes
<1>1. ASSUME NEW t \in Threads, GetNothing(t) PROVE TypeOK'
  BY <1>1 DEF TypeOK, GetNothing
<1>2. ASSUME NEW t \in Threads, GetConn(t) PROVE TypeOK'
  BY <1>2 DEF TypeOK, GetConn
<1>3. ASSUME NEW t \in Threads, Wait(t) PROVE TypeOK'
  BY <1>3 DEF TypeOK, Wait
<1>4. ASSUME NEW t \in Threads, Pop(t) PROVE TypeOK'
  <2>1. /\ Head(conn_list) \in connected \union {Null}
        /\ Tail(conn_list) \in Seq(connected \union {Null})
    BY <1>4 DEF TypeOK, Pop
  <2> QED BY <1>4, <2>1 DEF TypeOK, Pop
<1>5. ASSUME NEW t \in Threads, ReleaseNothing(t) PROVE TypeOK'
  BY <1>5 DEF TypeOK, ReleaseNothing
<1>6. ASSUME NEW t \in Threads, PushBack(t) PROVE TypeOK'
  <2>1. Append(conn_list, con[t]) \in Seq(connected \union {Null})
    BY DEF TypeOK
  <2> QED BY <1>6, <2>1 DEF TypeOK, PushBack
<1>7. ASSUME NEW t \in Threads, Post(t) PROVE TypeOK'
  BY <1>7 DEF TypeOK, Post
<1>8. CASE UNCHANGED vars BY <1>8 DEF TypeOK, vars
<1> QED BY <1>1, <1>2, <1>3, <1>4, <1>5, <1>6, <1>7, <1>8 DEF Next, Finish

LEMMA TypeInit == Init => TypeOK
<1> SUFFICES ASSUME Init PROVE TypeOK OBVIOUS
<1>1. conn_list \in Seq(connected \union {Null})
  <2>1. conn_list \in [1..MaxConn -> connected \union {Null}] BY DEF Init, Conns
  <2> QED BY <2>1
<1>2. /\ pc \in [Threads -> {"idle", "wait", "pop", "use", "post"}]
      /\ con \in [Threads -> connected \union {Null}]
  BY DEF Init
<1> QED BY <1>1, <1>2 DEF Init, TypeOK

\* Every handle, list entry and counter has its type in every reachable
\* state; in particular the semaphore never goes below 0.
THEOREM TypeCorrect == Spec => []TypeOK
BY TypeInit, TypeStep, PTL DEF Spec
-----------------------------------------------------------------------------
\* A thread that goes from one place to another is counted in the one and no
\* longer in the other.
LEMMA Moves ==
  ASSUME TypeOK, NEW t \in Threads, NEW from, NEW to, from # to,
         to \in {"idle", "wait", "pop", "use", "post"}, Goes(t, from, to)
  PROVE  /\ Cardinality(At(from)) \in Nat /\ Cardinality(At(to)) \in Nat
         /\ Cardinality(At(from)') = Cardinality(At(from)) - 1
         /\ Cardinality(At(to)') = Cardinality(At(to)) + 1
         /\ \A l : l # from /\ l # to => At(l)' = At(l)
<1>1. \A l : IsFiniteSet(At(l)) BY FS_Subset DEF At
<1>2. At(from)' = At(from) \ {t} /\ t \in At(from)
  BY DEF TypeOK, Goes, At
<1>3. At(to)' = At(to) \union {t} /\ t \notin At(to)
  BY DEF TypeOK, Goes, At
<1>4. \A l : l # from /\ l # to => At(l)' = At(l)
  BY DEF TypeOK, Goes, At
<1> QED BY <1>1, <1>2, <1>3, <1>4, FS_CardinalityType, FS_RemoveElement, FS_AddElement

LEMMA TokensStep == TypeOK /\ Tokens /\ [Next]_vars => Tokens'
<1> SUFFICES ASSUME TypeOK, Tokens, [Next]_vars PROVE Tokens' OBVIOUS
<1>0. /\ \A l : Cardinality(At(l)) \in Nat
      /\ Len(conn_list) \in Nat /\ reserve \in Nat
  BY FS_Subset, FS_CardinalityType DEF TypeOK, At
<1>1. ASSUME NEW t \in Threads, GetNothing(t) PROVE Tokens'
  <2>1. At("pop")' = At("pop") /\ At("post")' = At("post")
    BY <1>1, Moves DEF GetNothing
  <2> QED BY <1>1, <2>1 DEF Tokens, GetNothing
<1>2. ASSUME NEW t \in Threads, GetConn(t) PROVE Tokens'
  <2>1. At("pop")' = At("pop") /\ At("post")' = At("post")
    BY <1>2, Moves DEF GetConn
  <2> QED BY <1>2, <2>1 DEF Tokens, GetConn
<1>3. ASSUME NEW t \in Threads, Wait(t) PROVE Tokens'
  BY <1>3, <1>0, Moves DEF Tokens, Wait
<1>4. ASSUME NEW t \in Threads, Pop(t) PROVE Tokens'
  <2>1. Len(conn_list') = Len(conn_list) - 1 BY <1>4 DEF TypeOK, Pop
  <2>2. /\ Cardinality(At("pop")') = Cardinality(At("pop")) - 1
        /\ At("post")' = At("post")
    BY <1>4, Moves DEF Pop
  <2>3. reserve' = reserve BY <1>4 DEF Pop
  <2> QED BY <1>0, <2>1, <2>2, <2>3 DEF Tokens
<1>5. ASSUME NEW t \in Threads, ReleaseNothing(t) PROVE Tokens'
  <2>1. At("pop")' = At("pop") /\ At("post")' = At("post")
    BY <1>5, Moves DEF ReleaseNothing
  <2> QED BY <1>5, <2>1 DEF Tokens, ReleaseNothing
<1>6. ASSUME NEW t \in Threads, PushBack(t) PROVE Tokens'
  <2>1. Len(conn_list') = Len(conn_list) + 1 BY <1>6 DEF TypeOK, PushBack
  <2>2. /\ Cardinality(At("post")') = Cardinality(At("post")) + 1
        /\ At("pop")' = At("pop")
    BY <1>6, Moves DEF PushBack
  <2>3. reserve' = reserve BY <1>6 DEF PushBack
  <2> QED BY <1>0, <2>1, <2>2, <2>3 DEF Tokens
<1>7. ASSUME NEW t \in Threads, Post(t) PROVE Tokens'
  BY <1>7, <1>0, Moves DEF Tokens, Post
<1>8. CASE UNCHANGED vars BY <1>8 DEF Tokens, At, vars
<1> QED BY <1>1, <1>2, <1>3, <1>4, <1>5, <1>6, <1>7, <1>8 DEF Next, Finish

LEMMA TokensInit == Init => Tokens
<1> SUFFICES ASSUME Init PROVE Tokens OBVIOUS
<1>1. At("pop") = {} /\ At("post") = {} BY DEF Init, At
<1>2. Len(conn_list) = MaxConn BY DEF Init, Conns
<1> QED BY <1>1, <1>2, FS_EmptySet DEF Init, Tokens

\* The semaphore's value and the list's length agree up to the threads that
\* are between the two, for every number of threads.
THEOREM TokensCorrect == Spec => []Tokens
<1>1. TypeOK /\ Tokens /\ [Next]_vars => TypeOK' /\ Tokens' BY TypeStep, TokensStep
<1> QED BY <1>1, TypeInit, TokensInit, PTL DEF Spec

\* conn_list.front() is never applied to an empty list.
THEOREM PopsCorrect == Spec => []NeverPopsEmpty
<1>1. TypeOK /\ Tokens => NeverPopsEmpty
  <2> SUFFICES ASSUME TypeOK, Tokens, At("pop") # {}, conn_list = <<>> PROVE FALSE
    BY DEF NeverPopsEmpty
  <2>1. IsFiniteSet(At("pop")) /\ IsFiniteSet(At("post")) BY FS_Subset DEF At
  <2>2. /\ Cardinality(At("pop")) \in Nat /\ Cardinality(At("post")) \in Nat
        /\ Cardinality(At("pop")) # 0
    BY <2>1, FS_CardinalityType, FS_EmptySet
  <2>3. Len(conn_list) = 0 OBVIOUS
  <2> QED BY <2>2, <2>3 DEF TypeOK, Tokens
<1>2. TypeOK /\ Tokens /\ [Next]_vars => TypeOK' /\ Tokens' BY TypeStep, TokensStep
<1> QED BY <1>1, <1>2, TypeInit, TokensInit, PTL DEF Spec

-----------------------------------------------------------------------------
\* A thread has a connection only between get_conn and release_conn.
Holds == \A t \in Threads : con[t] # Null => pc[t] = "use"

\* Counters move with the list, under the same lock.
LEMMA CountersStep ==
  ASSUME TypeOK, CountersAgree, [Next]_vars PROVE CountersAgree'
<1>0. Len(conn_list) \in Nat BY DEF TypeOK
<1>1. ASSUME NEW t \in Threads, Pop(t) PROVE CountersAgree'
  <2>1. Len(conn_list') = Len(conn_list) - 1 BY <1>1 DEF TypeOK, Pop
  <2>2. m_free_conn' = m_free_conn - 1 /\ m_curr_conn' = m_curr_conn + 1
    BY <1>1 DEF Pop
  <2> QED BY <1>0, <2>1, <2>2 DEF TypeOK, CountersAgree
<1>2. ASSUME NEW t \in Threads, PushBack(t) PROVE CountersAgree'
  <2>1. Len(conn_list') = Len(conn_list) + 1 BY <1>2 DEF TypeOK, PushBack
  <2>2. m_free_conn' = m_free_conn + 1 /\ m_curr_conn' = m_curr_conn - 1
    BY <1>2 DEF PushBack
  <2> QED BY <1>0, <2>1, <2>2 DEF TypeOK, CountersAgree
<1>3. ASSUME NEW t \in Threads, GetNothing(t) \/ GetConn(t) \/ Wait(t)
                               \/ ReleaseNothing(t) \/ Post(t)
      PROVE  CountersAgree'
  BY <1>3 DEF CountersAgree, GetNothing, GetConn, Wait, ReleaseNothing, Post
<1>4. CASE UNCHANGED vars BY <1>4 DEF CountersAgree, vars
<1> QED BY <1>1, <1>2, <1>3, <1>4 DEF Next, Finish

\* get_free_count reports the number of entries in the list, and with the
\* entries handed out it makes up max_conn, failed connections included.
THEOREM CountersCorrect == Spec => []CountersAgree
<1>1. Init => CountersAgree
  <2>1. Init => Len(conn_list) = MaxConn BY DEF Init, Conns
  <2> QED BY <2>1 DEF Init, CountersAgree
<1>2. TypeOK /\ CountersAgree /\ [Next]_vars => TypeOK' /\ CountersAgree'
  BY TypeStep, CountersStep
<1> QED BY <1>1, <1>2, TypeInit, PTL DEF Spec

-----------------------------------------------------------------------------
\* What Append and Tail do to the elements of a sequence.
LEMMA AppendElements ==
  ASSUME NEW S, NEW q \in Seq(S), NEW x \in S
  PROVE  /\ Len(q) \in Nat /\ DOMAIN q = 1..Len(q)
         /\ DOMAIN Append(q, x) = 1..(Len(q) + 1)
         /\ \A i \in 1..Len(q) : Append(q, x)[i] = q[i]
         /\ Append(q, x)[Len(q) + 1] = x
OBVIOUS

LEMMA TailElements ==
  ASSUME NEW S, NEW q \in Seq(S), q # <<>>
  PROVE  /\ Len(q) \in Nat \ {0} /\ DOMAIN q = 1..Len(q)
         /\ Head(q) \in S /\ q[1] = Head(q)
         /\ DOMAIN Tail(q) = 1..(Len(q) - 1)
         /\ \A i \in 1..(Len(q) - 1) : Tail(q)[i] = q[i + 1]
OBVIOUS

LEMMA PopKeepsOwner ==
  ASSUME TypeOK, Holds, NotShared, NEW t \in Threads, Pop(t)
  PROVE  Holds' /\ NotShared'
<1>1. /\ conn_list \in Seq(connected \union {Null}) /\ conn_list # <<>>
      /\ conn_list' = Tail(conn_list) /\ pc[t] = "pop" /\ con[t] = Null
      /\ con'[t] = Head(conn_list) /\ pc'[t] = "use"
      /\ \A u \in Threads : u # t => con'[u] = con[u] /\ pc'[u] = pc[u]
  BY DEF TypeOK, Pop, Goes, Holds
<1>2. /\ Len(conn_list) \in Nat \ {0} /\ DOMAIN conn_list = 1..Len(conn_list)
      /\ conn_list[1] = Head(conn_list)
      /\ DOMAIN conn_list' = 1..(Len(conn_list) - 1)
      /\ \A i \in 1..(Len(conn_list) - 1) : conn_list'[i] = conn_list[i + 1]
  BY <1>1, TailElements
<1>3. Holds' BY <1>1 DEF Holds
<1>4. ASSUME NEW u \in Threads, NEW v \in Threads,
             con'[u] = con'[v], con'[u] # Null
      PROVE  u = v
  <2>1. 1 \in DOMAIN conn_list BY <1>2
  <2>2. Head(conn_list) # Null => \A x \in Threads : con[x] # Head(conn_list)
    BY <1>2, <2>1 DEF NotShared
  <2> QED BY <1>1, <1>4, <2>2 DEF NotShared
<1>5. ASSUME NEW i \in DOMAIN conn_list', conn_list'[i] # Null
      PROVE  /\ \A u \in Threads : con'[u] # conn_list'[i]
             /\ \A j \in DOMAIN conn_list' : conn_list'[j] = conn_list'[i] => j = i
  <2>1. /\ i \in 1..(Len(conn_list) - 1) /\ i + 1 \in 1..Len(conn_list)
        /\ i + 1 # 1 /\ conn_list'[i] = conn_list[i + 1]
    BY <1>2
  <2>2. /\ \A u \in Threads : con[u] # conn_list[i + 1]
        /\ \A j \in 1..Len(conn_list) : conn_list[j] = conn_list[i + 1] => j = i + 1
    BY <1>2, <1>5, <2>1 DEF NotShared
  <2>3. Head(conn_list) # conn_list[i + 1] BY <1>2, <2>1, <2>2
  <2>4. \A j \in 1..(Len(conn_list) - 1) : conn_list'[j] = conn_list'[i] => j = i
    BY <1>2, <2>1, <2>2
  <2> QED BY <1>1, <1>2, <2>1, <2>2, <2>3, <2>4
<1>6. NotShared' BY <1>4, <1>5 DEF NotShared
<1> QED BY <1>3, <1>6

LEMMA PushKeepsOwner ==
  ASSUME TypeOK, Holds, NotShared, NEW t \in Threads, PushBack(t)
  PROVE  Holds' /\ NotShared'
<1>1. /\ conn_list \in Seq(connected \union {Null})
      /\ con[t] \in connected \union {Null} /\ con[t] # Null
      /\ conn_list' = Append(conn_list, con[t]) /\ con'[t] = Null
      /\ \A u \in Threads : u # t => con'[u] = con[u] /\ pc'[u] = pc[u]
  BY DEF TypeOK, PushBack, Goes
<1>2. /\ Len(conn_list) \in Nat /\ DOMAIN conn_list = 1..Len(conn_list)
      /\ DOMAIN conn_list' = 1..(Len(conn_list) + 1)
      /\ \A i \in 1..Len(conn_list) : conn_list'[i] = conn_list[i]
      /\ conn_list'[Len(conn_list) + 1] = con[t]
  BY <1>1, AppendElements
<1>3. Holds' BY <1>1 DEF Holds
<1>4. \A u, v \in Threads : con'[u] = con'[v] /\ con'[u] # Null => u = v
  BY <1>1 DEF NotShared
<1>5. \A i \in 1..Len(conn_list) : conn_list[i] # con[t]
  BY <1>1, <1>2 DEF NotShared
<1>6. ASSUME NEW i \in DOMAIN conn_list', conn_list'[i] # Null
      PROVE  /\ \A u \in Threads : con'[u] # conn_list'[i]
             /\ \A j \in DOMAIN conn_list' : conn_list'[j] = conn_list'[i] => j = i
  <2>1. CASE i \in 1..Len(conn_list)
    <3>1. conn_list'[i] = conn_list[i] /\ conn_list[i] # Null BY <1>2, <1>6, <2>1
    <3>2. /\ \A u \in Threads : con[u] # conn_list[i]
          /\ \A j \in 1..Len(conn_list) : conn_list[j] = conn_list[i] => j = i
      BY <1>2, <2>1, <3>1 DEF NotShared
    <3> QED BY <1>1, <1>2, <1>5, <2>1, <3>1, <3>2
  <2>2. CASE i = Len(conn_list) + 1
    <3>1. conn_list'[i] = con[t] BY <1>2, <2>2
    <3>2. \A u \in Threads : con'[u] # con[t] BY <1>1 DEF NotShared
    <3>3. \A j \in DOMAIN conn_list' : conn_list'[j] = con[t] => j = i
      BY <1>2, <1>5, <2>2
    <3> QED BY <3>1, <3>2, <3>3
  <2> QED BY <1>2, <2>1, <2>2
<1>7. NotShared' BY <1>4, <1>6 DEF NotShared
<1> QED BY <1>3, <1>7

LEMMA SharedStep ==
  ASSUME TypeOK, Holds, NotShared, [Next]_vars PROVE Holds' /\ NotShared'
<1>1. ASSUME NEW t \in Threads, GetConn(t) \/ Wait(t) \/ Post(t)
      PROVE  Holds' /\ NotShared'
  <2>1. UNCHANGED <<con, conn_list>> BY <1>1 DEF GetConn, Wait, Post
  <2>2. Holds' BY <1>1, <2>1 DEF TypeOK, Holds, GetConn, Wait, Post, Goes
  <2>3. NotShared' BY <2>1 DEF NotShared
  <2> QED BY <2>2, <2>3
<1>2. ASSUME NEW t \in Threads, GetNothing(t) PROVE Holds' /\ NotShared'
  <2>1. con[t] = Null BY <1>2 DEF GetNothing, Goes, Holds
  <2>2. con' = con BY <1>2, <2>1 DEF TypeOK, GetNothing
  <2>3. UNCHANGED conn_list BY <1>2 DEF GetNothing
  <2>4. Holds' BY <1>2, <2>2 DEF TypeOK, Holds, GetNothing, Goes
  <2>5. NotShared' BY <2>2, <2>3 DEF NotShared
  <2> QED BY <2>4, <2>5
<1>3. ASSUME NEW t \in Threads, ReleaseNothing(t) PROVE Holds' /\ NotShared'
  <2>1. UNCHANGED <<con, conn_list>> BY <1>3 DEF ReleaseNothing
  <2>2. Holds' BY <1>3, <2>1 DEF TypeOK, Holds, ReleaseNothing, Goes
  <2>3. NotShared' BY <2>1 DEF NotShared
  <2> QED BY <2>2, <2>3
<1>4. CASE UNCHANGED vars BY <1>4 DEF Holds, NotShared, vars
<1> QED BY <1>1, <1>2, <1>3, <1>4, PopKeepsOwner, PushKeepsOwner DEF Next, Finish

LEMMA SharedInit == Init => Holds /\ NotShared
<1> SUFFICES ASSUME Init PROVE Holds /\ NotShared OBVIOUS
<1>1. DOMAIN conn_list = Conns
      /\ \A i \in Conns : conn_list[i] = IF i \in connected THEN i ELSE Null
  BY DEF Init
<1> QED BY <1>1 DEF Init, Holds, NotShared

\* Mutual exclusion on database connections: for any number of threads and
\* connections, no connection is handed to a second thread before the first
\* has released it.
THEOREM SharedCorrect == Spec => []NotShared
<1>1. TypeOK /\ Holds /\ NotShared /\ [Next]_vars
        => TypeOK' /\ Holds' /\ NotShared'
  BY TypeStep, SharedStep
<1> QED BY <1>1, TypeInit, SharedInit, PTL DEF Spec

-----------------------------------------------------------------------------
\* With every connection made, each entry is a connection, each user has one,
\* and those in the list and those in use are all there are.
Holders == {t \in Threads : con[t] # Null}
AllUsed ==
  /\ \A i \in DOMAIN conn_list : conn_list[i] # Null
  /\ \A t \in At("use") : con[t] # Null
  /\ Len(conn_list) + Cardinality(Holders) = MaxConn

LEMMA AllUsedStep ==
  ASSUME Cardinality(Threads) <= MaxConn,
         TypeOK, Holds, AllUsed, [Next]_vars
  PROVE  AllUsed'
<1>0. /\ IsFiniteSet(Holders) /\ Cardinality(Holders) \in Nat
      /\ conn_list \in Seq(connected \union {Null}) /\ Len(conn_list) \in Nat
  BY FS_Subset, FS_CardinalityType DEF Holders, TypeOK
<1>1. ASSUME NEW t \in Threads, GetNothing(t) PROVE FALSE
  <2>1. t \notin Holders BY <1>1 DEF GetNothing, Goes, Holds, Holders
  <2>2. Cardinality(Holders) <= Cardinality(Threads \ {t})
    <3>1. Holders \subseteq Threads \ {t} BY <2>1 DEF Holders
    <3>2. IsFiniteSet(Threads \ {t}) BY FS_Subset
    <3> QED BY <3>1, <3>2, FS_Subset
  <2>3. Cardinality(Threads \ {t}) = Cardinality(Threads) - 1
    BY FS_RemoveElement
  <2>4. Cardinality(Threads) \in Nat BY FS_CardinalityType
  <2>5. Len(conn_list) = 0 BY <1>1 DEF GetNothing
  <2> QED BY <1>0, <2>2, <2>3, <2>4, <2>5 DEF AllUsed
<1>2. ASSUME NEW t \in Threads, ReleaseNothing(t) PROVE FALSE
  BY <1>2 DEF ReleaseNothing, Goes, AllUsed, At
<1>3. ASSUME NEW t \in Threads, GetConn(t) \/ Wait(t) \/ Post(t) PROVE AllUsed'
  <2>1. UNCHANGED <<con, conn_list>> BY <1>3 DEF GetConn, Wait, Post
  <2>2. At("use")' = At("use")
    BY <1>3 DEF TypeOK, GetConn, Wait, Post, Goes, At
  <2>3. Holders' = Holders BY <2>1 DEF Holders
  <2> QED BY <2>1, <2>2, <2>3 DEF AllUsed
<1>4. ASSUME NEW t \in Threads, Pop(t) PROVE AllUsed'
  <2>1. /\ conn_list # <<>> /\ conn_list' = Tail(conn_list)
        /\ con' = [con EXCEPT ![t] = Head(conn_list)]
        /\ pc[t] = "pop" /\ pc' = [pc EXCEPT ![t] = "use"]
    BY <1>4 DEF Pop, Goes
  <2>2. /\ Len(conn_list) \in Nat \ {0} /\ conn_list[1] = Head(conn_list)
        /\ DOMAIN conn_list = 1..Len(conn_list)
        /\ DOMAIN conn_list' = 1..(Len(conn_list) - 1)
        /\ \A i \in 1..(Len(conn_list) - 1) : conn_list'[i] = conn_list[i + 1]
    BY <1>0, <2>1, TailElements
  <2>3. Head(conn_list) # Null BY <2>2 DEF AllUsed
  <2>4. \A i \in DOMAIN conn_list' : conn_list'[i] # Null BY <2>2 DEF AllUsed
  <2>5. \A u \in At("use")' : con'[u] # Null
    BY <2>1, <2>3 DEF TypeOK, AllUsed, At
  <2>6. Holders' = Holders \union {t} BY <2>1, <2>3 DEF TypeOK, Holders
  <2>7. t \notin Holders BY <2>1 DEF Holds, Holders
  <2>8. Cardinality(Holders') = Cardinality(Holders) + 1
    BY <1>0, <2>6, <2>7, FS_AddElement
  <2>9. Len(conn_list') = Len(conn_list) - 1 BY <1>0, <2>1
  <2>10. Len(conn_list') + Cardinality(Holders') = MaxConn
    BY <1>0, <2>8, <2>9 DEF AllUsed
  <2> QED BY <2>4, <2>5, <2>10 DEF AllUsed
<1>5. ASSUME NEW t \in Threads, PushBack(t) PROVE AllUsed'
  <2>1. /\ conn_list' = Append(conn_list, con[t]) /\ con[t] # Null
        /\ con[t] \in connected \union {Null}
        /\ con' = [con EXCEPT ![t] = Null]
        /\ pc' = [pc EXCEPT ![t] = "post"]
    BY <1>5 DEF TypeOK, PushBack, Goes
  <2>2. /\ DOMAIN conn_list = 1..Len(conn_list)
        /\ DOMAIN conn_list' = 1..(Len(conn_list) + 1)
        /\ \A i \in 1..Len(conn_list) : conn_list'[i] = conn_list[i]
        /\ conn_list'[Len(conn_list) + 1] = con[t]
    BY <1>0, <2>1, AppendElements
  <2>3. \A i \in DOMAIN conn_list' : conn_list'[i] # Null
    BY <1>0, <2>1, <2>2 DEF AllUsed
  <2>4. \A u \in At("use")' : con'[u] # Null
    BY <2>1 DEF TypeOK, AllUsed, At
  <2>5. Holders' = Holders \ {t} /\ t \in Holders
    BY <2>1 DEF TypeOK, Holders
  <2>6. Cardinality(Holders') = Cardinality(Holders) - 1
    BY <1>0, <2>5, FS_RemoveElement
  <2>7. Len(conn_list') = Len(conn_list) + 1 BY <1>0, <2>1
  <2>8. Len(conn_list') + Cardinality(Holders') = MaxConn
    BY <1>0, <2>6, <2>7 DEF AllUsed
  <2> QED BY <2>3, <2>4, <2>8 DEF AllUsed
<1>6. CASE UNCHANGED vars BY <1>6 DEF AllUsed, At, Holders, vars
<1> QED BY <1>1, <1>2, <1>3, <1>4, <1>5, <1>6 DEF Next, Finish

\* With at least as many connections as threads (config.cpp's defaults are 8
\* and 8), and all of them made, get_conn never returns NULL: the case the
\* unlocked size test turns into an error cannot arise.
THEOREM EnoughConnections ==
  ASSUME Cardinality(Threads) <= MaxConn PROVE Spec => []BlocksWhenExhausted
<1>1. Init => (connected = Conns => AllUsed)
  <2> SUFFICES ASSUME Init, connected = Conns PROVE AllUsed OBVIOUS
  <2>1. DOMAIN conn_list = Conns /\ \A i \in Conns : conn_list[i] = i
    BY DEF Init
  <2>2. Len(conn_list) = MaxConn BY DEF Init, Conns
  <2>3. Holders = {} /\ At("use") = {} BY DEF Init, Holders, At
  <2> QED BY <2>1, <2>2, <2>3, FS_EmptySet DEF AllUsed
<1>2. TypeOK /\ Holds /\ NotShared /\ (connected = Conns => AllUsed) /\ [Next]_vars
        => /\ TypeOK' /\ Holds' /\ NotShared'
           /\ (connected = Conns => AllUsed)'
  <2>1. [Next]_vars => connected' = connected
    BY DEF Next, Finish, GetNothing, GetConn, Wait, Pop, ReleaseNothing,
           PushBack, Post, vars
  <2> QED BY <2>1, TypeStep, SharedStep, AllUsedStep
<1>3. (connected = Conns => AllUsed) => BlocksWhenExhausted
  BY DEF AllUsed, BlocksWhenExhausted
<1> QED BY <1>1, <1>2, <1>3, TypeInit, SharedInit, PTL DEF Spec
=============================================================================
