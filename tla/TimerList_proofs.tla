------------------------- MODULE TimerList_proofs -------------------------
(* Proofs about TimerList, for any number of timers, any lifetime and any  *)
(* bound of the clock.                                                     *)
EXTENDS TimerList, FunctionTheorems, FiniteSetTheorems, TLAPS

USE TimersAssumption, ClockAssumption

-----------------------------------------------------------------------------
(* Type correctness, whatever the clock does.                              *)

\* Setting one link keeps the links in their range.
LEMMA SetLink ==
  ASSUME NEW f \in [Timers -> Pointers], NEW a, NEW v \in Pointers
  PROVE  [f EXCEPT ![a] = v] \in [Timers -> Pointers]
  OBVIOUS

LEMMA ExpiresType ==
  ASSUME TypeOK, NEW t \in Timers, Expires(t)
  PROVE  expire' \in [Timers -> 0..(MaxNow + TTL)]
<1>1. now + TTL \in 0..(MaxNow + TTL) BY DEF TypeOK
<1> QED BY <1>1 DEF TypeOK, Expires

LEMMA AddType ==
  ASSUME TypeOK, NEW t \in Timers, Add(t)
  PROVE  TypeOK'
<1>1. expire' \in [Timers -> 0..(MaxNow + TTL)] BY ExpiresType DEF Add
<1>2. head' \in Timers /\ tail' \in Pointers
  BY DEF Add, TypeOK, Pointers
<1>3. next' \in [Timers -> Pointers]
  <2>1. next' = [next EXCEPT ![t] = head] \/ next' = [next EXCEPT ![t] = Null]
    BY DEF Add
  <2> QED BY <2>1, SetLink DEF TypeOK, Pointers
<1>4. prev' \in [Timers -> Pointers]
  <2>1. \A u \in Timers :
          prev'[u] = Null \/ prev'[u] = t \/ prev'[u] = prev[u]
    BY DEF Add
  <2>2. prev' = [u \in Timers |-> prev'[u]] BY DEF Add
  <2> QED BY <2>1, <2>2 DEF TypeOK, Pointers
<1>5. /\ pc' \in {"idle", "scan", "tick"}
      /\ arg' \in Pointers /\ p' \in Pointers /\ q' \in Pointers
  <2>1. CASE Returns BY <2>1 DEF Returns, TypeOK
  <2>2. CASE Scan(t, head')
    BY <2>2, <1>2, <1>3 DEF Scan, Pointers
  <2> QED BY <2>1, <2>2 DEF Add
<1>6. alive' \subseteq Timers /\ UNCHANGED <<now, cur>> BY DEF Add, TypeOK
<1> QED BY <1>1, <1>2, <1>3, <1>4, <1>5, <1>6 DEF TypeOK, Pointers

LEMMA ScanType ==
  ASSUME TypeOK, ScanNext \/ ScanEnd
  PROVE  TypeOK'
<1>1. CASE ScanNext
  <2>1. q \in Timers BY <1>1 DEF ScanNext, TypeOK, Pointers
  <2>2. next' \in [Timers -> Pointers]
    <3>1. CASE expire[arg] < expire[q]
      <4> DEFINE f == [next EXCEPT ![p] = arg]
      <4>1. f \in [Timers -> Pointers] BY SetLink DEF TypeOK
      <4>2. next' = [f EXCEPT ![arg] = q] BY <1>1, <3>1 DEF ScanNext
      <4> HIDE DEF f
      <4> QED BY <4>1, <4>2, SetLink DEF TypeOK
    <3>2. CASE ~(expire[arg] < expire[q])
      BY <1>1, <3>2 DEF ScanNext, TypeOK
    <3> QED BY <3>1, <3>2
  <2>3. prev' \in [Timers -> Pointers]
    <3>1. CASE expire[arg] < expire[q]
      <4> DEFINE f == [prev EXCEPT ![q] = arg]
      <4>1. f \in [Timers -> Pointers] BY SetLink DEF TypeOK
      <4>2. prev' = [f EXCEPT ![arg] = p] BY <1>1, <3>1 DEF ScanNext
      <4> HIDE DEF f
      <4> QED BY <4>1, <4>2, SetLink DEF TypeOK
    <3>2. CASE ~(expire[arg] < expire[q])
      BY <1>1, <3>2 DEF ScanNext, TypeOK
    <3> QED BY <3>1, <3>2
  <2>4. p' = q /\ q' \in Pointers BY <1>1, <2>1, <2>2 DEF ScanNext
  <2>5. UNCHANGED <<now, head, tail, expire, alive, pc, arg, cur>>
    BY <1>1 DEF ScanNext
  <2> QED BY <2>2, <2>3, <2>4, <2>5 DEF TypeOK
<1>2. CASE ScanEnd
  <2>1. next' \in [Timers -> Pointers]
    <3> DEFINE f == [next EXCEPT ![p] = arg]
    <3>1. f \in [Timers -> Pointers] BY SetLink DEF TypeOK
    <3>2. next' = [f EXCEPT ![arg] = Null] BY <1>2 DEF ScanEnd
    <3> HIDE DEF f
    <3> QED BY <3>1, <3>2, SetLink DEF TypeOK, Pointers
  <2>2. prev' \in [Timers -> Pointers] BY <1>2, SetLink DEF ScanEnd, TypeOK
  <2>3. UNCHANGED <<now, head, expire, alive, arg, p, q, cur>>
        /\ tail' = arg /\ pc' = "idle"
    BY <1>2 DEF ScanEnd, Returns
  <2> QED BY <2>1, <2>2, <2>3 DEF TypeOK
<1> QED BY <1>1, <1>2

LEMMA AdjustType ==
  ASSUME TypeOK, NEW t \in Timers, Adjust(t)
  PROVE  TypeOK'
<1>1. expire' \in [Timers -> 0..(MaxNow + TTL)]
  BY ExpiresType DEF Adjust, AdjustStays, AdjustHead, AdjustMiddle, Adjusts
<1>2. UNCHANGED <<now, tail, alive, cur>>
  BY DEF Adjust, AdjustStays, AdjustHead, AdjustMiddle, Adjusts
<1>3. CASE AdjustStays(t)
  <2>1. UNCHANGED <<head, next, prev, arg, p, q>> /\ pc' = "idle"
    BY <1>3 DEF AdjustStays, Returns
  <2> QED BY <1>1, <1>2, <2>1 DEF TypeOK
<1>4. CASE AdjustHead(t)
  <2>1. next[t] \in Timers BY <1>4 DEF AdjustHead, Misplaced, TypeOK, Pointers
  <2>2. next' \in [Timers -> Pointers] /\ prev' \in [Timers -> Pointers]
    BY <1>4, SetLink DEF AdjustHead, TypeOK, Pointers
  <2>3. head' = next[t] /\ Scan(t, next[t]) BY <1>4 DEF AdjustHead
  <2> QED BY <1>1, <1>2, <2>1, <2>2, <2>3 DEF TypeOK, Scan, Pointers
<1>5. CASE AdjustMiddle(t)
  <2>1. next[t] \in Timers BY <1>5 DEF AdjustMiddle, Misplaced, TypeOK, Pointers
  <2>2. prev[t] \in Pointers BY DEF TypeOK
  <2>3. next' \in [Timers -> Pointers] /\ prev' \in [Timers -> Pointers]
    BY <1>5, <2>1, <2>2, SetLink DEF AdjustMiddle, TypeOK, Pointers
  <2>4. head' = head /\ Scan(t, next[t]) BY <1>5 DEF AdjustMiddle
  <2> QED BY <1>1, <1>2, <2>1, <2>3, <2>4 DEF TypeOK, Scan, Pointers
<1> QED BY <1>3, <1>4, <1>5 DEF Adjust

LEMMA DeleteType ==
  ASSUME TypeOK, NEW t \in Timers, Delete(t)
  PROVE  TypeOK'
<1>1. next[t] \in Pointers /\ prev[t] \in Pointers /\ Null \in Pointers
  BY DEF TypeOK, Pointers
<1>2. head' \in Pointers /\ tail' \in Pointers
  BY <1>1 DEF Delete, TypeOK
<1>3. next' \in [Timers -> Pointers] /\ prev' \in [Timers -> Pointers]
  <2>1. \/ next' = next
        \/ next' = [next EXCEPT ![prev[t]] = Null]
        \/ next' = [next EXCEPT ![prev[t]] = next[t]]
    BY DEF Delete
  <2>2. \/ prev' = prev
        \/ prev' = [prev EXCEPT ![next[t]] = Null]
        \/ prev' = [prev EXCEPT ![next[t]] = prev[t]]
    BY DEF Delete
  <2> QED BY <1>1, <2>1, <2>2, SetLink DEF TypeOK
<1>4. alive' \subseteq Timers BY DEF Delete, TypeOK
<1>5. UNCHANGED <<now, expire, pc, arg, p, q, cur>> BY DEF Delete
<1> QED BY <1>2, <1>3, <1>4, <1>5 DEF TypeOK

LEMMA TickType ==
  ASSUME TypeOK, TickBegin \/ TickFire \/ TickEnd \/ Clock
  PROVE  TypeOK'
<1>1. CASE TickBegin BY <1>1 DEF TickBegin, TypeOK, list
<1>2. CASE TickFire
  <2>1. head \in Timers BY <1>2 DEF TickFire, Due, TypeOK, Pointers
  <2>2. head' \in Pointers BY <1>2, <2>1 DEF TickFire, TypeOK
  <2>3. prev' \in [Timers -> Pointers] BY <1>2 DEF TickFire, TypeOK, Pointers
  <2>4. alive' \subseteq Timers BY <1>2 DEF TickFire, TypeOK
  <2>5. UNCHANGED <<now, tail, next, expire, pc, arg, p, q, cur>>
    BY <1>2 DEF TickFire
  <2> QED BY <2>2, <2>3, <2>4, <2>5 DEF TypeOK
<1>3. CASE TickEnd BY <1>3 DEF TickEnd, Returns, TypeOK, list
<1>4. CASE Clock BY <1>4 DEF Clock, TypeOK, list
<1> QED BY <1>1, <1>2, <1>3, <1>4

THEOREM TypeInvariant == Spec => []TypeOK
<1>1. Init => TypeOK BY DEF Init, TypeOK, Pointers
<1>2. TypeOK /\ [Next]_vars => TypeOK'
  <2> SUFFICES ASSUME TypeOK, [Next]_vars PROVE TypeOK' OBVIOUS
  <2>1. ASSUME NEW t \in Timers, Add(t) \/ Adjust(t) \/ Delete(t)
        PROVE  TypeOK'
    BY <2>1, AddType, AdjustType, DeleteType
  <2>2. CASE TickBegin \/ Loops \/ Clock
    BY <2>2, ScanType, TickType DEF Loops
  <2>3. CASE UNCHANGED vars BY <2>3 DEF vars, list, TypeOK
  <2> QED BY <2>1, <2>2, <2>3 DEF Next
<1> QED BY <1>1, <1>2, PTL DEF Spec

-----------------------------------------------------------------------------
(* Chains.  The order in which a list holds its nodes appears in no        *)
(* variable; o is a witness of it.                                         *)

\* From h to l the links nx and pv pass the members of S in the order o[1],
\* ..., o[n].
Chained(S, h, l, nx, pv, n, o) ==
  /\ o \in [1..n -> S]
  /\ \A i, j \in 1..n : o[i] = o[j] => i = j
  /\ \A t \in S : \E i \in 1..n : o[i] = t
  /\ n = 0 => h = Null
  /\ n > 0 => h = o[1] /\ pv[o[1]] = Null /\ l = o[n] /\ nx[o[n]] = Null
  /\ \A i \in 1..(n - 1) : nx[o[i]] = o[i + 1] /\ pv[o[i + 1]] = o[i]

Ascending(e, n, o) == \A i, j \in 1..n : i <= j => e[o[i]] <= e[o[j]]

\* Only the links of its own nodes make a chain.
LEMMA ChainFrame ==
  ASSUME NEW S, NEW n \in Nat, NEW o, NEW h, NEW l,
         NEW nx, NEW pv, NEW nx2, NEW pv2,
         Chained(S, h, l, nx, pv, n, o),
         \A t \in S : nx2[t] = nx[t] /\ pv2[t] = pv[t]
  PROVE  Chained(S, h, l, nx2, pv2, n, o)
<1>1. \A i \in 1..(n - 1) : i \in 1..n /\ i + 1 \in 1..n OBVIOUS
<1>2. n > 0 => 1 \in 1..n /\ n \in 1..n OBVIOUS
<1> QED BY <1>1, <1>2 DEF Chained

\* The node at place i of a chain, seen from its own links.
LEMMA ChainLinks ==
  ASSUME NEW S, Null \notin S, NEW n \in Nat, NEW o, NEW h, NEW l, NEW nx, NEW pv,
         Chained(S, h, l, nx, pv, n, o), NEW i \in 1..n
  PROVE  /\ o[i] \in S
         /\ nx[o[i]] = IF i = n THEN Null ELSE o[i + 1]
         /\ pv[o[i]] = IF i = 1 THEN Null ELSE o[i - 1]
         /\ o[i] = h <=> i = 1
         /\ o[i] = l <=> i = n
<1>1. n > 0 /\ 1 \in 1..n /\ n \in 1..n OBVIOUS
<1>2. o[i] \in S BY DEF Chained
<1>3. nx[o[i]] = IF i = n THEN Null ELSE o[i + 1]
  <2>1. CASE i = n BY <1>1, <2>1 DEF Chained
  <2>2. CASE i # n
    <3>1. i \in 1..(n - 1) BY <2>2
    <3> QED BY <2>2, <3>1 DEF Chained
  <2> QED BY <2>1, <2>2
<1>4. pv[o[i]] = IF i = 1 THEN Null ELSE o[i - 1]
  <2>1. CASE i = 1 BY <1>1, <2>1 DEF Chained
  <2>2. CASE i # 1
    <3>1. i - 1 \in 1..(n - 1) /\ (i - 1) + 1 = i BY <2>2
    <3> QED BY <2>2, <3>1 DEF Chained
  <2> QED BY <2>1, <2>2
<1>5. h = o[1] /\ l = o[n] BY <1>1 DEF Chained
<1>6. (o[i] = h <=> i = 1) /\ (o[i] = l <=> i = n)
  BY <1>1, <1>5 DEF Chained
<1> QED BY <1>2, <1>3, <1>4, <1>6

\* The order without its place k.
Without(o, n, k) == [i \in 1..(n - 1) |-> IF i < k THEN o[i] ELSE o[i + 1]]

\* Taking the node t out of a list, as adjust_timer, delete_timer and tick do.
\* Nothing is asked of the links that remain in t, nor of the tail when t was
\* alone.
Unlinks(t, S, h, l, nx, pv, h2, l2, nx2, pv2) ==
  /\ h2 = IF t = h THEN nx[t] ELSE h
  /\ t # h \/ t # l => l2 = IF t = l THEN pv[t] ELSE l
  /\ \A u \in S \ {t} : nx2[u] = IF u = pv[t] THEN nx[t] ELSE nx[u]
  /\ \A u \in S \ {t} : pv2[u] = IF u = nx[t] THEN pv[t] ELSE pv[u]

LEMMA ChainUnlink ==
  ASSUME NEW S, Null \notin S, NEW n \in Nat, NEW o, NEW h, NEW l, NEW nx, NEW pv,
         Chained(S, h, l, nx, pv, n, o), NEW k \in 1..n,
         NEW t, t = o[k],
         NEW h2, NEW l2, NEW nx2, NEW pv2,
         Unlinks(t, S, h, l, nx, pv, h2, l2, nx2, pv2),
         NEW m, m = n - 1, NEW w, w = Without(o, n, k)
  PROVE  Chained(S \ {t}, h2, l2, nx2, pv2, m, w)
<1> DEFINE T == S \ {t}
<1>0. /\ h2 = IF t = h THEN nx[t] ELSE h
      /\ n > 1 => l2 = IF t = l THEN pv[t] ELSE l
      /\ \A u \in T : nx2[u] = IF u = pv[t] THEN nx[t] ELSE nx[u]
      /\ \A u \in T : pv2[u] = IF u = nx[t] THEN pv[t] ELSE pv[u]
  <2>1. (t = h <=> k = 1) /\ (t = l <=> k = n) BY ChainLinks
  <2> QED BY <2>1 DEF Unlinks
<1>1. m \in Nat BY k \in 1..n
<1>2. \A i, j \in 1..n : o[i] = o[j] => i = j BY DEF Chained
<1>3. \A i \in 1..m : w[i] = IF i < k THEN o[i] ELSE o[i + 1] BY DEF Without
<1>4. \A i \in 1..m : i \in 1..n /\ i + 1 \in 1..n OBVIOUS
<1>5. w \in [1..m -> T]
  <2>1. \A i \in 1..m : w[i] \in S BY <1>3, <1>4 DEF Chained
  <2>2. \A i \in 1..m : w[i] # o[k] BY <1>2, <1>3, <1>4
  <2>3. w = [i \in 1..m |-> w[i]] BY DEF Without
  <2> QED BY <2>1, <2>2, <2>3
<1>6. \A i, j \in 1..m : w[i] = w[j] => i = j
  BY <1>2, <1>3, <1>4
<1>7. \A u \in T : \E i \in 1..m : w[i] = u
  <2> SUFFICES ASSUME NEW u \in T PROVE \E i \in 1..m : w[i] = u OBVIOUS
  <2>1. PICK j \in 1..n : o[j] = u BY DEF Chained
  <2>2. j # k BY <2>1
  <2>3. CASE j < k
    <3>1. j \in 1..m /\ w[j] = u BY <1>3, <2>1, <2>3
    <3> QED BY <3>1
  <2>4. CASE j > k
    <3>1. j - 1 \in 1..m /\ ~(j - 1 < k) /\ (j - 1) + 1 = j BY <2>4
    <3>2. w[j - 1] = u BY <1>3, <2>1, <3>1
    <3> QED BY <3>1, <3>2
  <2> QED BY <2>2, <2>3, <2>4
\* What is next to the node.
<1>8. \A i \in 1..n : /\ o[i] \in S
                      /\ nx[o[i]] = IF i = n THEN Null ELSE o[i + 1]
                      /\ pv[o[i]] = IF i = 1 THEN Null ELSE o[i - 1]
                      /\ o[i] = h <=> i = 1
                      /\ o[i] = l <=> i = n
  BY ChainLinks
<1>9. \A i \in 1..n : i # k => /\ o[i] \in T
                               /\ o[i] = pv[t] <=> (k # 1 /\ i = k - 1)
                               /\ o[i] = nx[t] <=> (k # n /\ i = k + 1)
  <2> SUFFICES ASSUME NEW i \in 1..n, i # k
               PROVE  /\ o[i] \in T
                      /\ o[i] = pv[t] <=> (k # 1 /\ i = k - 1)
                      /\ o[i] = nx[t] <=> (k # n /\ i = k + 1)
    OBVIOUS
  <2>1. o[i] \in T BY <1>2, <1>8
  <2>2. o[i] = pv[t] <=> (k # 1 /\ i = k - 1)
    <3>1. CASE k = 1 BY <1>8, <3>1
    <3>2. CASE k # 1
      <4>1. k - 1 \in 1..n /\ pv[t] = o[k - 1] BY <1>8, <3>2
      <4> QED BY <1>2, <3>2, <4>1
    <3> QED BY <3>1, <3>2
  <2>3. o[i] = nx[t] <=> (k # n /\ i = k + 1)
    <3>1. CASE k = n BY <1>8, <3>1
    <3>2. CASE k # n
      <4>1. k + 1 \in 1..n /\ nx[t] = o[k + 1] BY <1>8, <3>2
      <4> QED BY <1>2, <3>2, <4>1
    <3> QED BY <3>1, <3>2
  <2> QED BY <2>1, <2>2, <2>3
<1>10. m = 0 => h2 = Null
  <2> SUFFICES ASSUME m = 0 PROVE h2 = Null OBVIOUS
  <2>1. k = 1 /\ n = 1 OBVIOUS
  <2> QED BY <1>0, <1>8, <2>1
<1>11. ASSUME m > 0
       PROVE  h2 = w[1] /\ pv2[w[1]] = Null /\ l2 = w[m] /\ nx2[w[m]] = Null
  <2>1. 1 \in 1..m /\ m \in 1..m /\ n \in 1..n /\ m + 1 = n BY <1>11, <1>1
  <2>2. h2 = w[1]
    <3>1. CASE k = 1
      <4>1. w[1] = o[2] BY <1>3, <2>1, <3>1
      <4>2. t = h /\ nx[t] = o[2] BY <1>8, <3>1, <1>11
      <4> QED BY <1>0, <4>1, <4>2
    <3>2. CASE k # 1
      <4>1. w[1] = o[1] BY <1>3, <2>1, <3>2
      <4>2. t # h /\ h = o[1] BY <1>8, <3>2
      <4> QED BY <1>0, <4>1, <4>2
    <3> QED BY <3>1, <3>2
  <2>3. pv2[w[1]] = Null
    <3>1. CASE k = 1
      <4>1. w[1] = o[2] /\ 2 \in 1..n /\ k + 1 = 2 /\ k # n /\ 2 # k
        BY <1>3, <2>1, <3>1, <1>11
      <4>2. o[2] \in T /\ o[2] = nx[t] BY <1>9, <4>1
      <4>3. pv[t] = Null BY <1>8, <3>1
      <4> QED BY <1>0, <4>1, <4>2, <4>3
    <3>2. CASE k # 1
      <4>1. w[1] = o[1] /\ 1 \in 1..n BY <1>3, <2>1, <3>2
      <4>2. o[1] \in T /\ o[1] # nx[t] BY <1>9, <4>1, <3>2
      <4>3. pv[o[1]] = Null BY <1>8, <4>1
      <4> QED BY <1>0, <4>1, <4>2, <4>3
    <3> QED BY <3>1, <3>2
  <2>4. l2 = w[m]
    <3>1. CASE k = n
      <4>1. w[m] = o[m] BY <1>3, <2>1, <3>1
      <4>2. t = l /\ pv[t] = o[m] BY <1>8, <3>1, <1>11
      <4> QED BY <1>0, <4>1, <4>2, <1>11
    <3>2. CASE k # n
      <4>1. w[m] = o[n] BY <1>3, <2>1, <3>2
      <4>2. t # l /\ l = o[n] BY <1>8, <2>1, <3>2
      <4> QED BY <1>0, <4>1, <4>2, <1>11
    <3> QED BY <3>1, <3>2
  <2>5. nx2[w[m]] = Null
    <3>1. CASE k = n
      <4>1. w[m] = o[m] /\ m \in 1..n /\ m = k - 1 /\ k # 1 /\ m # k
        BY <1>3, <2>1, <3>1, <1>11
      <4>2. o[m] \in T /\ o[m] = pv[t] BY <1>9, <4>1
      <4>3. nx[t] = Null BY <1>8, <3>1
      <4> QED BY <1>0, <4>1, <4>2, <4>3
    <3>2. CASE k # n
      <4>1. w[m] = o[n] /\ n # k - 1 BY <1>3, <2>1, <3>2
      <4>2. o[n] \in T /\ o[n] # pv[t] BY <1>9, <2>1, <4>1, <3>2
      <4>3. nx[o[n]] = Null BY <1>8, <2>1
      <4> QED BY <1>0, <4>1, <4>2, <4>3
    <3> QED BY <3>1, <3>2
  <2> QED BY <2>2, <2>3, <2>4, <2>5
<1>12. ASSUME NEW i \in 1..(m - 1)
       PROVE  nx2[w[i]] = w[i + 1] /\ pv2[w[i + 1]] = w[i]
  <2>1. /\ i \in 1..m /\ i + 1 \in 1..m
        /\ i \in 1..n /\ i + 1 \in 1..n /\ i + 2 \in 1..n
        /\ (i + 1) + 1 = i + 2 /\ (i + 1) - 1 = i /\ (i + 2) - 1 = i + 1
    BY <1>1
  <2>2. CASE i + 1 < k
    <3>1. w[i] = o[i] /\ w[i + 1] = o[i + 1] BY <1>3, <2>1, <2>2
    <3>2. o[i] \in T /\ o[i] # pv[t] BY <1>9, <2>1, <2>2
    <3>3. o[i + 1] \in T /\ o[i + 1] # nx[t] BY <1>9, <2>1, <2>2
    <3>4. nx[o[i]] = o[i + 1] /\ pv[o[i + 1]] = o[i] BY <1>8, <2>1, <2>2
    <3> QED BY <1>0, <3>1, <3>2, <3>3, <3>4
  <2>3. CASE i + 1 = k
    <3>1. w[i] = o[i] /\ w[i + 1] = o[i + 2] BY <1>3, <2>1, <2>3
    <3>2. o[i] \in T /\ o[i] = pv[t] BY <1>9, <2>1, <2>3
    <3>3. o[i + 2] \in T /\ o[i + 2] = nx[t] BY <1>9, <2>1, <2>3
    <3> QED BY <1>0, <3>1, <3>2, <3>3
  <2>4. CASE i + 1 > k
    <3>1. w[i] = o[i + 1] /\ w[i + 1] = o[i + 2] BY <1>3, <2>1, <2>4
    <3>2. o[i + 1] \in T /\ o[i + 1] # pv[t] BY <1>9, <2>1, <2>4
    <3>3. o[i + 2] \in T /\ o[i + 2] # nx[t] BY <1>9, <2>1, <2>4
    <3>4. nx[o[i + 1]] = o[i + 2] /\ pv[o[i + 2]] = o[i + 1] BY <1>8, <2>1
    <3> QED BY <1>0, <3>1, <3>2, <3>3, <3>4
  <2> QED BY <2>1, <2>2, <2>3, <2>4
<1> HIDE DEF T
<1>13. Chained(T, h2, l2, nx2, pv2, m, w)
  BY <1>5, <1>6, <1>7, <1>10, <1>11, <1>12 DEF Chained
<1> QED BY <1>13 DEF T

LEMMA AscendingWithout ==
  ASSUME NEW e, NEW n \in Nat, NEW o, NEW k \in 1..n, Ascending(e, n, o)
  PROVE  Ascending(e, n - 1, Without(o, n, k))
<1> SUFFICES ASSUME NEW i \in 1..(n - 1), NEW j \in 1..(n - 1), i <= j
             PROVE  e[Without(o, n, k)[i]] <= e[Without(o, n, k)[j]]
  BY DEF Ascending
<1>1. i \in 1..n /\ j \in 1..n /\ i + 1 \in 1..n /\ j + 1 \in 1..n OBVIOUS
<1> DEFINE a == IF i < k THEN i ELSE i + 1  b == IF j < k THEN j ELSE j + 1
<1>2. a \in 1..n /\ b \in 1..n /\ a <= b BY <1>1
<1>3. Without(o, n, k)[i] = o[a] /\ Without(o, n, k)[j] = o[b] BY DEF Without
<1> QED BY <1>2, <1>3 DEF Ascending

\* Linking the node t behind the last one.
With(o, n, t) == [i \in 1..(n + 1) |-> IF i = n + 1 THEN t ELSE o[i]]

LEMMA ChainAppend ==
  ASSUME NEW S, Null \notin S, NEW n \in Nat, n > 0, NEW o, NEW h, NEW l, NEW nx, NEW pv,
         Chained(S, h, l, nx, pv, n, o), NEW t, t \notin S,
         NEW nx2, NEW pv2, nx2[t] = Null, pv2[t] = o[n], nx2[o[n]] = t,
         \A u \in S \ {o[n]} : nx2[u] = nx[u],
         \A u \in S : pv2[u] = pv[u]
  PROVE  Chained(S \union {t}, h, t, nx2, pv2, n + 1, With(o, n, t))
<1> DEFINE w == With(o, n, t)  m == n + 1  T == S \union {t}
<1>1. \A i \in 1..n : i \in 1..m /\ w[i] = o[i] /\ o[i] \in S BY DEF With, Chained
<1>2. m \in 1..m /\ w[m] = t BY DEF With
<1>3. \A i \in 1..m : i \in 1..n \/ i = m OBVIOUS
<1>4. w \in [1..m -> T]
  <2>1. \A i \in 1..m : w[i] \in T BY <1>1, <1>2, <1>3
  <2>2. w = [i \in 1..m |-> w[i]] BY DEF With
  <2> QED BY <2>1, <2>2
<1>5. \A i, j \in 1..m : w[i] = w[j] => i = j BY <1>1, <1>2, <1>3 DEF Chained
<1>6. \A u \in T : \E i \in 1..m : w[i] = u
  <2> SUFFICES ASSUME NEW u \in T PROVE \E i \in 1..m : w[i] = u OBVIOUS
  <2>1. CASE u = t BY <1>2, <2>1
  <2>2. CASE u \in S
    <3>1. PICK i \in 1..n : o[i] = u BY <2>2 DEF Chained
    <3> QED BY <3>1, <1>1
  <2> QED BY <2>1, <2>2
<1>7. h = w[1] /\ pv2[w[1]] = Null
  <2>1. 1 \in 1..n OBVIOUS
  <2> QED BY <1>1, <2>1 DEF Chained
<1>8. ASSUME NEW i \in 1..(m - 1)
      PROVE  nx2[w[i]] = w[i + 1] /\ pv2[w[i + 1]] = w[i]
  <2>1. i \in 1..n OBVIOUS
  <2>2. CASE i = n BY <1>1, <1>2, <2>2
  <2>3. CASE i # n
    <3>1. i \in 1..(n - 1) /\ i + 1 \in 1..n /\ n \in 1..n BY <2>1, <2>3
    <3>2. nx[o[i]] = o[i + 1] /\ pv[o[i + 1]] = o[i] BY <3>1 DEF Chained
    <3>3. o[i] # o[n] BY <2>1, <2>3, <3>1 DEF Chained
    <3>4. nx2[o[i]] = o[i + 1] /\ pv2[o[i + 1]] = o[i] BY <1>1, <2>1, <3>1, <3>2, <3>3
    <3>5. w[i] = o[i] /\ w[i + 1] = o[i + 1] BY <1>1, <2>1, <3>1
    <3> QED BY <3>4, <3>5
  <2> QED BY <2>2, <2>3
<1>9. m # 0 OBVIOUS
<1> HIDE DEF w, m, T
<1>10. Chained(T, h, t, nx2, pv2, m, w)
  BY <1>2, <1>4, <1>5, <1>6, <1>7, <1>8, <1>9 DEF Chained
<1> QED BY <1>10 DEF w, m, T

-----------------------------------------------------------------------------
(* The inductive invariant, for a clock that is not set back: the list is  *)
(* a chain in ascending order, except that the node an add_timer is        *)
(* searching a place for is out of it and expires last of all.             *)

InList == IF pc = "scan" THEN alive \ {arg} ELSE alive

Bounded == \A t \in alive : expire[t] <= now + TTL

InScan ==
  pc = "scan" => /\ arg \in alive /\ \A t \in alive : expire[t] <= expire[arg]
                 /\ p \in InList /\ q = next[p]

InOrder(n, o) == /\ Chained(InList, head, tail, next, prev, n, o)
                 /\ Ascending(expire, n, o)

Ordered == \E n \in Nat : \E o \in [1..n -> InList] : InOrder(n, o)

ListInv == Bounded /\ InScan /\ Ordered

LEMMA InListTypes ==
  ASSUME TypeOK
  PROVE  InList \subseteq Timers /\ InList \subseteq alive /\ Null \notin InList
  BY DEF TypeOK, InList

LEMMA OrderedIntro ==
  ASSUME NEW n \in Nat, NEW o,
         Chained(InList, head, tail, next, prev, n, o), Ascending(expire, n, o)
  PROVE  Ordered
  BY DEF Ordered, InOrder, Chained

\* A step that leaves the nodes of the list as they are.
LEMMA OrderedStays ==
  ASSUME TypeOK, Ordered, InList' = InList, UNCHANGED <<head, tail>>,
         \A t \in InList : /\ next'[t] = next[t] /\ prev'[t] = prev[t]
                           /\ expire'[t] = expire[t]
  PROVE  Ordered'
<1>0. PICK n \in Nat : \E o \in [1..n -> InList] : InOrder(n, o) BY DEF Ordered
<1>1. PICK o \in [1..n -> InList] : /\ Chained(InList, head, tail, next, prev, n, o)
                                   /\ Ascending(expire, n, o)
  BY <1>0 DEF InOrder
<1>2. Chained(InList, head, tail, next', prev', n, o) BY <1>1, ChainFrame
<1>3. Ascending(expire', n, o) BY <1>1 DEF Ascending
<1>4. Chained(InList', head', tail', next', prev', n, o) BY <1>2
<1> QED BY <1>3, <1>4 DEF Ordered, InOrder

\* A step that unlinks the node t.
LEMMA OrderedUnlink ==
  ASSUME TypeOK, Ordered, pc # "scan", NEW t \in alive, InList' = alive \ {t},
         Unlinks(t, alive, head, tail, next, prev, head', tail', next', prev'),
         \A u \in alive \ {t} : expire'[u] = expire[u]
  PROVE  Ordered'
<1>1. InList = alive /\ Null \notin alive BY InListTypes DEF InList
<1>0. PICK n \in Nat : \E o \in [1..n -> InList] : InOrder(n, o) BY DEF Ordered
<1>2. PICK o \in [1..n -> alive] : /\ Chained(alive, head, tail, next, prev, n, o)
                                  /\ Ascending(expire, n, o)
  BY <1>0, <1>1 DEF InOrder
<1>3. PICK k \in 1..n : o[k] = t BY <1>2 DEF Chained
<1>6. Chained(alive \ {t}, head', tail', next', prev', n - 1, Without(o, n, k))
  <2> DEFINE m == n - 1  w == Without(o, n, k)
  <2>1. m = n - 1 /\ w = Without(o, n, k) OBVIOUS
  <2> HIDE DEF m, w
  <2>2. Chained(alive \ {t}, head', tail', next', prev', m, w)
    BY <1>1, <1>2, <1>3, <2>1, ChainUnlink
  <2> QED BY <2>2 DEF m, w
<1>7. Ascending(expire, n - 1, Without(o, n, k)) BY <1>2, AscendingWithout
<1>8. Ascending(expire', n - 1, Without(o, n, k))
  <2>1. \A i \in 1..(n - 1) : Without(o, n, k)[i] \in alive \ {t}
    BY <1>6 DEF Chained
  <2> QED BY <1>7, <2>1 DEF Ascending
<1>9. n - 1 \in Nat BY k \in 1..n
<1>10. Without(o, n, k) \in [1..(n - 1) -> alive \ {t}] BY <1>6 DEF Chained
<1> QED BY <1>6, <1>8, <1>9, <1>10 DEF Ordered, InOrder

\* What the order says of one node and its successor.
LEMMA OrderedLinks ==
  ASSUME TypeOK, Ordered, NEW t \in InList
  PROVE  /\ head \in InList /\ tail \in InList
         /\ next[t] \in InList \union {Null} /\ next[t] # t
         /\ next[t] # Null => prev[next[t]] = t /\ expire[t] <= expire[next[t]]
         /\ next[t] = Null <=> t = tail
         /\ prev[t] \in InList \union {Null}
         /\ prev[t] = Null <=> t = head
         /\ expire[head] <= expire[t] /\ expire[t] <= expire[tail]
<1>0. PICK n \in Nat : \E o \in [1..n -> InList] : InOrder(n, o) BY DEF Ordered
<1>1. PICK o \in [1..n -> InList] : /\ Chained(InList, head, tail, next, prev, n, o)
                                   /\ Ascending(expire, n, o)
  BY <1>0 DEF InOrder
<1>2. PICK k \in 1..n : o[k] = t BY <1>1 DEF Chained
<1>3. 1 \in 1..n /\ n \in 1..n BY <1>2
<1>4. \A i \in 1..n : /\ o[i] \in InList
                      /\ next[o[i]] = IF i = n THEN Null ELSE o[i + 1]
                      /\ prev[o[i]] = IF i = 1 THEN Null ELSE o[i - 1]
                      /\ o[i] = head <=> i = 1
                      /\ o[i] = tail <=> i = n
  BY <1>1, InListTypes, ChainLinks
<1>5. head = o[1] /\ tail = o[n] BY <1>3, <1>4
<1>6. Null \notin InList BY InListTypes
<1>7. \A i, j \in 1..n : o[i] = o[j] => i = j BY <1>1 DEF Chained
<1>8. CASE k = n
  <2>1. next[t] = Null /\ t = tail BY <1>2, <1>4, <1>8
  <2>2. k # 1 => k - 1 \in 1..n OBVIOUS
  <2>3. prev[t] \in InList \union {Null} /\ (prev[t] = Null <=> t = head)
    BY <1>2, <1>4, <1>6, <2>2
  <2>4. expire[head] <= expire[t] /\ expire[t] <= expire[tail]
    BY <1>1, <1>2, <1>3, <1>5 DEF Ascending
  <2> QED BY <1>3, <1>4, <1>5, <1>6, <2>1, <2>3, <2>4
<1>9. CASE k # n
  <2>1. k + 1 \in 1..n /\ (k + 1) - 1 = k /\ k + 1 # 1 BY <1>9
  <2>2. next[t] = o[k + 1] /\ t # tail BY <1>2, <1>4, <1>9
  <2>3. next[t] \in InList /\ next[t] # Null /\ next[t] # t
    BY <1>2, <1>4, <1>6, <1>7, <2>1, <2>2
  <2>4. prev[next[t]] = t BY <1>2, <1>4, <2>1, <2>2
  <2>5. expire[t] <= expire[next[t]] BY <1>1, <1>2, <2>1, <2>2 DEF Ascending
  <2>6. k # 1 => k - 1 \in 1..n OBVIOUS
  <2>7. prev[t] \in InList \union {Null} /\ (prev[t] = Null <=> t = head)
    BY <1>2, <1>4, <1>6, <2>6
  <2>8. expire[head] <= expire[t] /\ expire[t] <= expire[tail]
    BY <1>1, <1>2, <1>3, <1>5 DEF Ascending
  <2> QED BY <1>3, <1>4, <1>5, <2>2, <2>3, <2>4, <2>5, <2>7, <2>8
<1> QED BY <1>8, <1>9

\* The list is empty when it has no head.
LEMMA OrderedEmpty ==
  ASSUME TypeOK, Ordered
  PROVE  head = Null <=> InList = {}
<1>0. PICK n \in Nat : \E o \in [1..n -> InList] : InOrder(n, o) BY DEF Ordered
<1>1. PICK o \in [1..n -> InList] : /\ Chained(InList, head, tail, next, prev, n, o)
                                   /\ Ascending(expire, n, o)
  BY <1>0 DEF InOrder
<1>2. CASE n = 0
  <2>1. head = Null /\ InList = {} BY <1>1, <1>2 DEF Chained
  <2> QED BY <2>1
<1>3. CASE n # 0
  <2>1. 1 \in 1..n BY <1>3
  <2>2. head = o[1] /\ o[1] \in InList BY <1>1, <2>1 DEF Chained
  <2> QED BY <2>2, InListTypes
<1> QED BY <1>2, <1>3

\* What a scan, and the end of one, leave of the invariant.
LEMMA IdleInv ==
  ASSUME pc' # "scan", Bounded', Ordered'
  PROVE  ListInv'
  BY DEF ListInv, InScan

\* A timer that is set or moved expires last.
LEMMA Latest ==
  ASSUME TypeOK, Bounded, NEW t \in Timers, Expires(t), alive' \subseteq alive \union {t},
         now' = now
  PROVE  /\ expire'[t] = now + TTL
         /\ \A u \in Timers : u # t => expire'[u] = expire[u]
         /\ \A u \in alive' : expire'[u] <= expire'[t]
         /\ Bounded'
<1>1. expire'[t] = now + TTL /\ \A u \in Timers : u # t => expire'[u] = expire[u]
  BY DEF TypeOK, Expires
<1>2. \A u \in alive' : expire'[u] <= now + TTL
  <2> SUFFICES ASSUME NEW u \in alive' PROVE expire'[u] <= now + TTL OBVIOUS
  <2>1. CASE u = t
    <3>1. now + TTL \in Nat BY DEF TypeOK
    <3> QED BY <1>1, <2>1, <3>1
  <2>2. CASE u # t
    <3>1. u \in alive /\ u \in Timers BY <2>2 DEF TypeOK
    <3> QED BY <1>1, <2>2, <3>1 DEF Bounded
  <2> QED BY <2>1, <2>2
<1> QED BY <1>1, <1>2 DEF Bounded

LEMMA AddInv ==
  ASSUME TypeOK, ListInv, NEW t \in Timers, Add(t)
  PROVE  ListInv'
<1>1. /\ pc = "idle" /\ t \notin alive /\ alive' = alive \union {t}
      /\ Expires(t) /\ now' = now /\ InList = alive
  BY DEF Add, InList
<1>2. /\ expire'[t] = now + TTL
      /\ \A u \in Timers : u # t => expire'[u] = expire[u]
      /\ \A u \in alive' : expire'[u] <= expire'[t]
      /\ Bounded'
  BY <1>1, Latest DEF ListInv
<1>3. CASE head = Null
  <2>1. alive = {} BY <1>1, <1>3, OrderedEmpty DEF ListInv
  <2>2. head' = t /\ tail' = t /\ next'[t] = Null /\ prev'[t] = Null /\ pc' = "idle"
    BY <1>3 DEF Add, Returns, TypeOK
  <2>3. InList' = {t} BY <1>1, <2>1, <2>2 DEF InList
  <2> DEFINE o == [i \in 1..1 |-> t]
  <2>4. Chained({t}, t, t, next', prev', 1, o) BY <2>2 DEF Chained
  <2>5. expire'[t] \in Int
    <3>1. now + TTL \in Int BY DEF TypeOK
    <3> QED BY <1>2, <3>1
  <2>6. Ascending(expire', 1, o) BY <2>5 DEF Ascending
  <2>7. o \in [1..1 -> {t}] OBVIOUS
  <2> HIDE DEF o
  <2>8. Ordered' BY <2>2, <2>3, <2>4, <2>6, <2>7 DEF Ordered, InOrder
  <2> QED BY <1>2, <2>2, <2>8, IdleInv
<1>4. CASE head # Null
  <2>1. head \in alive /\ head \in Timers
    <3>1. alive # {} BY <1>1, <1>4, OrderedEmpty DEF ListInv
    <3> QED BY <1>1, <3>1, OrderedLinks DEF ListInv, TypeOK
  <2>2. ~(expire'[t] < expire[head])
    <3>1. expire[head] <= now + TTL BY <2>1 DEF ListInv, Bounded
    <3>2. expire[head] \in Int /\ now + TTL \in Int BY <2>1 DEF TypeOK
    <3> QED BY <1>2, <3>1, <3>2
  <2>3. /\ head' = head /\ tail' = tail
        /\ next' = [next EXCEPT ![t] = Null]
        /\ prev' = [u \in Timers |-> IF u = t THEN Null ELSE prev[u]]
        /\ Scan(t, head)
    BY <1>4, <2>2 DEF Add
  <2>4. pc' = "scan" /\ arg' = t /\ p' = head /\ q' = next'[head]
    BY <2>3 DEF Scan
  <2>5. InList' = InList BY <1>1, <2>4 DEF InList
  <2>6. \A u \in InList : /\ next'[u] = next[u] /\ prev'[u] = prev[u]
                          /\ expire'[u] = expire[u]
    <3>1. InList \subseteq Timers /\ t \notin InList BY <1>1, InListTypes
    <3> QED BY <1>2, <2>3, <3>1 DEF TypeOK
  <2>7. Ordered' BY <2>3, <2>5, <2>6, OrderedStays DEF ListInv
  <2>8. InScan' BY <1>1, <1>2, <2>1, <2>4, <2>5 DEF InScan
  <2> QED BY <1>2, <2>7, <2>8 DEF ListInv
<1> QED BY <1>3, <1>4

\* Nothing that the search passes expires after the timer it places.
LEMMA ScanNextPasses ==
  ASSUME TypeOK, ListInv, ScanNext
  PROVE  /\ q \in InList /\ p' = q /\ q' = next[q]
         /\ UNCHANGED <<next, prev>>
<1>1. pc = "scan" /\ q # Null /\ p \in InList /\ q = next[p]
  BY DEF ScanNext, ListInv, InScan
<1>2. q \in InList BY <1>1, OrderedLinks DEF ListInv
<1>3. q \in alive /\ q \in Timers /\ arg \in Timers
  BY <1>1, <1>2, InListTypes DEF ListInv, InScan, TypeOK
<1>4. ~(expire[arg] < expire[q])
  <2>1. expire[q] <= expire[arg] BY <1>1, <1>3 DEF ListInv, InScan
  <2>2. expire[q] \in Int /\ expire[arg] \in Int BY <1>3 DEF TypeOK
  <2> QED BY <2>1, <2>2
<1> QED BY <1>2, <1>4 DEF ScanNext

LEMMA ScanInv ==
  ASSUME TypeOK, ListInv, ScanNext \/ ScanEnd
  PROVE  ListInv'
<1>1. CASE ScanNext
  <2>1. q \in InList /\ p' = q /\ q' = next[q] /\ UNCHANGED <<next, prev>>
    BY <1>1, ScanNextPasses
  <2>2. UNCHANGED <<now, head, tail, expire, alive, pc, arg, cur>>
    BY <1>1 DEF ScanNext
  <2>3. InList' = InList BY <2>2 DEF InList
  <2>4. Ordered' BY <2>1, <2>2, <2>3, OrderedStays DEF ListInv
  <2> QED BY <2>1, <2>2, <2>3, <2>4 DEF ListInv, Bounded, InScan
<1>2. CASE ScanEnd
  <2>1. /\ pc = "scan" /\ arg \in alive /\ p \in InList /\ next[p] = Null
        /\ \A t \in alive : expire[t] <= expire[arg]
    BY <1>2 DEF ScanEnd, ListInv, InScan
  <2>2. /\ next' = [next EXCEPT ![p] = arg, ![arg] = Null]
        /\ prev' = [prev EXCEPT ![arg] = p]
        /\ tail' = arg /\ pc' = "idle"
        /\ UNCHANGED <<now, head, expire, alive>>
    BY <1>2 DEF ScanEnd, Returns
  <2>3. /\ InList = alive \ {arg} /\ InList' = alive
        /\ arg \in Timers /\ p \in Timers /\ p # arg
        /\ InList \subseteq Timers /\ InList \subseteq alive /\ Null \notin InList
    BY <2>1, <2>2, InListTypes DEF InList, TypeOK
  <2>4. PICK n \in Nat : \E o \in [1..n -> InList] : InOrder(n, o)
    BY DEF ListInv, Ordered
  <2>5. PICK o \in [1..n -> InList] :
          /\ Chained(InList, head, tail, next, prev, n, o)
          /\ Ascending(expire, n, o)
    BY <2>4 DEF InOrder
  <2>6. n > 0 /\ o[n] = p
    <3>1. PICK i \in 1..n : o[i] = p BY <2>1, <2>5 DEF Chained
    <3>2. \A j \in 1..n : /\ o[j] \in InList
                          /\ next[o[j]] = IF j = n THEN Null ELSE o[j + 1]
      BY <2>5, InListTypes, ChainLinks
    <3>3. i = n
      <4> SUFFICES ASSUME i # n PROVE FALSE OBVIOUS
      <4>1. i + 1 \in 1..n OBVIOUS
      <4>2. o[i + 1] \in InList BY <3>2, <4>1
      <4> QED BY <2>1, <2>3, <3>1, <3>2, <4>2
    <3> QED BY <3>1, <3>3
  <2>7. /\ next'[arg] = Null /\ prev'[arg] = p /\ next'[p] = arg
        /\ \A u \in InList \ {p} : next'[u] = next[u]
        /\ \A u \in InList : prev'[u] = prev[u]
    BY <2>2, <2>3 DEF TypeOK
  <2> DEFINE m == n + 1  w == With(o, n, arg)
  <2>8. Chained(alive, head', arg, next', prev', m, w)
    <3>1. Chained(InList \union {arg}, head, arg, next', prev', n + 1, With(o, n, arg))
      BY <2>3, <2>5, <2>6, <2>7, ChainAppend
    <3>2. InList \union {arg} = alive BY <2>1, <2>3
    <3> QED BY <2>2, <3>1, <3>2
  <2>9. Ascending(expire', m, w)
    <3> SUFFICES ASSUME NEW i \in 1..m, NEW j \in 1..m, i <= j
                 PROVE  expire[w[i]] <= expire[w[j]]
      BY <2>2 DEF Ascending
    <3>1. w[i] \in alive BY <2>8 DEF Chained
    <3>2. CASE j = m
      <4>1. w[j] = arg BY <3>2 DEF With
      <4> QED BY <2>1, <3>1, <4>1
    <3>3. CASE j # m
      <4>1. i \in 1..n /\ j \in 1..n /\ w[i] = o[i] /\ w[j] = o[j]
        BY <3>3 DEF With
      <4> QED BY <2>5, <4>1 DEF Ascending
    <3> QED BY <3>2, <3>3
  <2>10. m \in Nat /\ w \in [1..m -> alive] BY <2>8 DEF Chained
  <2> HIDE DEF m, w
  <2>11. Ordered' BY <2>2, <2>3, <2>8, <2>9, <2>10 DEF Ordered, InOrder
  <2>12. Bounded' BY <2>2 DEF ListInv, Bounded
  <2> QED BY <2>2, <2>11, <2>12, IdleInv
<1> QED BY <1>1, <1>2

\* delete_timer takes its timer out of the list, in each of its cases.
LEMMA DeleteInv ==
  ASSUME TypeOK, ListInv, NEW t \in Timers, Delete(t)
  PROVE  ListInv'
<1>1. /\ pc = "idle" /\ t \in alive /\ alive' = alive \ {t} /\ InList = alive
      /\ InList' = alive \ {t}
      /\ UNCHANGED <<now, expire, pc>>
  BY DEF Delete, InList
<1>2. /\ alive \subseteq Timers /\ Null \notin alive /\ Null \notin Timers
      /\ head \in alive /\ tail \in alive
      /\ next[t] \in alive \union {Null} /\ next[t] # t
      /\ next[t] # Null => prev[next[t]] = t
      /\ next[t] = Null <=> t = tail
      /\ prev[t] \in alive \union {Null}
      /\ prev[t] = Null <=> t = head
  BY <1>1, OrderedLinks DEF ListInv, TypeOK
<1>3. head' = IF t = head THEN next[t] ELSE head
  BY <1>2 DEF Delete
<1>4. t # head \/ t # tail => tail' = IF t = tail THEN prev[t] ELSE tail
  BY DEF Delete
<1>5. \A u \in alive \ {t} : next'[u] = IF u = prev[t] THEN next[t] ELSE next[u]
  <2>1. CASE t = head
    <3>1. next' = next /\ prev[t] = Null BY <1>2, <2>1 DEF Delete
    <3> QED BY <1>2, <3>1
  <2>2. CASE t # head /\ t = tail
    <3>1. next' = [next EXCEPT ![prev[t]] = Null] /\ next[t] = Null
      BY <1>2, <2>2 DEF Delete
    <3> QED BY <1>2, <3>1 DEF TypeOK
  <2>3. CASE t # head /\ t # tail
    <3>1. next' = [next EXCEPT ![prev[t]] = next[t]] BY <2>3 DEF Delete
    <3> QED BY <1>2, <3>1 DEF TypeOK
  <2> QED BY <2>1, <2>2, <2>3
<1>6. \A u \in alive \ {t} : prev'[u] = IF u = next[t] THEN prev[t] ELSE prev[u]
  <2>1. CASE t = tail
    <3>1. prev' = prev /\ next[t] = Null BY <1>2, <2>1 DEF Delete
    <3> QED BY <1>2, <3>1
  <2>2. CASE t # tail /\ t = head
    <3>1. prev' = [prev EXCEPT ![next[t]] = Null] /\ prev[t] = Null
      BY <1>2, <2>2 DEF Delete
    <3> QED BY <1>2, <3>1 DEF TypeOK
  <2>3. CASE t # head /\ t # tail
    <3>1. prev' = [prev EXCEPT ![next[t]] = prev[t]] BY <2>3 DEF Delete
    <3> QED BY <1>2, <3>1 DEF TypeOK
  <2> QED BY <2>1, <2>2, <2>3
<1>7. Unlinks(t, alive, head, tail, next, prev, head', tail', next', prev')
  BY <1>3, <1>4, <1>5, <1>6 DEF Unlinks
<1>8. Ordered' BY <1>1, <1>7, OrderedUnlink DEF ListInv
<1>9. Bounded' BY <1>1 DEF ListInv, Bounded
<1> QED BY <1>1, <1>8, <1>9, IdleInv

\* A timer that adjust_timer leaves in its place is the last one; another is
\* taken out of the list, to be placed anew.
LEMMA AdjustInv ==
  ASSUME TypeOK, ListInv, NEW t \in Timers, Adjust(t)
  PROVE  ListInv'
<1>1. /\ pc = "idle" /\ t \in alive /\ alive' = alive /\ InList = alive
      /\ UNCHANGED <<now, tail>> /\ Expires(t)
  BY DEF Adjust, AdjustStays, AdjustHead, AdjustMiddle, Adjusts, InList
<1>2. /\ expire'[t] = now + TTL
      /\ \A u \in Timers : u # t => expire'[u] = expire[u]
      /\ \A u \in alive' : expire'[u] <= expire'[t]
      /\ Bounded'
  BY <1>1, Latest DEF ListInv
<1>3. /\ alive \subseteq Timers /\ Null \notin alive /\ Null \notin Timers
      /\ head \in alive /\ tail \in alive
      /\ next[t] \in alive \union {Null} /\ next[t] # t
      /\ next[t] # Null => prev[next[t]] = t
      /\ next[t] = Null <=> t = tail
      /\ prev[t] \in alive \union {Null}
      /\ prev[t] = Null <=> t = head
  BY <1>1, OrderedLinks DEF ListInv, TypeOK
<1>4. Misplaced(t) <=> next[t] # Null
  <2> SUFFICES ASSUME next[t] # Null PROVE expire'[t] >= expire[next[t]]
    BY DEF Misplaced
  <2>1. next[t] \in alive /\ next[t] \in Timers BY <1>3
  <2>2. expire[next[t]] <= now + TTL BY <2>1 DEF ListInv, Bounded
  <2>3. expire[next[t]] \in Int /\ now + TTL \in Int BY <2>1 DEF TypeOK
  <2> QED BY <1>2, <2>2, <2>3
<1>5. CASE AdjustStays(t)
  <2>1. t = tail /\ pc' = "idle" /\ UNCHANGED <<head, next, prev>>
    BY <1>3, <1>4, <1>5 DEF AdjustStays, Returns
  <2>2. InList' = alive BY <1>1, <2>1 DEF InList
  <2>3. PICK n \in Nat : \E o \in [1..n -> InList] : InOrder(n, o)
    BY DEF ListInv, Ordered
  <2>4. PICK o \in [1..n -> alive] : /\ Chained(alive, head, tail, next, prev, n, o)
                                     /\ Ascending(expire, n, o)
    BY <1>1, <2>3 DEF InOrder
  <2>5. \A i \in 1..n : o[i] \in alive /\ (o[i] = tail <=> i = n)
    BY <1>3, <2>4, ChainLinks
  <2>6. Ascending(expire', n, o)
    <3> SUFFICES ASSUME NEW i \in 1..n, NEW j \in 1..n, i <= j
                 PROVE  expire'[o[i]] <= expire'[o[j]]
      BY DEF Ascending
    <3>1. CASE j = n BY <1>1, <1>2, <2>1, <2>5, <3>1
    <3>2. CASE j # n
      <4>1. o[i] # t /\ o[j] # t BY <2>1, <2>5, <3>2
      <4>2. expire'[o[i]] = expire[o[i]] /\ expire'[o[j]] = expire[o[j]]
        BY <1>2, <1>3, <2>5, <4>1
      <4> QED BY <2>4, <4>2 DEF Ascending
    <3> QED BY <3>1, <3>2
  <2>7. Chained(InList', head', tail', next', prev', n, o)
    BY <1>1, <2>1, <2>2, <2>4
  <2>8. Ordered' BY <2>2, <2>4, <2>6, <2>7 DEF Ordered, InOrder
  <2> QED BY <1>2, <2>1, <2>8, IdleInv
<1>6. CASE AdjustHead(t) \/ AdjustMiddle(t)
  <2>1. /\ next[t] \in alive /\ t # tail
        /\ head' = IF t = head THEN next[t] ELSE head
        /\ Scan(t, next[t])
    BY <1>3, <1>4, <1>6 DEF AdjustHead, AdjustMiddle
  <2>2. \A u \in alive \ {t} : next'[u] = IF u = prev[t] THEN next[t] ELSE next[u]
    <3>1. CASE AdjustHead(t)
      <4>1. next' = [next EXCEPT ![t] = Null] /\ prev[t] = Null
        BY <1>3, <3>1 DEF AdjustHead
      <4> QED BY <1>3, <4>1 DEF TypeOK
    <3>2. CASE AdjustMiddle(t)
      <4>1. next' = [next EXCEPT ![prev[t]] = next[t]] /\ prev[t] # Null
        BY <1>3, <3>2 DEF AdjustMiddle
      <4> QED BY <1>3, <4>1 DEF TypeOK
    <3> QED BY <1>6, <3>1, <3>2
  <2>3. \A u \in alive \ {t} : prev'[u] = IF u = next[t] THEN prev[t] ELSE prev[u]
    <3>1. prev' = [prev EXCEPT ![next[t]] = prev[t]]
      BY <1>3, <1>6 DEF AdjustHead, AdjustMiddle
    <3> QED BY <1>3, <3>1 DEF TypeOK
  <2>4. Unlinks(t, alive, head, tail, next, prev, head', tail', next', prev')
    BY <1>1, <2>1, <2>2, <2>3 DEF Unlinks
  <2>5. pc' = "scan" /\ arg' = t /\ p' = next[t] /\ q' = next'[next[t]]
    BY <2>1 DEF Scan
  <2>6. InList' = alive \ {t} BY <1>1, <2>5 DEF InList
  <2>7. \A u \in alive \ {t} : expire'[u] = expire[u] BY <1>2, <1>3
  <2>8. Ordered' BY <1>1, <2>4, <2>6, <2>7, OrderedUnlink DEF ListInv
  <2>9. InScan' BY <1>1, <1>2, <1>3, <2>1, <2>5, <2>6 DEF InScan
  <2> QED BY <1>2, <2>8, <2>9 DEF ListInv
<1> QED BY <1>5, <1>6 DEF Adjust

\* tick() takes the head out of the list, and leaves the tail behind when it
\* was the last node.
LEMMA TickInv ==
  ASSUME TypeOK, ListInv, TickBegin \/ TickFire \/ TickEnd
  PROVE  ListInv'
<1>1. CASE TickBegin \/ TickEnd
  <2>1. /\ pc # "scan" /\ pc' # "scan"
        /\ UNCHANGED <<now, head, tail, next, prev, expire, alive>>
    BY <1>1 DEF TickBegin, TickEnd, Returns, list
  <2>2. InList' = InList BY <2>1 DEF InList
  <2>3. Ordered' BY <2>1, <2>2, OrderedStays DEF ListInv
  <2>4. Bounded' BY <2>1 DEF ListInv, Bounded
  <2> QED BY <2>1, <2>3, <2>4, IdleInv
<1>2. CASE TickFire
  <2>1. /\ pc = "tick" /\ head # Null /\ InList = alive
        /\ UNCHANGED <<now, tail, next, expire, pc>>
        /\ alive' = alive \ {head} /\ InList' = alive \ {head}
        /\ head' = next[head]
        /\ prev' = [t \in Timers |-> IF t = next[head] THEN Null ELSE prev[t]]
    BY <1>2 DEF TickFire, Due, InList
  <2>2. head \in alive /\ alive \subseteq Timers /\ Null \notin alive
    <3>1. alive # {} BY <2>1, OrderedEmpty DEF ListInv
    <3> QED BY <2>1, <3>1, OrderedLinks, InListTypes DEF ListInv
  <2>3. /\ prev[head] = Null /\ (next[head] = Null <=> head = tail)
    BY <2>1, <2>2, OrderedLinks DEF ListInv
  <2>4. Unlinks(head, alive, head, tail, next, prev, head', tail', next', prev')
    <3>1. \A u \in alive \ {head} :
            prev'[u] = IF u = next[head] THEN prev[head] ELSE prev[u]
      BY <2>1, <2>2, <2>3
    <3>2. \A u \in alive \ {head} :
            next'[u] = IF u = prev[head] THEN next[head] ELSE next[u]
      BY <2>1, <2>2, <2>3
    <3> QED BY <2>1, <3>1, <3>2 DEF Unlinks
  <2>5. Ordered' BY <2>1, <2>2, <2>4, OrderedUnlink DEF ListInv
  <2>6. Bounded' BY <2>1 DEF ListInv, Bounded
  <2> QED BY <2>1, <2>5, <2>6, IdleInv
<1> QED BY <1>1, <1>2

LEMMA ClockInv ==
  ASSUME ~ClockBack, TypeOK, ListInv, Clock
  PROVE  ListInv'
<1>1. /\ UNCHANGED <<head, tail, next, prev, expire, alive, pc, arg, p, q>>
      /\ now' \in Nat /\ now' >= now
  BY DEF Clock, list
<1>2. InList' = InList BY <1>1 DEF InList
<1>3. Ordered' BY <1>1, <1>2, OrderedStays DEF ListInv
<1>4. Bounded'
  <2> SUFFICES ASSUME NEW t \in alive PROVE expire[t] <= now' + TTL
    BY <1>1 DEF Bounded
  <2>1. expire[t] <= now + TTL BY DEF ListInv, Bounded
  <2>2. expire[t] \in Int /\ now \in Int BY DEF TypeOK
  <2> QED BY <1>1, <2>1, <2>2
<1>5. InScan' BY <1>1, <1>2 DEF ListInv, InScan
<1> QED BY <1>3, <1>4, <1>5 DEF ListInv

LEMMA ListStep ==
  ASSUME ~ClockBack, TypeOK, ListInv, [Next]_vars
  PROVE  ListInv'
<1>1. ASSUME NEW t \in Timers, Add(t) \/ Adjust(t) \/ Delete(t)
      PROVE  ListInv'
  BY <1>1, AddInv, AdjustInv, DeleteInv
<1>2. CASE TickBegin \/ Loops BY <1>2, ScanInv, TickInv DEF Loops
<1>3. CASE Clock BY <1>3, ClockInv
<1>4. CASE UNCHANGED vars
  <2>1. UNCHANGED <<now, head, tail, next, prev, expire, alive, pc, arg, p, q>>
    BY <1>4 DEF vars, list
  <2>2. InList' = InList BY <2>1 DEF InList
  <2>3. Ordered' BY <2>1, <2>2, OrderedStays DEF ListInv
  <2> QED BY <2>1, <2>2, <2>3 DEF ListInv, Bounded, InScan
<1> QED BY <1>1, <1>2, <1>3, <1>4 DEF Next

LEMMA ListInit == Init => ListInv
<1> SUFFICES ASSUME Init PROVE ListInv OBVIOUS
<1>1. /\ pc = "idle" /\ alive = {} /\ InList = {} /\ head = Null
  BY DEF Init, InList
<1> DEFINE o == [i \in 1..0 |-> Null]
<1>2. Chained({}, head, tail, next, prev, 0, o) /\ Ascending(expire, 0, o)
  BY <1>1 DEF Chained, Ascending
<1>3. o \in [1..0 -> {}] OBVIOUS
<1> HIDE DEF o
<1>4. Ordered BY <1>1, <1>2, <1>3 DEF Ordered, InOrder
<1> QED BY <1>1, <1>4 DEF ListInv, Bounded, InScan

LEMMA ListInvariant ==
  ASSUME ~ClockBack PROVE Spec => []ListInv
<1>1. TypeOK /\ ListInv /\ [Next]_vars => ListInv' BY ListStep
<1> QED BY <1>1, ListInit, TypeInvariant, PTL DEF Spec

-----------------------------------------------------------------------------
(* What the invariant says of the list.                                    *)

\* No call reaches a deleted node: the head, and the tail while there is one,
\* are timers that are set, and the search stays among them.
THEOREM ListNoDangling ==
  ASSUME ~ClockBack PROVE Spec => []NoDangling
<1>1. TypeOK /\ ListInv => NoDangling
  <2> SUFFICES ASSUME TypeOK, ListInv PROVE NoDangling OBVIOUS
  <2>1. ASSUME pc = "scan"
        PROVE  p \in alive \ {arg} /\ q \in (alive \ {arg}) \union {Null}
    <3>1. p \in InList /\ q = next[p] BY <2>1 DEF ListInv, InScan
    <3>2. q \in InList \union {Null} BY <3>1, OrderedLinks DEF ListInv
    <3> QED BY <2>1, <3>1, <3>2 DEF InList
  <2>2. ASSUME head # Null
        PROVE  head \in alive /\ tail \in alive
    <3>1. PICK t \in InList : TRUE BY <2>2, OrderedEmpty DEF ListInv
    <3> QED BY <3>1, OrderedLinks, InListTypes DEF ListInv
  <2> QED BY <2>1, <2>2 DEF NoDangling
<1> QED BY <1>1, TypeInvariant, ListInvariant, PTL

\* Between calls and between callbacks the list is in ascending order, so
\* that tick() may stop at the first timer that is not due.
THEOREM ListSorted ==
  ASSUME ~ClockBack PROVE Spec => []Sorted
<1>1. TypeOK /\ ListInv => Sorted
  BY OrderedLinks DEF ListInv, Sorted, InList
<1> QED BY <1>1, TypeInvariant, ListInvariant, PTL

\* Induction over the natural numbers, for a set: were m not in it, the
\* successor would map the members up to m, 0 among them, into those that are
\* not 0, and they are one fewer.
LEMMA Inductive ==
  ASSUME NEW P, 0 \in P, \A n \in Nat : n \in P => n + 1 \in P
  PROVE  Nat \subseteq P
<1> SUFFICES ASSUME NEW m \in Nat, m \notin P PROVE FALSE
  OBVIOUS
<1> DEFINE A == P \cap (0..m)  B == A \ {0}  f == [x \in A |-> x + 1]
<1>1. IsFiniteSet(A)
  <2>1. IsFiniteSet(0..m) BY FS_Interval
  <2> QED BY <2>1, FS_Subset, A \in SUBSET (0..m)
<1>2. IsFiniteSet(B) /\ Cardinality(B) = Cardinality(A) - 1
  BY <1>1, FS_RemoveElement, 0 \in A
<1>3. Cardinality(B) < Cardinality(A) BY <1>1, <1>2, FS_CardinalityType
<1>4. f \in [A -> B] OBVIOUS
<1>5. \A x, y \in A : f[x] = f[y] => x = y OBVIOUS
<1> HIDE DEF A, B, f
<1> QED BY <1>1, <1>2, <1>3, <1>4, <1>5, FS_PigeonHole

\* The walk along the links passes the nodes in their order, then stays at
\* the end.
LEMMA WalkInOrder ==
  ASSUME NEW n \in Nat, NEW o, n = 0 => head = Null, n > 0 => head = o[1],
         \A i \in 1..n : /\ o[i] # Null
                         /\ next[o[i]] = IF i = n THEN Null ELSE o[i + 1]
  PROVE  \A i \in Nat : Walk[i] = IF i < n THEN o[i + 1] ELSE Null
<1> DEFINE IsWalk(w) == w = [i \in Nat |-> IF i = 0 THEN head
                              ELSE IF w[i - 1] = Null THEN Null ELSE next[w[i - 1]]]
           f == [i \in Nat |-> IF i < n THEN o[i + 1] ELSE Null]
           P == {i \in Nat : Walk[i] = f[i]}
<1>1. \A i \in Nat : f[i] = IF i = 0 THEN head
                            ELSE IF f[i - 1] = Null THEN Null ELSE next[f[i - 1]]
  <2> SUFFICES ASSUME NEW i \in Nat
               PROVE  f[i] = IF i = 0 THEN head
                             ELSE IF f[i - 1] = Null THEN Null ELSE next[f[i - 1]]
    OBVIOUS
  <2>1. CASE i = 0 BY <2>1
  <2>2. CASE i # 0 /\ i - 1 < n
    <3>1. i \in 1..n /\ i - 1 \in Nat /\ (i - 1) + 1 = i BY <2>2
    <3>2. f[i - 1] = o[i] BY <2>2, <3>1
    <3>3. next[o[i]] = IF i = n THEN Null ELSE o[i + 1] BY <3>1
    <3>4. f[i] = IF i = n THEN Null ELSE o[i + 1] BY <3>1
    <3> QED BY <2>2, <3>1, <3>2, <3>3, <3>4
  <2>3. CASE i # 0 /\ ~(i - 1 < n)
    <3>1. i - 1 \in Nat /\ ~(i < n) BY <2>3
    <3> QED BY <2>3, <3>1
  <2> QED BY <2>1, <2>2, <2>3
<1>2. IsWalk(f)
  <2>1. f = [i \in Nat |-> f[i]] OBVIOUS
  <2> HIDE DEF f
  <2> QED BY <1>1, <2>1
<1>3. Walk = CHOOSE w : IsWalk(w) BY Zenon DEF Walk
<1> HIDE DEF IsWalk, f
<1>4. IsWalk(Walk) BY <1>2, <1>3, Zenon
<1>5. \A i \in Nat : Walk[i] = IF i = 0 THEN head
                               ELSE IF Walk[i - 1] = Null THEN Null ELSE next[Walk[i - 1]]
  <2> DEFINE g == Walk
  <2> HIDE DEF g
  <2>1. g = [i \in Nat |-> IF i = 0 THEN head
                           ELSE IF g[i - 1] = Null THEN Null ELSE next[g[i - 1]]]
    BY <1>4 DEF IsWalk, g
  <2>2. \A i \in Nat : g[i] = IF i = 0 THEN head
                              ELSE IF g[i - 1] = Null THEN Null ELSE next[g[i - 1]]
    BY <2>1
  <2> QED BY <2>2 DEF g
<1>6. 0 \in P BY <1>1, <1>5
<1>7. ASSUME NEW i \in Nat, i \in P PROVE i + 1 \in P
  <2>1. i + 1 \in Nat /\ i + 1 # 0 /\ (i + 1) - 1 = i OBVIOUS
  <2>2. Walk[i] = f[i] BY <1>7
  <2>3. Walk[i + 1] = IF Walk[i] = Null THEN Null ELSE next[Walk[i]]
    BY <1>5, <2>1
  <2>4. f[i + 1] = IF f[i] = Null THEN Null ELSE next[f[i]] BY <1>1, <2>1
  <2> QED BY <2>1, <2>2, <2>3, <2>4
<1>8. Nat \subseteq P
  <2> HIDE DEF P
  <2> QED BY <1>6, <1>7, Inductive
<1> QED BY <1>8 DEF f

\* Between calls and between callbacks the list has every timer that is set,
\* once, and no deleted one; its back links mirror its links and tail is its
\* last node.
THEOREM ListAllListed ==
  ASSUME ~ClockBack PROVE Spec => []AllListed
<1>1. TypeOK /\ ListInv => AllListed
  <2> SUFFICES ASSUME TypeOK, ListInv, pc # "scan"
               PROVE  LET n == Cardinality(alive)
                      IN  /\ {Walk[i] : i \in 0..(n - 1)} = alive /\ Walk[n] = Null
                          /\ head # Null => /\ tail = Walk[n - 1] /\ prev[head] = Null
                                            /\ \A t \in alive \ {tail} : prev[next[t]] = t
    BY DEF AllListed
  <2>1. InList = alive /\ Null \notin alive BY InListTypes DEF InList
  <2>2. PICK n \in Nat : \E o \in [1..n -> InList] : InOrder(n, o)
    BY DEF ListInv, Ordered
  <2>3. PICK o \in [1..n -> alive] : Chained(alive, head, tail, next, prev, n, o)
    BY <2>1, <2>2 DEF InOrder
  <2>4. Cardinality(alive) = n
    <3>1. o \in Bijection(1..n, alive)
      BY <2>3, Fun_IsBij DEF Chained
    <3>2. ExistsBijection(1..n, alive) BY <3>1, Fun_ExistsBij
    <3>3. IsFiniteSet(1..n) /\ Cardinality(1..n) = n BY FS_Interval
    <3> QED BY <3>2, <3>3, FS_Bijection
  <2>5. \A i \in 1..n : /\ o[i] \in alive
                        /\ next[o[i]] = IF i = n THEN Null ELSE o[i + 1]
                        /\ o[i] = head <=> i = 1
                        /\ o[i] = tail <=> i = n
    BY <2>1, <2>3, ChainLinks
  <2>6. n = 0 => head = Null BY <2>3 DEF Chained
  <2>7. n > 0 => head = o[1] /\ tail = o[n] BY <2>5
  <2>8. \A i \in Nat : Walk[i] = IF i < n THEN o[i + 1] ELSE Null
    <3>1. \A i \in 1..n : /\ o[i] # Null
                          /\ next[o[i]] = IF i = n THEN Null ELSE o[i + 1]
      BY <2>1, <2>5
    <3> QED BY <2>6, <2>7, <3>1, WalkInOrder
  <2>9. {Walk[i] : i \in 0..(n - 1)} = alive
    <3>1. ASSUME NEW i \in 0..(n - 1) PROVE Walk[i] \in alive
      <4>1. i \in Nat /\ i < n /\ i + 1 \in 1..n OBVIOUS
      <4> QED BY <2>5, <2>8, <4>1
    <3>2. ASSUME NEW t \in alive PROVE \E i \in 0..(n - 1) : Walk[i] = t
      <4>1. PICK j \in 1..n : o[j] = t BY <2>3 DEF Chained
      <4>2. j - 1 \in 0..(n - 1) /\ j - 1 \in Nat /\ j - 1 < n /\ (j - 1) + 1 = j
        OBVIOUS
      <4>3. Walk[j - 1] = o[j] BY <2>8, <4>2
      <4> QED BY <4>1, <4>2, <4>3
    <3> QED BY <3>1, <3>2
  <2>10. Walk[n] = Null BY <2>8
  <2>11. ASSUME head # Null
         PROVE  /\ tail = Walk[n - 1] /\ prev[head] = Null
                /\ \A t \in alive \ {tail} : prev[next[t]] = t
    <3>1. n > 0 BY <2>6, <2>11
    <3>2. n - 1 \in Nat /\ n - 1 < n /\ (n - 1) + 1 = n BY <3>1
    <3>3. tail = Walk[n - 1] BY <2>7, <2>8, <3>1, <3>2
    <3>4. head \in InList
      <4>1. 1 \in 1..n BY <3>1
      <4> QED BY <2>1, <2>5, <4>1
    <3>5. prev[head] = Null BY <3>4, OrderedLinks DEF ListInv
    <3>6. \A t \in alive \ {tail} : prev[next[t]] = t
      BY <2>1, OrderedLinks DEF ListInv
    <3> QED BY <3>3, <3>5, <3>6
  <2> QED BY <2>4, <2>9, <2>10, <2>11
<1> QED BY <1>1, TypeInvariant, ListInvariant, PTL

-----------------------------------------------------------------------------
(* The list implements the set of timers of TimerSet: whatever the order   *)
(* in it, a tick fires all that are due when it begins and no other.       *)

\* The mapping of TimerList, named.
Left == [t \in alive |-> IF expire[t] > now THEN expire[t] - now ELSE 0]
DueNow == {t \in alive : pc = "tick" /\ expire[t] <= cur}

LEMMA MapInit == Init => Timer!Init
<1> SUFFICES ASSUME Init PROVE Timer!Init OBVIOUS
<1>1. alive = {} /\ pc = "idle" BY DEF Init
<1> QED BY <1>1 DEF Timer!Init

\* A step that the set of timers does not see.
LEMMA MapStutter ==
  ASSUME UNCHANGED <<now, alive, expire, cur>>, pc' = "tick" <=> pc = "tick"
  PROVE  UNCHANGED Timer!vars
<1>1. Left' = Left BY DEF Left
<1>2. DueNow' = DueNow BY DEF DueNow
<1> QED BY <1>1, <1>2 DEF Timer!vars, Left, DueNow

LEMMA MapAdd ==
  ASSUME TypeOK, NEW t \in Timers, Add(t)
  PROVE  Timer!Start(t)
<1>1. pc = "idle" /\ t \notin alive /\ alive' = alive \union {t} /\ now' = now
  BY DEF Add
<1>2. pc' # "tick" BY DEF Add, Returns, Scan
<1>3. /\ expire'[t] = now + TTL /\ \A u \in Timers : u # t => expire'[u] = expire[u]
  BY DEF Add, Expires, TypeOK
<1>4. expire'[t] > now /\ expire'[t] - now = TTL
  <2>1. now \in Int /\ TTL > 0 BY DEF TypeOK
  <2> QED BY <1>3, <2>1
<1>5. Left' = [u \in alive \union {t} |-> IF u = t THEN TTL ELSE Left[u]]
  BY <1>1, <1>3, <1>4 DEF Left, TypeOK
<1>6. DueNow' = {} /\ DueNow = {} BY <1>1, <1>2 DEF DueNow
<1>7. DOMAIN Left = alive BY DEF Left
<1> QED BY <1>1, <1>2, <1>5, <1>6, <1>7 DEF Timer!Start, Timer!Set, Left, DueNow

LEMMA MapAdjust ==
  ASSUME TypeOK, NEW t \in Timers, Adjust(t)
  PROVE  Timer!Restart(t)
<1>1. pc = "idle" /\ t \in alive /\ alive' = alive /\ now' = now /\ Expires(t)
  BY DEF Adjust, AdjustStays, AdjustHead, AdjustMiddle, Adjusts
<1>2. pc' # "tick"
  BY DEF Adjust, AdjustStays, AdjustHead, AdjustMiddle, Returns, Scan
<1>3. /\ expire'[t] = now + TTL /\ \A u \in Timers : u # t => expire'[u] = expire[u]
  BY <1>1 DEF Expires, TypeOK
<1>4. expire'[t] > now /\ expire'[t] - now = TTL
  <2>1. now \in Int /\ TTL > 0 BY DEF TypeOK
  <2> QED BY <1>3, <2>1
<1>5. Left' = [Left EXCEPT ![t] = TTL]
  BY <1>1, <1>3, <1>4 DEF Left, TypeOK
<1>6. DueNow' = {} /\ DueNow = {} BY <1>1, <1>2 DEF DueNow
<1>7. DOMAIN Left = alive BY DEF Left
<1> QED BY <1>1, <1>2, <1>5, <1>6, <1>7 DEF Timer!Restart, Timer!Set, Left, DueNow

LEMMA MapDelete ==
  ASSUME NEW t \in Timers, Delete(t)
  PROVE  Timer!Cancel(t)
<1>1. /\ pc = "idle" /\ t \in alive /\ alive' = alive \ {t}
      /\ UNCHANGED <<now, expire, pc>>
  BY DEF Delete
<1>2. Left' = [u \in alive \ {t} |-> Left[u]] BY <1>1 DEF Left
<1>3. DueNow' = {} /\ DueNow = {} BY <1>1 DEF DueNow
<1>4. DOMAIN Left = alive BY DEF Left
<1> QED BY <1>1, <1>2, <1>3, <1>4
        DEF Timer!Cancel, Timer!Without, Timer!Set, Left, DueNow

\* A tick begins with the timers whose time is up, fires the first of them as
\* long as there is one, and has then fired all: the rest expire later.
LEMMA MapTick ==
  ASSUME TypeOK, ListInv, TickBegin \/ TickFire \/ TickEnd
  PROVE  Timer!Next
<1>1. CASE TickBegin
  <2>1. /\ pc = "idle" /\ pc' = "tick" /\ cur' = now
        /\ UNCHANGED <<now, expire, alive>>
    BY <1>1 DEF TickBegin
  <2>2. \A t \in alive : Left[t] = 0 <=> expire[t] <= now
    <3>1. \A t \in alive : expire[t] \in Int /\ now \in Int BY DEF TypeOK
    <3> QED BY <3>1 DEF Left
  <2>3. Left' = Left BY <2>1 DEF Left
  <2>4. DueNow' = {t \in alive : Left[t] = 0} BY <2>1, <2>2 DEF DueNow
  <2>5. DOMAIN Left = alive BY DEF Left
  <2>6. Timer!TickBegin
    BY <2>1, <2>3, <2>4, <2>5 DEF Timer!TickBegin, Timer!Set, Left, DueNow
  <2> QED BY <2>6 DEF Timer!Next
<1>2. CASE TickFire
  <2>1. /\ pc = "tick" /\ head # Null /\ expire[head] <= cur
        /\ alive' = alive \ {head}
        /\ UNCHANGED <<now, expire, pc, cur>>
    BY <1>2 DEF TickFire, Due
  <2>2. PICK h \in Timers : h = head /\ h \in alive
    <3>1. InList = alive /\ alive # {} BY <2>1, OrderedEmpty DEF ListInv, InList
    <3> QED BY <3>1, OrderedLinks DEF ListInv, TypeOK
  <2>3. Left' = [u \in alive \ {h} |-> Left[u]] BY <2>1, <2>2 DEF Left
  <2>4. h \in DueNow /\ DueNow' = DueNow \ {h} BY <2>1, <2>2 DEF DueNow
  <2>5. DOMAIN Left = alive BY DEF Left
  <2>6. Timer!Fire(h)
    BY <2>1, <2>3, <2>4, <2>5 DEF Timer!Fire, Timer!Without, Timer!Set, Left, DueNow
  <2> QED BY <2>2, <2>6 DEF Timer!Next
<1>3. CASE TickEnd
  <2>1. /\ pc = "tick" /\ pc' = "idle" /\ ~Due
        /\ UNCHANGED <<now, expire, alive, head>>
    BY <1>3 DEF TickEnd, Returns, list
  <2>2. \A t \in alive : ~(expire[t] <= cur)
    <3> SUFFICES ASSUME NEW t \in alive PROVE expire[t] > cur
      BY DEF TypeOK
    <3>1. InList = alive BY <2>1 DEF InList
    <3>2. head # Null /\ head \in Timers /\ expire[head] <= expire[t]
      BY <3>1, OrderedEmpty, OrderedLinks DEF ListInv, TypeOK
    <3>3. ~(expire[head] <= cur) BY <2>1, <3>2 DEF Due
    <3>4. expire[head] \in Int /\ expire[t] \in Int /\ cur \in Int
      BY <3>2 DEF TypeOK
    <3> QED BY <3>2, <3>3, <3>4
  <2>3. Left' = Left BY <2>1 DEF Left
  <2>4. DueNow = {} /\ DueNow' = {} BY <2>1, <2>2 DEF DueNow
  <2>5. Timer!TickEnd
    BY <2>1, <2>3, <2>4 DEF Timer!TickEnd, Left, DueNow
  <2> QED BY <2>5 DEF Timer!Next
<1> QED BY <1>1, <1>2, <1>3

\* Some timer has most time left; a clock that jumps further leaves none any.
LEMMA LatestLeft ==
  ASSUME TypeOK, ListInv, alive # {}
  PROVE  \E m \in alive : \A t \in alive : expire[t] <= expire[m]
<1>1. CASE pc = "scan" BY <1>1 DEF ListInv, InScan
<1>2. CASE pc # "scan"
  <2>1. InList = alive BY <1>2 DEF InList
  <2> QED BY <2>1, OrderedLinks DEF ListInv
<1> QED BY <1>1, <1>2

LEMMA Difference ==
  ASSUME NEW a \in Nat, NEW b \in Nat, a <= b
  PROVE  b - a \in Nat
  OBVIOUS

LEMMA MapClock ==
  ASSUME ~ClockBack, TypeOK, ListInv, Clock
  PROVE  [Timer!Next]_(Timer!vars)
<1>1. /\ UNCHANGED <<expire, alive, pc, cur>>
      /\ now' \in Nat /\ now' >= now
  BY DEF Clock
<1>2. DueNow' = DueNow BY <1>1 DEF DueNow
<1>3. CASE alive = {}
  <2>1. Left' = Left BY <1>1, <1>3 DEF Left
  <2> QED BY <1>1, <1>2, <2>1 DEF Timer!vars, Left, DueNow
<1>4. CASE alive # {}
  <2>1. PICK m \in alive : \A t \in alive : expire[t] <= expire[m]
    BY <1>4, LatestLeft
  <2>2. now \in Nat /\ \A t \in alive : expire[t] \in Nat BY DEF TypeOK
  <2>3. \A t \in alive : Left[t] \in Nat /\ Left[t] <= Left[m]
    BY <2>1, <2>2 DEF Left
  <2> DEFINE passed == now' - now
             n == IF passed <= Left[m] THEN passed ELSE Left[m]
  <2>4. passed \in Nat
    <3>1. now \in Nat /\ now' \in Nat /\ now <= now' BY <1>1, <2>2
    <3> QED BY <3>1, Difference
  <2>5. n \in 0..Left[m] BY <2>3, <2>4
  <2>6. n \in UNION {0..Left[t] : t \in alive} BY <2>5
  <2>7. Left' = [t \in alive |-> IF Left[t] > n THEN Left[t] - n ELSE 0]
    <3>1. ASSUME NEW t \in alive
          PROVE  Left'[t] = IF Left[t] > n THEN Left[t] - n ELSE 0
      <4>1. /\ Left'[t] = IF expire[t] > now' THEN expire[t] - now' ELSE 0
            /\ Left[t] = IF expire[t] > now THEN expire[t] - now ELSE 0
        BY <1>1 DEF Left
      <4>2. Left[t] \in Nat /\ Left[t] <= Left[m] /\ Left[m] \in Nat BY <2>3
      <4> HIDE DEF Left
      <4> QED BY <1>1, <2>2, <4>1, <4>2
    <3>2. Left' = [t \in alive |-> Left'[t]] BY <1>1 DEF Left
    <3> QED BY <3>1, <3>2
  <2>8. DOMAIN Left = alive BY DEF Left
  <2> HIDE DEF n
  <2>9. Timer!Clock
    BY <1>1, <1>2, <2>6, <2>7, <2>8 DEF Timer!Clock, Timer!Set, Left, DueNow
  <2> QED BY <2>9 DEF Timer!Next
<1> QED BY <1>3, <1>4

THEOREM ListIsTimerSet ==
  ASSUME ~ClockBack PROVE Spec => ImplementsTimerSet
<1>1. TypeOK /\ ListInv /\ [Next]_vars => [Timer!Next]_(Timer!vars)
  <2> SUFFICES ASSUME TypeOK, ListInv, [Next]_vars
               PROVE  [Timer!Next]_(Timer!vars)
    OBVIOUS
  <2>1. ASSUME NEW t \in Timers, Add(t) \/ Adjust(t) \/ Delete(t)
        PROVE  Timer!Next
    BY <2>1, MapAdd, MapAdjust, MapDelete DEF Timer!Next
  <2>2. CASE TickBegin \/ TickFire \/ TickEnd BY <2>2, MapTick
  <2>3. CASE ScanNext \/ ScanEnd
    <3>1. /\ UNCHANGED <<now, alive, expire, cur>>
          /\ pc # "tick" /\ pc' # "tick"
      BY <2>3 DEF ScanNext, ScanEnd, Returns
    <3> QED BY <3>1, MapStutter
  <2>4. CASE Clock BY <2>4, MapClock
  <2>5. CASE UNCHANGED vars BY <2>5, MapStutter DEF vars, list
  <2> QED BY <2>1, <2>2, <2>3, <2>4, <2>5 DEF Next, Loops
<1> QED BY <1>1, MapInit, TypeInvariant, ListInvariant, PTL
        DEF Spec, ImplementsTimerSet, Timer!Spec
=============================================================================
