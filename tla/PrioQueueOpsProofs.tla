------------------------ MODULE PrioQueueOpsProofs -------------------------
(***************************************************************************)
(* What the operations of the dispatcher priority queue preserve, for      *)
(* messages of any kind: lemmas for the proofs about the queue and about   *)
(* the components that own one.                                            *)
(***************************************************************************)
EXTENDS PrioQueueOps, TLAPS

\* What the operations of the queue preserve.
QueueInv(q, M) ==
    /\ q \in QueueOf(M)
    /\ NumOfMsg(q) = Len(q.msgs)
    /\ Len(q.msgs) <= MaxNumMsg

\* Remainders next to the range 0 .. W - 1.
LEMMA ModSmall ==
    ASSUME NEW W \in Nat \ {0}, NEW x \in 0 .. W - 1
    PROVE  /\ x % W = x
           /\ (x + W) % W = x
           /\ (x + 2 * W) % W = x
           /\ (x - W) % W = x
OBVIOUS

\* A remainder is a value of a counter of that width.
LEMMA ModRange ==
    ASSUME NEW W \in Nat \ {0}, NEW x \in Int
    PROVE  x % W \in 0 .. W - 1
OBVIOUS

\* Adding one inside a sum of remainders adds one to the sum.
LEMMA ModStep ==
    ASSUME NEW W \in Nat \ {0}, NEW a \in 0 .. W - 1, NEW r \in 0 .. 2 * (W - 1)
    PROVE  /\ (((a + 1) % W) + r) % W = (((a + r) % W) + 1) % W
           /\ (((a - 1) % W) + r) % W = (((a + r) % W) - 1) % W
<1> DEFINE D == -1 .. 3 * (W - 1) + 1
           Rem(s) == IF s < 0 THEN s + W
                     ELSE IF s < W THEN s
                     ELSE IF s < 2 * W THEN s - W
                     ELSE IF s < 3 * W THEN s - 2 * W ELSE s - 3 * W
<1>1. \A s \in D : s % W = Rem(s)
  <2> TAKE s \in D
  <2>1. CASE s < 0      BY <2>1, s + W \in 0 .. W - 1, (s + W) - W = s, ModSmall
  <2>2. CASE s \in 0 .. W - 1  BY <2>2, ModSmall
  <2>3. CASE s \in W .. 2 * W - 1
    BY <2>3, s - W \in 0 .. W - 1, (s - W) + W = s, ModSmall
  <2>4. CASE s \in 2 * W .. 3 * W - 1
    BY <2>4, s - 2 * W \in 0 .. W - 1, (s - 2 * W) + 2 * W = s, ModSmall
  <2> QED BY <2>1, <2>2, <2>3, <2>4
<1>2. /\ Rem(Rem(a + 1) + r) = Rem(Rem(a + r) + 1)
      /\ Rem(Rem(a - 1) + r) = Rem(Rem(a + r) - 1)
  BY SMTT(60)
<1>3. /\ a + 1 \in D /\ a - 1 \in D /\ a + r \in D
      /\ Rem(a + 1) + r \in D /\ Rem(a - 1) + r \in D
      /\ Rem(a + r) + 1 \in D /\ Rem(a + r) - 1 \in D
  OBVIOUS
<1> HIDE DEF D, Rem
<1> QED BY <1>1, <1>2, <1>3
-----------------------------------------------------------------------------
\* Counting one message more or less keeps the type and the list, and moves
\* the sum of the counters by one.
LEMMA CountStep ==
    ASSUME NEW M, NEW q \in QueueOf(M), NEW p \in Prios
    PROVE  /\ IncNumOfMsg(q, p) \in QueueOf(M)
           /\ IncNumOfMsg(q, p).msgs = q.msgs
           /\ NumOfMsg(IncNumOfMsg(q, p)) = (NumOfMsg(q) + 1) % U32
           /\ DecNumOfMsg(q, p) \in QueueOf(M)
           /\ DecNumOfMsg(q, p).msgs = q.msgs
           /\ NumOfMsg(DecNumOfMsg(q, p)) = (NumOfMsg(q) - 1) % U32
<1> USE MaxNumMsgAssumption DEF Counter
<1>1. U32 \in Nat \ {0}
  OBVIOUS
<1> DEFINE h == q.high  m == q.mid  l == q.low
<1>2. h \in Counter /\ m \in Counter /\ l \in Counter
  BY DEF QueueOf
<1>3. /\ m + l \in 0 .. 2 * (U32 - 1)
      /\ h + l \in 0 .. 2 * (U32 - 1)
      /\ h + m \in 0 .. 2 * (U32 - 1)
  BY <1>2
<1>4. \A x \in Counter : (x + 1) % U32 \in Counter /\ (x - 1) % U32 \in Counter
  BY <1>1, ModRange
<1>5. /\ IncNumOfMsg(q, p) \in QueueOf(M) /\ IncNumOfMsg(q, p).msgs = q.msgs
      /\ DecNumOfMsg(q, p) \in QueueOf(M) /\ DecNumOfMsg(q, p).msgs = q.msgs
  BY <1>2, <1>4 DEF IncNumOfMsg, DecNumOfMsg, QueueOf
<1>6. CASE p = HIGH
  <2>1. /\ (((h + 1) % U32) + (m + l)) % U32 = (((h + (m + l)) % U32) + 1) % U32
        /\ (((h - 1) % U32) + (m + l)) % U32 = (((h + (m + l)) % U32) - 1) % U32
    BY <1>1, <1>2, <1>3, ModStep
  <2>2. /\ IncNumOfMsg(q, p).high = (h + 1) % U32
        /\ DecNumOfMsg(q, p).high = (h - 1) % U32
        /\ IncNumOfMsg(q, p).mid = m /\ IncNumOfMsg(q, p).low = l
        /\ DecNumOfMsg(q, p).mid = m /\ DecNumOfMsg(q, p).low = l
    BY <1>6 DEF IncNumOfMsg, DecNumOfMsg, QueueOf, HIGH, MID, LOW
  <2> QED BY <1>2, <1>4, <1>5, <2>1, <2>2 DEF NumOfMsg
<1>7. CASE p = MID
  <2>1. /\ (((m + 1) % U32) + (h + l)) % U32 = (((m + (h + l)) % U32) + 1) % U32
        /\ (((m - 1) % U32) + (h + l)) % U32 = (((m + (h + l)) % U32) - 1) % U32
    BY <1>1, <1>2, <1>3, ModStep
  <2>2. /\ IncNumOfMsg(q, p).mid = (m + 1) % U32
        /\ DecNumOfMsg(q, p).mid = (m - 1) % U32
        /\ IncNumOfMsg(q, p).high = h /\ IncNumOfMsg(q, p).low = l
        /\ DecNumOfMsg(q, p).high = h /\ DecNumOfMsg(q, p).low = l
    BY <1>7 DEF IncNumOfMsg, DecNumOfMsg, QueueOf, HIGH, MID, LOW
  <2> QED BY <1>2, <1>4, <1>5, <2>1, <2>2 DEF NumOfMsg
<1>8. CASE p = LOW
  <2>1. /\ (((l + 1) % U32) + (h + m)) % U32 = (((l + (h + m)) % U32) + 1) % U32
        /\ (((l - 1) % U32) + (h + m)) % U32 = (((l + (h + m)) % U32) - 1) % U32
    BY <1>1, <1>2, <1>3, ModStep
  <2>2. /\ IncNumOfMsg(q, p).low = (l + 1) % U32
        /\ DecNumOfMsg(q, p).low = (l - 1) % U32
        /\ IncNumOfMsg(q, p).high = h /\ IncNumOfMsg(q, p).mid = m
        /\ DecNumOfMsg(q, p).high = h /\ DecNumOfMsg(q, p).mid = m
    BY <1>8 DEF IncNumOfMsg, DecNumOfMsg, QueueOf, HIGH, MID, LOW
  <2> QED BY <1>2, <1>4, <1>5, <2>1, <2>2 DEF NumOfMsg
<1> QED BY <1>6, <1>7, <1>8 DEF Prios

\* Away from the ends of the range the sum moves by one exactly.
LEMMA CountExactly ==
    ASSUME NEW M, NEW q \in QueueOf(M), NEW p \in Prios
    PROVE  /\ NumOfMsg(q) < MaxNumMsg => NumOfMsg(IncNumOfMsg(q, p)) = NumOfMsg(q) + 1
           /\ NumOfMsg(q) >= 1 => NumOfMsg(DecNumOfMsg(q, p)) = NumOfMsg(q) - 1
<1> DEFINE n == NumOfMsg(q)
<1>1. U32 \in Nat \ {0} /\ MaxNumMsg < U32 /\ MaxNumMsg \in Nat
  BY MaxNumMsgAssumption
<1>2. n \in 0 .. U32 - 1
  <2>1. q.high + q.mid + q.low \in Int
    BY <1>1 DEF QueueOf, Counter
  <2> QED BY <1>1, <2>1, ModRange DEF NumOfMsg
<1>3. /\ NumOfMsg(IncNumOfMsg(q, p)) = (n + 1) % U32
      /\ NumOfMsg(DecNumOfMsg(q, p)) = (n - 1) % U32
  BY CountStep
<1> HIDE DEF n
<1>4. ASSUME n < MaxNumMsg PROVE (n + 1) % U32 = n + 1
  <2>1. n + 1 \in 0 .. U32 - 1
    BY <1>1, <1>2, <1>4
  <2> QED BY <1>1, <2>1, ModSmall
<1>5. ASSUME n >= 1 PROVE (n - 1) % U32 = n - 1
  <2>1. n - 1 \in 0 .. U32 - 1
    BY <1>1, <1>2, <1>5
  <2> QED BY <1>1, <2>1, ModSmall
<1> QED BY <1>3, <1>4, <1>5 DEF n

\* Replacing the list touches no counter.
LEMMA NewList ==
    ASSUME NEW M, NEW q \in QueueOf(M), NEW s \in Seq(M)
    PROVE  /\ [q EXCEPT !.msgs = s] \in QueueOf(M)
           /\ [q EXCEPT !.msgs = s].msgs = s
           /\ NumOfMsg([q EXCEPT !.msgs = s]) = NumOfMsg(q)
<1>1. /\ [q EXCEPT !.msgs = s] \in QueueOf(M)
      /\ [q EXCEPT !.msgs = s].msgs = s
  BY DEF QueueOf
<1>2. /\ [q EXCEPT !.msgs = s].high = q.high
      /\ [q EXCEPT !.msgs = s].mid = q.mid
      /\ [q EXCEPT !.msgs = s].low = q.low
  BY DEF QueueOf
<1> QED BY <1>1, <1>2 DEF NumOfMsg

\* The tail of a list that is not empty.
LEMMA TailFacts ==
    ASSUME NEW M, NEW s \in Seq(M), s # <<>>
    PROVE  /\ Tail(s) \in Seq(M) /\ Len(s) \in Nat /\ Len(s) >= 1
           /\ Len(Tail(s)) = Len(s) - 1
           /\ Head(s) \in M /\ Head(s) = s[1]
           /\ \A i \in 1 .. Len(s) - 1 : Tail(s)[i] = s[i + 1]
OBVIOUS

\* Making room keeps the counters in step with the list; afterwards there is
\* room for one message unless the new message is refused.
LEMMA MakeRoomStep ==
    ASSUME NEW M, NEW q, QueueInv(q, M), NEW p \in Prios
    PROVE  /\ QueueInv(MakeRoom(q, p), M)
           /\ CanBeQueued(q, p) => Len(MakeRoom(q, p).msgs) < MaxNumMsg
           /\ \/ MakeRoom(q, p).msgs = q.msgs
              \/ MakeRoom(q, p).msgs = Tail(q.msgs) /\ q.msgs # <<>>
           /\ Full(q) => Len(q.msgs) = MaxNumMsg /\ q.msgs # <<>>
<1> USE MaxNumMsgAssumption
<1>1. /\ q \in QueueOf(M) /\ q.msgs \in Seq(M)
      /\ NumOfMsg(q) = Len(q.msgs) /\ Len(q.msgs) <= MaxNumMsg
      /\ Full(q) <=> Len(q.msgs) = MaxNumMsg
      /\ Full(q) => q.msgs # <<>>
  BY DEF Full, QueueInv, QueueOf
<1>2. CASE Full(q) /\ MayEvict(q, p)
  <2> DEFINE t == [q EXCEPT !.msgs = Tail(q.msgs)]
  <2>0. /\ Tail(q.msgs) \in Seq(M) /\ Len(Tail(q.msgs)) = Len(q.msgs) - 1
        /\ Len(q.msgs) \in Nat /\ Len(q.msgs) >= 1
    BY <1>1, <1>2, TailFacts
  <2>1. /\ t \in QueueOf(M) /\ t.msgs = Tail(q.msgs) /\ NumOfMsg(t) = Len(q.msgs)
        /\ Len(t.msgs) = Len(q.msgs) - 1 /\ Len(q.msgs) \in Nat /\ Len(q.msgs) >= 1
    BY <1>1, <2>0, NewList
  <2>2. MakeRoom(q, p) = DecNumOfMsg(t, p)
    BY <1>2 DEF MakeRoom
  <2> HIDE DEF t
  <2>3. /\ MakeRoom(q, p) \in QueueOf(M) /\ MakeRoom(q, p).msgs = t.msgs
        /\ NumOfMsg(MakeRoom(q, p)) = Len(q.msgs) - 1
    BY <2>1, <2>2, CountStep, CountExactly
  <2> QED BY <1>1, <1>2, <2>1, <2>3 DEF QueueInv
<1>3. CASE ~(Full(q) /\ MayEvict(q, p))
  <2>1. MakeRoom(q, p) = q
    BY <1>3 DEF MakeRoom
  <2>2. CanBeQueued(q, p) => ~Full(q)
    BY <1>3 DEF CanBeQueued
  <2>3. Len(q.msgs) \in Nat
    BY <1>1
  <2> QED BY <1>1, <2>1, <2>2, <2>3
<1> QED BY <1>2, <1>3

\* An enqueue that succeeds keeps the counters in step with the list.
LEMMA EnqueueStep ==
    ASSUME NEW M, NEW q, QueueInv(q, M), NEW m \in M, m.prio \in Prios,
           CanBeQueued(q, m.prio)
    PROVE  /\ QueueInv(Enqueue(q, m), M)
           /\ \/ Enqueue(q, m).msgs = Append(q.msgs, m)
              \/ Enqueue(q, m).msgs = Append(Tail(q.msgs), m) /\ q.msgs # <<>>
<1> USE MaxNumMsgAssumption
<1> DEFINE r == MakeRoom(q, m.prio)
           a == [r EXCEPT !.msgs = Append(r.msgs, m)]
<1>1. m.prio \in Prios
  OBVIOUS
<1>2. /\ r \in QueueOf(M) /\ Len(r.msgs) < MaxNumMsg /\ NumOfMsg(r) = Len(r.msgs)
      /\ r.msgs = q.msgs \/ (r.msgs = Tail(q.msgs) /\ q.msgs # <<>>)
  BY <1>1, MakeRoomStep DEF QueueInv
<1>3. Enqueue(q, m) = IncNumOfMsg(a, m.prio)
  BY DEF Enqueue
<1> HIDE DEF r
<1>4. /\ r.msgs \in Seq(M) /\ Len(r.msgs) \in Nat
      /\ Append(r.msgs, m) \in Seq(M)
      /\ Len(Append(r.msgs, m)) = Len(r.msgs) + 1
  BY <1>2 DEF QueueOf
<1>5. /\ a \in QueueOf(M) /\ a.msgs = Append(r.msgs, m) /\ NumOfMsg(a) = Len(r.msgs)
  BY <1>2, <1>4, NewList
<1> HIDE DEF a
<1>6. /\ NumOfMsg(Enqueue(q, m)) = Len(r.msgs) + 1
      /\ Enqueue(q, m) \in QueueOf(M) /\ Enqueue(q, m).msgs = Append(r.msgs, m)
  <2>1. Enqueue(q, m) \in QueueOf(M) /\ Enqueue(q, m).msgs = a.msgs
    <3>1. IncNumOfMsg(a, m.prio) \in QueueOf(M) /\ IncNumOfMsg(a, m.prio).msgs = a.msgs
      BY <1>1, <1>5, CountStep, SMTT(60)
    <3> QED BY <1>3, <3>1, Zenon
  <2>2. NumOfMsg(Enqueue(q, m)) = NumOfMsg(a) + 1
    BY <1>1, <1>2, <1>3, <1>5, CountExactly
  <2> QED BY <1>5, <2>1, <2>2
<1>7. QueueInv(Enqueue(q, m), M)
  BY <1>2, <1>4, <1>6 DEF QueueInv
<1> QED BY <1>2, <1>6, <1>7

\* So does a dequeue.
LEMMA DequeueStep ==
    ASSUME NEW M, NEW q, QueueInv(q, M), ~IsEmpty(q), \A m \in M : m.prio \in Prios
    PROVE  QueueInv(Dequeue(q), M) /\ Dequeue(q).msgs = Tail(q.msgs)
<1> USE MaxNumMsgAssumption
<1> DEFINE t == [q EXCEPT !.msgs = Tail(q.msgs)]
<1>1. /\ q \in QueueOf(M) /\ q.msgs \in Seq(M) /\ q.msgs # <<>>
      /\ NumOfMsg(q) = Len(q.msgs) /\ Len(q.msgs) <= MaxNumMsg
  BY DEF QueueInv, QueueOf, IsEmpty
<1>2. /\ Len(q.msgs) \in Nat /\ Len(q.msgs) >= 1
      /\ Len(Tail(q.msgs)) = Len(q.msgs) - 1
      /\ Tail(q.msgs) \in Seq(M) /\ Head(q.msgs) \in M
  BY <1>1, TailFacts
<1>3. Head(q.msgs).prio \in Prios
  BY <1>2
<1>4. /\ t \in QueueOf(M) /\ t.msgs = Tail(q.msgs) /\ NumOfMsg(t) = Len(q.msgs)
  BY <1>1, <1>2, NewList
<1>5. Dequeue(q) = DecNumOfMsg(t, Head(q.msgs).prio)
  BY DEF Dequeue
<1> HIDE DEF t
<1>6. /\ NumOfMsg(Dequeue(q)) = Len(q.msgs) - 1
      /\ Dequeue(q) \in QueueOf(M) /\ Dequeue(q).msgs = t.msgs
  BY <1>2, <1>3, <1>4, <1>5, CountStep, CountExactly
<1> QED BY <1>1, <1>2, <1>4, <1>6 DEF QueueInv
-----------------------------------------------------------------------------
(* The order of the messages. *)

\* The messages of a list are in the order of their ids, which are above lo
\* and at most hi.
Ascending(s, lo, hi) ==
    /\ \A i, j \in 1 .. Len(s) : i < j => s[i].id < s[j].id
    /\ \A i \in 1 .. Len(s) : lo < s[i].id /\ s[i].id <= hi

\* Appending a message newer than all others, with or without dropping the
\* oldest, keeps the list ordered by id.
LEMMA OrderKept ==
    ASSUME NEW M, \A m \in M : m.id \in Nat, NEW s \in Seq(M),
           NEW n \in Nat, NEW k \in Nat, k <= n, Ascending(s, k, n),
           NEW m \in M, m.id = n + 1, NEW t,
           \/ t = Append(s, m)
           \/ t = Append(Tail(s), m) /\ s # <<>>
           \/ t = s
           \/ t = Tail(s) /\ s # <<>>
    PROVE  Ascending(t, k, n + 1)
<1> USE DEF Ascending
<1>1. \A i \in 1 .. Len(s) : s[i].id \in Nat
  <2>1. \A i \in 1 .. Len(s) : s[i] \in M
    OBVIOUS
  <2> QED BY <2>1
<1>2. CASE t = Append(s, m)
  <2>1. /\ Len(t) = Len(s) + 1 /\ t[Len(t)] = m /\ Len(s) \in Nat
        /\ \A i \in 1 .. Len(s) : t[i] = s[i]
    BY <1>2
  <2>2. ASSUME NEW i \in 1 .. Len(t)
        PROVE  i = Len(t) \/ (i \in 1 .. Len(s) /\ t[i] = s[i])
    BY <2>1
  <2>3. ASSUME NEW i \in 1 .. Len(t) PROVE k < t[i].id /\ t[i].id <= n + 1
    BY <1>1, <2>1, <2>2
  <2>4. ASSUME NEW i \in 1 .. Len(t), NEW j \in 1 .. Len(t), i < j
        PROVE  t[i].id < t[j].id
    <3>1. i \in 1 .. Len(s) /\ t[i] = s[i]
      BY <2>1, <2>2, <2>4
    <3>2. CASE j = Len(t)
      BY <1>1, <2>1, <3>1, <3>2
    <3>3. CASE j \in 1 .. Len(s) /\ t[j] = s[j]
      BY <2>4, <3>1, <3>3
    <3> QED BY <2>2, <3>2, <3>3
  <2> QED BY <2>3, <2>4
<1>3. CASE t = Append(Tail(s), m) /\ s # <<>>
  <2>1. /\ Len(t) = Len(s)
        /\ \A i \in 1 .. Len(s) - 1 : t[i] = s[i + 1]
        /\ t[Len(s)] = m
    BY <1>3, TailFacts
  <2>2. ASSUME NEW i \in 1 .. Len(t)
        PROVE  \/ i = Len(s) /\ t[i].id = n + 1
               \/ /\ i \in 1 .. Len(s) - 1 /\ i + 1 \in 1 .. Len(s)
                  /\ t[i].id = s[i + 1].id /\ t[i].id \in Nat
    <3>1. CASE i = Len(s)  BY <2>1, <3>1
    <3>2. CASE i # Len(s)  BY <1>1, <2>1, <3>2
    <3> QED BY <3>1, <3>2
  <2>3. ASSUME NEW i \in 1 .. Len(t) PROVE k < t[i].id /\ t[i].id <= n + 1
    <3>1. CASE t[i].id = n + 1
      BY <3>1
    <3>2. CASE i + 1 \in 1 .. Len(s) /\ t[i].id = s[i + 1].id
      <4>1. k < s[i + 1].id /\ s[i + 1].id <= n /\ s[i + 1].id \in Nat
        BY <1>1, <3>2
      <4> QED BY <3>2, <4>1
    <3> QED BY <2>2, <3>1, <3>2
  <2>4. ASSUME NEW i \in 1 .. Len(t), NEW j \in 1 .. Len(t), i < j
        PROVE  t[i].id < t[j].id
    <3>1. i \in 1 .. Len(s) - 1 /\ i + 1 \in 1 .. Len(s) /\ t[i].id = s[i + 1].id
      BY <2>1, <2>2, <2>4
    <3>2. CASE j = Len(s)
      BY <1>1, <2>1, <3>1, <3>2
    <3>3. CASE j # Len(s)
      BY <2>1, <2>2, <2>4, <3>1, <3>3
    <3> QED BY <3>2, <3>3
  <2> QED BY <2>3, <2>4
<1>4. CASE t = s
  BY <1>1, <1>4
<1>5. CASE t = Tail(s) /\ s # <<>>
  BY <1>1, <1>5, TailFacts
<1> QED BY <1>2, <1>3, <1>4, <1>5

\* Taking the oldest message leaves the newer ones.
LEMMA OrderTaken ==
    ASSUME NEW M, \A m \in M : m.id \in Nat, NEW s \in Seq(M), s # <<>>,
           NEW n \in Nat, NEW k \in Nat, Ascending(s, k, n)
    PROVE  /\ Head(s).id \in Nat /\ k < Head(s).id /\ Head(s).id <= n
           /\ Ascending(Tail(s), Head(s).id, n)
<1>1. \A i \in 1 .. Len(s) : s[i] \in M /\ s[i].id \in Nat
  OBVIOUS
<1>2. /\ Len(s) \in Nat /\ Len(s) >= 1 /\ Len(Tail(s)) = Len(s) - 1
      /\ Head(s) = s[1]
      /\ \A i \in 1 .. Len(s) - 1 : Tail(s)[i] = s[i + 1]
  BY TailFacts
<1>3. 1 \in 1 .. Len(s) /\ \A i \in 1 .. Len(s) - 1 : i + 1 \in 1 .. Len(s)
  BY <1>2
<1>4. ASSUME NEW i \in 1 .. Len(Tail(s))
      PROVE  /\ i \in 1 .. Len(s) - 1 /\ i + 1 \in 1 .. Len(s)
             /\ Tail(s)[i] = s[i + 1] /\ Tail(s)[i].id \in Nat
  BY <1>1, <1>2, <1>3
<1>5. s[1].id \in Nat /\ k < s[1].id /\ s[1].id <= n
  BY <1>1, <1>3 DEF Ascending
<1>6. ASSUME NEW i \in 1 .. Len(Tail(s))
      PROVE  s[1].id < Tail(s)[i].id /\ Tail(s)[i].id <= n
  <2>1. i \in Int /\ 1 < i + 1
    BY <1>6
  <2> QED
    BY <1>3, <1>4, <2>1 DEF Ascending
<1>7. ASSUME NEW i \in 1 .. Len(Tail(s)), NEW j \in 1 .. Len(Tail(s)), i < j
      PROVE  Tail(s)[i].id < Tail(s)[j].id
  <2>1. i + 1 < j + 1
    BY <1>7
  <2> QED
    BY <1>4, <2>1 DEF Ascending
<1> QED
  BY <1>2, <1>5, <1>6, <1>7 DEF Ascending

\* A later bound is a bound.
LEMMA OrderWeaker ==
    ASSUME NEW M, \A m \in M : m.id \in Nat, NEW s \in Seq(M),
           NEW k \in Nat, NEW n \in Nat, NEW l \in Nat, n <= l, Ascending(s, k, n)
    PROVE  Ascending(s, k, l)
<1>1. \A i \in 1 .. Len(s) : s[i].id \in Nat
  OBVIOUS
<1> QED
  BY <1>1 DEF Ascending

-----------------------------------------------------------------------------
(* The elements of a list. *)

Items(s) == {s[i] : i \in DOMAIN s}

\* Adding an element at the end of a list.
LEMMA ItemsAppend ==
    ASSUME NEW M, NEW s \in Seq(M), NEW x \in M
    PROVE  Append(s, x) \in Seq(M) /\ Items(Append(s, x)) = Items(s) \cup {x}
  <1>1. /\ Append(s, x) \in Seq(M) /\ Len(s) \in Nat
        /\ DOMAIN s = 1 .. Len(s) /\ DOMAIN Append(s, x) = 1 .. Len(s) + 1
        /\ \A i \in 1 .. Len(s) : Append(s, x)[i] = s[i]
        /\ Append(s, x)[Len(s) + 1] = x
    OBVIOUS
  <1>2. \A i : i \in 1 .. Len(s) + 1 <=> i \in 1 .. Len(s) \/ i = Len(s) + 1
    BY <1>1
  <1> QED
    BY <1>1, <1>2, Zenon DEF Items

\* Taking the first element off.
LEMMA ItemsTail ==
    ASSUME NEW M, NEW s \in Seq(M), s # <<>>
    PROVE  /\ Tail(s) \in Seq(M) /\ Head(s) \in M
           /\ Items(s) = Items(Tail(s)) \cup {Head(s)}
  <1>1. /\ Tail(s) \in Seq(M) /\ Head(s) \in M /\ Len(s) \in Nat
        /\ DOMAIN s = 1 .. Len(s) /\ DOMAIN Tail(s) = 1 .. Len(s) - 1
        /\ \A i \in 1 .. Len(s) - 1 : Tail(s)[i] = s[i + 1]
        /\ Head(s) = s[1] /\ 1 \in 1 .. Len(s)
    BY TailFacts
  <1>2. ASSUME NEW i \in 1 .. Len(s), i # 1
        PROVE  i - 1 \in 1 .. Len(s) - 1 /\ Tail(s)[i - 1] = s[i]
    BY <1>1, <1>2
  <1>3. \A i \in 1 .. Len(s) - 1 : i + 1 \in 1 .. Len(s)
    BY <1>1
  <1>4. ASSUME NEW x \in Items(s) PROVE x \in Items(Tail(s)) \cup {Head(s)}
    <2>1. PICK i \in 1 .. Len(s) : s[i] = x
      BY <1>1 DEF Items
    <2>2. CASE i = 1
      BY <1>1, <2>1, <2>2
    <2>3. CASE i # 1
      BY <1>1, <1>2, <2>1, <2>3 DEF Items
    <2> QED
      BY <2>2, <2>3
  <1>5. \A x \in Items(Tail(s)) \cup {Head(s)} : x \in Items(s)
    BY <1>1, <1>3 DEF Items
  <1> QED
    BY <1>1, <1>4, <1>5

\* Nothing is in an empty list.
LEMMA ItemsEmpty == Items(<<>>) = {} /\ \A M : <<>> \in Seq(M)
  BY DEF Items

\* What an enqueue leaves in the list and what it evicts is what was in the
\* list and the new message.
LEMMA EnqueueItems ==
    ASSUME NEW M, NEW q, QueueInv(q, M), NEW m \in M, m.prio \in Prios,
           CanBeQueued(q, m.prio)
    PROVE  Items(Enqueue(q, m).msgs) \cup Items(Evicted(q, m.prio)) = Items(q.msgs) \cup {m}
  <1> DEFINE r == MakeRoom(q, m.prio)
             a == [r EXCEPT !.msgs = Append(r.msgs, m)]
  <1>1. r \in QueueOf(M) /\ r.msgs \in Seq(M) /\ q \in QueueOf(M) /\ q.msgs \in Seq(M)
    BY MakeRoomStep DEF QueueInv, QueueOf
  <1>2. Append(r.msgs, m) \in Seq(M) /\ Items(Append(r.msgs, m)) = Items(r.msgs) \cup {m}
    BY <1>1, ItemsAppend
  <1>3. Enqueue(q, m).msgs = Append(r.msgs, m)
    <2>1. Enqueue(q, m) = IncNumOfMsg(a, m.prio)
      BY DEF Enqueue
    <2> HIDE DEF r
    <2>2. a \in QueueOf(M) /\ a.msgs = Append(r.msgs, m)
      BY <1>1, <1>2, NewList
    <2> QED
      BY <2>1, <2>2, CountStep
  <1>4. Items(r.msgs) \cup Items(Evicted(q, m.prio)) = Items(q.msgs)
    <2>1. CASE Full(q) /\ MayEvict(q, m.prio)
      <3>1. q.msgs # <<>> /\ Tail(q.msgs) \in Seq(M)
        BY <1>1, <2>1, MakeRoomStep, TailFacts
      <3>2. r.msgs = Tail(q.msgs)
        <4>1. /\ [q EXCEPT !.msgs = Tail(q.msgs)] \in QueueOf(M)
              /\ [q EXCEPT !.msgs = Tail(q.msgs)].msgs = Tail(q.msgs)
          BY <1>1, <3>1, NewList
        <4>2. r = DecNumOfMsg([q EXCEPT !.msgs = Tail(q.msgs)], m.prio)
          BY <2>1 DEF MakeRoom
        <4> QED
          BY <4>1, <4>2, CountStep
      <3>3. Evicted(q, m.prio) = <<Head(q.msgs)>>
        BY <2>1 DEF Evicted
      <3>4. Items(<<Head(q.msgs)>>) = {Head(q.msgs)}
        BY DEF Items
      <3> QED
        BY <1>1, <3>1, <3>2, <3>3, <3>4, ItemsTail
    <2>2. CASE ~(Full(q) /\ MayEvict(q, m.prio))
      BY <2>2, ItemsEmpty DEF MakeRoom, Evicted
    <2> QED
      BY <2>1, <2>2
  <1> HIDE DEF r
  <1> QED
    BY <1>2, <1>3, <1>4

\* Two lists in a row, the second one newer than the first.
LEMMA OrderConcat ==
    ASSUME NEW M, \A m \in M : m.id \in Nat, NEW s \in Seq(M), NEW t \in Seq(M),
           NEW lo \in Nat, NEW k \in Nat, NEW hi \in Nat, lo <= k, k <= hi,
           Ascending(s, lo, k), Ascending(t, k, hi)
    PROVE  /\ s \o t \in Seq(M)
           /\ Ascending(s \o t, lo, hi)
           /\ Items(s \o t) = Items(s) \cup Items(t)
  <1> DEFINE u == s \o t
             n == Len(s)
             k2 == Len(t)
  <1>1. /\ u \in Seq(M) /\ n \in Nat /\ k2 \in Nat
        /\ Len(u) = n + k2 /\ DOMAIN u = 1 .. n + k2
        /\ DOMAIN s = 1 .. n /\ DOMAIN t = 1 .. k2
        /\ \A i \in 1 .. n : u[i] = s[i] /\ s[i] \in M
        /\ \A i \in 1 .. n + k2 : i > n => u[i] = t[i - n]
        /\ \A i \in 1 .. k2 : t[i] \in M
    OBVIOUS
  <1>1a. \A i \in 1 .. k2 : n + i \in 1 .. n + k2 /\ u[n + i] = t[i]
    BY <1>1
  <1> HIDE DEF u, n, k2
  <1>2. ASSUME NEW i \in 1 .. n + k2, i > n
        PROVE  i - n \in 1 .. k2 /\ u[i] = t[i - n] /\ u[i] \in M
    BY <1>1, <1>2
  <1>3. ASSUME NEW i \in 1 .. n + k2, ~(i > n)
        PROVE  i \in 1 .. n /\ u[i] = s[i] /\ u[i] \in M
    BY <1>1, <1>3
  <1>a. /\ \A i, j \in 1 .. n : i < j => s[i].id < s[j].id
        /\ \A i \in 1 .. n : lo < s[i].id /\ s[i].id <= k
        /\ \A i, j \in 1 .. k2 : i < j => t[i].id < t[j].id
        /\ \A i \in 1 .. k2 : k < t[i].id /\ t[i].id <= hi
    BY DEF Ascending, n, k2
  <1>4. ASSUME NEW i \in 1 .. n + k2 PROVE lo < u[i].id /\ u[i].id <= hi
    <2>1. CASE i > n
      <3>1. k < u[i].id /\ u[i].id <= hi /\ u[i].id \in Nat
        BY <2>1, <1>2, <1>a
      <3> QED
        BY <3>1
    <2>2. CASE ~(i > n)
      <3>1. lo < u[i].id /\ u[i].id <= k /\ u[i].id \in Nat
        BY <2>2, <1>3, <1>a
      <3> QED
        BY <3>1
    <2> QED
      BY <2>1, <2>2
  <1>5. ASSUME NEW i \in 1 .. n + k2, NEW j \in 1 .. n + k2, i < j
        PROVE  u[i].id < u[j].id
    <2>1. CASE i > n
      <3>1. i - n < j - n /\ j > n
        BY <1>1, <1>5, <2>1
      <3>2. i - n \in 1 .. k2 /\ u[i] = t[i - n] /\ j - n \in 1 .. k2 /\ u[j] = t[j - n]
        BY <1>2, <2>1, <3>1
      <3> QED
        BY <1>a, <3>1, <3>2
    <2>2. CASE ~(i > n) /\ j > n
      <3>1. u[i].id <= k /\ u[i].id \in Nat
        BY <1>3, <1>a, <2>2
      <3>2. k < u[j].id /\ u[j].id \in Nat
        BY <1>2, <1>a, <2>2
      <3> QED
        BY <3>1, <3>2
    <2>3. CASE ~(i > n) /\ ~(j > n)
      <3>1. i \in 1 .. n /\ u[i] = s[i] /\ j \in 1 .. n /\ u[j] = s[j]
        BY <1>3, <2>3
      <3> QED
        BY <1>5, <1>a, <3>1
    <2> QED
      BY <2>1, <2>2, <2>3
  <1>6. Ascending(u, lo, hi)
    BY <1>1, <1>4, <1>5 DEF Ascending
  <1>7. Items(u) = Items(s) \cup Items(t)
    <2>1. \A x \in Items(u) : x \in Items(s) \cup Items(t)
      BY <1>1, <1>2, <1>3 DEF Items
    <2>2. \A x \in Items(s) : x \in Items(u)
      <3>1. \A i \in 1 .. n : i \in 1 .. n + k2
        BY <1>1
      <3> QED
        BY <1>1, <3>1 DEF Items
    <2>3. \A x \in Items(t) : x \in Items(u)
      BY <1>1, <1>1a DEF Items
    <2> QED
      BY <2>1, <2>2, <2>3
  <1> QED
    BY <1>1, <1>6, <1>7 DEF u
=============================================================================
