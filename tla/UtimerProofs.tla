---------------------------- MODULE UtimerProofs ----------------------------
(***************************************************************************)
(* The utimer's items fire in time, in order and once each, and the chain  *)
(* thread never sleeps past one: TimersSound, for any number of threads,   *)
(* items and delays.                                                       *)
(*                                                                         *)
(* The argument is about three lists, the items fired, collected and       *)
(* waiting.  Placed says of them that they are in order and account for    *)
(* every item ever inserted; one lemma for each thing that happens to the  *)
(* lists (insertion, removal, collection, a callback) shows that it stays  *)
(* so.  The rest of the invariant is about the clock the chain thread has  *)
(* read and about what will end its sleep.                                 *)
(***************************************************************************)
EXTENDS Utimer, FiniteSetTheorems, TLAPS

\* One item is rightly ahead of another.
Precedes(x, y) == x.id # y.id /\ (x.expire >= y.expire => x.id < y.id)

Within(s) == \A i, j \in DOMAIN s : i < j => Precedes(s[i], s[j])

Across(s, u) == \A i \in DOMAIN s : \A j \in DOMAIN u : Precedes(s[i], u[j])

Sorted(s) == \A i, j \in DOMAIN s : i < j => s[i].expire <= s[j].expire

\* The n items inserted so far are in f (fired), t (collected), s (waiting) and
\* gone (removed), once each, and the lists are in order.
Placed(f, t, s, gone, n) ==
    /\ f \in Seq(ItemType) /\ t \in Seq(ItemType) /\ s \in Seq(ItemType)
    /\ Within(f) /\ Within(t) /\ Within(s)
    /\ Across(f, t) /\ Across(f, s) /\ Across(t, s)
    /\ Sorted(s)
    /\ gone \cap (Ids(f) \cup Ids(t) \cup Ids(s)) = {}
    /\ gone \cup Ids(f) \cup Ids(t) \cup Ids(s) = 1 .. n

-----------------------------------------------------------------------------
(* Naturals, and prefixes of a list. *)

\* A set of natural numbers that is not empty has a least element.
LEMMA LeastElement ==
    ASSUME NEW T, T \subseteq Nat, T # {}
    PROVE  \E m \in T : \A k \in T : m <= k
  <1>1. PICK m \in T : \A k \in T : ~ (<<k, m>> \in OpToRel(<, Nat))
    BY NatLessThanWellFounded, WFMin
  <1>2. \A k \in T : ~ (k < m)
    BY <1>1 DEF OpToRel
  <1> QED
    BY <1>2

\* A set of positions that holds every position before one it holds is a
\* prefix, and its size is where it ends.
LEMMA PrefixSize ==
    ASSUME NEW N \in Nat, NEW S, S \subseteq 1 .. N,
           \A i \in S : \A j \in 1 .. i : j \in S
    PROVE  Cardinality(S) \in 0 .. N /\ S = 1 .. Cardinality(S)
  <1> DEFINE T == {k \in 1 .. N + 1 : k \notin S}
  <1>1. T \subseteq Nat /\ N + 1 \in T
    OBVIOUS
  <1>2. PICK m \in T : \A k \in T : m <= k
    <2> HIDE DEF T
    <2> QED BY <1>1, LeastElement
  <1>3. m \in 1 .. N + 1 /\ m \notin S
    BY <1>2
  <1>4. \A k \in 1 .. m - 1 : k \in S
    BY <1>2, <1>3
  <1>5. \A k \in S : k \in 1 .. m - 1
    BY <1>3
  <1>6. S = 1 .. m - 1
    BY <1>4, <1>5
  <1>7. Cardinality(1 .. m - 1) = m - 1
    BY <1>3, FS_Interval
  <1> QED
    BY <1>3, <1>6, <1>7

\* _checkUtimer and _insertUtimerItem stop at the first item that expires
\* later.
LEMMA ExpiredFacts ==
    ASSUME NEW s \in Seq(ItemType), NEW time \in Int
    PROVE  /\ Expired(s, time) \in 0 .. Len(s)
           /\ \A i \in 1 .. Expired(s, time) : s[i].expire <= time
           /\ Expired(s, time) < Len(s) => s[Expired(s, time) + 1].expire > time
  <1> DEFINE S == {i \in DOMAIN s : \A j \in 1 .. i : s[j].expire <= time}
             n == Cardinality(S)
  <1>1. Len(s) \in Nat /\ DOMAIN s = 1 .. Len(s)
    OBVIOUS
  <1>2. S \subseteq 1 .. Len(s) /\ \A i \in S : \A j \in 1 .. i : j \in S
    BY <1>1
  <1>3. n \in 0 .. Len(s) /\ S = 1 .. n
    <2> HIDE DEF S
    <2> QED BY <1>1, <1>2, PrefixSize
  <1>4. \A i \in 1 .. n : s[i].expire <= time
    <2> TAKE i \in 1 .. n
    <2>1. i \in S
      BY <1>3
    <2>2. i \in 1 .. i
      BY <1>3
    <2> QED BY <2>1, <2>2
  <1>5. ASSUME n < Len(s) PROVE s[n + 1].expire > time
    <2>1. n + 1 \notin S /\ n + 1 \in 1 .. Len(s)
      <3> HIDE DEF n, S
      <3>1. n + 1 \notin 1 .. n /\ n + 1 \in 1 .. Len(s)
        BY <1>1, <1>3, <1>5
      <3> QED BY <1>3, <3>1
    <2>2. PICK j \in 1 .. n + 1 : ~ (s[j].expire <= time)
      BY <1>1, <2>1
    <2>3. j = n + 1
      BY <1>3, <1>4, <2>2
    <2>4. s[n + 1] \in ItemType
      BY <2>1
    <2>5. s[n + 1].expire \in Int
      BY <2>4, UtimerAssumption DEF ItemType
    <2> QED BY <2>2, <2>3, <2>5
  <1>6. Expired(s, time) = n
    BY DEF Expired
  <1> HIDE DEF n
  <1> QED
    BY <1>3, <1>4, <1>5, <1>6

\* The fields of an item.
LEMMA ItemFields ==
    \A x \in ItemType : x.id \in 0 .. MaxItems /\ x.expire \in 0 .. MaxTime
                        /\ x.id \in Nat /\ x.expire \in Nat
  BY UtimerAssumption DEF ItemType
-----------------------------------------------------------------------------
(* What happens to the lists. *)

\* An item enters the list at one position, and what is behind it expires
\* later.
LEMMA InsertFacts ==
    ASSUME NEW s \in Seq(ItemType), NEW it \in ItemType
    PROVE  \E p \in 1 .. Len(s) + 1 :
             /\ Insert(s, it) \in Seq(ItemType)
             /\ Len(Insert(s, it)) = Len(s) + 1
             /\ \A k \in 1 .. p - 1 : Insert(s, it)[k] = s[k] /\ s[k].expire <= it.expire
             /\ Insert(s, it)[p] = it
             /\ \A k \in p + 1 .. Len(s) + 1 : Insert(s, it)[k] = s[k - 1]
             /\ p <= Len(s) => s[p].expire > it.expire
  <1> DEFINE n == Expired(s, it.expire)
             a == SubSeq(s, 1, n)
             b == SubSeq(s, n + 1, Len(s))
  <1>1. it.expire \in Int /\ Len(s) \in Nat
    BY ItemFields
  <1>2. /\ n \in 0 .. Len(s)
        /\ \A i \in 1 .. n : s[i].expire <= it.expire
        /\ n < Len(s) => s[n + 1].expire > it.expire
    BY <1>1, ExpiredFacts
  <1>3. Insert(s, it) = a \o <<it>> \o b
    BY DEF Insert
  <1> HIDE DEF n
  <1>4. /\ a \in Seq(ItemType) /\ Len(a) = n
        /\ \A k \in 1 .. n : a[k] = s[k]
    BY <1>1, <1>2
  <1>5. /\ b \in Seq(ItemType) /\ Len(b) = Len(s) - n
        /\ \A k \in 1 .. Len(s) - n : b[k] = s[n + k]
    BY <1>1, <1>2
  <1> HIDE DEF a, b
  <1>6. /\ a \o <<it>> \in Seq(ItemType) /\ Len(a \o <<it>>) = n + 1
        /\ \A k \in 1 .. n : (a \o <<it>>)[k] = a[k]
        /\ (a \o <<it>>)[n + 1] = it
    BY <1>1, <1>2, <1>4
  <1> DEFINE c == a \o <<it>>
  <1> HIDE DEF c
  <1>7. /\ c \o b \in Seq(ItemType) /\ Len(c \o b) = Len(s) + 1
        /\ \A k \in 1 .. n + 1 : (c \o b)[k] = c[k]
        /\ \A k \in n + 2 .. Len(s) + 1 : (c \o b)[k] = b[k - (n + 1)]
    <2>1. c \in Seq(ItemType) /\ Len(c) = n + 1
      BY <1>6 DEF c
    <2>2. b \in Seq(ItemType) /\ Len(b) = Len(s) - n
      BY <1>5
    <2>3. n \in Nat /\ Len(s) \in Nat /\ n <= Len(s)
      BY <1>1, <1>2
    <2>4. c \o b \in Seq(ItemType) /\ Len(c \o b) = Len(s) + 1
      BY <2>1, <2>2, <2>3
    <2>5. \A k \in 1 .. Len(s) + 1 : (c \o b)[k] = IF k <= n + 1 THEN c[k]
                                                   ELSE b[k - (n + 1)]
      BY <2>1, <2>2, <2>3
    <2> QED BY <2>3, <2>4, <2>5
  <1>8. \A k \in n + 2 .. Len(s) + 1 : (c \o b)[k] = s[k - 1]
    <2> TAKE k \in n + 2 .. Len(s) + 1
    <2>1. k - (n + 1) \in 1 .. Len(s) - n /\ n + (k - (n + 1)) = k - 1
      BY <1>1, <1>2
    <2> QED BY <1>5, <1>7, <2>1
  <1>9. \A k \in 1 .. n : (c \o b)[k] = s[k]
    BY <1>2, <1>4, <1>6, <1>7 DEF c
  <1>10. (c \o b)[n + 1] = it
    BY <1>2, <1>6, <1>7 DEF c
  <1>11. Insert(s, it) = c \o b
    BY <1>3 DEF c
  <1>12. n + 1 \in 1 .. Len(s) + 1 /\ (n + 1) - 1 = n /\ (n + 1) + 1 = n + 2
         /\ (n + 1 <= Len(s) <=> n < Len(s))
    BY <1>1, <1>2
  <1> DEFINE r == Insert(s, it)
             p == n + 1
  <1>13. /\ r \in Seq(ItemType) /\ Len(r) = Len(s) + 1
         /\ \A k \in 1 .. p - 1 : r[k] = s[k] /\ s[k].expire <= it.expire
         /\ r[p] = it
         /\ \A k \in p + 1 .. Len(s) + 1 : r[k] = s[k - 1]
         /\ p <= Len(s) => s[p].expire > it.expire
    BY <1>2, <1>7, <1>8, <1>9, <1>10, <1>11, <1>12
  <1> HIDE DEF r, p
  <1> QED
    BY <1>12, <1>13 DEF r, p

\* _insertUtimerItem: the newest item of all takes its place.
LEMMA PlacedInsert ==
    ASSUME NEW f, NEW t, NEW s, NEW gone, NEW n \in Nat, Placed(f, t, s, gone, n),
           NEW it \in ItemType, it.id = n + 1
    PROVE  Placed(f, t, Insert(s, it), gone, n + 1) /\ Insert(s, it) # <<>>
  <1> DEFINE r == Insert(s, it)
  <1>1. /\ f \in Seq(ItemType) /\ t \in Seq(ItemType) /\ s \in Seq(ItemType)
        /\ Within(f) /\ Within(t) /\ Within(s)
        /\ Across(f, t) /\ Across(f, s) /\ Across(t, s) /\ Sorted(s)
        /\ gone \cap (Ids(f) \cup Ids(t) \cup Ids(s)) = {}
        /\ gone \cup Ids(f) \cup Ids(t) \cup Ids(s) = 1 .. n
    BY DEF Placed
  <1>2. PICK p \in 1 .. Len(s) + 1 :
             /\ r \in Seq(ItemType) /\ Len(r) = Len(s) + 1
             /\ \A k \in 1 .. p - 1 : r[k] = s[k] /\ s[k].expire <= it.expire
             /\ r[p] = it
             /\ \A k \in p + 1 .. Len(s) + 1 : r[k] = s[k - 1]
             /\ p <= Len(s) => s[p].expire > it.expire
    BY <1>1, InsertFacts
  <1> HIDE DEF r
  <1>3. /\ DOMAIN s = 1 .. Len(s) /\ Len(s) \in Nat /\ DOMAIN r = 1 .. Len(s) + 1
        /\ \A i \in 1 .. Len(s) : s[i] \in ItemType
    BY <1>1, <1>2
  <1> DEFINE o(k) == IF k < p THEN k ELSE k - 1
  <1>4. /\ \A k \in 1 .. Len(s) + 1 : k # p => o(k) \in 1 .. Len(s) /\ r[k] = s[o(k)]
        /\ \A k \in 1 .. Len(s) + 1 : k # p => (k < p <=> o(k) < p)
        /\ \A j, k \in 1 .. Len(s) + 1 : j < k /\ j # p /\ k # p => o(j) < o(k)
    <2>1. \A k \in 1 .. Len(s) + 1 : k # p => o(k) \in 1 .. Len(s)
      BY <1>3
    <2>2. ASSUME NEW k \in 1 .. Len(s) + 1, k # p PROVE r[k] = s[o(k)]
      <3>1. CASE k < p
        BY <1>2, <1>3, <3>1, k \in 1 .. p - 1
      <3>2. CASE k > p
        BY <1>2, <1>3, <3>2, k \in p + 1 .. Len(s) + 1
      <3> QED BY <1>3, <2>2, <3>1, <3>2
    <2>3. \A k \in 1 .. Len(s) + 1 : k # p => (k < p <=> o(k) < p)
      BY <1>3
    <2>4. \A j, k \in 1 .. Len(s) + 1 : j < k /\ j # p /\ k # p => o(j) < o(k)
      BY <1>3
    <2> HIDE DEF o
    <2> QED BY <2>1, <2>2, <2>3, <2>4
  <1>5. \A i \in 1 .. Len(s) : \E k \in 1 .. Len(s) + 1 : k # p /\ o(k) = i
    <2> TAKE i \in 1 .. Len(s)
    <2>1. CASE i < p
      BY <1>3, <2>1, i \in 1 .. Len(s) + 1
    <2>2. CASE ~ (i < p)
      BY <1>3, <2>2, i + 1 \in 1 .. Len(s) + 1
    <2> QED BY <2>1, <2>2
  <1> HIDE DEF o
  <1>6. Ids(r) = Ids(s) \cup {n + 1}
    <2>1. \A k \in 1 .. Len(s) + 1 : r[k].id \in Ids(s) \cup {n + 1}
      BY <1>2, <1>3, <1>4 DEF Ids
    <2>2. \A i \in 1 .. Len(s) : s[i].id \in Ids(r)
      BY <1>3, <1>4, <1>5 DEF Ids
    <2>3. n + 1 \in Ids(r)
      BY <1>2, <1>3 DEF Ids
    <2> QED BY <1>3, <2>1, <2>2, <2>3 DEF Ids
  <1>7. \A x \in ItemType : x.id \in 1 .. n => Precedes(x, it)
    BY ItemFields DEF Precedes
  <1>8. \A x \in ItemType : x.id \in 1 .. n /\ x.expire > it.expire => Precedes(it, x)
    BY ItemFields DEF Precedes
  <1>9. \A i \in 1 .. Len(s) : s[i].id \in 1 .. n
    BY <1>1, <1>3 DEF Ids
  <1>10. \A i \in 1 .. Len(s) : ~ (i < p) => s[i].expire > it.expire
    <2> SUFFICES ASSUME NEW i \in 1 .. Len(s), ~ (i < p) PROVE s[i].expire > it.expire
      OBVIOUS
    <2>1. p \in 1 .. Len(s) /\ s[p].expire > it.expire
      BY <1>2, <1>3
    <2>2. i = p \/ s[p].expire <= s[i].expire
      BY <1>1, <1>3, <2>1 DEF Sorted
    <2>3. s[i].expire \in Nat /\ s[p].expire \in Nat /\ it.expire \in Nat
      BY <1>3, <2>1, ItemFields
    <2> QED BY <2>1, <2>2, <2>3
  <1>11. Within(r)
    <2> SUFFICES ASSUME NEW j \in 1 .. Len(s) + 1, NEW k \in 1 .. Len(s) + 1, j < k
                 PROVE  Precedes(r[j], r[k])
      BY <1>3 DEF Within
    <2>1. CASE j # p /\ k # p
      BY <1>1, <1>3, <1>4, <2>1 DEF Within
    <2>2. CASE k = p
      <3>1. o(j) \in 1 .. Len(s) /\ r[j] = s[o(j)] /\ r[k] = it
        BY <1>2, <1>3, <1>4, <2>2
      <3> QED BY <1>3, <1>7, <1>9, <3>1
    <2>3. CASE j = p
      <3>1. o(k) \in 1 .. Len(s) /\ r[k] = s[o(k)] /\ r[j] = it /\ ~ (o(k) < p)
        BY <1>2, <1>3, <1>4, <2>3
      <3> QED BY <1>3, <1>8, <1>9, <1>10, <3>1
    <2> QED BY <2>1, <2>2, <2>3
  <1>12. Sorted(r)
    <2> SUFFICES ASSUME NEW j \in 1 .. Len(s) + 1, NEW k \in 1 .. Len(s) + 1, j < k
                 PROVE  r[j].expire <= r[k].expire
      BY <1>3 DEF Sorted
    <2>1. CASE j # p /\ k # p
      BY <1>1, <1>3, <1>4, <2>1 DEF Sorted
    <2>2. CASE k = p
      BY <1>2, <1>3, <2>2, j \in 1 .. p - 1
    <2>3. CASE j = p
      <3>1. o(k) \in 1 .. Len(s) /\ r[k] = s[o(k)] /\ r[j] = it /\ ~ (o(k) < p)
        BY <1>2, <1>3, <1>4, <2>3
      <3>2. s[o(k)].expire > it.expire /\ s[o(k)].expire \in Nat /\ it.expire \in Nat
        BY <1>3, <1>10, <3>1, ItemFields
      <3> QED BY <3>1, <3>2
    <2> QED BY <2>1, <2>2, <2>3
  <1>13. ASSUME NEW u \in Seq(ItemType), Across(u, s), Ids(u) \subseteq 1 .. n
         PROVE  Across(u, r)
    <2> SUFFICES ASSUME NEW i \in DOMAIN u, NEW k \in 1 .. Len(s) + 1
                 PROVE  Precedes(u[i], r[k])
      BY <1>3 DEF Across
    <2>1. u[i] \in ItemType /\ u[i].id \in 1 .. n
      BY <1>13 DEF Ids
    <2>2. CASE k = p
      BY <1>2, <1>7, <2>1, <2>2
    <2>3. CASE k # p
      BY <1>3, <1>4, <1>13, <2>3 DEF Across
    <2> QED BY <2>2, <2>3
  <1>14. Across(f, r) /\ Across(t, r)
    <2>1. Ids(f) \subseteq 1 .. n /\ Ids(t) \subseteq 1 .. n
      BY <1>1
    <2> QED BY <1>1, <1>13, <2>1
  <1>15. /\ gone \cap (Ids(f) \cup Ids(t) \cup Ids(r)) = {}
         /\ gone \cup Ids(f) \cup Ids(t) \cup Ids(r) = 1 .. n + 1
    <2>1. n + 1 \notin 1 .. n /\ 1 .. n + 1 = (1 .. n) \cup {n + 1}
      OBVIOUS
    <2> QED BY <1>1, <1>6, <2>1
  <1>16. r # <<>>
    BY <1>2, <1>3
  <1>17. Placed(f, t, r, gone, n + 1)
    BY <1>1, <1>2, <1>11, <1>12, <1>14, <1>15, Zenon DEF Placed
  <1> QED
    BY <1>16, <1>17 DEF r

\* r is what is left of the first m items of s without those that carry d.
Keeps(r, s, m, d) ==
    /\ r \in Seq(ItemType)
    /\ \E g \in [1 .. Len(r) -> 1 .. m] :
         /\ \A p, q \in 1 .. Len(r) : p < q => g[p] < g[q]
         /\ \A p \in 1 .. Len(r) : r[p] = s[g[p]] /\ s[g[p]].data # d
         /\ \A i \in 1 .. m : s[i].data # d => \E p \in 1 .. Len(r) : g[p] = i

\* The walk of _removeUtimerItem goes past one more item.
LEMMA KeepsStep ==
    ASSUME NEW s \in Seq(ItemType), NEW d, NEW m \in 1 .. Len(s), NEW r,
           Keeps(r, s, m - 1, d)
    PROVE  /\ s[m].data = d => Keeps(r, s, m, d)
           /\ s[m].data # d => Keeps(Append(r, s[m]), s, m, d)
  <1>1. Len(s) \in Nat /\ s[m] \in ItemType
    OBVIOUS
  <1>2. r \in Seq(ItemType) /\ Len(r) \in Nat
    BY DEF Keeps
  <1>3. PICK g \in [1 .. Len(r) -> 1 .. m - 1] :
         /\ \A p, q \in 1 .. Len(r) : p < q => g[p] < g[q]
         /\ \A p \in 1 .. Len(r) : r[p] = s[g[p]] /\ s[g[p]].data # d
         /\ \A i \in 1 .. m - 1 : s[i].data # d => \E p \in 1 .. Len(r) : g[p] = i
    BY DEF Keeps
  <1>4. \A i \in 1 .. m : i \in 1 .. m - 1 \/ i = m
    BY <1>1
  <1>5. ASSUME s[m].data = d PROVE Keeps(r, s, m, d)
    <2>1. g \in [1 .. Len(r) -> 1 .. m]
      BY <1>1, <1>3
    <2>2. \A i \in 1 .. m : s[i].data # d => \E p \in 1 .. Len(r) : g[p] = i
      BY <1>3, <1>4, <1>5
    <2> QED BY <1>2, <1>3, <2>1, <2>2, Zenon DEF Keeps
  <1>6. ASSUME s[m].data # d PROVE Keeps(Append(r, s[m]), s, m, d)
    <2> DEFINE r1 == Append(r, s[m])
               L  == Len(r) + 1
               h  == [p \in 1 .. L |-> IF p = L THEN m ELSE g[p]]
    <2>1. /\ r1 \in Seq(ItemType) /\ Len(r1) = L
          /\ \A p \in 1 .. Len(r) : r1[p] = r[p]
          /\ r1[L] = s[m]
      BY <1>1, <1>2
    <2>2. /\ \A p \in 1 .. L : p \in 1 .. Len(r) \/ p = L
          /\ \A p \in 1 .. Len(r) : p \in 1 .. L /\ p # L /\ p < L
          /\ L \in 1 .. L /\ L \in Nat
      BY <1>2
    <2>3. h[L] = m /\ \A p \in 1 .. Len(r) : h[p] = g[p] /\ g[p] \in 1 .. m - 1
      BY <1>3, <2>2
    <2>4. h \in [1 .. L -> 1 .. m]
      BY <1>1, <1>3, <2>2
    <2> HIDE DEF h, L, r1
    <2>5. ASSUME NEW p \in 1 .. L, NEW q \in 1 .. L, p < q PROVE h[p] < h[q]
      <3>1. p \in 1 .. Len(r)
        BY <2>2, <2>5
      <3>2. CASE q = L
        BY <1>1, <2>3, <3>1, <3>2
      <3>3. CASE q \in 1 .. Len(r)
        BY <1>3, <2>3, <2>5, <3>1, <3>3
      <3> QED BY <2>2, <3>2, <3>3
    <2>6. \A p \in 1 .. L : r1[p] = s[h[p]] /\ s[h[p]].data # d
      BY <1>3, <1>6, <2>1, <2>2, <2>3
    <2>7. ASSUME NEW i \in 1 .. m, s[i].data # d PROVE \E p \in 1 .. L : h[p] = i
      <3>1. CASE i = m
        BY <2>2, <2>3, <3>1
      <3>2. CASE i \in 1 .. m - 1
        <4>1. PICK p \in 1 .. Len(r) : g[p] = i
          BY <1>3, <2>7, <3>2
        <4> QED BY <2>2, <2>3, <4>1
      <3> QED BY <1>4, <3>1, <3>2
    <2>8. Keeps(r1, s, m, d)
      <3>1. h \in [1 .. Len(r1) -> 1 .. m]
        BY <2>1, <2>4, Zenon
      <3>2. \A p, q \in 1 .. Len(r1) : p < q => h[p] < h[q]
        BY <2>1, <2>5, Zenon
      <3>3. \A p \in 1 .. Len(r1) : r1[p] = s[h[p]] /\ s[h[p]].data # d
        BY <2>1, <2>6, Zenon
      <3>4. \A i \in 1 .. m : s[i].data # d => \E p \in 1 .. Len(r1) : h[p] = i
        BY <2>1, <2>7, Zenon
      <3> QED BY <2>1, <3>1, <3>2, <3>3, <3>4, Zenon DEF Keeps
    <2> QED BY <2>8 DEF r1
  <1> QED
    BY <1>5, <1>6

\* The walk is defined at every position of the list.
LEMMA KeptWalk ==
    ASSUME NEW s \in Seq(ItemType), NEW d
    PROVE  Kept(s, d) = [n \in 0 .. Len(s) |->
                           IF n = 0 THEN <<>>
                           ELSE IF s[n].data = d THEN Kept(s, d)[n - 1]
                                ELSE Append(Kept(s, d)[n - 1], s[n])]
  <1> DEFINE Step(f, n) == IF n = 0 THEN <<>>
                           ELSE IF s[n].data = d THEN f[n - 1]
                                ELSE Append(f[n - 1], s[n])
             Walk(f, m) == f = [n \in 0 .. m |-> Step(f, n)]
             T == {m \in 0 .. Len(s) : ~ \E f : Walk(f, m)}
  <1>1. Len(s) \in Nat
    OBVIOUS
  <1>2. Walk([n \in 0 .. 0 |-> <<>>], 0)
    OBVIOUS
  <1>3. ASSUME NEW m \in 1 .. Len(s), NEW g, Walk(g, m - 1)
        PROVE  \E f : Walk(f, m)
    <2> DEFINE f == [n \in 0 .. m |-> IF n = m THEN Step(g, m) ELSE g[n]]
    <2>1. \A n \in 0 .. m : n = m \/ n \in 0 .. m - 1
      BY <1>1
    <2>2. \A n \in 0 .. m - 1 : n \in 0 .. m /\ n # m /\ (n # 0 => n - 1 \in 0 .. m - 1)
      BY <1>1
    <2>3. m \in 0 .. m /\ m # 0 /\ m - 1 \in 0 .. m - 1
      BY <1>1
    <2>4. \A n \in 0 .. m - 1 : f[n] = g[n] /\ g[n] = Step(g, n)
      BY <1>3, <2>2
    <2>5. f[m] = Step(g, m)
      BY <2>3
    <2> HIDE DEF f
    <2>6. \A n \in 0 .. m : f[n] = Step(f, n)
      BY <2>1, <2>2, <2>3, <2>4, <2>5
    <2>7. f = [n \in 0 .. m |-> f[n]]
      BY DEF f
    <2>8. Walk(f, m)
      BY <2>6, <2>7
    <2> QED BY <2>8
  <1>4. T = {}
    <2> SUFFICES ASSUME T # {} PROVE FALSE
      OBVIOUS
    <2>1. T \subseteq Nat
      BY <1>1
    <2>2. PICK m \in T : \A k \in T : m <= k
      <3> HIDE DEF T
      <3> QED BY <2>1, LeastElement
    <2>3. m \in 0 .. Len(s) /\ ~ \E f : Walk(f, m)
      BY <2>2
    <2> HIDE DEF Walk
    <2>4. m # 0
      BY <1>2, <2>3
    <2>5. m \in 1 .. Len(s) /\ m - 1 \in 0 .. Len(s) /\ m - 1 < m
      BY <1>1, <2>3, <2>4
    <2>6. m - 1 \notin T
      BY <2>1, <2>2, <2>5
    <2>7. \E g : Walk(g, m - 1)
      BY <2>5, <2>6
    <2> QED BY <1>3, <2>3, <2>5, <2>7
  <1>5. \E f : Walk(f, Len(s))
    <2> HIDE DEF Walk
    <2> QED BY <1>1, <1>4
  <1>6. Kept(s, d) = CHOOSE f : Walk(f, Len(s))
    BY Zenon DEF Kept
  <1>7. Walk(Kept(s, d), Len(s))
    <2> HIDE DEF Walk
    <2> QED BY <1>5, <1>6, Zenon
  <1> QED
    BY <1>7

\* What the walk has kept of the whole list.
LEMMA KeptFacts ==
    ASSUME NEW s \in Seq(ItemType), NEW d
    PROVE  Keeps(Kept(s, d)[Len(s)], s, Len(s), d)
  <1> DEFINE k == Kept(s, d)
             T == {m \in 0 .. Len(s) : ~ Keeps(k[m], s, m, d)}
  <1>1. Len(s) \in Nat
    OBVIOUS
  <1>2. k = [n \in 0 .. Len(s) |->
               IF n = 0 THEN <<>>
               ELSE IF s[n].data = d THEN k[n - 1] ELSE Append(k[n - 1], s[n])]
    BY KeptWalk
  <1> HIDE DEF k
  <1>3. k[0] = <<>>
    BY <1>1, <1>2
  <1>4. \A m \in 1 .. Len(s) : k[m] = IF s[m].data = d THEN k[m - 1]
                                      ELSE Append(k[m - 1], s[m])
    <2> TAKE m \in 1 .. Len(s)
    <2>1. m \in 0 .. Len(s) /\ m # 0
      BY <1>1
    <2> QED BY <1>2, <2>1
  <1>5. Keeps(<<>>, s, 0, d)
    <2> DEFINE e == [p \in 1 .. 0 |-> 1]
    <2>1. <<>> \in Seq(ItemType) /\ Len(<<>>) = 0 /\ 1 .. 0 = {}
      OBVIOUS
    <2>2. e \in [1 .. Len(<<>>) -> 1 .. 0]
      BY <2>1
    <2> HIDE DEF e
    <2> QED BY <2>1, <2>2 DEF Keeps
  <1>6. T = {}
    <2> SUFFICES ASSUME T # {} PROVE FALSE
      OBVIOUS
    <2>1. T \subseteq Nat
      BY <1>1
    <2>2. PICK m \in T : \A j \in T : m <= j
      <3> HIDE DEF T
      <3> QED BY <2>1, LeastElement
    <2>3. m \in 0 .. Len(s) /\ ~ Keeps(k[m], s, m, d)
      BY <2>2
    <2>4. m # 0
      BY <1>3, <1>5, <2>3
    <2>5. m \in 1 .. Len(s) /\ m - 1 \in 0 .. Len(s) /\ m - 1 < m
      BY <1>1, <2>3, <2>4
    <2>6. m - 1 \notin T
      BY <2>1, <2>2, <2>5
    <2>7. Keeps(k[m - 1], s, m - 1, d)
      BY <2>5, <2>6
    <2>8. /\ s[m].data = d => Keeps(k[m - 1], s, m, d)
          /\ s[m].data # d => Keeps(Append(k[m - 1], s[m]), s, m, d)
      BY <2>5, <2>7, KeepsStep
    <2> QED BY <1>4, <2>3, <2>5, <2>8
  <1>7. Len(s) \in 0 .. Len(s)
    BY <1>1
  <1>8. Keeps(k[Len(s)], s, Len(s), d)
    BY <1>6, <1>7
  <1> QED
    BY <1>8 DEF k

\* _removeUtimerItem: the items with this data are gone, the others stay in
\* order, and none of them comes before the old head of the list.
LEMMA PlacedKept ==
    ASSUME NEW f, NEW t, NEW s, NEW gone, NEW n \in Nat, Placed(f, t, s, gone, n),
           NEW d
    PROVE  LET r == Kept(s, d)[Len(s)]
           IN  /\ Placed(f, t, r, gone \cup IdsWith(s, d), n)
               /\ r # <<>> => s # <<>> /\ s[1].expire <= r[1].expire
               /\ IdsWith(s, d) \subseteq 1 .. n
  <1> DEFINE r == Kept(s, d)[Len(s)]
  <1>1. /\ f \in Seq(ItemType) /\ t \in Seq(ItemType) /\ s \in Seq(ItemType)
        /\ Within(f) /\ Within(t) /\ Within(s)
        /\ Across(f, t) /\ Across(f, s) /\ Across(t, s) /\ Sorted(s)
        /\ gone \cap (Ids(f) \cup Ids(t) \cup Ids(s)) = {}
        /\ gone \cup Ids(f) \cup Ids(t) \cup Ids(s) = 1 .. n
    BY DEF Placed
  <1>2. Keeps(r, s, Len(s), d)
    BY <1>1, KeptFacts
  <1> HIDE DEF r
  <1>3. r \in Seq(ItemType) /\ Len(r) \in Nat /\ DOMAIN r = 1 .. Len(r)
        /\ DOMAIN s = 1 .. Len(s) /\ Len(s) \in Nat
        /\ \A i \in 1 .. Len(s) : s[i] \in ItemType
    BY <1>1, <1>2 DEF Keeps
  <1>4. PICK g \in [1 .. Len(r) -> 1 .. Len(s)] :
         /\ \A p, q \in 1 .. Len(r) : p < q => g[p] < g[q]
         /\ \A p \in 1 .. Len(r) : r[p] = s[g[p]] /\ s[g[p]].data # d
         /\ \A i \in 1 .. Len(s) : s[i].data # d => \E p \in 1 .. Len(r) : g[p] = i
    BY <1>2 DEF Keeps
  <1>5. \A p \in 1 .. Len(r) : g[p] \in 1 .. Len(s)
    BY <1>4
  <1>6. Within(r)
    BY <1>1, <1>3, <1>4, <1>5 DEF Within
  <1>7. Sorted(r)
    BY <1>1, <1>3, <1>4, <1>5 DEF Sorted
  <1>8. Across(f, r) /\ Across(t, r)
    BY <1>1, <1>3, <1>4, <1>5 DEF Across
  <1>9. Ids(r) \cup IdsWith(s, d) = Ids(s)
    <2>1. \A x \in Ids(r) : x \in Ids(s)
      BY <1>3, <1>4, <1>5 DEF Ids
    <2>2. \A x \in IdsWith(s, d) : x \in Ids(s)
      BY DEF Ids, IdsWith
    <2>3. ASSUME NEW i \in 1 .. Len(s) PROVE s[i].id \in Ids(r) \cup IdsWith(s, d)
      <3>1. CASE s[i].data = d
        BY <1>3, <3>1 DEF IdsWith
      <3>2. CASE s[i].data # d
        BY <1>3, <1>4, <3>2 DEF Ids
      <3> QED BY <3>1, <3>2
    <2>4. \A x \in Ids(s) : \E i \in 1 .. Len(s) : x = s[i].id
      BY <1>3 DEF Ids
    <2> QED BY <2>1, <2>2, <2>3, <2>4
  <1>10. ASSUME NEW i \in 1 .. Len(s), NEW j \in 1 .. Len(s), i # j
         PROVE  s[i].id # s[j].id
    <2>1. i < j \/ j < i
      BY <1>3, <1>10
    <2> QED BY <1>1, <1>3, <2>1 DEF Within, Precedes
  <1>11. Ids(r) \cap IdsWith(s, d) = {}
    <2> SUFFICES ASSUME NEW x \in Ids(r), x \in IdsWith(s, d) PROVE FALSE
      OBVIOUS
    <2>1. PICK p \in 1 .. Len(r) : x = r[p].id
      BY <1>3 DEF Ids
    <2>2. PICK i \in 1 .. Len(s) : x = s[i].id /\ s[i].data = d
      BY <1>3 DEF IdsWith
    <2>3. g[p] \in 1 .. Len(s) /\ s[g[p]].id = s[i].id
      BY <1>4, <1>5, <2>1, <2>2
    <2>4. g[p] = i
      BY <1>10, <2>3
    <2> QED BY <1>4, <2>2, <2>4
  <1>12. Ids(f) \cap Ids(s) = {} /\ Ids(t) \cap Ids(s) = {}
    BY <1>1 DEF Ids, Across, Precedes
  <1>13. /\ (gone \cup IdsWith(s, d)) \cap (Ids(f) \cup Ids(t) \cup Ids(r)) = {}
         /\ (gone \cup IdsWith(s, d)) \cup Ids(f) \cup Ids(t) \cup Ids(r) = 1 .. n
         /\ IdsWith(s, d) \subseteq 1 .. n
    BY <1>1, <1>9, <1>11, <1>12
  <1>14. Placed(f, t, r, gone \cup IdsWith(s, d), n)
    BY <1>1, <1>3, <1>6, <1>7, <1>8, <1>13, Zenon DEF Placed
  <1>15. ASSUME r # <<>> PROVE s # <<>> /\ s[1].expire <= r[1].expire
    <2>1. 1 \in 1 .. Len(r)
      BY <1>3, <1>15
    <2>2. g[1] \in 1 .. Len(s) /\ r[1] = s[g[1]]
      BY <1>4, <1>5, <2>1
    <2>3. 1 \in 1 .. Len(s) /\ s # <<>>
      BY <1>3, <2>2
    <2>4. g[1] = 1 \/ 1 < g[1]
      BY <2>2
    <2>5. s[1].expire \in Nat
      BY <1>3, <2>3, ItemFields
    <2>6. CASE g[1] = 1
      BY <2>2, <2>3, <2>5, <2>6
    <2>7. CASE 1 < g[1]
      <3>1. s[1].expire <= s[g[1]].expire
        BY <1>1, <1>3, <2>2, <2>3, <2>7 DEF Sorted
      <3> QED BY <2>2, <2>3, <3>1
    <2> QED BY <2>4, <2>6, <2>7
  <1> QED
    BY <1>13, <1>14, <1>15 DEF r

\* _checkUtimer: the head of the list becomes the list of collected items.
LEMMA PlacedCollect ==
    ASSUME NEW f, NEW s, NEW gone, NEW n \in Nat, Placed(f, <<>>, s, gone, n),
           NEW m \in 0 .. Len(s)
    PROVE  LET a == SubSeq(s, 1, m)
               b == SubSeq(s, m + 1, Len(s))
           IN  /\ Placed(f, a, b, gone, n)
               /\ \A i \in DOMAIN a : i \in 1 .. m /\ a[i] = s[i]
               /\ b # <<>> => m < Len(s) /\ b[1] = s[m + 1]
  <1> DEFINE a == SubSeq(s, 1, m)
             b == SubSeq(s, m + 1, Len(s))
  <1>1. /\ f \in Seq(ItemType) /\ s \in Seq(ItemType)
        /\ Within(f) /\ Within(s) /\ Across(f, s) /\ Sorted(s)
        /\ gone \cap (Ids(f) \cup Ids(<<>>) \cup Ids(s)) = {}
        /\ gone \cup Ids(f) \cup Ids(<<>>) \cup Ids(s) = 1 .. n
    BY DEF Placed
  <1>2. Len(s) \in Nat /\ DOMAIN s = 1 .. Len(s)
    BY <1>1
  <1>3. /\ a \in Seq(ItemType) /\ DOMAIN a = 1 .. m
        /\ \A i \in 1 .. m : a[i] = s[i]
    BY <1>1, <1>2
  <1>4. /\ b \in Seq(ItemType) /\ DOMAIN b = 1 .. Len(s) - m /\ Len(b) = Len(s) - m
        /\ \A i \in 1 .. Len(s) - m : b[i] = s[m + i]
    <2>1. /\ b \in Seq(ItemType) /\ Len(b) = Len(s) - m
          /\ \A i \in 1 .. Len(s) - m : b[i] = s[m + i]
      <3>1. s \in Seq(ItemType) /\ Len(s) \in Nat
        BY <1>1
      <3> QED BY <3>1
    <2> HIDE DEF b
    <2> QED BY <2>1
  <1> HIDE DEF a, b
  <1>5. /\ \A i \in 1 .. m : i \in 1 .. Len(s)
        /\ \A i \in 1 .. Len(s) - m : m + i \in 1 .. Len(s)
        /\ \A i \in 1 .. m, j \in 1 .. Len(s) - m : i < m + j
        /\ \A i, j \in 1 .. Len(s) - m : i < j => m + i < m + j
    BY <1>2
  <1>6. Within(a)
    BY <1>1, <1>2, <1>3, <1>5 DEF Within
  <1>7. Within(b)
    BY <1>1, <1>2, <1>4, <1>5 DEF Within
  <1>8. Sorted(b)
    BY <1>1, <1>2, <1>4, <1>5 DEF Sorted
  <1>9. Across(a, b)
    BY <1>1, <1>2, <1>3, <1>4, <1>5 DEF Across, Within
  <1>10. Across(f, a)
    BY <1>1, <1>2, <1>3, <1>5 DEF Across
  <1>11. Across(f, b)
    BY <1>1, <1>2, <1>4, <1>5 DEF Across
  <1>12. Ids(s) = Ids(a) \cup Ids(b)
    <2>1. \A x \in Ids(a) : x \in Ids(s)
      BY <1>2, <1>3, <1>5 DEF Ids
    <2>2. \A x \in Ids(b) : x \in Ids(s)
      BY <1>2, <1>4, <1>5 DEF Ids
    <2>3. ASSUME NEW i \in 1 .. Len(s) PROVE s[i].id \in Ids(a) \cup Ids(b)
      <3>1. CASE i \in 1 .. m
        BY <1>3, <3>1 DEF Ids
      <3>2. CASE i \notin 1 .. m
        <4>1. i - m \in 1 .. Len(s) - m /\ m + (i - m) = i
          BY <1>2, <3>2
        <4> QED BY <1>4, <4>1 DEF Ids
      <3> QED BY <3>1, <3>2
    <2>4. \A x \in Ids(s) : \E i \in 1 .. Len(s) : x = s[i].id
      BY <1>2 DEF Ids
    <2> QED BY <2>1, <2>2, <2>3, <2>4
  <1>13. Ids(<<>>) = {}
    BY DEF Ids
  <1>14. /\ gone \cap (Ids(f) \cup Ids(a) \cup Ids(b)) = {}
         /\ gone \cup Ids(f) \cup Ids(a) \cup Ids(b) = 1 .. n
    BY <1>1, <1>12, <1>13
  <1>15. Placed(f, a, b, gone, n)
    BY <1>1, <1>3, <1>4, <1>6, <1>7, <1>8, <1>9, <1>10, <1>11, <1>14, Zenon DEF Placed
  <1>16. b # <<>> => m < Len(s) /\ b[1] = s[m + 1]
    BY <1>2, <1>4
  <1> QED
    BY <1>3, <1>15, <1>16 DEF a, b

\* _destroyUtimerItems: the callback of the first collected item.
LEMMA PlacedFire ==
    ASSUME NEW f, NEW t, NEW s, NEW gone, NEW n \in Nat, Placed(f, t, s, gone, n),
           t # <<>>
    PROVE  /\ Placed(Append(f, Head(t)), Tail(t), s, gone, n)
           /\ Head(t) \in ItemType
           /\ \A i \in DOMAIN Tail(t) : \E j \in DOMAIN t : Tail(t)[i] = t[j]
  <1> DEFINE h == Append(f, Head(t))
             u == Tail(t)
  <1>1. /\ f \in Seq(ItemType) /\ t \in Seq(ItemType) /\ s \in Seq(ItemType)
        /\ Within(f) /\ Within(t) /\ Within(s)
        /\ Across(f, t) /\ Across(f, s) /\ Across(t, s) /\ Sorted(s)
        /\ gone \cap (Ids(f) \cup Ids(t) \cup Ids(s)) = {}
        /\ gone \cup Ids(f) \cup Ids(t) \cup Ids(s) = 1 .. n
    BY DEF Placed
  <1>2. /\ Len(f) \in Nat /\ DOMAIN f = 1 .. Len(f)
        /\ Len(t) \in Nat /\ DOMAIN t = 1 .. Len(t) /\ 1 \in 1 .. Len(t)
        /\ Head(t) = t[1] /\ Head(t) \in ItemType
    BY <1>1
  <1>3. /\ h \in Seq(ItemType) /\ DOMAIN h = 1 .. Len(f) + 1
        /\ \A i \in 1 .. Len(f) : h[i] = f[i]
        /\ h[Len(f) + 1] = t[1]
    BY <1>1, <1>2
  <1>4. /\ u \in Seq(ItemType) /\ DOMAIN u = 1 .. Len(t) - 1
        /\ \A i \in 1 .. Len(t) - 1 : u[i] = t[i + 1]
    BY <1>1, <1>2
  <1> HIDE DEF h, u
  <1>5. /\ \A i \in 1 .. Len(f) + 1 : i \in 1 .. Len(f) \/ i = Len(f) + 1
        /\ \A i \in 1 .. Len(t) - 1 : i + 1 \in 1 .. Len(t) /\ 1 < i + 1
        /\ \A i, j \in 1 .. Len(t) - 1 : i < j => i + 1 < j + 1
        /\ \A i, j \in 1 .. Len(f) + 1 : i < j => i \in 1 .. Len(f)
        /\ Len(f) + 1 \in 1 .. Len(f) + 1
        /\ \A i \in 1 .. Len(f) : i \in 1 .. Len(f) + 1
    BY <1>2
  <1>6. Within(h)
    <2> SUFFICES ASSUME NEW i \in 1 .. Len(f) + 1, NEW j \in 1 .. Len(f) + 1, i < j
                 PROVE  Precedes(h[i], h[j])
      BY <1>3 DEF Within
    <2>1. i \in 1 .. Len(f)
      BY <1>5
    <2>2. CASE j \in 1 .. Len(f)
      BY <1>1, <1>2, <1>3, <2>1, <2>2 DEF Within
    <2>3. CASE j = Len(f) + 1
      BY <1>1, <1>2, <1>3, <2>1, <2>3 DEF Across
    <2> QED BY <1>5, <2>2, <2>3
  <1>7. Within(u)
    BY <1>1, <1>2, <1>4, <1>5 DEF Within
  <1>8. Across(h, u)
    <2> SUFFICES ASSUME NEW i \in 1 .. Len(f) + 1, NEW j \in 1 .. Len(t) - 1
                 PROVE  Precedes(h[i], t[j + 1])
      BY <1>3, <1>4 DEF Across
    <2>1. CASE i \in 1 .. Len(f)
      BY <1>1, <1>2, <1>3, <1>5, <2>1 DEF Across
    <2>2. CASE i = Len(f) + 1
      BY <1>1, <1>2, <1>3, <1>5, <2>2 DEF Within
    <2> QED BY <1>5, <2>1, <2>2
  <1>9. Across(h, s)
    BY <1>1, <1>2, <1>3, <1>5 DEF Across
  <1>10. Across(u, s)
    BY <1>1, <1>2, <1>4, <1>5 DEF Across
  <1>11. Ids(h) = Ids(f) \cup {t[1].id}
    <2>1. \A i \in 1 .. Len(f) + 1 : h[i].id \in Ids(f) \cup {t[1].id}
      BY <1>2, <1>3, <1>5 DEF Ids
    <2>2. \A i \in 1 .. Len(f) : f[i].id \in Ids(h)
      BY <1>3, <1>5 DEF Ids
    <2>3. t[1].id \in Ids(h)
      BY <1>3, <1>5 DEF Ids
    <2>4. \A x \in Ids(h) : x \in Ids(f) \cup {t[1].id}
      BY <1>3, <2>1 DEF Ids
    <2>5. \A x \in Ids(f) : x \in Ids(h)
      BY <1>2, <2>2 DEF Ids
    <2> QED BY <2>3, <2>4, <2>5
  <1>12. Ids(t) = Ids(u) \cup {t[1].id}
    <2>1. \A i \in 1 .. Len(t) - 1 : u[i].id \in Ids(t)
      BY <1>2, <1>4, <1>5 DEF Ids
    <2>2. ASSUME NEW i \in 1 .. Len(t), i # 1 PROVE t[i].id \in Ids(u)
      <3>1. i - 1 \in 1 .. Len(t) - 1 /\ (i - 1) + 1 = i
        BY <1>2, <2>2
      <3> QED BY <1>4, <3>1 DEF Ids
    <2>3. t[1].id \in Ids(t)
      BY <1>2 DEF Ids
    <2>4. \A x \in Ids(u) : x \in Ids(t)
      BY <1>4, <2>1 DEF Ids
    <2>5. \A x \in Ids(t) : x \in Ids(u) \cup {t[1].id}
      BY <1>2, <2>2 DEF Ids
    <2> QED BY <2>3, <2>4, <2>5
  <1>13. /\ gone \cap (Ids(h) \cup Ids(u) \cup Ids(s)) = {}
         /\ gone \cup Ids(h) \cup Ids(u) \cup Ids(s) = 1 .. n
    BY <1>1, <1>11, <1>12
  <1>14. Placed(h, u, s, gone, n)
    BY <1>1, <1>3, <1>4, <1>6, <1>7, <1>8, <1>9, <1>10, <1>13, Zenon DEF Placed
  <1>15. \A i \in DOMAIN u : \E j \in DOMAIN t : u[i] = t[j]
    BY <1>2, <1>4, <1>5
  <1> QED
    BY <1>2, <1>14, <1>15 DEF h, u
-----------------------------------------------------------------------------
(* The inductive invariant. *)

\* There is room for the items being inserted.
Room == added + Cardinality(Inserting) <= MaxItems

\* Items are collected between _checkUtimer's critical section and its end,
\* and had expired when it read the clock.
Collected ==
    /\ chain.at # "fire" => trigger = <<>>
    /\ \A i \in DOMAIN trigger : trigger[i].expire <= chain.current
    /\ chain.current <= now

\* Something ends the sleep of the chain thread in time for the first item, and
\* already did when the block time was computed.
Alarm ==
    /\ chain.at \in {"fire", "select"} /\ items # <<>> =>
         \/ wakeup # <<>>
         \/ \E t \in Threads : thr[t].at = "wakeup"
         \/ chain.current + chain.block <= items[1].expire
    /\ chain.at = "select" => chain.deadline = chain.current + chain.block + chain.lag

Inv ==
    /\ TypeOK
    /\ Placed(fired, trigger, items, removed, added)
    /\ Room
    /\ Collected
    /\ Alarm

\* The lists, and the counter of items.
lists == <<items, trigger, added, fired, removed>>

\* The utimer starts without items.
LEMMA InitInv == Init => Inv
  <1> SUFFICES ASSUME Init PROVE Inv
    OBVIOUS
  <1> USE UtimerAssumption
  <1>1. TypeOK
    <2>1. NoItem \in ItemType
      BY DEF NoItem, Item, ItemType
    <2>2. thr \in [Threads -> ThreadType]
      BY <2>1 DEF Init, ThreadType
    <2>3. chain \in ChainType
      BY DEF Init, ChainType
    <2>4. /\ now \in 0 .. MaxTime /\ added \in 0 .. MaxItems /\ faults \in 0 .. MaxFaults
          /\ removed \subseteq 1 .. MaxItems /\ revoked \subseteq 1 .. MaxItems
          /\ bToTerminate \in BOOLEAN
      <3>1. 0 \in 0 .. MaxTime /\ 0 \in 0 .. MaxItems /\ 0 \in 0 .. MaxFaults
        OBVIOUS
      <3> QED BY <3>1, Zenon DEF Init
    <2>5. /\ items \in Seq(ItemType) /\ trigger \in Seq(ItemType)
          /\ fired \in Seq(ItemType) /\ wakeup \in Seq({"W", "S"})
      <3>1. <<>> \in Seq(ItemType) /\ <<>> \in Seq({"W", "S"})
        OBVIOUS
      <3> QED BY <3>1, Zenon DEF Init
    <2> QED BY <2>2, <2>3, <2>4, <2>5, Zenon DEF TypeOK
  <1>2. Placed(fired, trigger, items, removed, added)
    <2>1. <<>> \in Seq(ItemType) /\ DOMAIN <<>> = {} /\ 1 .. 0 = {}
      OBVIOUS
    <2>2. Ids(<<>>) = {}
      BY DEF Ids
    <2>3. Within(<<>>) /\ Sorted(<<>>) /\ Across(<<>>, <<>>)
      BY <2>1 DEF Within, Sorted, Across
    <2> QED BY <2>1, <2>2, <2>3 DEF Init, Placed
  <1>3. Room
    <2>1. Inserting = {}
      BY DEF Init, Inserting
    <2> QED BY <2>1, FS_EmptySet DEF Init, Room
  <1>4. Collected
    BY DEF Init, Collected
  <1>5. Alarm
    BY DEF Init, Alarm
  <1> QED
    BY <1>1, <1>2, <1>3, <1>4, <1>5 DEF Inv

\* The numbers of the state.
LEMMA Numbers ==
    ASSUME TypeOK
    PROVE  /\ now \in 0 .. MaxTime /\ now \in Nat
           /\ added \in 0 .. MaxItems /\ added \in Nat
           /\ chain.current \in 0 .. MaxTime /\ chain.current \in Nat
           /\ chain.block \in 0 .. MaxWait /\ chain.block \in Nat
           /\ chain.lag \in Nat
           /\ 1 .. added \subseteq 1 .. MaxItems
  <1>1. now \in 0 .. MaxTime /\ added \in 0 .. MaxItems /\ chain \in ChainType
    BY Zenon DEF TypeOK
  <1>2. chain.current \in 0 .. MaxTime /\ chain.block \in 0 .. MaxWait
        /\ chain.lag \in 0 .. MaxTime
    BY <1>1 DEF ChainType
  <1>3. MaxTime \in Nat /\ MaxItems \in Nat /\ MaxWait \in Nat
    BY UtimerAssumption
  <1> QED
    BY <1>1, <1>2, <1>3

\* The threads inside a call.
LEMMA InsertingFacts ==
    ASSUME TypeOK
    PROVE  IsFiniteSet(Inserting) /\ Cardinality(Inserting) \in Nat
  <1>1. Inserting \in SUBSET Threads
    BY DEF Inserting
  <1> QED
    BY <1>1, UtimerAssumption, FS_Subset, FS_CardinalityType

\* Steps that touch no list, counter or thread leave the order, the accounts
\* and the room alone.
LEMMA ListsStay ==
    ASSUME Inv, UNCHANGED lists
    PROVE  /\ Placed(fired, trigger, items, removed, added)'
           /\ UNCHANGED thr => Room'
  <1>1. Placed(fired, trigger, items, removed, added)'
    BY DEF Inv, lists
  <1>2. ASSUME UNCHANGED thr PROVE Room'
    BY <1>2 DEF Inv, lists, Room, Inserting
  <1> QED
    BY <1>1, <1>2

\* Time passes.
LEMMA TickInv == Inv /\ Tick => Inv'
  <1> SUFFICES ASSUME Inv, Tick PROVE Inv'
    OBVIOUS
  <1> USE UtimerAssumption DEF Tick
  <1>1. TypeOK'
    <2>1. now' \in 0 .. MaxTime
      BY DEF Inv, TypeOK
    <2> QED BY <2>1, Zenon DEF Inv, TypeOK
  <1>2. Placed(fired, trigger, items, removed, added)' /\ Room'
    BY ListsStay DEF lists
  <1>3. Collected' /\ Alarm'
    <2>1. now \in Nat /\ now' = now + 1 /\ chain.current \in Nat
      BY Numbers DEF Inv
    <2> QED BY <2>1 DEF Inv, Collected, Alarm
  <1> QED
    BY <1>1, <1>2, <1>3 DEF Inv

\* jf_network_addUtimerItem reads the clock.
LEMMA AddReadClockInv ==
    ASSUME Inv, NEW t \in Threads, NEW d \in Data, NEW delay \in Delays,
           AddReadClock(t, d, delay)
    PROVE  Inv'
  <1> USE UtimerAssumption DEF AddReadClock
  <1>1. TypeOK'
    <2>1. Item(0, d, now + delay) \in ItemType
      BY DEF Inv, TypeOK, Item, ItemType
    <2>2. thr' \in [Threads -> ThreadType]
      BY <2>1 DEF Inv, TypeOK, ThreadType
    <2> QED BY <2>2, Zenon DEF Inv, TypeOK
  <1>2. Placed(fired, trigger, items, removed, added)'
    BY ListsStay DEF lists
  <1>3. Room'
    <2>1. Inserting' = Inserting \cup {t} /\ t \notin Inserting
      BY DEF Inv, TypeOK, Inserting
    <2>2. Cardinality(Inserting') = Cardinality(Inserting) + 1
      BY <2>1, InsertingFacts, FS_AddElement DEF Inv
    <2>3. Cardinality(Inserting) \in Nat
      BY InsertingFacts DEF Inv
    <2>4. added \in Nat /\ added + Cardinality(Inserting) < MaxItems /\ added' = added
      BY Numbers DEF Inv
    <2> QED BY <2>2, <2>3, <2>4 DEF Room
  <1>4. Collected'
    BY DEF Inv, Collected
  <1>5. Alarm'
    BY DEF Inv, TypeOK, Alarm
  <1> QED
    BY <1>1, <1>2, <1>3, <1>4, <1>5 DEF Inv

\* _insertUtimerItem, called by a thread: the wakeup follows.
LEMMA AddInsertInv ==
    ASSUME Inv, NEW t \in Threads, AddInsert(t)
    PROVE  Inv'
  <1> USE UtimerAssumption
  <1> DEFINE it == [thr[t].item EXCEPT !.id = added + 1]
  <1>1. TypeOK /\ thr[t] \in ThreadType
    BY DEF Inv, TypeOK
  <1>2. Inserting' = Inserting \ {t} /\ t \in Inserting
    BY <1>1 DEF TypeOK, Inserting, AddInsert
  <1>3. Cardinality(Inserting') = Cardinality(Inserting) - 1 /\ Cardinality(Inserting) >= 1
    <2>1. Inserting # {}
      BY <1>2
    <2>2. Cardinality(Inserting) # 0
      BY <1>1, <2>1, InsertingFacts, FS_EmptySet
    <2>3. IsFiniteSet(Inserting) /\ Cardinality(Inserting) \in Nat
      BY <1>1, InsertingFacts
    <2>4. Cardinality(Inserting \ {t}) = Cardinality(Inserting) - 1
      BY <1>2, <2>3, FS_RemoveElement
    <2> QED BY <1>2, <2>2, <2>3, <2>4
  <1>4. added' = added + 1 /\ added + 1 \in 0 .. MaxItems /\ added \in Nat
    <2>1. Cardinality(Inserting) \in Nat
      BY <1>1, InsertingFacts
    <2>2. added \in 0 .. MaxItems /\ added + Cardinality(Inserting) <= MaxItems
      BY <1>1 DEF Inv, Room, TypeOK
    <2>3. added' = added + 1
      BY DEF AddInsert
    <2> QED BY <1>3, <2>1, <2>2, <2>3
  <1>5. it \in ItemType /\ it.id = added + 1
    BY <1>1, <1>4 DEF ItemType, ThreadType
  <1> HIDE DEF it
  <1>6. items' = Insert(items, it)
    BY DEF AddInsert, it
  <1>7. Placed(fired, trigger, Insert(items, it), removed, added + 1)
    BY <1>4, <1>5, PlacedInsert DEF Inv
  <1>8. Placed(fired, trigger, items, removed, added)'
    BY <1>4, <1>6, <1>7 DEF AddInsert
  <1>9. TypeOK'
    <2>1. items' \in Seq(ItemType)
      BY <1>6, <1>7 DEF Placed
    <2>2. thr' \in [Threads -> ThreadType]
      <3>1. NoItem \in ItemType
        BY DEF NoItem, Item, ItemType
      <3>2. [at |-> "wakeup", item |-> NoItem] \in ThreadType
        BY <3>1 DEF ThreadType
      <3> QED BY <1>1, <3>2 DEF TypeOK, AddInsert
    <2> QED BY <1>1, <1>4, <2>1, <2>2, Zenon DEF TypeOK, AddInsert
  <1>10. Room'
    <2>1. Cardinality(Inserting) \in Nat
      BY <1>1, InsertingFacts
    <2>2. added + Cardinality(Inserting) <= MaxItems
      BY DEF Inv, Room
    <2> QED BY <1>3, <1>4, <2>1, <2>2 DEF Room
  <1>11. Collected'
    BY DEF Inv, Collected, AddInsert
  <1>12. Alarm'
    <2>1. thr'[t].at = "wakeup"
      BY <1>1 DEF TypeOK, AddInsert
    <2> QED BY <2>1 DEF Inv, Alarm, AddInsert
  <1> QED
    BY <1>8, <1>9, <1>10, <1>11, <1>12 DEF Inv

\* jf_network_addUtimerItem wakes the chain up.
LEMMA AddWakeupInv ==
    ASSUME Inv, NEW t \in Threads, AddWakeup(t)
    PROVE  Inv'
  <1> USE UtimerAssumption DEF AddWakeup
  <1>1. wakeup' \in Seq({"W", "S"}) /\ wakeup' # <<>>
    <2>1. wakeup \in Seq({"W", "S"})
      BY DEF Inv, TypeOK
    <2> QED BY <2>1
  <1>2. thr' \in [Threads -> ThreadType]
    BY DEF Inv, TypeOK, ThreadType
  <1>3. TypeOK'
    BY <1>1, <1>2, Zenon DEF Inv, TypeOK
  <1>4. Placed(fired, trigger, items, removed, added)'
    BY ListsStay DEF lists
  <1>5. Room'
    <2>1. Inserting' = Inserting
      BY DEF Inv, TypeOK, Inserting
    <2> QED BY <2>1 DEF Inv, Room
  <1>6. Collected'
    BY DEF Inv, Collected
  <1>7. Alarm'
    BY <1>1 DEF Inv, Alarm
  <1> QED
    BY <1>3, <1>4, <1>5, <1>6, <1>7 DEF Inv

\* jf_network_removeUtimerItem: the first item that is left expires no earlier.
LEMMA RemoveInv ==
    ASSUME Inv, NEW t \in Threads, NEW d \in Data, RemoveUtimerItem(t, d)
    PROVE  Inv'
  <1> USE UtimerAssumption
  <1> DEFINE r == Kept(items, d)[Len(items)]
  <1>1. added \in Nat /\ Placed(fired, trigger, items, removed, added)
    BY Numbers DEF Inv
  <1>2. /\ Placed(fired, trigger, r, removed \cup IdsWith(items, d), added)
        /\ r # <<>> => items # <<>> /\ items[1].expire <= r[1].expire
        /\ IdsWith(items, d) \subseteq 1 .. added
    BY <1>1, PlacedKept
  <1> HIDE DEF r
  <1>3. /\ items' = r /\ removed' = removed \cup IdsWith(items, d)
        /\ revoked' = revoked \cup IdsWith(trigger, d)
        /\ UNCHANGED <<now, trigger, wakeup, chain, bToTerminate, thr, added, fired,
                       faults>>
    BY DEF RemoveUtimerItem, r
  <1>4. Placed(fired, trigger, items, removed, added)'
    BY <1>2, <1>3
  <1>5. TypeOK'
    <2>1. r \in Seq(ItemType)
      BY <1>2 DEF Placed
    <2>2. IdsWith(trigger, d) \subseteq 1 .. MaxItems
      <3>1. Ids(trigger) \subseteq 1 .. added /\ IdsWith(trigger, d) \subseteq Ids(trigger)
        BY <1>1 DEF Placed, Ids, IdsWith
      <3>2. 1 .. added \subseteq 1 .. MaxItems
        BY Numbers DEF Inv
      <3> QED BY <3>1, <3>2, Zenon
    <2>3. IdsWith(items, d) \subseteq 1 .. MaxItems
      <3>1. 1 .. added \subseteq 1 .. MaxItems
        BY Numbers DEF Inv
      <3> QED BY <1>2, <3>1, Zenon
    <2>4. removed' \subseteq 1 .. MaxItems /\ revoked' \subseteq 1 .. MaxItems
      BY <1>3, <2>2, <2>3, Zenon DEF Inv, TypeOK
    <2> QED BY <1>3, <2>1, <2>4, Zenon DEF Inv, TypeOK
  <1>6. Room'
    BY <1>3 DEF Inv, Room, Inserting
  <1>7. Collected'
    BY <1>3 DEF Inv, Collected
  <1>8. Alarm'
    <2>1. ASSUME r # <<>>
          PROVE  /\ items # <<>> /\ items[1].expire <= r[1].expire
                 /\ items[1].expire \in Nat /\ r[1].expire \in Nat
      <3>1. items \in Seq(ItemType) /\ r \in Seq(ItemType) /\ items # <<>>
        BY <1>1, <1>2, <2>1, Zenon DEF Placed
      <3>2. items[1] \in ItemType
        BY <3>1, SMTT(30)
      <3>3. r[1] \in ItemType
        BY <2>1, <3>1, SMTT(30)
      <3> QED BY <1>2, <2>1, <3>2, <3>3, ItemFields
    <2>2. chain.current \in Nat /\ chain.block \in Nat
      BY Numbers DEF Inv
    <2>3. ASSUME r # <<>>, chain.current + chain.block <= items[1].expire
          PROVE  chain.current + chain.block <= r[1].expire
      BY <2>1, <2>2, <2>3
    <2> QED BY <1>2, <1>3, <2>3 DEF Inv, Alarm
  <1> QED
    BY <1>4, <1>5, <1>6, <1>7, <1>8 DEF Inv

\* jf_network_stopChain.
LEMMA StopChainInv == Inv /\ StopChain => Inv'
  <1> SUFFICES ASSUME Inv, StopChain PROVE Inv'
    OBVIOUS
  <1> USE UtimerAssumption DEF StopChain
  <1>1. wakeup' \in Seq({"W", "S"}) /\ wakeup' # <<>>
    <2>1. wakeup \in Seq({"W", "S"})
      BY DEF Inv, TypeOK
    <2> QED BY <2>1
  <1>2. TypeOK'
    BY <1>1, Zenon DEF Inv, TypeOK
  <1>3. Placed(fired, trigger, items, removed, added)' /\ Room'
    BY ListsStay DEF lists
  <1>4. Collected'
    BY DEF Inv, Collected
  <1>5. Alarm'
    BY <1>1 DEF Inv, Alarm
  <1> QED
    BY <1>2, <1>3, <1>4, <1>5 DEF Inv

\* The top of the chain's loop.
LEMMA LoopTopInv == Inv /\ LoopTop => Inv'
  <1> SUFFICES ASSUME Inv, LoopTop PROVE Inv'
    OBVIOUS
  <1> USE UtimerAssumption DEF LoopTop
  <1>1. TypeOK'
    <2>1. chain \in ChainType /\ now \in 0 .. MaxTime
      BY Zenon DEF Inv, TypeOK
    <2>2. chain' \in ChainType
      BY <2>1 DEF ChainType
    <2> QED BY <2>2, Zenon DEF Inv, TypeOK
  <1>2. Placed(fired, trigger, items, removed, added)' /\ Room'
    BY ListsStay DEF lists
  <1>3. Collected'
    <2>1. trigger = <<>> /\ DOMAIN <<>> = {}
      BY DEF Inv, Collected
    <2> QED BY <2>1 DEF Inv, TypeOK, Collected
  <1>4. Alarm'
    BY DEF Inv, TypeOK, Alarm
  <1> QED
    BY <1>1, <1>2, <1>3, <1>4 DEF Inv

\* The critical section of _checkUtimer: the block time does not reach beyond
\* the first item that is left.
LEMMA CollectInv == Inv /\ Collect => Inv'
  <1> SUFFICES ASSUME Inv, Collect PROVE Inv'
    OBVIOUS
  <1> USE UtimerAssumption
  <1> DEFINE m == Expired(items, chain.current)
             a == SubSeq(items, 1, m)
             b == SubSeq(items, m + 1, Len(items))
             block == IF b = <<>> \/ MaxWait < b[1].expire - chain.current
                      THEN MaxWait ELSE b[1].expire - chain.current
  <1>1. /\ trigger' = a /\ items' = b
        /\ chain' = [chain EXCEPT !.at = "fire", !.block = block]
        /\ chain.at = "collect"
        /\ UNCHANGED <<now, wakeup, bToTerminate, thr, added, fired, removed,
                       revoked, faults>>
    BY DEF Collect
  <1>2. /\ TypeOK /\ items \in Seq(ItemType) /\ chain.current \in Nat /\ added \in Nat
        /\ trigger = <<>> /\ Placed(fired, <<>>, items, removed, added)
    <2>1. chain.current \in Nat /\ added \in Nat
      BY Numbers DEF Inv
    <2>2. trigger = <<>>
      BY <1>1 DEF Inv, Collected
    <2> QED BY <2>1, <2>2 DEF Inv, Placed
  <1>3. /\ m \in 0 .. Len(items)
        /\ \A i \in 1 .. m : items[i].expire <= chain.current
        /\ m < Len(items) => items[m + 1].expire > chain.current
    <2>1. chain.current \in Int
      BY <1>2
    <2> QED BY <1>2, <2>1, ExpiredFacts
  <1> HIDE DEF m
  <1>4. /\ Placed(fired, a, b, removed, added)
        /\ \A i \in DOMAIN a : i \in 1 .. m /\ a[i] = items[i]
        /\ b # <<>> => m < Len(items) /\ b[1] = items[m + 1]
    <2>1. added \in Nat /\ Placed(fired, <<>>, items, removed, added)
      BY <1>2
    <2> QED BY <1>3, <2>1, PlacedCollect
  <1> HIDE DEF a, b
  <1>5. a \in Seq(ItemType) /\ b \in Seq(ItemType)
    BY <1>4 DEF Placed
  <1>6. ASSUME b # <<>> PROVE b[1].expire > chain.current /\ b[1].expire \in Nat
    <2>1. b[1] \in ItemType
      BY <1>5, <1>6
    <2> QED BY <1>3, <1>4, <1>6, <2>1, ItemFields
  <1>7. block \in 0 .. MaxWait /\ (b # <<>> => chain.current + block <= b[1].expire)
    <2>1. MaxWait \in Nat /\ chain.current \in Nat
      BY <1>2
    <2>2. CASE b = <<>>
      BY <2>1, <2>2
    <2>3. CASE b # <<>>
      <3>1. b[1].expire > chain.current /\ b[1].expire \in Nat
        BY <1>6, <2>3
      <3> QED BY <2>1, <2>3, <3>1
    <2> QED BY <2>2, <2>3
  <1> HIDE DEF block
  <1>8. /\ chain' \in ChainType
        /\ chain'.at = "fire" /\ chain'.block = block /\ chain'.current = chain.current
    <2>1. chain \in ChainType
      BY <1>2, Zenon DEF TypeOK
    <2> QED BY <1>1, <1>7, <2>1 DEF ChainType
  <1>9. TypeOK'
    BY <1>1, <1>2, <1>5, <1>8, Zenon DEF TypeOK
  <1>10. Placed(fired, trigger, items, removed, added)'
    BY <1>1, <1>4
  <1>11. Room'
    BY <1>1 DEF Inv, Room, Inserting
  <1>12. Collected'
    BY <1>1, <1>3, <1>4, <1>8 DEF Inv, Collected
  <1>13. Alarm'
    BY <1>1, <1>7, <1>8 DEF Alarm
  <1> QED
    BY <1>9, <1>10, <1>11, <1>12, <1>13 DEF Inv

\* A callback, which may add an item of its own.
LEMMA FireInv == Inv /\ Fire => Inv'
  <1> SUFFICES ASSUME Inv, Fire PROVE Inv'
    OBVIOUS
  <1> USE UtimerAssumption
  <1> DEFINE f == Append(fired, Head(trigger))
             u == Tail(trigger)
  <1>1. /\ trigger # <<>> /\ fired' = f /\ trigger' = u /\ chain.at = "fire"
        /\ UNCHANGED <<now, chain, bToTerminate, thr, removed, revoked, faults>>
    BY DEF Fire
  <1>2. /\ TypeOK /\ added \in Nat
        /\ Placed(fired, trigger, items, removed, added)
    BY Numbers DEF Inv
  <1>3. /\ Placed(f, u, items, removed, added)
        /\ Head(trigger) \in ItemType
        /\ \A i \in DOMAIN u : \E j \in DOMAIN trigger : u[i] = trigger[j]
    <2>1. trigger # <<>> /\ added \in Nat
      BY <1>1, <1>2
    <2>2. Placed(fired, trigger, items, removed, added)
      BY <1>2
    <2> QED BY <2>1, <2>2, PlacedFire
  <1>4. f \in Seq(ItemType) /\ u \in Seq(ItemType)
    BY <1>3 DEF Placed
  <1> HIDE DEF f, u
  <1>5. Collected'
    BY <1>1, <1>3 DEF Inv, Collected
  <1>6. CASE UNCHANGED <<items, added, wakeup>>
    <2>1. Placed(fired, trigger, items, removed, added)'
      BY <1>1, <1>3, <1>6
    <2>2. TypeOK'
      BY <1>1, <1>2, <1>4, <1>6, Zenon DEF TypeOK
    <2>3. Room' /\ Alarm'
      BY <1>1, <1>6 DEF Inv, Room, Inserting, Alarm
    <2> QED BY <1>5, <2>1, <2>2, <2>3 DEF Inv
  <1>7. ASSUME added + Cardinality(Inserting) < MaxItems,
               NEW delay \in Delays, now + delay <= MaxTime,
               items' = Insert(items, Item(added + 1, Head(trigger).data, now + delay)),
               added' = added + 1, wakeup' = Append(wakeup, "W")
        PROVE  Inv'
    <2> DEFINE it == Item(added + 1, Head(trigger).data, now + delay)
    <2>1. added + 1 \in 0 .. MaxItems /\ now + delay \in 0 .. MaxTime
      <3>1. Cardinality(Inserting) \in Nat
        BY <1>2, InsertingFacts
      <3>2. now \in Nat /\ delay \in Nat
        BY <1>2 DEF TypeOK
      <3> QED BY <1>2, <1>7, <3>1, <3>2
    <2>2. it \in ItemType /\ it.id = added + 1
      BY <1>3, <2>1 DEF Item, ItemType
    <2> HIDE DEF it
    <2>3. Placed(f, u, Insert(items, it), removed, added + 1)
      BY <1>2, <1>3, <2>2, PlacedInsert
    <2>4. items' = Insert(items, it)
      BY <1>7 DEF it
    <2>5. Placed(fired, trigger, items, removed, added)'
      BY <1>1, <1>7, <2>3, <2>4
    <2>6. items' \in Seq(ItemType)
      BY <2>3, <2>4 DEF Placed
    <2>7. wakeup' \in Seq({"W", "S"}) /\ wakeup' # <<>>
      <3>1. wakeup \in Seq({"W", "S"})
        BY <1>2 DEF TypeOK
      <3> QED BY <1>7, <3>1
    <2>8. TypeOK'
      BY <1>1, <1>2, <1>4, <1>7, <2>1, <2>6, <2>7, Zenon DEF TypeOK
    <2>9. Room'
      <3>1. Inserting' = Inserting
        BY <1>1 DEF Inserting
      <3>2. Cardinality(Inserting) \in Nat
        BY <1>2, InsertingFacts
      <3>3. added \in Nat /\ added' = added + 1 /\ added + Cardinality(Inserting) < MaxItems
        BY <1>2, <1>7
      <3> QED BY <3>1, <3>2, <3>3 DEF Room
    <2>10. Alarm'
      BY <1>1, <2>7 DEF Inv, Alarm
    <2> QED BY <1>5, <2>5, <2>8, <2>9, <2>10 DEF Inv
  <1> QED
    BY <1>6, <1>7 DEF Fire

\* The chain thread goes to sleep for the block time.
LEMMA EnterSelectInv == Inv /\ EnterSelect => Inv'
  <1> SUFFICES ASSUME Inv, EnterSelect PROVE Inv'
    OBVIOUS
  <1> USE UtimerAssumption
  <1>1. /\ chain.at = "fire" /\ trigger = <<>>
        /\ chain' = [chain EXCEPT !.at = "select", !.deadline = now + chain.block,
                                  !.lag = now - chain.current]
        /\ UNCHANGED <<now, items, trigger, wakeup, bToTerminate, thr, added, fired,
                       removed, revoked, faults>>
    BY DEF EnterSelect
  <1>2. /\ chain.current \in 0 .. MaxTime /\ chain.block \in 0 .. MaxWait
        /\ now \in 0 .. MaxTime /\ chain.current <= now
    BY Numbers DEF Inv, Collected
  <1>3. now + chain.block \in 0 .. MaxTime + MaxWait /\ now - chain.current \in 0 .. MaxTime
    BY <1>2
  <1>4. /\ chain' \in ChainType
        /\ chain'.at = "select" /\ chain'.block = chain.block
        /\ chain'.current = chain.current /\ chain'.deadline = now + chain.block
        /\ chain'.lag = now - chain.current
    <2>1. chain \in ChainType
      BY Zenon DEF Inv, TypeOK
    <2> QED BY <1>1, <1>3, <2>1 DEF ChainType
  <1>5. TypeOK'
    BY <1>1, <1>4, Zenon DEF Inv, TypeOK
  <1>6. Placed(fired, trigger, items, removed, added)' /\ Room'
    BY <1>1, ListsStay DEF lists
  <1>7. Collected'
    BY <1>1, <1>4 DEF Inv, Collected
  <1>8. Alarm'
    BY <1>1, <1>2, <1>4 DEF Inv, Alarm
  <1> QED
    BY <1>5, <1>6, <1>7, <1>8 DEF Inv

\* select returns, and the wakeup socket is read.
LEMMA LeaveSelectInv == Inv /\ LeaveSelect => Inv'
  <1> SUFFICES ASSUME Inv, LeaveSelect PROVE Inv'
    OBVIOUS
  <1> USE UtimerAssumption
  <1>1. /\ chain.at = "select"
        /\ chain' = [chain EXCEPT !.at = "top", !.block = MaxWait]
        /\ UNCHANGED <<now, items, trigger, thr, added, fired, removed, revoked>>
    BY DEF LeaveSelect
  <1>2. /\ wakeup' \in Seq({"W", "S"}) /\ bToTerminate' \in BOOLEAN
        /\ faults' \in 0 .. MaxFaults
    <2>1. /\ wakeup \in Seq({"W", "S"}) /\ bToTerminate \in BOOLEAN
          /\ faults \in 0 .. MaxFaults
      BY DEF Inv, TypeOK
    <2>2. CASE wakeup # <<>> /\ ReadWakeupSocket /\ UNCHANGED faults
      <3> DEFINE n == IF Len(wakeup) < ReadMax THEN Len(wakeup) ELSE ReadMax
      <3>1. bToTerminate' \in BOOLEAN
        BY <2>2, Zenon DEF ReadWakeupSocket
      <3>2. n \in 0 .. Len(wakeup)
        BY <2>1
      <3>3. wakeup' = SubSeq(wakeup, n + 1, Len(wakeup))
        BY <2>2 DEF ReadWakeupSocket
      <3> HIDE DEF n
      <3>4. SubSeq(wakeup, n + 1, Len(wakeup)) \in Seq({"W", "S"})
        BY <2>1, <3>2
      <3> QED BY <2>1, <2>2, <3>1, <3>3, <3>4
    <2>3. CASE UNCHANGED <<wakeup, bToTerminate, faults>>
      BY <2>1, <2>3
    <2>4. CASE faults < MaxFaults /\ faults' = faults + 1 /\ UNCHANGED <<wakeup, bToTerminate>>
      BY <2>1, <2>4
    <2> QED BY <2>2, <2>3, <2>4 DEF LeaveSelect
  <1>3. /\ chain' \in ChainType
        /\ chain'.at = "top" /\ chain'.current = chain.current
    <2>1. chain \in ChainType
      BY DEF Inv, TypeOK
    <2>2. MaxWait \in 0 .. MaxWait
      OBVIOUS
    <2> QED BY <1>1, <2>1, <2>2 DEF ChainType
  <1>4. TypeOK'
    BY <1>1, <1>2, <1>3, Zenon DEF Inv, TypeOK
  <1>5. Placed(fired, trigger, items, removed, added)' /\ Room'
    BY <1>1, ListsStay DEF lists
  <1>6. Collected'
    BY <1>1, <1>3 DEF Inv, Collected
  <1>7. Alarm'
    BY <1>3 DEF Alarm
  <1> QED
    BY <1>4, <1>5, <1>6, <1>7 DEF Inv

\* Every step keeps the invariant.
LEMMA NextInv == Inv /\ [Next]_vars => Inv'
  <1>1. Inv /\ UNCHANGED vars => Inv'
    <2> SUFFICES ASSUME Inv, UNCHANGED vars PROVE Inv'
      OBVIOUS
    <2>1. Placed(fired, trigger, items, removed, added)' /\ Room'
      BY ListsStay DEF lists, vars
    <2> QED BY <2>1 DEF Inv, vars, TypeOK, Collected, Alarm
  <1>2. Inv /\ Chain => Inv'
    BY LoopTopInv, CollectInv, FireInv, EnterSelectInv, LeaveSelectInv DEF Chain
  <1>3. ASSUME NEW t \in Threads, Inv, Thread(t) PROVE Inv'
    BY <1>3, AddReadClockInv, AddInsertInv, AddWakeupInv, RemoveInv DEF Thread
  <1> QED
    BY <1>1, <1>2, <1>3, TickInv, StopChainInv DEF Next
-----------------------------------------------------------------------------
(* What the invariant says of the utimer. *)

\* Lists in order have no item in common.
LEMMA AcrossDisjoint ==
    ASSUME NEW s, NEW u, Across(s, u)
    PROVE  Ids(s) \cap Ids(u) = {}
  BY DEF Across, Precedes, Ids

\* A list in order has as many ids as items.
LEMMA IdsSize ==
    ASSUME NEW s \in Seq(ItemType), Within(s)
    PROVE  Cardinality(Ids(s)) = Len(s)
  <1> DEFINE g == [i \in 1 .. Len(s) |-> s[i].id]
  <1>1. Len(s) \in Nat /\ DOMAIN s = 1 .. Len(s)
    OBVIOUS
  <1>2. g \in [1 .. Len(s) -> Ids(s)]
    BY <1>1 DEF Ids
  <1>3. \A i, j \in 1 .. Len(s) : i # j => s[i].id # s[j].id
    BY <1>1 DEF Within, Precedes
  <1>4. \A x \in Ids(s) : \E i \in 1 .. Len(s) : g[i] = x
    BY <1>1 DEF Ids
  <1>5. g \in Bijection(1 .. Len(s), Ids(s))
    BY <1>2, <1>3, <1>4 DEF Bijection, Injection, Surjection, IsInjective
  <1>6. ExistsBijection(1 .. Len(s), Ids(s))
    BY <1>5 DEF ExistsBijection
  <1> QED
    BY <1>1, <1>6, FS_CountingElements

\* Disjoint finite sets.
LEMMA SizeOfUnion ==
    ASSUME NEW S, NEW T, IsFiniteSet(S), IsFiniteSet(T), S \cap T = {}
    PROVE  /\ IsFiniteSet(S \cup T)
           /\ Cardinality(S \cup T) = Cardinality(S) + Cardinality(T)
           /\ Cardinality(S) \in Nat /\ Cardinality(T) \in Nat
  <1>1. Cardinality(S) \in Nat /\ Cardinality(T) \in Nat
    BY FS_CardinalityType
  <1>2. Cardinality(S \cap T) = 0
    BY FS_EmptySet
  <1>3. /\ IsFiniteSet(S \cup T)
        /\ Cardinality(S \cup T) = Cardinality(S) + Cardinality(T) - Cardinality(S \cap T)
    BY FS_Union
  <1> QED
    BY <1>1, <1>2, <1>3

\* Every item is in one place.
LEMMA OnceFollows == Inv => Once
  <1> SUFFICES ASSUME Inv PROVE Once
    OBVIOUS
  <1> DEFINE A == Ids(items)
             B == Ids(trigger)
             C == Ids(fired)
  <1>1. added \in Nat
    BY Numbers DEF Inv
  <1>2. /\ removed \cap (C \cup B \cup A) = {}
        /\ removed \cup C \cup B \cup A = 1 .. added
        /\ Across(fired, trigger) /\ Across(fired, items) /\ Across(trigger, items)
        /\ fired \in Seq(ItemType) /\ Within(fired)
    BY DEF Inv, Placed
  <1>3. C \cap B = {} /\ C \cap A = {} /\ B \cap A = {}
    BY <1>2, AcrossDisjoint
  <1>4. Cardinality(C) = Len(fired)
    BY <1>2, IdsSize
  <1>5. IsFiniteSet(1 .. added) /\ Cardinality(1 .. added) = added
    BY <1>1, FS_Interval
  <1> HIDE DEF A, B, C
  <1>6. /\ A \in SUBSET (1 .. added) /\ B \in SUBSET (1 .. added)
        /\ C \in SUBSET (1 .. added) /\ removed \in SUBSET (1 .. added)
    BY <1>2
  <1>7. IsFiniteSet(A) /\ IsFiniteSet(B) /\ IsFiniteSet(C) /\ IsFiniteSet(removed)
    BY <1>5, <1>6, FS_Subset
  <1>8. IsFiniteSet(A \cup B) /\ Cardinality(A \cup B) = Cardinality(A) + Cardinality(B)
        /\ Cardinality(A) \in Nat /\ Cardinality(B) \in Nat
    BY <1>3, <1>7, SizeOfUnion
  <1>9. (A \cup B) \cap C = {} /\ (A \cup B \cup C) \cap removed = {}
    BY <1>2, <1>3
  <1>10. /\ IsFiniteSet(A \cup B \cup C)
         /\ Cardinality(A \cup B \cup C) = Cardinality(A \cup B) + Cardinality(C)
         /\ Cardinality(C) \in Nat
    BY <1>7, <1>8, <1>9, SizeOfUnion
  <1>11. /\ Cardinality((A \cup B \cup C) \cup removed)
              = Cardinality(A \cup B \cup C) + Cardinality(removed)
         /\ Cardinality(removed) \in Nat
    BY <1>7, <1>9, <1>10, SizeOfUnion
  <1>12. A \cup B \cup C \cup removed = 1 .. added
    BY <1>2
  <1>13. Cardinality(A) + Cardinality(B) + Cardinality(C) + Cardinality(removed) = added
    BY <1>5, <1>8, <1>10, <1>11, <1>12
  <1> QED
    BY <1>4, <1>12, <1>13 DEF Once, A, B, C

\* Items fire in time and in order.
LEMMA OrderFollows == Inv => FiresInOrder
  <1> SUFFICES ASSUME Inv PROVE FiresInOrder
    OBVIOUS
  <1> DEFINE a == fired \o trigger
             s == fired \o trigger \o items
  <1>1. /\ fired \in Seq(ItemType) /\ trigger \in Seq(ItemType) /\ items \in Seq(ItemType)
        /\ Within(fired) /\ Within(trigger) /\ Within(items)
        /\ Across(fired, trigger) /\ Across(fired, items) /\ Across(trigger, items)
    BY DEF Inv, Placed
  <1>2. ASSUME NEW u \in Seq(ItemType), NEW v \in Seq(ItemType),
               Within(u), Within(v), Across(u, v)
        PROVE  Within(u \o v)
    <2>1. /\ Len(u) \in Nat /\ Len(v) \in Nat /\ DOMAIN u = 1 .. Len(u)
          /\ DOMAIN v = 1 .. Len(v) /\ DOMAIN (u \o v) = 1 .. Len(u) + Len(v)
          /\ \A i \in 1 .. Len(u) : (u \o v)[i] = u[i]
          /\ \A i \in Len(u) + 1 .. Len(u) + Len(v) : (u \o v)[i] = v[i - Len(u)]
      OBVIOUS
    <2>2. /\ \A i \in 1 .. Len(u) + Len(v) : i \in 1 .. Len(u) \/ i \in Len(u) + 1 .. Len(u) + Len(v)
          /\ \A i \in Len(u) + 1 .. Len(u) + Len(v) : i - Len(u) \in 1 .. Len(v)
          /\ \A i, j \in Len(u) + 1 .. Len(u) + Len(v) : i < j => i - Len(u) < j - Len(u)
          /\ \A i \in Len(u) + 1 .. Len(u) + Len(v) : \A j \in 1 .. Len(u) : ~ (i < j)
      BY <2>1
    <2> SUFFICES ASSUME NEW i \in 1 .. Len(u) + Len(v), NEW j \in 1 .. Len(u) + Len(v), i < j
                 PROVE  Precedes((u \o v)[i], (u \o v)[j])
      BY <2>1 DEF Within
    <2>3. CASE i \in 1 .. Len(u) /\ j \in 1 .. Len(u)
      BY <1>2, <2>1, <2>3 DEF Within
    <2>4. CASE i \in 1 .. Len(u) /\ j \in Len(u) + 1 .. Len(u) + Len(v)
      BY <1>2, <2>1, <2>2, <2>4 DEF Across
    <2>5. CASE i \in Len(u) + 1 .. Len(u) + Len(v) /\ j \in Len(u) + 1 .. Len(u) + Len(v)
      BY <1>2, <2>1, <2>2, <2>5 DEF Within
    <2> QED BY <2>2, <2>3, <2>4, <2>5
  <1>3. a \in Seq(ItemType) /\ Within(a)
    BY <1>1, <1>2
  <1>4. Across(a, items)
    <2>1. /\ Len(fired) \in Nat /\ Len(trigger) \in Nat /\ DOMAIN fired = 1 .. Len(fired)
          /\ DOMAIN trigger = 1 .. Len(trigger)
          /\ DOMAIN a = 1 .. Len(fired) + Len(trigger)
          /\ \A i \in 1 .. Len(fired) : a[i] = fired[i]
          /\ \A i \in Len(fired) + 1 .. Len(fired) + Len(trigger) :
               a[i] = trigger[i - Len(fired)]
      BY <1>1
    <2> HIDE DEF a
    <2>2. ASSUME NEW i \in DOMAIN a
          PROVE  \/ i \in DOMAIN fired /\ a[i] = fired[i]
                 \/ i - Len(fired) \in DOMAIN trigger /\ a[i] = trigger[i - Len(fired)]
      BY <2>1, <2>2
    <2> QED BY <1>1, <2>2 DEF Across
  <1>5. Within(s)
    <2> HIDE DEF a
    <2>1. Within(a \o items)
      BY <1>1, <1>2, <1>3, <1>4
    <2> QED BY <2>1 DEF a
  <1>6. \A i \in DOMAIN trigger : trigger[i].expire <= now
    <2> TAKE i \in DOMAIN trigger
    <2>1. trigger[i] \in ItemType
      BY <1>1
    <2>2. trigger[i].expire \in Nat /\ trigger[i].expire <= chain.current
      BY <2>1, ItemFields DEF Inv, Collected
    <2>3. chain.current \in Nat /\ now \in Nat /\ chain.current <= now
      BY Numbers DEF Inv, Collected
    <2> QED BY <2>2, <2>3
  <1> HIDE DEF s
  <1>7. \A i, j \in DOMAIN s : i < j /\ s[i].expire >= s[j].expire => s[i].id < s[j].id
    BY <1>5 DEF Within, Precedes
  <1> QED
    BY <1>6, <1>7 DEF FiresInOrder, s

\* The sleep of the chain thread.
LEMMA AlarmFollows == Inv => NoOversleep
  <1> SUFFICES ASSUME Inv, chain.at = "select", items # <<>>, wakeup = <<>>,
                      ~ \E t \in Threads : thr[t].at = "wakeup"
               PROVE  chain.deadline <= items[1].expire + chain.lag
    BY DEF NoOversleep
  <1>1. /\ chain.current + chain.block <= items[1].expire
        /\ chain.deadline = chain.current + chain.block + chain.lag
    BY DEF Inv, Alarm
  <1>2. chain.current \in Nat /\ chain.block \in Nat /\ chain.lag \in Nat
    BY Numbers DEF Inv
  <1>3. items[1] \in ItemType
    BY DEF Inv, TypeOK
  <1>4. items[1].expire \in Nat
    BY <1>3, ItemFields
  <1> QED
    BY <1>1, <1>2, <1>4

\* The invariant holds in every reachable state.
THEOREM InvAlways == Spec => []Inv
  BY InitInv, NextInv, PTL DEF Spec

\* However many threads add and remove items while the chain thread collects
\* and fires them without the lock: every item inserted is fired once or removed
\* once, none before its time, none before an earlier one that expires no later,
\* and _checkUtimer's block time or a wakeup ends the sleep in time for the next.
THEOREM TimersSoundAlways == Spec => []TimersSound
  <1>1. Inv => TimersSound
    BY OnceFollows, OrderFollows, AlarmFollows DEF TimersSound, Inv
  <1> QED
    BY <1>1, InvAlways, PTL
=============================================================================
