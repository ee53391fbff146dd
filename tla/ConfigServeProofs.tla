------------------------- MODULE ConfigServeProofs --------------------------
(***************************************************************************)
(* The requests to the configuration manager, for every set of clients,    *)
(* keys, values and ids and every number of slots: each keeps the          *)
(* invariant and is answered as IsolatedStep and RefusedStep say.          *)
(*                                                                         *)
(* Inv is the inductive invariant of ConfigMgr.  Its SlotsInv links the    *)
(* transactions of the clients to the slots of the daemon, which is what   *)
(* Isolated reads off.  Its FilesInv follows a save: what the temporary    *)
(* file may hold from a save that was cut off, and that it has the whole   *)
(* tree before it takes the place of the file.                             *)
(***************************************************************************)
EXTENDS ConfigMgr, FiniteSetTheorems, TLAPS

\* No client has the id 0.
Valid(cl) == \A c \in Clients : cl[c].id # InvalidId

\* Clients, and slots in use, have ids of their own.
Apart(cl) == \A c, d \in Clients : cl[c].id = cl[d].id /\ cl[c].id # NoId => c = d
SlotsApart(tr) == \A i, j \in Slots : tr[i].id = tr[j].id /\ tr[i].id # InvalidId => i = j

\* A slot with the id of a client is the client's.
Owned(cl, tr) ==
    \A c \in Clients, i \in Slots : tr[i].id = cl[c].id =>
        cl[c].known /\ tr[i].start = cl[c].began /\ tr[i].config = cl[c].wrote

\* A transaction that is known and not timed out has its slot.
Placed(cl, tr, time) ==
    \A c \in Clients : cl[c].known /\ cl[c].began + TimeOut >= time =>
        \E i \in Slots : tr[i].id = cl[c].id

\* The clients' transactions and the slots, while no id was drawn twice or drawn
\* as 0.
Linked(cl, tr, time) ==
    /\ Valid(cl) /\ Apart(cl) /\ SlotsApart(tr)
    /\ Owned(cl, tr) /\ Placed(cl, tr, time)

\* The transactions in the slots have begun and are not over.
Recorded(tr, b) ==
    \A i \in Slots : tr[i].id # InvalidId => [id |-> tr[i].id, start |-> tr[i].start] \in b

\* A transaction in a slot sets keys of the tree only.
Covered(tr, t) ==
    \A i \in Slots : tr[i].id # InvalidId =>
        tr[i].config \in Table /\ DOMAIN tr[i].config \subseteq DOMAIN t

Whole(f) == \A n \in DOMAIN f : f[n].whole
ReadBack(t) == [k \in DOMAIN t |-> AsRead[t[k]]]

\* The slots: in use only by a running daemon.
SlotsInv ==
    /\ at # "up" => \A i \in Slots : trans[i].id = InvalidId
    /\ \A c \in Clients : client[c].known => client[c].id # NoId
    /\ Covered(trans, tree)
    /\ IsFiniteSet(begun)
    /\ ~collided => Linked(client, trans, now) /\ Recorded(trans, begun)

\* The files: the tree has the keys of the file it was loaded from; a temporary
\* file left behind is whole and has no other keys; one about to replace the
\* file has all of the tree.
FilesInv ==
    /\ backend = "sqlite" => at \in {"down", "up", "save"} /\ disk.db = durable
    /\ backend = "file" =>
         /\ at \in {"up", "save", "remove"} =>
              disk.conf # NoFile /\ DOMAIN tree = KeysOf(disk.conf)
         /\ ~torn =>
              /\ disk.temp # NoFile => Whole(disk.temp)
              /\ at # "rename" =>
                   /\ KeysOf(Content(disk.temp)) \subseteq KeysOf(Content(disk.conf))
                   /\ Load(Content(disk.conf)) = ReadBack(durable)
              /\ at \in {"remove", "rename"} =>
                   disk.temp # NoFile /\ Load(disk.temp) = ReadBack(tree)

Inv == TypeOK /\ SlotsInv /\ FilesInv

-----------------------------------------------------------------------------
(* Sets of natural numbers, and tables. *)

\* A set of natural numbers that is not empty has a least element.
LEMMA LeastElement ==
    ASSUME NEW T, T \subseteq Nat, T # {}
    PROVE  \E m \in T : \A k \in T : m <= k
  <1>1. PICK m \in T : \A k \in T : ~ (<<k, m>> \in OpToRel(<, Nat))
    BY NatLessThanWellFounded, WFMin
  <1>2. \A k \in T : ~ (k < m)
    BY <1>1 DEF OpToRel
  <1> QED
    BY <1>2

\* Min, as Find takes the first slot, is the least element.
LEMMA MinFacts ==
    ASSUME NEW T, T \subseteq Nat, T # {}
    PROVE  Min(T) \in T /\ \A k \in T : Min(T) <= k
  <1>1. \E m \in T : \A k \in T : m <= k
    BY LeastElement
  <1> QED
    BY <1>1, Zenon DEF Min

\* Max, as Load takes the last line, is the greatest element.
LEMMA MaxFacts ==
    ASSUME NEW N \in Nat, NEW T, T \subseteq 1 .. N, T # {}
    PROVE  Max(T) \in T /\ \A k \in T : Max(T) >= k
  <1> DEFINE U == {b \in 0 .. N : \A k \in T : k <= b}
  <1>1. N \in U /\ U \subseteq Nat
    OBVIOUS
  <1>2. PICK b \in U : \A k \in U : b <= k
    <2> HIDE DEF U
    <2> QED BY <1>1, LeastElement
  <1>3. b \in T
    <2> SUFFICES ASSUME b \notin T PROVE FALSE
      OBVIOUS
    <2>1. PICK x \in T : TRUE
      OBVIOUS
    <2>2. b \in 0 .. N /\ \A k \in T : k < b
      BY <1>2
    <2>3. b - 1 \in 0 .. N
      BY <2>1, <2>2
    <2>4. \A k \in T : k <= b - 1
      BY <2>2
    <2>5. b - 1 \in U
      BY <2>3, <2>4
    <2> QED BY <1>2, <2>2, <2>5
  <1>4. \A k \in T : b >= k
    BY <1>2
  <1>5. \E m \in T : \A k \in T : m >= k
    BY <1>3, <1>4, Zenon
  <1> QED
    BY <1>5, Zenon DEF Max

\* What it is to be a table.
LEMMA TableFacts ==
    ASSUME NEW t
    PROVE  t \in Table <=> /\ DOMAIN t \subseteq AllKeys
                           /\ t = [k \in DOMAIN t |-> t[k]]
                           /\ \A k \in DOMAIN t : t[k] \in AllValues
  BY DEF Table

\* The empty configuration of a new transaction is a table.
LEMMA NoConfigFacts == NoConfig \in Table /\ DOMAIN NoConfig = {}
  BY DEF Table, NoConfig

\* jf_ptree_merge makes a table of two.
LEMMA MergeFacts ==
    ASSUME NEW f \in Table, NEW g \in Table
    PROVE  Merge(f, g) \in Table /\ DOMAIN Merge(f, g) = DOMAIN f \cup DOMAIN g
  <1>1. /\ DOMAIN f \subseteq AllKeys /\ DOMAIN g \subseteq AllKeys
        /\ \A k \in DOMAIN f : f[k] \in AllValues
        /\ \A k \in DOMAIN g : g[k] \in AllValues
    BY TableFacts
  <1>2. Merge(f, g) \in [DOMAIN f \cup DOMAIN g -> AllValues]
    BY <1>1 DEF Merge
  <1> QED
    BY <1>1, <1>2 DEF Table

\* A set of one key is a table.
LEMMA SingleFacts ==
    ASSUME NEW k \in Keys, NEW v \in Values
    PROVE  [x \in {k} |-> v] \in Table /\ DOMAIN [x \in {k} |-> v] = {k}
  <1>1. k \in AllKeys /\ v \in AllValues
    BY ConfigAssumption DEF AllKeys
  <1>2. [x \in {k} |-> v] \in [{k} -> AllValues]
    BY <1>1
  <1> QED
    BY <1>1, <1>2 DEF Table

-----------------------------------------------------------------------------
(* Slots. *)

\* tr is the slots after some of the expired ones were freed.
SweptBy(tr) ==
    \A i \in Slots : tr[i] = trans[i] \/ (IsExpired(trans[i]) /\ tr[i] = FreeSlot)

\* Numbers and the fields of a transaction and of a slot.
LEMMA SlotFacts ==
    ASSUME TypeOK
    PROVE  /\ Slots \subseteq Nat \ {0} /\ TimeOut \in Nat /\ now \in Nat
           /\ FreeSlot \in Slot /\ FreeSlot.id = InvalidId /\ InvalidId # NoId
           /\ \A i \in Slots : trans[i] \in Slot
           /\ \A s \in Slot : s.id \in Ids /\ s.id # NoId /\ s.start \in Nat /\ s.start <= now
           /\ \A c \in Clients : client[c] \in Transaction
           /\ \A t \in Transaction : /\ t.id \in Ids \cup {NoId} /\ t.wrote \in Table
                                     /\ t.began \in Nat /\ t.known \in BOOLEAN
  <1>1. Slots \subseteq Nat \ {0} /\ TimeOut \in Nat /\ InvalidId \in Ids /\ NoId \notin Ids
    BY ConfigAssumption DEF Slots
  <1>2. now \in Nat /\ trans \in [Slots -> Slot] /\ client \in [Clients -> Transaction]
    BY DEF TypeOK
  <1>3. FreeSlot \in Slot /\ FreeSlot.id = InvalidId
    BY <1>1, <1>2 DEF FreeSlot, Slot
  <1>4. \A s \in Slot : s.id \in Ids /\ s.start \in Nat /\ s.start <= now
    BY <1>2 DEF Slot
  <1>5. \A t \in Transaction : /\ t.id \in Ids \cup {NoId} /\ t.wrote \in Table
                               /\ t.began \in Nat /\ t.known \in BOOLEAN
    BY <1>2 DEF Transaction
  <1> QED
    BY <1>1, <1>2, <1>3, <1>4, <1>5

\* What a client without a transaction has.
LEMMA NoTransactionFacts ==
    ASSUME now \in Nat
    PROVE  /\ NoTransaction \in Transaction /\ NoTransaction.id = NoId
           /\ ~NoTransaction.known
  <1>1. NoConfig \in Table
    BY NoConfigFacts
  <1> HIDE DEF NoConfig
  <1> QED
    BY <1>1, SMTT(20) DEF NoTransaction, Transaction

\* _findConfigTreeTransaction finds a slot exactly when one has the id.
LEMMA FindFacts ==
    ASSUME NEW id
    PROVE  \/ Find(id) = 0 /\ \A i \in Slots : Swept[i].id # id
           \/ Find(id) \in Slots /\ Find(id) # 0 /\ Swept[Find(id)].id = id
  <1> DEFINE hits == {i \in Slots : Swept[i].id = id}
  <1>1. hits \subseteq Nat /\ 0 \notin Slots
    BY ConfigAssumption DEF Slots
  <1>2. Find(id) = IF hits = {} THEN 0 ELSE Min(hits)
    BY DEF Find
  <1>3. CASE hits = {}
    BY <1>2, <1>3
  <1>4. CASE hits # {}
    <2>1. Min(hits) \in hits
      <3> HIDE DEF hits
      <3> QED BY <1>1, <1>4, MinFacts
    <2> QED BY <1>1, <1>2, <1>4, <2>1
  <1> QED
    BY <1>3, <1>4

\* What is swept: expired slots, all of them up to the one that is found.
LEMMA SweptFacts ==
    ASSUME TypeOK, NEW n
    PROVE  /\ SweptTo(n) \in [Slots -> Slot] /\ SweptBy(SweptTo(n))
           /\ n = 0 => \A i \in Slots : SweptTo(n)[i] = Swept[i]
           /\ n \in Slots => SweptTo(n)[n] = Swept[n]
           /\ \A i \in Slots : IF IsExpired(trans[i]) THEN Swept[i] = FreeSlot
                               ELSE Swept[i] = trans[i]
  <1>1. Slots \subseteq Nat \ {0} /\ FreeSlot \in Slot /\ \A i \in Slots : trans[i] \in Slot
    BY SlotFacts
  <1>2. \A i \in Slots : Swept[i] = IF IsExpired(trans[i]) THEN FreeSlot ELSE trans[i]
    BY DEF Swept
  <1>3. \A i \in Slots : SweptTo(n)[i] = IF n # 0 /\ i > n THEN trans[i] ELSE Swept[i]
    BY DEF SweptTo
  <1>4. SweptTo(n) = [i \in Slots |-> SweptTo(n)[i]]
    BY DEF SweptTo
  <1>5. \A i \in Slots : SweptTo(n)[i] \in Slot
    BY <1>1, <1>2, <1>3
  <1>6. SweptTo(n) \in [Slots -> Slot]
    BY <1>4, <1>5
  <1>7. SweptBy(SweptTo(n))
    BY <1>2, <1>3 DEF SweptBy
  <1>8. ASSUME n \in Slots PROVE SweptTo(n)[n] = Swept[n]
    <2>1. n \in Nat /\ ~(n > n)
      BY <1>1, <1>8
    <2> QED BY <1>3, <1>8, <2>1, Zenon
  <1> QED
    BY <1>2, <1>3, <1>6, <1>7, <1>8

\* Freeing expired slots keeps what the slots are known for.
LEMMA SweepKeeps ==
    ASSUME TypeOK, SlotsInv, NEW tr, SweptBy(tr)
    PROVE  /\ Covered(tr, tree)
           /\ ~collided => Linked(client, tr, now) /\ Recorded(tr, begun)
  <1>1. FreeSlot.id = InvalidId /\ TimeOut \in Nat /\ now \in Nat
    BY SlotFacts
  <1>2. \A i \in Slots : tr[i].id # InvalidId => tr[i] = trans[i]
    BY <1>1 DEF SweptBy
  <1>3. \A i \in Slots : ~IsExpired(trans[i]) => tr[i] = trans[i]
    BY DEF SweptBy
  <1>4. Covered(tr, tree)
    BY <1>2 DEF SlotsInv, Covered
  <1>5. ASSUME ~collided PROVE Recorded(tr, begun)
    BY <1>2, <1>5 DEF SlotsInv, Recorded
  <1>6. ASSUME ~collided PROVE Linked(client, tr, now)
    <2>1. Linked(client, trans, now)
      BY <1>6 DEF SlotsInv
    <2>2. \A c \in Clients : client[c].id # InvalidId
      BY <2>1 DEF Linked, Valid
    <2>3. \A c, d \in Clients : client[c].id = client[d].id /\ client[c].id # NoId => c = d
      BY <2>1 DEF Linked, Apart
    <2>4. \A i, j \in Slots : tr[i].id = tr[j].id /\ tr[i].id # InvalidId => i = j
      BY <1>2, <2>1 DEF Linked, SlotsApart
    <2>5. \A c \in Clients, i \in Slots : tr[i].id = client[c].id =>
            /\ client[c].known /\ tr[i].start = client[c].began
            /\ tr[i].config = client[c].wrote
      BY <1>2, <2>1, <2>2 DEF Linked, Owned
    <2>6. ASSUME NEW c \in Clients, client[c].known, client[c].began + TimeOut >= now
          PROVE  \E i \in Slots : tr[i].id = client[c].id
      <3>1. PICK i \in Slots : trans[i].id = client[c].id
        BY <2>1, <2>6 DEF Linked, Placed
      <3>2. trans[i].start = client[c].began
        BY <2>1, <3>1 DEF Linked, Owned
      <3>3. client[c].began \in Nat
        BY SlotFacts
      <3>4. ~IsExpired(trans[i])
        BY <1>1, <2>6, <3>2, <3>3 DEF IsExpired
      <3> QED BY <1>3, <3>1, <3>4
    <2> QED BY <2>2, <2>3, <2>4, <2>5, <2>6, Zenon
       DEF Linked, Valid, Apart, SlotsApart, Owned, Placed
  <1> QED
    BY <1>4, <1>5, <1>6

\* The transaction of a client is found exactly while it is live, in the slot
\* that holds what the client wrote, and in no other.
LEMMA HoldsFind ==
    ASSUME TypeOK, SlotsInv, ~collided, NEW c \in Clients, Holds(c), NEW n,
           n = Find(client[c].id)
    PROVE  /\ n # 0 <=> Live(c)
           /\ n # 0 => /\ n \in Slots /\ SweptTo(n)[n] = trans[n]
                       /\ trans[n].id = client[c].id /\ trans[n].config = client[c].wrote
           /\ \A i \in Slots : SweptTo(n)[i].id = client[c].id => i = n
  <1>1. FreeSlot.id = InvalidId /\ TimeOut \in Nat /\ now \in Nat /\ 0 \notin Slots
    BY SlotFacts
  <1>2. Linked(client, trans, now)
    BY DEF SlotsInv
  <1>3. client[c].id # InvalidId /\ client[c].id # NoId
    BY <1>2 DEF Linked, Valid, Holds
  <1>4. client[c].began \in Nat
    BY SlotFacts
  <1>5. /\ n = 0 => \A i \in Slots : SweptTo(n)[i] = Swept[i]
        /\ n \in Slots => SweptTo(n)[n] = Swept[n]
        /\ \A i \in Slots : IF IsExpired(trans[i]) THEN Swept[i] = FreeSlot
                            ELSE Swept[i] = trans[i]
        /\ SweptBy(SweptTo(n))
    BY SweptFacts
  <1>6. \/ n = 0 /\ \A i \in Slots : Swept[i].id # client[c].id
        \/ n \in Slots /\ n # 0 /\ Swept[n].id = client[c].id
    BY FindFacts
  <1>7. ASSUME n # 0
        PROVE  /\ n \in Slots /\ SweptTo(n)[n] = trans[n] /\ Live(c)
               /\ trans[n].id = client[c].id /\ trans[n].config = client[c].wrote
    <2>1. n \in Slots /\ Swept[n].id = client[c].id
      BY <1>6, <1>7
    <2>2. ~IsExpired(trans[n]) /\ Swept[n] = trans[n]
      BY <1>1, <1>3, <1>5, <2>1
    <2>3. trans[n].id = client[c].id
      BY <2>1, <2>2
    <2>4. /\ client[c].known /\ trans[n].start = client[c].began
          /\ trans[n].config = client[c].wrote
      BY <1>2, <2>1, <2>3 DEF Linked, Owned
    <2>5. client[c].began + TimeOut >= now
      <3>1. ~(trans[n].start + TimeOut < now)
        BY <1>3, <2>2, <2>3 DEF IsExpired
      <3>2. trans[n].start = client[c].began
        BY <2>4
      <3> QED BY <1>1, <1>4, <3>1, <3>2
    <2> QED BY <1>5, <2>1, <2>2, <2>3, <2>4, <2>5 DEF Live
  <1>8. ASSUME Live(c) PROVE n # 0
    <2>1. PICK i \in Slots : trans[i].id = client[c].id
      BY <1>2, <1>8 DEF Linked, Placed, Live
    <2>2. trans[i].start = client[c].began
      BY <1>2, <2>1 DEF Linked, Owned
    <2>3. ~IsExpired(trans[i])
      BY <1>1, <1>4, <1>8, <2>2 DEF IsExpired, Live
    <2>4. Swept[i].id = client[c].id
      BY <1>5, <2>1, <2>3
    <2> QED BY <1>6, <2>4
  <1>9. ASSUME NEW i \in Slots, SweptTo(n)[i].id = client[c].id PROVE i = n
    <2>1. n # 0
      BY <1>5, <1>6, <1>9
    <2>2. SweptTo(n)[i] = trans[i]
      BY <1>1, <1>3, <1>5, <1>9 DEF SweptBy
    <2>3. trans[i].id = client[c].id
      BY <1>9, <2>2
    <2>4. trans[n].id = client[c].id /\ n \in Slots
      BY <1>7, <2>1
    <2> QED BY <1>2, <1>3, <2>3, <2>4 DEF Linked, SlotsApart
  <1> QED
    BY <1>7, <1>8, <1>9

-----------------------------------------------------------------------------
(* Serving. *)

\* A step of a request leaves the files and the keys of the tree alone.
LEMMA FilesStay ==
    ASSUME FilesInv, UNCHANGED <<backend, at, disk, durable, torn>>,
           \/ UNCHANGED tree
           \/ at = "up" /\ DOMAIN tree' = DOMAIN tree
    PROVE  FilesInv'
  <1>1. CASE UNCHANGED tree
    BY <1>1 DEF FilesInv
  <1>2. CASE at = "up" /\ DOMAIN tree' = DOMAIN tree
    <2>1. at \notin {"remove", "rename"}
      BY <1>2
    <2> QED BY <1>2, <2>1, Zenon DEF FilesInv
  <1> QED
    BY <1>1, <1>2

\* The types after the step of a request.
LEMMA ServeType ==
    ASSUME TypeOK, at = "up", UNCHANGED <<backend, at, disk, now, durable, torn>>,
           tree' \in Table, changed' \in BOOLEAN, collided' \in BOOLEAN,
           trans' \in [Slots -> Slot], client' \in [Clients -> Transaction],
           spent' = [spent EXCEPT !.requests = @ + 1]
    PROVE  TypeOK'
  <1>1. Slot' = Slot /\ Transaction' = Transaction
    BY DEF Slot, Transaction
  <1>2. spent' \in [requests : Nat, mishaps : Nat]
    BY DEF TypeOK
  <1>3. tree' # NoTree /\ at' # "down"
    BY ConfigAssumption
  <1>4. /\ backend' \in {"file", "sqlite"}
        /\ at' \in {"down", "up", "save", "remove", "rename"}
        /\ torn' \in BOOLEAN /\ now' \in Nat /\ durable' \in Table
        /\ disk' \in [conf : File, temp : File, db : Table \cup {NoTree}]
    BY DEF TypeOK
  <1>5. trans' \in [Slots -> Slot'] /\ client' \in [Clients -> Transaction']
    BY <1>1
  <1> QED
    BY <1>2, <1>3, <1>4, <1>5 DEF TypeOK

\* While the daemon is up there is a tree.
LEMMA UpTree ==
    ASSUME TypeOK, at = "up"
    PROVE  tree \in Table /\ tree # NoTree
  BY DEF TypeOK

\* The search of jf_config_startTransaction and of the requests that only look.
LEMMA SweepInv ==
    ASSUME Inv, at = "up", UNCHANGED <<backend, at, tree, disk, now, durable, torn, changed,
                                       client, collided, begun>>,
           trans' \in [Slots -> Slot], SweptBy(trans'),
           spent' = [spent EXCEPT !.requests = @ + 1]
    PROVE  Inv'
  <1>1. TypeOK /\ SlotsInv /\ FilesInv /\ tree \in Table
    BY UpTree DEF Inv
  <1>2. TypeOK'
    <2>1. /\ tree' \in Table /\ changed' \in BOOLEAN /\ collided' \in BOOLEAN
          /\ client' \in [Clients -> Transaction]
      BY <1>1 DEF TypeOK
    <2> QED BY <1>1, <2>1, ServeType
  <1>3. FilesInv'
    BY <1>1, FilesStay
  <1>4. /\ Covered(trans', tree)
        /\ ~collided => Linked(client, trans', now) /\ Recorded(trans', begun)
    BY <1>1, SweepKeeps
  <1>5. SlotsInv'
    BY <1>1, <1>4 DEF SlotsInv
  <1> QED
    BY <1>2, <1>3, <1>5 DEF Inv

\* The slots and the clients after a transaction has begun.
BeginSlots(tr, n, id) == [tr EXCEPT ![n] = [id |-> id, config |-> NoConfig, start |-> now]]
BeginClients(c, id) ==
    [client EXCEPT ![c] = [id |-> id, wrote |-> NoConfig, began |-> now, known |-> TRUE]]

\* A new transaction in the slot n that is free after the sweep.
LEMMA BeginKeeps ==
    ASSUME TypeOK, SlotsInv, NEW c \in Clients, NEW n \in Slots, NEW id \in Ids,
           NEW tr \in [Slots -> Slot], SweptBy(tr), tr[n].id = InvalidId
    PROVE  /\ BeginSlots(tr, n, id) \in [Slots -> Slot]
           /\ BeginClients(c, id) \in [Clients -> Transaction]
           /\ Covered(BeginSlots(tr, n, id), tree)
           /\ \A d \in Clients : BeginClients(c, id)[d].known => BeginClients(c, id)[d].id # NoId
           /\ ~collided /\ id # InvalidId /\ (\A d \in Clients : client[d].id # id)
                 /\ (\A i \in Slots : tr[i].id # id) =>
                Linked(BeginClients(c, id), BeginSlots(tr, n, id), now)
                /\ Recorded(BeginSlots(tr, n, id), begun \cup {[id |-> id, start |-> now]})
  <1> DEFINE s0 == [id |-> id, config |-> NoConfig, start |-> now]
             t0 == [id |-> id, wrote |-> NoConfig, began |-> now, known |-> TRUE]
             tn == BeginSlots(tr, n, id)
             cl == BeginClients(c, id)
  <1>1. now \in Nat /\ TimeOut \in Nat /\ id # NoId
    BY SlotFacts, ConfigAssumption
  <1>2. NoConfig \in Table /\ DOMAIN NoConfig = {}
    BY NoConfigFacts
  <1>3. s0 \in Slot /\ s0.id = id /\ s0.config = NoConfig /\ s0.start = now
    BY <1>1, <1>2 DEF Slot
  <1>4. /\ t0 \in Transaction /\ t0.id = id /\ t0.wrote = NoConfig /\ t0.began = now
        /\ t0.known = TRUE
    BY <1>1, <1>2 DEF Transaction
  <1>5. client \in [Clients -> Transaction]
    BY DEF TypeOK
  <1> HIDE DEF s0, t0
  <1>6. tn = [tr EXCEPT ![n] = s0] /\ cl = [client EXCEPT ![c] = t0]
    BY DEF s0, t0, BeginSlots, BeginClients
  <1> HIDE DEF tn, cl
  <1>7. /\ tn \in [Slots -> Slot] /\ tn[n] = s0
        /\ \A i \in Slots : i # n => tn[i] = tr[i]
    BY <1>3, <1>6
  <1>8. /\ cl \in [Clients -> Transaction] /\ cl[c] = t0
        /\ \A d \in Clients : d # c => cl[d] = client[d]
    <2>1. t0 \in Transaction
      BY <1>4, Zenon
    <2> QED BY <1>5, <1>6, <2>1
  <1>9. /\ Covered(tr, tree)
        /\ ~collided => Linked(client, tr, now) /\ Recorded(tr, begun)
    BY SweepKeeps
  <1>10. Covered(tn, tree)
    BY <1>2, <1>3, <1>7, <1>9 DEF Covered
  <1>11. \A d \in Clients : cl[d].known => cl[d].id # NoId
    BY <1>1, <1>4, <1>8 DEF SlotsInv
  <1>12. ASSUME ~collided, id # InvalidId, \A d \in Clients : client[d].id # id,
                \A i \in Slots : tr[i].id # id
         PROVE  /\ Linked(cl, tn, now)
                /\ Recorded(tn, begun \cup {[id |-> id, start |-> now]})
    <2>0. Linked(client, tr, now) /\ Recorded(tr, begun)
      BY <1>9, <1>12
    <2>1. \A d \in Clients : cl[d].id # InvalidId
      BY <1>4, <1>8, <1>12, <2>0 DEF Linked, Valid
    <2>2. \A b, d \in Clients : cl[b].id = cl[d].id /\ cl[b].id # NoId => b = d
      BY <1>4, <1>8, <1>12, <2>0 DEF Linked, Apart
    <2>3. \A i, j \in Slots : tn[i].id = tn[j].id /\ tn[i].id # InvalidId => i = j
      BY <1>3, <1>7, <1>12, <2>0 DEF Linked, SlotsApart
    <2>4. ASSUME NEW d \in Clients, NEW i \in Slots, tn[i].id = cl[d].id
          PROVE  cl[d].known /\ tn[i].start = cl[d].began /\ tn[i].config = cl[d].wrote
      <3>1. CASE d = c
        <4>1. i = n
          BY <1>4, <1>7, <1>8, <1>12, <2>4, <3>1
        <4> QED BY <1>3, <1>4, <1>7, <1>8, <3>1, <4>1
      <3>2. CASE d # c
        <4>1. cl[d] = client[d] /\ client[d].id # id
          BY <1>8, <1>12, <3>2
        <4>2. tn[i] = tr[i]
          BY <1>3, <1>7, <2>4, <4>1
        <4> QED BY <2>0, <2>4, <4>1, <4>2 DEF Linked, Owned
      <3> QED BY <3>1, <3>2
    <2>5. ASSUME NEW d \in Clients, cl[d].known, cl[d].began + TimeOut >= now
          PROVE  \E i \in Slots : tn[i].id = cl[d].id
      <3>1. CASE d = c
        BY <1>3, <1>4, <1>7, <1>8, <3>1
      <3>2. CASE d # c
        <4>1. cl[d] = client[d]
          BY <1>8, <3>2
        <4>2. PICK i \in Slots : tr[i].id = client[d].id
          BY <2>0, <2>5, <4>1 DEF Linked, Placed
        <4>3. i # n
          BY <2>0, <4>2 DEF Linked, Valid
        <4> QED BY <1>7, <4>1, <4>2, <4>3
      <3> QED BY <3>1, <3>2
    <2>6. Linked(cl, tn, now)
      BY <2>1, <2>2, <2>3, <2>4, <2>5, Zenon DEF Linked, Valid, Apart, SlotsApart, Owned, Placed
    <2>7. Recorded(tn, begun \cup {[id |-> id, start |-> now]})
      BY <1>3, <1>7, <2>0 DEF Recorded
    <2> QED BY <2>6, <2>7
  <1> QED
    BY <1>7, <1>8, <1>10, <1>11, <1>12 DEF tn, cl

\* startConfigTreeTransaction
LEMMA StartTransactionInv ==
    ASSUME Inv, NEW c \in Clients, StartTransaction(c)
    PROVE  Inv'
  <1>1. TypeOK /\ SlotsInv /\ FilesInv /\ at = "up" /\ tree \in Table
    BY UpTree DEF Inv, StartTransaction, Request
  <1>2. /\ UNCHANGED <<backend, at, tree, changed, disk, now, durable, torn>>
        /\ spent' = [spent EXCEPT !.requests = @ + 1]
    BY DEF StartTransaction, Request
  <1> DEFINE n  == Find(InvalidId)
             tr == SweptTo(n)
  <1>3. /\ tr \in [Slots -> Slot] /\ SweptBy(tr)
        /\ n \in Slots => tr[n] = Swept[n]
    BY <1>1, SweptFacts
  <1>4. CASE n = 0
    <2>1. trans' = tr /\ UNCHANGED <<client, collided, begun>>
      BY <1>4 DEF StartTransaction
    <2> HIDE DEF n, tr
    <2>2. trans' \in [Slots -> Slot] /\ SweptBy(trans')
      BY <1>3, <2>1
    <2> QED BY <1>1, <1>2, <2>1, <2>2, SweepInv
  <1>5. CASE n # 0
    <2>1. n \in Slots /\ Swept[n].id = InvalidId
      BY <1>5, FindFacts
    <2>2. PICK id \in Ids :
            /\ trans' = [tr EXCEPT ![n] = [id |-> id, config |-> NoConfig, start |-> now]]
            /\ client' = [client EXCEPT ![c] =
                            [id |-> id, wrote |-> NoConfig, began |-> now, known |-> TRUE]]
            /\ collided' = (collided \/ id = InvalidId
                            \/ (\E d \in Clients : client[d].id = id)
                            \/ \E i \in Slots : tr[i].id = id)
            /\ begun' = begun \cup {[id |-> id, start |-> now]}
      BY <1>5 DEF StartTransaction
    <2> HIDE DEF n, tr
    <2>3. tr[n].id = InvalidId
      BY <1>3, <2>1
    <2>4. /\ trans' \in [Slots -> Slot] /\ client' \in [Clients -> Transaction]
          /\ Covered(trans', tree)
          /\ \A d \in Clients : client'[d].known => client'[d].id # NoId
          /\ ~collided /\ id # InvalidId /\ (\A d \in Clients : client[d].id # id)
                /\ (\A i \in Slots : tr[i].id # id) =>
               Linked(client', trans', now)
               /\ Recorded(trans', begun \cup {[id |-> id, start |-> now]})
      <3>1. trans' = BeginSlots(tr, n, id) /\ client' = BeginClients(c, id)
        BY <2>2, Zenon DEF BeginSlots, BeginClients
      <3> QED BY <1>1, <1>3, <2>1, <2>3, <3>1, BeginKeeps
    <2>5. collided' \in BOOLEAN
      BY <2>2, Zenon
    <2>6. ~collided' => Linked(client', trans', now) /\ Recorded(trans', begun')
      BY <2>2, <2>4, Zenon
    <2>7. IsFiniteSet(begun')
      BY <1>1, <2>2, FS_AddElement DEF SlotsInv
    <2>8. SlotsInv'
      BY <1>1, <1>2, <2>4, <2>6, <2>7, Zenon DEF SlotsInv
    <2>9. TypeOK'
      <3>1. tree' \in Table /\ changed' \in BOOLEAN
        BY <1>1, <1>2 DEF TypeOK
      <3> QED BY <1>1, <1>2, <2>4, <2>5, <3>1, ServeType
    <2>10. FilesInv'
      BY <1>1, <1>2, FilesStay
    <2> QED BY <2>8, <2>9, <2>10 DEF Inv
  <1> QED
    BY <1>4, <1>5

\* The end of a transaction, by commit or rollback, frees its slot.
LEMMA OverKeeps ==
    ASSUME TypeOK, SlotsInv, NEW c \in Clients, Holds(c), NEW n, n = Find(client[c].id),
           NEW tn, tn = IF n = 0 THEN SweptTo(n) ELSE [SweptTo(n) EXCEPT ![n] = FreeSlot],
           NEW cl, cl = [client EXCEPT ![c] = NoTransaction],
           NEW b, b = begun \ {[id |-> client[c].id, start |-> client[c].began]}
    PROVE  /\ tn \in [Slots -> Slot] /\ cl \in [Clients -> Transaction]
           /\ Covered(tn, tree) /\ IsFiniteSet(b)
           /\ \A d \in Clients : cl[d].known => cl[d].id # NoId
           /\ ~collided => Linked(cl, tn, now) /\ Recorded(tn, b)
  <1>1. /\ FreeSlot \in Slot /\ FreeSlot.id = InvalidId /\ now \in Nat /\ InvalidId # NoId
        /\ \A s \in Slot : s.id # NoId
    BY SlotFacts
  <1>2. /\ NoTransaction \in Transaction /\ NoTransaction.id = NoId
        /\ ~NoTransaction.known
    BY <1>1, NoTransactionFacts
  <1>3. client \in [Clients -> Transaction]
    BY DEF TypeOK
  <1>4. /\ cl \in [Clients -> Transaction]
        /\ cl[c] = NoTransaction /\ \A d \in Clients : d # c => cl[d] = client[d]
    <2>1. NoTransaction \in Transaction
      BY <1>2
    <2> QED BY <1>3, <2>1
  <1> DEFINE tr == SweptTo(n)
  <1>5. tr \in [Slots -> Slot] /\ SweptBy(tr)
    BY SweptFacts
  <1>6. n = 0 \/ n \in Slots
    BY FindFacts
  <1> HIDE DEF tr
  <1>7. tn = IF n = 0 THEN tr ELSE [tr EXCEPT ![n] = FreeSlot]
    BY DEF tr
  <1>8. /\ tn \in [Slots -> Slot]
        /\ \A i \in Slots : tn[i] = tr[i] \/ tn[i] = FreeSlot
        /\ n # 0 => tn[n] = FreeSlot
        /\ \A i \in Slots : i # n => tn[i] = tr[i]
    <2>1. CASE n = 0
      BY <1>5, <1>7, <2>1
    <2>2. CASE n # 0
      BY <1>1, <1>5, <1>6, <1>7, <2>2
    <2> QED BY <2>1, <2>2
  <1>9. /\ Covered(tr, tree)
        /\ ~collided => Linked(client, tr, now) /\ Recorded(tr, begun)
    BY <1>5, SweepKeeps
  <1>10. \A i \in Slots : tn[i].id # InvalidId => tn[i] = tr[i]
    BY <1>1, <1>8
  <1>11. Covered(tn, tree)
    BY <1>9, <1>10 DEF Covered
  <1>12. \A d \in Clients : cl[d].known => cl[d].id # NoId
    BY <1>2, <1>4 DEF SlotsInv
  <1>13. IsFiniteSet(b)
    BY FS_Subset DEF SlotsInv
  <1>14. ASSUME ~collided PROVE Linked(cl, tn, now) /\ Recorded(tn, b)
    <2>0. Linked(client, tr, now) /\ Recorded(tr, begun)
      BY <1>9, <1>14
    <2>1. /\ \A i \in Slots : tr[i].id = client[c].id => i = n
          /\ n # 0 => tr[n].id = client[c].id
      <3>1. /\ n # 0 => SweptTo(n)[n] = trans[n] /\ trans[n].id = client[c].id
            /\ \A i \in Slots : SweptTo(n)[i].id = client[c].id => i = n
        BY <1>14, HoldsFind, SMTT(30)
      <3> QED BY <3>1 DEF tr
    <2>2. \A i \in Slots : tn[i].id # client[c].id
      <3>1. client[c].id # InvalidId
        BY <2>0 DEF Linked, Valid
      <3>2. ASSUME NEW i \in Slots, tn[i].id = client[c].id PROVE FALSE
        <4>1. tn[i] = tr[i]
          BY <1>10, <3>1, <3>2
        <4>2. i = n
          BY <2>1, <3>2, <4>1
        <4>3. n # 0
          BY <4>2, SlotFacts
        <4> QED BY <1>1, <1>8, <3>1, <3>2, <4>2, <4>3
      <3> QED BY <3>2
    <2>3. \A d \in Clients : cl[d].id # InvalidId
      BY <1>1, <1>2, <1>4, <2>0 DEF Linked, Valid
    <2>4. \A e, d \in Clients : cl[e].id = cl[d].id /\ cl[e].id # NoId => e = d
      BY <1>2, <1>4, <2>0 DEF Linked, Apart
    <2>5. \A i, j \in Slots : tn[i].id = tn[j].id /\ tn[i].id # InvalidId => i = j
      BY <1>10, <2>0, SMTT(30) DEF Linked, SlotsApart
    <2>6. ASSUME NEW d \in Clients, NEW i \in Slots, tn[i].id = cl[d].id
          PROVE  cl[d].known /\ tn[i].start = cl[d].began /\ tn[i].config = cl[d].wrote
      <3>1. tn[i].id # NoId
        BY <1>1, <1>8
      <3>2. d # c
        BY <1>2, <1>4, <2>6, <3>1
      <3>3. cl[d] = client[d] /\ tn[i] = tr[i]
        BY <1>4, <1>10, <2>3, <2>6, <3>2
      <3>4. tr[i].id = client[d].id
        BY <2>6, <3>3
      <3>5. /\ client[d].known /\ tr[i].start = client[d].began
            /\ tr[i].config = client[d].wrote
        BY <2>0, <3>4 DEF Linked, Owned
      <3> QED BY <3>3, <3>5
    <2>7. ASSUME NEW d \in Clients, cl[d].known, cl[d].began + TimeOut >= now
          PROVE  \E i \in Slots : tn[i].id = cl[d].id
      <3>1. d # c
        BY <1>2, <1>4, <2>7
      <3>2. cl[d] = client[d]
        BY <1>4, <3>1
      <3>3. PICK i \in Slots : tr[i].id = client[d].id
        BY <2>0, <2>7, <3>2 DEF Linked, Placed
      <3>4. client[d].id # client[c].id
        BY <2>0, <3>1 DEF Linked, Apart, Holds
      <3>5. i # n
        <4>1. CASE n = 0
          BY <4>1, SlotFacts
        <4>2. CASE n # 0
          <5>1. tr[n].id = client[c].id
            BY <2>1, <4>2
          <5> QED BY <3>3, <3>4, <5>1
        <4> QED BY <4>1, <4>2
      <3> QED BY <1>8, <3>2, <3>3, <3>5
    <2>8. Linked(cl, tn, now)
      BY <2>3, <2>4, <2>5, <2>6, <2>7, Zenon DEF Linked, Valid, Apart, SlotsApart, Owned, Placed
    <2>9. Recorded(tn, b)
      <3> SUFFICES ASSUME NEW i \in Slots, tn[i].id # InvalidId
                   PROVE  [id |-> tn[i].id, start |-> tn[i].start] \in b
        BY DEF Recorded
      <3> DEFINE e == [id |-> tn[i].id, start |-> tn[i].start]
                 o == [id |-> client[c].id, start |-> client[c].began]
      <3>1. e \in begun
        BY <1>10, <2>0 DEF Recorded
      <3>2. e # o
        BY <2>2
      <3>3. b = begun \ {o}
        OBVIOUS
      <3> HIDE DEF e, o
      <3>4. e \in b
        BY <3>1, <3>2, <3>3
      <3> QED BY <3>4 DEF e
    <2> QED BY <2>8, <2>9
  <1> QED
    BY <1>4, <1>8, <1>11, <1>12, <1>13, <1>14

\* commitConfigTreeTransaction
LEMMA CommitTransactionInv ==
    ASSUME Inv, NEW c \in Clients, CommitTransaction(c)
    PROVE  Inv'
  <1>1. TypeOK /\ SlotsInv /\ FilesInv /\ at = "up" /\ tree \in Table
    BY UpTree DEF Inv, CommitTransaction, Request
  <1>2. /\ UNCHANGED <<backend, at, disk, now, collided, durable, torn>>
        /\ spent' = [spent EXCEPT !.requests = @ + 1]
        /\ client[c].id \notin {NoId, InvalidId}
        /\ client' = [client EXCEPT ![c] = NoTransaction]
        /\ begun' = begun \ {[id |-> client[c].id, start |-> client[c].began]}
    BY DEF CommitTransaction, Request, IsOver
  <1>3. Holds(c)
    BY <1>2 DEF Holds
  <1> DEFINE n == Find(client[c].id)
  <1>4. \/ n = 0 /\ trans' = SweptTo(n) /\ UNCHANGED <<tree, changed>>
        \/ /\ n # 0 /\ trans' = [SweptTo(n) EXCEPT ![n] = FreeSlot]
           /\ tree' = Merge(tree, trans[n].config) /\ changed' = TRUE
    BY DEF CommitTransaction
  <1>5. n # 0 => n \in Slots /\ Swept[n].id = client[c].id
    BY FindFacts
  <1> HIDE DEF n
  <1>6. trans' = IF n = 0 THEN SweptTo(n) ELSE [SweptTo(n) EXCEPT ![n] = FreeSlot]
    BY <1>4
  <1>7. /\ trans' \in [Slots -> Slot] /\ client' \in [Clients -> Transaction]
        /\ Covered(trans', tree) /\ IsFiniteSet(begun')
        /\ \A d \in Clients : client'[d].known => client'[d].id # NoId
        /\ ~collided => Linked(client', trans', now) /\ Recorded(trans', begun')
    BY <1>1, <1>2, <1>3, <1>6, OverKeeps DEF n
  <1>8. /\ tree' \in Table /\ DOMAIN tree' = DOMAIN tree /\ changed' \in BOOLEAN
    <2>1. CASE n = 0
      BY <1>1, <1>4, <2>1 DEF TypeOK
    <2>2. CASE n # 0
      <3>1. n \in Slots /\ trans[n].id # InvalidId
        BY <1>1, <1>2, <1>5, <2>2, SweptFacts, SlotFacts
      <3>2. trans[n].config \in Table /\ DOMAIN trans[n].config \subseteq DOMAIN tree
        BY <1>1, <3>1 DEF SlotsInv, Covered
      <3>3. tree' = Merge(tree, trans[n].config) /\ changed' = TRUE
        BY <1>4, <2>2
      <3> QED BY <1>1, <3>2, <3>3, MergeFacts
    <2> QED BY <2>1, <2>2
  <1>9. Covered(trans', tree')
    BY <1>7, <1>8 DEF Covered
  <1>10. SlotsInv'
    BY <1>1, <1>2, <1>7, <1>9, Zenon DEF SlotsInv
  <1>11. TypeOK'
    <2>1. collided' \in BOOLEAN
      BY <1>1, <1>2 DEF TypeOK
    <2> QED BY <1>1, <1>2, <1>7, <1>8, <2>1, ServeType
  <1>12. FilesInv'
    BY <1>1, <1>2, <1>8, FilesStay
  <1> QED
    BY <1>10, <1>11, <1>12 DEF Inv

\* rollbackConfigTreeTransaction
LEMMA RollbackTransactionInv ==
    ASSUME Inv, NEW c \in Clients, RollbackTransaction(c)
    PROVE  Inv'
  <1>1. TypeOK /\ SlotsInv /\ FilesInv /\ at = "up" /\ tree \in Table
    BY UpTree DEF Inv, RollbackTransaction, Request
  <1>2. /\ UNCHANGED <<backend, at, tree, changed, disk, now, collided, durable, torn>>
        /\ spent' = [spent EXCEPT !.requests = @ + 1]
        /\ Holds(c)
        /\ client' = [client EXCEPT ![c] = NoTransaction]
        /\ begun' = begun \ {[id |-> client[c].id, start |-> client[c].began]}
    BY DEF RollbackTransaction, Request, IsOver
  <1> DEFINE n == Find(client[c].id)
  <1>3. trans' = IF n = 0 THEN SweptTo(n) ELSE [SweptTo(n) EXCEPT ![n] = FreeSlot]
    BY DEF RollbackTransaction
  <1> HIDE DEF n
  <1>4. /\ trans' \in [Slots -> Slot] /\ client' \in [Clients -> Transaction]
        /\ Covered(trans', tree) /\ IsFiniteSet(begun')
        /\ \A d \in Clients : client'[d].known => client'[d].id # NoId
        /\ ~collided => Linked(client', trans', now) /\ Recorded(trans', begun')
    BY <1>1, <1>2, <1>3, OverKeeps DEF n
  <1>5. SlotsInv'
    BY <1>1, <1>2, <1>4, Zenon DEF SlotsInv
  <1>6. TypeOK'
    <2>1. collided' \in BOOLEAN /\ changed' \in BOOLEAN /\ tree' \in Table
      BY <1>1, <1>2 DEF TypeOK
    <2> QED BY <1>1, <1>2, <1>4, <2>1, ServeType
  <1>7. FilesInv'
    BY <1>1, <1>2, FilesStay
  <1> QED
    BY <1>5, <1>6, <1>7 DEF Inv

\* setConfigIntoConfigTree outside a transaction
LEMMA SetDirectInv ==
    ASSUME Inv, NEW c \in Clients, NEW k \in Keys, NEW v \in Values, SetDirect(c, k, v)
    PROVE  Inv'
  <1>1. TypeOK /\ SlotsInv /\ FilesInv /\ at = "up" /\ tree \in Table
    BY UpTree DEF Inv, SetDirect, Request
  <1>2. /\ UNCHANGED <<backend, at, trans, disk, now, client, collided, begun, durable, torn>>
        /\ spent' = [spent EXCEPT !.requests = @ + 1]
        /\ \/ k \in DOMAIN tree /\ tree' = [tree EXCEPT ![k] = v] /\ changed' = TRUE
           \/ UNCHANGED <<tree, changed>>
    BY DEF SetDirect, Request
  <1>3. tree' \in Table /\ DOMAIN tree' = DOMAIN tree /\ changed' \in BOOLEAN
    <2>1. CASE UNCHANGED <<tree, changed>>
      BY <1>1, <2>1 DEF TypeOK
    <2>2. CASE k \in DOMAIN tree /\ tree' = [tree EXCEPT ![k] = v] /\ changed' = TRUE
      <3>1. v \in AllValues
        BY ConfigAssumption
      <3>2. tree \in [DOMAIN tree -> AllValues] /\ DOMAIN tree \subseteq AllKeys
        BY <1>1, TableFacts
      <3>3. tree' \in [DOMAIN tree -> AllValues] /\ DOMAIN tree' = DOMAIN tree
        BY <2>2, <3>1, <3>2
      <3> QED BY <2>2, <3>2, <3>3 DEF Table
    <2> QED BY <1>2, <2>1, <2>2
  <1>4. Covered(trans', tree')
    BY <1>1, <1>2, <1>3 DEF SlotsInv, Covered
  <1>5. SlotsInv'
    BY <1>1, <1>2, <1>4, Zenon DEF SlotsInv
  <1>6. TypeOK'
    <2>1. /\ collided' \in BOOLEAN /\ trans' \in [Slots -> Slot]
          /\ client' \in [Clients -> Transaction]
      BY <1>1, <1>2 DEF TypeOK
    <2> QED BY <1>1, <1>2, <1>3, <2>1, ServeType
  <1>7. FilesInv'
    BY <1>1, <1>2, <1>3, FilesStay
  <1> QED
    BY <1>5, <1>6, <1>7 DEF Inv

\* The slots and the clients after a key was set in the transaction of a client.
SetSlots(c, k, v) ==
    [SweptTo(Find(client[c].id)) EXCEPT
        ![Find(client[c].id)].config = Merge(@, [x \in {k} |-> v])]
SetClients(c, k, v) == [client EXCEPT ![c].wrote = Merge(@, [x \in {k} |-> v])]

\* A key is set in the transaction that is found, for the client that owns it.
LEMMA SetKeeps ==
    ASSUME TypeOK, SlotsInv, NEW c \in Clients, client[c].id \notin {NoId, InvalidId},
           NEW k \in Keys, NEW v \in Values, k \in DOMAIN tree, Find(client[c].id) # 0
    PROVE  /\ SetSlots(c, k, v) \in [Slots -> Slot]
           /\ SetClients(c, k, v) \in [Clients -> Transaction]
           /\ Covered(SetSlots(c, k, v), tree)
           /\ \A d \in Clients : SetClients(c, k, v)[d].known => SetClients(c, k, v)[d].id # NoId
           /\ ~collided => /\ Linked(SetClients(c, k, v), SetSlots(c, k, v), now)
                           /\ Recorded(SetSlots(c, k, v), begun)
  <1> DEFINE n == Find(client[c].id)
             one == [x \in {k} |-> v]
             tr == SweptTo(n)
             tn == SetSlots(c, k, v)
             cl == SetClients(c, k, v)
  <1>1. tr \in [Slots -> Slot] /\ SweptBy(tr)
    BY SweptFacts
  <1>2. n \in Slots /\ Swept[n].id = client[c].id /\ tr[n] = Swept[n]
    BY FindFacts, SweptFacts
  <1>3. one \in Table /\ DOMAIN one = {k}
    BY SingleFacts
  <1>0. /\ tn = [tr EXCEPT ![n].config = Merge(@, one)]
        /\ cl = [client EXCEPT ![c].wrote = Merge(@, one)]
    BY Zenon DEF SetSlots, SetClients
  <1> HIDE DEF n, one, tn, cl
  <1>4. /\ Covered(tr, tree)
        /\ ~collided => Linked(client, tr, now) /\ Recorded(tr, begun)
    BY <1>1, SweepKeeps
  <1> HIDE DEF tr
  <1>5. tr[n].config \in Table /\ DOMAIN tr[n].config \subseteq DOMAIN tree
    BY <1>2, <1>4 DEF Covered
  <1> DEFINE m == Merge(tr[n].config, one)
             w == Merge(client[c].wrote, one)
  <1>6. m \in Table /\ DOMAIN m \subseteq DOMAIN tree
    <2>1. m \in Table /\ DOMAIN m = DOMAIN tr[n].config \cup DOMAIN one
      BY <1>3, <1>5, MergeFacts
    <2> QED BY <1>3, <1>5, <2>1
  <1>7. client \in [Clients -> Transaction] /\ client[c].wrote \in Table
    BY SlotFacts DEF TypeOK
  <1>8. w \in Table
    BY <1>3, <1>7, MergeFacts
  <1>9. tn = [tr EXCEPT ![n].config = m] /\ cl = [client EXCEPT ![c].wrote = w]
    BY <1>0
  <1> HIDE DEF m, w
  <1>10. /\ tn \in [Slots -> Slot] /\ tn[n].config = m
         /\ tn[n].id = tr[n].id /\ tn[n].start = tr[n].start
         /\ \A i \in Slots : i # n => tn[i] = tr[i]
    <2> DEFINE s1 == [tr[n] EXCEPT !.config = m]
    <2>1. tr[n] \in Slot
      BY <1>1, <1>2
    <2>2. s1 \in Slot /\ s1.config = m /\ s1.id = tr[n].id /\ s1.start = tr[n].start
      BY <1>6, <2>1 DEF Slot
    <2>3. tn = [tr EXCEPT ![n] = s1]
      BY <1>1, <1>2, <1>9
    <2> HIDE DEF s1
    <2>4. /\ tn \in [Slots -> Slot] /\ tn[n] = s1
          /\ \A i \in Slots : i # n => tn[i] = tr[i]
      BY <1>1, <1>2, <2>2, <2>3
    <2> QED BY <2>2, <2>4
  <1>11. /\ cl \in [Clients -> Transaction] /\ cl[c].wrote = w
         /\ cl[c].id = client[c].id /\ cl[c].began = client[c].began
         /\ \A d \in Clients : d # c => cl[d] = client[d]
    BY <1>7, <1>8, <1>9 DEF Transaction
  <1>12. cl[c].known = client[c].known
    BY <1>7, <1>9 DEF Transaction
  <1>13. Covered(tn, tree)
    BY <1>2, <1>4, <1>6, <1>10 DEF Covered
  <1>14. \A d \in Clients : cl[d].known => cl[d].id # NoId
    BY <1>11, <1>12 DEF SlotsInv
  <1>15. \A i \in Slots : tn[i].id = tr[i].id /\ tn[i].start = tr[i].start
    BY <1>10
  <1>16. \A d \in Clients : cl[d].id = client[d].id /\ cl[d].began = client[d].began
    BY <1>11
  <1>17. \A d \in Clients : cl[d].known = client[d].known
    BY <1>11, <1>12
  <1>18. ASSUME ~collided PROVE Linked(cl, tn, now) /\ Recorded(tn, begun)
    <2>0. Linked(client, tr, now) /\ Recorded(tr, begun)
      BY <1>4, <1>18
    <2>1. Recorded(tn, begun)
      BY <1>15, <2>0 DEF Recorded
    <2>2. \A d \in Clients : cl[d].id # InvalidId
      BY <1>16, <2>0 DEF Linked, Valid
    <2>3. \A e, d \in Clients : cl[e].id = cl[d].id /\ cl[e].id # NoId => e = d
      BY <1>16, <2>0 DEF Linked, Apart
    <2>4. \A i, j \in Slots : tn[i].id = tn[j].id /\ tn[i].id # InvalidId => i = j
      BY <1>15, <2>0 DEF Linked, SlotsApart
    <2>5. ASSUME NEW d \in Clients, NEW i \in Slots, tn[i].id = cl[d].id
          PROVE  cl[d].known /\ tn[i].start = cl[d].began /\ tn[i].config = cl[d].wrote
      <3>1. tr[i].id = client[d].id
        BY <1>15, <1>16, <2>5
      <3>2. /\ client[d].known /\ tr[i].start = client[d].began
            /\ tr[i].config = client[d].wrote
        BY <2>0, <3>1 DEF Linked, Owned
      <3>3. cl[d].known /\ tn[i].start = cl[d].began
        BY <1>15, <1>16, <1>17, <3>2
      <3>4. tn[i].config = cl[d].wrote
        <4>1. CASE i = n
          <5>1. d = c
            BY <1>2, <2>0, <3>1, <4>1 DEF Linked, Apart
          <5> QED BY <1>10, <1>11, <3>2, <4>1, <5>1 DEF m, w
        <4>2. CASE i # n
          <5>1. d # c
            BY <1>2, <2>0, <3>1, <4>2 DEF Linked, SlotsApart
          <5> QED BY <1>10, <1>11, <3>2, <4>2, <5>1
        <4> QED BY <4>1, <4>2
      <3> QED BY <3>3, <3>4
    <2>6. ASSUME NEW d \in Clients, cl[d].known, cl[d].began + TimeOut >= now
          PROVE  \E i \in Slots : tn[i].id = cl[d].id
      <3>1. client[d].known /\ client[d].began + TimeOut >= now
        BY <1>16, <1>17, <2>6
      <3>2. PICK i \in Slots : tr[i].id = client[d].id
        BY <2>0, <3>1 DEF Linked, Placed
      <3> QED BY <1>15, <1>16, <3>2
    <2>7. Linked(cl, tn, now)
      BY <2>2, <2>3, <2>4, <2>5, <2>6, Zenon DEF Linked, Valid, Apart, SlotsApart, Owned, Placed
    <2> QED BY <2>1, <2>7
  <1> QED
    BY <1>10, <1>11, <1>13, <1>14, <1>18 DEF tn, cl

\* setConfigIntoConfigTree in a transaction
LEMMA SetInTransactionInv ==
    ASSUME Inv, NEW c \in Clients, NEW k \in Keys, NEW v \in Values, SetInTransaction(c, k, v)
    PROVE  Inv'
  <1>1. TypeOK /\ SlotsInv /\ FilesInv /\ at = "up" /\ tree \in Table
    BY UpTree DEF Inv, SetInTransaction, Request
  <1> DEFINE n   == Find(client[c].id)
             one == [x \in {k} |-> v]
  <1>2. /\ UNCHANGED <<backend, at, tree, changed, disk, now, collided, begun, durable, torn>>
        /\ spent' = [spent EXCEPT !.requests = @ + 1]
        /\ client[c].id \notin {NoId, InvalidId}
    BY DEF SetInTransaction, Request
  <1>3. reply'.ok = (k \in DOMAIN tree /\ n # 0)
    BY DEF SetInTransaction, Reply
  <1>4. \/ k \notin DOMAIN tree /\ trans' = trans /\ client' = client
        \/ n = 0 /\ trans' = SweptTo(n) /\ client' = client
        \/ /\ k \in DOMAIN tree /\ n # 0
           /\ trans' = [SweptTo(n) EXCEPT ![n].config = Merge(@, one)]
           /\ client' = [client EXCEPT ![c].wrote = Merge(@, one)]
    BY <1>3 DEF SetInTransaction
  <1> HIDE DEF n, one
  <1>5. CASE trans' = trans /\ client' = client
    <2>1. trans' \in [Slots -> Slot] /\ SweptBy(trans')
      BY <1>1, <1>5 DEF TypeOK, SweptBy
    <2> QED BY <1>1, <1>2, <1>5, <2>1, SweepInv
  <1>6. CASE trans' = SweptTo(n) /\ client' = client
    <2>1. trans' \in [Slots -> Slot] /\ SweptBy(trans')
      BY <1>1, <1>6, SweptFacts
    <2> QED BY <1>1, <1>2, <1>6, <2>1, SweepInv
  <1>7. CASE /\ k \in DOMAIN tree /\ n # 0
             /\ trans' = [SweptTo(n) EXCEPT ![n].config = Merge(@, one)]
             /\ client' = [client EXCEPT ![c].wrote = Merge(@, one)]
    <2>1. /\ trans' \in [Slots -> Slot] /\ client' \in [Clients -> Transaction]
          /\ Covered(trans', tree)
          /\ \A d \in Clients : client'[d].known => client'[d].id # NoId
          /\ ~collided => Linked(client', trans', now) /\ Recorded(trans', begun)
      <3>1. TypeOK /\ SlotsInv
        BY <1>1
      <3>2. client[c].id \notin {NoId, InvalidId}
        BY <1>2
      <3>3. trans' = SetSlots(c, k, v) /\ client' = SetClients(c, k, v)
        BY <1>7, Zenon DEF SetSlots, SetClients, n, one
      <3>4. k \in DOMAIN tree /\ Find(client[c].id) # 0
        BY <1>7 DEF n
      <3>5. /\ SetSlots(c, k, v) \in [Slots -> Slot]
            /\ SetClients(c, k, v) \in [Clients -> Transaction]
            /\ Covered(SetSlots(c, k, v), tree)
            /\ \A d \in Clients :
                 SetClients(c, k, v)[d].known => SetClients(c, k, v)[d].id # NoId
            /\ ~collided => /\ Linked(SetClients(c, k, v), SetSlots(c, k, v), now)
                            /\ Recorded(SetSlots(c, k, v), begun)
        BY <3>1, <3>2, <3>4, SetKeeps
      <3> QED BY <3>3, <3>5, Zenon
    <2>2. SlotsInv'
      BY <1>1, <1>2, <2>1, Zenon DEF SlotsInv
    <2>3. TypeOK'
      <3>1. collided' \in BOOLEAN /\ changed' \in BOOLEAN /\ tree' \in Table
        BY <1>1, <1>2 DEF TypeOK
      <3> QED BY <1>1, <1>2, <2>1, <3>1, ServeType
    <2>4. FilesInv'
      BY <1>1, <1>2, FilesStay
    <2> QED BY <2>2, <2>3, <2>4 DEF Inv
  <1> QED
    BY <1>4, <1>5, <1>6, <1>7

\* getConfigFromConfigTree
LEMMA GetInv ==
    ASSUME Inv, NEW c \in Clients, NEW k \in Keys, Get(c, k)
    PROVE  Inv'
  <1>1. TypeOK /\ at = "up"
    BY DEF Inv, Get, Request
  <1>2. /\ UNCHANGED <<backend, at, tree, changed, disk, now, client, collided, begun, durable,
                       torn>>
        /\ spent' = [spent EXCEPT !.requests = @ + 1]
        /\ trans' = trans \/ trans' = SweptTo(Find(client[c].id))
    BY DEF Get, Request
  <1>3. trans' \in [Slots -> Slot] /\ SweptBy(trans')
    <2>1. CASE trans' = trans
      BY <1>1, <2>1 DEF TypeOK, SweptBy
    <2>2. CASE trans' = SweptTo(Find(client[c].id))
      BY <1>1, <2>2, SweptFacts
    <2> QED BY <1>2, <2>1, <2>2
  <1> QED
    BY <1>1, <1>2, <1>3, SweepInv

-----------------------------------------------------------------------------
(* Clients that go away, and time. *)

\* A client that gives up its transaction leaves the slot to time out.
LEMMA AbandonInv ==
    ASSUME Inv, NEW c \in Clients, Abandon(c)
    PROVE  Inv'
  <1>1. TypeOK /\ SlotsInv /\ FilesInv
    BY DEF Inv
  <1>2. /\ UNCHANGED <<backend, at, tree, changed, trans, disk, now, collided, begun, durable,
                       torn, spent>>
        /\ client' = [client EXCEPT ![c] = NoTransaction]
    BY DEF Abandon
  <1>3. /\ NoTransaction \in Transaction /\ NoTransaction.id = NoId
        /\ ~NoTransaction.known
    <2>1. now \in Nat
      BY <1>1 DEF TypeOK
    <2> QED BY <2>1, NoTransactionFacts
  <1>4. client \in [Clients -> Transaction]
    BY <1>1 DEF TypeOK
  <1>5. /\ client' \in [Clients -> Transaction] /\ client'[c] = NoTransaction
        /\ \A d \in Clients : d # c => client'[d] = client[d]
    BY <1>2, <1>3, <1>4
  <1>6. TypeOK'
    <2>1. Slot' = Slot /\ Transaction' = Transaction
      BY <1>2 DEF Slot, Transaction
    <2>2. client' \in [Clients -> Transaction']
      BY <1>5, <2>1
    <2> QED BY <1>1, <1>2, <2>1, <2>2, Zenon DEF TypeOK
  <1>7. FilesInv'
    BY <1>1, <1>2 DEF FilesInv
  <1>8. \A d \in Clients : client'[d].known => client'[d].id # NoId
    BY <1>1, <1>3, <1>5 DEF SlotsInv
  <1>9. ASSUME ~collided PROVE Linked(client', trans, now)
    <2>0. Linked(client, trans, now)
      BY <1>1, <1>9 DEF SlotsInv
    <2>1. InvalidId # NoId /\ \A i \in Slots : trans[i].id # NoId
      BY <1>1, SlotFacts
    <2>2. \A d \in Clients : client'[d].id # InvalidId
      BY <1>3, <1>5, <2>0, <2>1 DEF Linked, Valid
    <2>3. \A e, d \in Clients : client'[e].id = client'[d].id /\ client'[e].id # NoId => e = d
      BY <1>3, <1>5, <2>0 DEF Linked, Apart
    <2>4. \A i, j \in Slots : trans[i].id = trans[j].id /\ trans[i].id # InvalidId => i = j
      BY <2>0 DEF Linked, SlotsApart
    <2>5. ASSUME NEW d \in Clients, NEW i \in Slots, trans[i].id = client'[d].id
          PROVE  /\ client'[d].known /\ trans[i].start = client'[d].began
                 /\ trans[i].config = client'[d].wrote
      <3>1. client'[d] = client[d]
        BY <1>3, <1>5, <2>1, <2>5
      <3>2. /\ client[d].known /\ trans[i].start = client[d].began
            /\ trans[i].config = client[d].wrote
        <4>1. trans[i].id = client[d].id
          BY <2>5, <3>1
        <4> QED BY <2>0, <4>1 DEF Linked, Owned
      <3> QED BY <3>1, <3>2
    <2>6. ASSUME NEW d \in Clients, client'[d].known, client'[d].began + TimeOut >= now
          PROVE  \E i \in Slots : trans[i].id = client'[d].id
      <3>1. client'[d] = client[d]
        BY <1>3, <1>5, <2>6
      <3> QED BY <2>0, <2>6, <3>1 DEF Linked, Placed
    <2> QED BY <2>2, <2>3, <2>4, <2>5, <2>6, Zenon
       DEF Linked, Valid, Apart, SlotsApart, Owned, Placed
  <1>10. SlotsInv'
    BY <1>1, <1>2, <1>8, <1>9, Zenon DEF SlotsInv
  <1> QED
    BY <1>6, <1>7, <1>10 DEF Inv

\* Time only takes transactions out of those that must have a slot.
LEMMA TickInv ==
    ASSUME Inv, Tick
    PROVE  Inv'
  <1>1. TypeOK /\ SlotsInv /\ FilesInv
    BY DEF Inv
  <1>2. /\ UNCHANGED <<backend, at, tree, changed, trans, disk, client, collided, begun, durable,
                       torn, spent>>
        /\ now' = now + 1
    BY DEF Tick
  <1>3. now \in Nat /\ TimeOut \in Nat /\ now' \in Nat /\ now <= now'
    BY <1>1, <1>2, SlotFacts
  <1>4. Slot \subseteq Slot' /\ Transaction \subseteq Transaction'
    BY <1>3 DEF Slot, Transaction
  <1>5. TypeOK'
    <2>1. trans \in [Slots -> Slot] /\ client \in [Clients -> Transaction]
      BY <1>1 DEF TypeOK
    <2>2. trans' \in [Slots -> Slot'] /\ client' \in [Clients -> Transaction']
      BY <1>2, <1>4, <2>1
    <2> QED BY <1>1, <1>2, <1>3, <2>2, Zenon DEF TypeOK
  <1>6. FilesInv'
    BY <1>1, <1>2 DEF FilesInv
  <1>7. ASSUME Linked(client, trans, now) PROVE Linked(client, trans, now')
    <2>1. ASSUME NEW c \in Clients, client[c].began + TimeOut >= now'
          PROVE  client[c].began + TimeOut >= now
      <3>1. client[c].began \in Nat
        BY <1>1, SlotFacts
      <3> QED BY <1>3, <2>1, <3>1
    <2> QED BY <1>7, <2>1, Zenon DEF Linked, Placed
  <1>8. SlotsInv'
    BY <1>1, <1>2, <1>7, Zenon DEF SlotsInv
  <1> QED
    BY <1>5, <1>6, <1>8 DEF Inv
-----------------------------------------------------------------------------
(* What a request answers. *)

\* The fields of an answer.
LEMMA ReplyFacts ==
    ASSUME NEW op, NEW c, NEW ok, NEW k, NEW v, reply' = Reply(op, c, ok, k, v)
    PROVE  /\ reply'.op = op /\ reply'.c = c /\ reply'.ok = ok
           /\ reply'.key = k /\ reply'.value = v
  BY DEF Reply

\* Who is who while no id was drawn twice or drawn as 0.
LEMMA ClientFacts ==
    ASSUME TypeOK, SlotsInv, ~collided, NEW c \in Clients
    PROVE  /\ client[c].id # InvalidId
           /\ ~Holds(c) => ~Live(c)
           /\ client[c].id \notin {NoId, InvalidId} <=> Holds(c)
  <1>1. client[c].id # InvalidId
    BY DEF SlotsInv, Linked, Valid
  <1>2. client[c].known => client[c].id # NoId
    BY DEF SlotsInv
  <1> QED
    BY <1>1, <1>2 DEF Holds, Live

\* startConfigTreeTransaction changes nothing a client has set.
LEMMA StartTransactionIsolated ==
    ASSUME Inv, NEW c \in Clients, StartTransaction(c)
    PROVE  IsolatedStep
  <1>1. tree' = tree
    BY DEF StartTransaction
  <1>2. \E ok \in BOOLEAN : reply' = Reply("start", c, ok, NoId, NoId)
    BY DEF StartTransaction
  <1>3. reply'.op = "start"
    BY <1>2, ReplyFacts
  <1> QED
    BY <1>1, <1>3 DEF IsolatedStep

\* commitConfigTreeTransaction puts all of the transaction into the tree.
LEMMA CommitTransactionIsolated ==
    ASSUME Inv, NEW c \in Clients, CommitTransaction(c)
    PROVE  IsolatedStep
  <1> SUFFICES ASSUME ~collided' PROVE IsolatedStep
    BY DEF IsolatedStep
  <1> DEFINE n == Find(client[c].id)
  <1>1. TypeOK /\ SlotsInv /\ ~collided /\ Holds(c)
    BY DEF Inv, CommitTransaction, Holds
  <1>2. reply' = Reply("commit", c, n # 0, NoId, NoId)
    BY DEF CommitTransaction
  <1>3. /\ n = 0 => tree' = tree
        /\ n # 0 => tree' = Merge(tree, trans[n].config)
    BY DEF CommitTransaction
  <1>4. (n # 0 <=> Live(c)) /\ (n # 0 => trans[n].config = client[c].wrote)
    BY <1>1, HoldsFind
  <1> HIDE DEF n
  <1>5. reply'.op = "commit" /\ reply'.c = c /\ reply'.ok = (n # 0)
    BY <1>2, ReplyFacts
  <1>6. reply'.ok = Live(c)
    BY <1>4, <1>5 DEF Live
  <1>7. tree' = IF Live(c) THEN Merge(tree, client[c].wrote) ELSE tree
    BY <1>3, <1>4
  <1>8. reply'.op = "commit" /\ reply'.c = c
    BY <1>5, Zenon
  <1> QED
    BY <1>6, <1>7, <1>8 DEF IsolatedStep

\* rollbackConfigTreeTransaction leaves the tree alone.
LEMMA RollbackTransactionIsolated ==
    ASSUME Inv, NEW c \in Clients, RollbackTransaction(c)
    PROVE  IsolatedStep
  <1> SUFFICES ASSUME ~collided' PROVE IsolatedStep
    BY DEF IsolatedStep
  <1> DEFINE n == Find(client[c].id)
  <1>1. TypeOK /\ SlotsInv /\ ~collided /\ Holds(c) /\ tree' = tree
    BY DEF Inv, RollbackTransaction
  <1>2. reply' = Reply("rollback", c, n # 0, NoId, NoId)
    BY DEF RollbackTransaction
  <1>3. n # 0 <=> Live(c)
    BY <1>1, HoldsFind
  <1> HIDE DEF n
  <1>4. reply'.op = "rollback" /\ reply'.c = c /\ reply'.ok = (n # 0)
    BY <1>2, ReplyFacts
  <1>5. reply'.ok = Live(c)
    BY <1>3, <1>4 DEF Live
  <1>6. reply'.op = "rollback" /\ reply'.c = c /\ tree' = tree
    BY <1>1, <1>4, Zenon
  <1> QED
    BY <1>5, <1>6 DEF IsolatedStep

\* setConfigIntoConfigTree outside a transaction changes the key it names.
LEMMA SetDirectIsolated ==
    ASSUME Inv, NEW c \in Clients, NEW k \in Keys, NEW v \in Values, SetDirect(c, k, v)
    PROVE  IsolatedStep
  <1> SUFFICES ASSUME ~collided' PROVE IsolatedStep
    BY DEF IsolatedStep
  <1>1. TypeOK /\ SlotsInv /\ ~collided /\ client[c].id \in {NoId, InvalidId} /\ tree \in Table
    BY UpTree DEF Inv, SetDirect, Request
  <1>2. ~Holds(c)
    BY <1>1, ClientFacts
  <1>3. reply' = Reply("set", c, k \in DOMAIN tree, k, v)
    BY DEF SetDirect
  <1>4. k \in DOMAIN tree => tree' = [tree EXCEPT ![k] = v]
    BY DEF SetDirect
  <1>5. k \in DOMAIN tree => tree'[k] = v
    <2>1. tree \in [DOMAIN tree -> AllValues]
      BY <1>1, TableFacts
    <2> QED BY <1>4, <2>1
  <1>6. /\ reply'.op = "set" /\ reply'.c = c /\ reply'.key = k /\ reply'.value = v
        /\ reply'.ok = (k \in DOMAIN tree)
    BY <1>3, ReplyFacts
  <1>7. reply'.ok = (k \in DOMAIN tree /\ (Holds(c) => Live(c)))
    BY <1>2, <1>6
  <1>8. reply'.ok => tree'[k] = v
    BY <1>5, <1>6
  <1>9. reply'.op = "set" /\ reply'.c = c /\ reply'.key = k /\ reply'.value = v
    BY <1>6, Zenon
  <1> QED
    BY <1>2, <1>7, <1>8, <1>9 DEF IsolatedStep

\* setConfigIntoConfigTree in a transaction does not change the tree.
LEMMA SetInTransactionIsolated ==
    ASSUME Inv, NEW c \in Clients, NEW k \in Keys, NEW v \in Values, SetInTransaction(c, k, v)
    PROVE  IsolatedStep
  <1> SUFFICES ASSUME ~collided' PROVE IsolatedStep
    BY DEF IsolatedStep
  <1> DEFINE n == Find(client[c].id)
  <1>1. TypeOK /\ SlotsInv /\ ~collided /\ Holds(c) /\ tree' = tree
    BY DEF Inv, SetInTransaction, Holds
  <1>2. reply' = Reply("set", c, k \in DOMAIN tree /\ n # 0, k, v)
    BY DEF SetInTransaction
  <1>3. n # 0 <=> Live(c)
    BY <1>1, HoldsFind
  <1> HIDE DEF n
  <1>4. /\ reply'.op = "set" /\ reply'.c = c /\ reply'.key = k
        /\ reply'.ok = (k \in DOMAIN tree /\ n # 0)
    BY <1>2, ReplyFacts
  <1>5. reply'.ok = (k \in DOMAIN tree /\ (Holds(c) => Live(c)))
    BY <1>1, <1>3, <1>4
  <1>6. reply'.op = "set" /\ reply'.c = c /\ reply'.key = k
    BY <1>4, Zenon
  <1> QED
    BY <1>1, <1>5, <1>6 DEF IsolatedStep

\* getConfigFromConfigTree answers with what the client wrote, or the tree.
LEMMA GetIsolated ==
    ASSUME Inv, NEW c \in Clients, NEW k \in Keys, Get(c, k)
    PROVE  IsolatedStep
  <1> SUFFICES ASSUME ~collided' PROVE IsolatedStep
    BY DEF IsolatedStep
  <1> DEFINE n == Find(client[c].id)
             seen == IF Live(c) /\ k \in DOMAIN client[c].wrote
                     THEN client[c].wrote[k] ELSE tree[k]
  <1>1. TypeOK /\ SlotsInv /\ ~collided /\ tree' = tree
    BY DEF Inv, Get
  <1>2. reply' = IF /\ client[c].id \notin {NoId, InvalidId} /\ n # 0
                    /\ k \in DOMAIN trans[n].config
                 THEN Reply("get", c, TRUE, k, trans[n].config[k])
                 ELSE IF k \in DOMAIN tree THEN Reply("get", c, TRUE, k, tree[k])
                 ELSE Reply("get", c, FALSE, k, NoId)
    BY DEF Get
  <1>3. /\ ~Holds(c) => ~Live(c)
        /\ client[c].id \notin {NoId, InvalidId} <=> Holds(c)
    BY <1>1, ClientFacts
  <1>4. ASSUME Holds(c)
        PROVE  /\ n # 0 <=> Live(c)
               /\ n # 0 => /\ trans[n].config = client[c].wrote
                           /\ DOMAIN trans[n].config \subseteq DOMAIN tree
    <2>1. /\ n # 0 <=> Live(c)
          /\ n # 0 => /\ n \in Slots /\ trans[n].id = client[c].id
                      /\ trans[n].config = client[c].wrote
      BY <1>1, <1>4, HoldsFind
    <2>2. client[c].id # InvalidId /\ Covered(trans, tree)
      BY <1>1, ClientFacts DEF SlotsInv
    <2> QED BY <2>1, <2>2 DEF Covered
  <1> HIDE DEF n
  <1>5. (/\ client[c].id \notin {NoId, InvalidId} /\ n # 0
         /\ k \in DOMAIN trans[n].config) <=> Live(c) /\ k \in DOMAIN client[c].wrote
    BY <1>3, <1>4
  <1>6. Live(c) /\ k \in DOMAIN client[c].wrote =>
          trans[n].config = client[c].wrote /\ k \in DOMAIN tree
    BY <1>3, <1>4
  <1>7. CASE k \in DOMAIN tree
    <2>1. reply' = Reply("get", c, TRUE, k, seen)
      BY <1>2, <1>5, <1>6, <1>7
    <2> HIDE DEF seen
    <2>2. reply'.op = "get" /\ reply'.c = c /\ reply'.key = k /\ reply'.value = seen
      BY <2>1, ReplyFacts, Zenon
    <2>3. reply'.ok = TRUE
      BY <2>1, ReplyFacts, Zenon
    <2>4. reply'.ok = (k \in DOMAIN tree)
      BY <1>7, <2>3
    <2> QED BY <1>1, <2>2, <2>4 DEF IsolatedStep, seen
  <1>8. CASE k \notin DOMAIN tree
    <2>1. reply' = Reply("get", c, FALSE, k, NoId)
      BY <1>2, <1>5, <1>6, <1>8
    <2>2. reply'.op = "get" /\ reply'.c = c /\ reply'.key = k
      BY <2>1, ReplyFacts, Zenon
    <2>3. reply'.ok = FALSE
      BY <2>1, ReplyFacts, Zenon
    <2>4. (k \in DOMAIN tree) = FALSE
      BY <1>8
    <2>5. reply'.ok = (k \in DOMAIN tree)
      BY <2>3, <2>4, Zenon
    <2>6. ~reply'.ok
      BY <2>3
    <2> QED BY <1>1, <2>2, <2>5, <2>6 DEF IsolatedStep
  <1> QED
    BY <1>7, <1>8

\* A start is refused when every slot is in use by a transaction that has begun
\* and is not timed out.
LEMMA StartTransactionRefused ==
    ASSUME Inv, NEW c \in Clients, StartTransaction(c)
    PROVE  RefusedStep
  <1> DEFINE B == {b \in begun : b.start + TimeOut >= now}
             n == Find(InvalidId)
  <1> SUFFICES ASSUME ~reply'.ok, ~collided
               PROVE  Cardinality(B) >= MaxNumOfTransaction
    BY DEF RefusedStep
  <1>1. TypeOK /\ SlotsInv
    BY DEF Inv
  <1>2. n = 0
    <2>1. n # 0 => reply' = Reply("start", c, TRUE, NoId, NoId)
      BY DEF StartTransaction
    <2>2. n # 0 => reply'.ok = TRUE
      BY <2>1, ReplyFacts, Zenon
    <2> QED BY <2>2
  <1>3. /\ Linked(client, trans, now) /\ Recorded(trans, begun) /\ IsFiniteSet(begun)
    BY <1>1 DEF SlotsInv
  <1>4. \A i \in Slots : /\ trans[i].id # InvalidId
                         /\ trans[i].start + TimeOut >= now
    <2> TAKE i \in Slots
    <2>1. Swept[i].id # InvalidId
      BY <1>2, FindFacts
    <2>2. /\ IF IsExpired(trans[i]) THEN Swept[i] = FreeSlot ELSE Swept[i] = trans[i]
          /\ FreeSlot.id = InvalidId /\ TimeOut \in Nat /\ now \in Nat
      BY <1>1, SweptFacts, SlotFacts
    <2>3. trans[i].start \in Nat
      BY <1>1, SlotFacts
    <2>4. ~IsExpired(trans[i]) /\ trans[i].id # InvalidId
      BY <2>1, <2>2
    <2>5. ~(trans[i].start + TimeOut < now)
      BY <2>4 DEF IsExpired
    <2> QED BY <2>2, <2>3, <2>4, <2>5
  <1> DEFINE g == [i \in Slots |-> [id |-> trans[i].id, start |-> trans[i].start]]
  <1>5. \A i \in Slots : [id |-> trans[i].id, start |-> trans[i].start] \in B
    BY <1>3, <1>4 DEF Recorded
  <1>6. g \in [Slots -> B]
    BY <1>5
  <1>7. \A i, j \in Slots : g[i] = g[j] => trans[i].id = trans[j].id
    OBVIOUS
  <1>8. IsFiniteSet(B)
    <2>1. B \in SUBSET begun
      OBVIOUS
    <2> QED BY <1>3, <2>1, FS_Subset
  <1> HIDE DEF g, B
  <1>9. IsFiniteSet(Slots) /\ Cardinality(Slots) = MaxNumOfTransaction
    <2>1. MaxNumOfTransaction \in Nat
      BY ConfigAssumption
    <2> QED BY <2>1, FS_Interval DEF Slots
  <1>10. Cardinality(B) \in Nat /\ MaxNumOfTransaction \in Nat
    BY <1>8, FS_CardinalityType, ConfigAssumption
  <1>11. ASSUME Cardinality(B) < Cardinality(Slots) PROVE FALSE
    <2>1. PICK i, j \in Slots : i # j /\ g[i] = g[j]
      BY <1>6, <1>8, <1>9, <1>11, FS_PigeonHole
    <2> QED BY <1>3, <1>4, <1>7, <2>1 DEF Linked, SlotsApart
  <1> QED
    BY <1>9, <1>10, <1>11
=============================================================================
