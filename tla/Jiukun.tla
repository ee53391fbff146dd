------------------------------- MODULE Jiukun -------------------------------
(***************************************************************************)
(* The memory allocator of src/jiukun: a buddy system that hands out 2^n   *)
(* pages of one or more zones, and slab caches that cut pages into         *)
(* objects.  A cache without a free object grows by a slab; when the pages *)
(* have run out the thread that needs some reaps the caches first.         *)
(*                                                                         *)
(* A thread in the library is a stack of frames [pc, c, x]: where it is,   *)
(* the cache it works on, and what it carries.  A step ends where a mutex  *)
(* is taken or released.  Sizes are in units of a scaled-down page.        *)
(*                                                                         *)
(* Left out: the red zones and checks of DEBUG_JIUKUN, which the makefiles *)
(* do not define, the contents of memory, and failures of malloc.          *)
(***************************************************************************)
EXTENDS Integers, Sequences, FiniteSets, SequencesExt

CONSTANTS
    Threads, None,
    PoolPages,          \* sizeToPages(jjip_sPool)
    MaxZones,           \* MAX_BUDDY_ZONES, or 1 with bNoGrow
    PageSize, SlabSize, BufctlSize, AlignSize, MaxJpOrder,
                        \* BUDDY_PAGE_SIZE, sizeof(slab_t), sizeof(slab_bufctl_t), ...
    CacheCache,         \* ijs_scCacheCache
    General,            \* the general caches, in the order of cachesizes.h
    UserCaches,
    ObjSize,            \* cache -> jjccp_sObj
    NoReap, Wait,       \* the caches with these flags
    MemorySizes,        \* the arguments of jf_jiukun_allocMemory
    PageOrders,         \* ... of jf_jiukun_allocPage
    MaxCalls            \* bound: calls of the library in a behaviour

Caches == {CacheCache} \cup UserCaches \cup ToSet(General)

ASSUME GeneralAssumption == General # <<>> /\ IsInjective(General)

VARIABLES
    zones,              \* ijb_pbzZone
    list,               \* the chain of caches, ijs_scCacheCache.sc_jlNext
    cache,              \* cache -> its lists of slabs, flags and descriptor
    slab,               \* first page of a slab -> slab_t and its bufctl
    smLock, jm,         \* owners of ijs_smLock and of each sc_jmCache
    stack, ret,         \* per thread: its frames, and what the last call returned
    own,                \* per thread: the objects and pages its caller has
    raced,              \* a page was merged while it was being handed out
    up, calls

vars == <<zones, list, cache, slab, smLock, jm, stack, ret, own, raced, up, calls>>
-----------------------------------------------------------------------------
(* The buddy system *)

\* jf_jiukun_init: the largest order whose pages the pool covers
MaxOrder == 1 + (CHOOSE m \in 0..PoolPages :
                    PoolPages <= 2^(m + 1) - 1 /\ \A n \in 0..(m - 1) : PoolPages > 2^(n + 1) - 1)

NumOfPage == 2^(MaxOrder - 1)
Orders == 0..(MaxOrder - 1)
Index == 0..(NumOfPage - 1)

\* A zone: the free lists of its orders, the number of free pages, and of every
\* page the order and the allocated flag.
CreateBuddyZone ==
    [area |-> [k \in Orders |-> IF k = MaxOrder - 1 THEN <<0>> ELSE <<>>],
     freePages |-> NumOfPage,
     order |-> [i \in Index |-> IF i = 0 THEN MaxOrder - 1 ELSE 0],
     allocated |-> [i \in Index |-> FALSE]]

\* _rmqueue and _splitPageList: the first page of the lowest order that has one, its
\* upper halves going to the lists below
RmQueue(z, order) ==
    LET found == {k \in order..(MaxOrder - 1) : z.area[k] # <<>>} IN
    IF found = {} THEN [zone |-> z, page |-> None]
    ELSE LET cur == Min(found)
             page == Head(z.area[cur])
             halves == order..(cur - 1)
         IN [zone |-> [z EXCEPT
                !.area = [k \in Orders |-> IF k = cur THEN Tail(@[k])
                                           ELSE IF k \in halves THEN <<page + 2^k>> \o @[k]
                                           ELSE @[k]],
                !.freePages = @ - 2^order,
                !.order = [i \in Index |-> IF i = page THEN 0
                                           ELSE IF \E k \in halves : i = page + 2^k
                                           THEN CHOOSE k \in halves : i = page + 2^k
                                           ELSE @[i]]],
             page |-> page]

Page(n, i) == [zone |-> n, at |-> i]
Object(s, n) == [slab |-> s, n |-> n]

BlockStart(i, k) == i - (i % 2^k)

\* _getBuddyIndex: index ^ (1 << order)
BuddyIndex(i, k) == IF (i \div 2^k) % 2 = 0 THEN i + 2^k ELSE i - 2^k

\* _isBuddyPage
IsBuddyPage(z, i, k) == ~z.allocated[i] /\ z.order[i] = k

\* _freeOnePage: merge with the buddy as long as it is free and of the same order
MergedOrder(z, page, order) ==
    CHOOSE m \in order..(MaxOrder - 1) :
        /\ m = MaxOrder - 1 \/ ~IsBuddyPage(z, BuddyIndex(BlockStart(page, m), m), m)
        /\ \A k \in order..(m - 1) : IsBuddyPage(z, BuddyIndex(BlockStart(page, k), k), k)

Merged(z, page, order) ==
    {BuddyIndex(BlockStart(page, k), k) : k \in order..(MergedOrder(z, page, order) - 1)}

FreeOnePage(z, page, order) ==
    LET m == MergedOrder(z, page, order)
        buddies == Merged(z, page, order)
        start == BlockStart(page, m)
    IN [z EXCEPT
          !.allocated[page] = FALSE,
          !.freePages = @ + 2^order,
          !.order = [i \in Index |-> IF i = start THEN m
                                     ELSE IF i \in buddies THEN 0 ELSE @[i]],
          !.area = [k \in Orders |->
                      LET rest == SelectSeq(@[k], LAMBDA i : ~(k < m /\ i \in buddies))
                      IN IF k = m THEN <<start>> \o rest ELSE rest]]

\* _allocPages: the zone with the least pages left over; if it has no block of that
\* order, or no zone has the pages, a new zone
AllocPages(zs, order) ==
    LET fits == {i \in DOMAIN zs : zs[i].freePages >= 2^order}
        best == CHOOSE i \in fits : \A j \in fits :
                    \/ zs[i].freePages < zs[j].freePages
                    \/ zs[i].freePages = zs[j].freePages /\ i <= j
        r == RmQueue(zs[best], order)
        grown == RmQueue(CreateBuddyZone, order)
    IN IF fits # {} /\ r.page # None
       THEN [zones |-> [zs EXCEPT ![best] = r.zone], page |-> Page(best, r.page)]
       ELSE IF Len(zs) = MaxZones THEN [zones |-> zs, page |-> None]
       ELSE [zones |-> Append(zs, grown.zone), page |-> Page(Len(zs) + 1, grown.page)]

\* jf_jiukun_freePage, putJiukunPage: nothing marks a page as handed out until its
\* mutex has been released, and until then it looks like a free page of order 0
PutJiukunPage(p) ==
    LET z == zones[p.zone] IN
    /\ zones' = [zones EXCEPT ![p.zone] = FreeOnePage(z, p.at, z.order[p.at])]
    /\ raced' = (\E t \in Threads : \E n \in DOMAIN stack[t] :
                    /\ stack[t][n].pc = "p_mark"
                    /\ stack[t][n].x[2].zone = p.zone
                    /\ stack[t][n].x[2].at \in Merged(z, p.at, z.order[p.at]))
-----------------------------------------------------------------------------
(* The geometry of a cache *)

AlignCeil(n) == ((n + AlignSize - 1) \div AlignSize) * AlignSize

MgmtSize(off, n) == IF off THEN 0 ELSE AlignCeil(SlabSize + n * BufctlSize)

\* _slabCacheEstimate
SlabCacheEstimate(order, size, off) ==
    LET room == PageSize * 2^order
        num == Max({n \in 0..(room \div size) : n = 0 \/ n * size + MgmtSize(off, n) <= room})
    IN [num |-> num, left |-> room - num * size - MgmtSize(off, num)]

\* _createSlabCache: order, number of objects, and whether slab_t is kept off the
\* slab.  The loop ends when an eighth or less is wasted; a size that wastes more in
\* the first order that holds an object leaves it going round for ever ("ends").
Geometry(size) ==
    LET s == AlignCeil(size)
        big == s >= PageSize \div 8
        order == Min({k \in 0..MaxJpOrder :
                        SlabCacheEstimate(k, s, big).num > 0 \/ k = MaxJpOrder})
        e == SlabCacheEstimate(order, s, big)
    IN [order |-> order, num |-> e.num,
        off |-> big /\ e.left < MgmtSize(FALSE, e.num),
        ends |-> e.left * 8 <= PageSize * 2^order \/ order = MaxJpOrder]

\* the caches that there can be; _initSlabCache sets up the cache of caches
Geo == [c \in Caches |->
            IF c # CacheCache THEN Geometry(ObjSize[c])
            ELSE [order |-> 0, num |-> SlabCacheEstimate(0, ObjSize[c], FALSE).num,
                  off |-> FALSE, ends |-> TRUE]]

Num(c) == Geo[c].num
Order(c) == Geo[c].order
OffSlab(c) == Geo[c].off

\* _findGeneralSlabCache: the first one that is large enough, which
\* jf_jiukun_allocMemory looks for in the same way
FindGeneral(size) ==
    LET fits == {i \in DOMAIN General : size <= ObjSize[General[i]]}
    IN IF fits = {} THEN None ELSE General[Min(fits)]

PscSlab(c) == FindGeneral(MgmtSize(FALSE, Num(c)))
-----------------------------------------------------------------------------
(* Frames *)

Frame(pc, c, x) == [pc |-> pc, c |-> c, x |-> x]
At(t, pc) == stack[t] # <<>> /\ Head(stack[t]).pc = pc /\ ~raced
Top(t) == Head(stack[t])

Go(t, f) == stack' = [stack EXCEPT ![t] = <<f>> \o Tail(@)] /\ UNCHANGED ret
\* call f, and go on at g
CallThen(t, f, g) == stack' = [stack EXCEPT ![t] = <<f, g>> \o Tail(@)] /\ UNCHANGED ret
Return(t, r) == stack' = [stack EXCEPT ![t] = Tail(@)] /\ ret' = [ret EXCEPT ![t] = r]
\* use the value that the last call returned
Take(t, f) == stack' = [stack EXCEPT ![t] = <<f>> \o Tail(@)] /\ ret' = [ret EXCEPT ![t] = None]

AllocObjFrame(c) == Frame("lock", c, [op |-> "alloc", obj |-> None])
FreeObjFrame(c, obj) == Frame("lock", c, [op |-> "free", obj |-> obj])
GetPageFrame(order, wait) == Frame("p_alloc", None, <<order, None, wait>>)
-----------------------------------------------------------------------------
(* Objects: _allocObj and _freeObj *)

\* _lockSlabCache, asserting in _freeObj that the cache is not being destroyed
LockSlabCache(t) ==
    /\ At(t, "lock") /\ smLock = None
    /\ cache' = [cache EXCEPT ![Top(t).c].locked = TRUE]
    /\ Go(t, [Top(t) EXCEPT !.pc = "enter"])
    /\ UNCHANGED <<zones, list, slab, smLock, jm, own, raced, up, calls>>

EnterCache(t) ==
    /\ At(t, "enter") /\ jm[Top(t).c] = None
    /\ jm' = [jm EXCEPT ![Top(t).c] = t]
    /\ Go(t, [Top(t) EXCEPT !.pc = Top(t).x.op])
    /\ UNCHANGED <<zones, list, cache, slab, smLock, own, raced, up, calls>>

Leaving(t, obj) == [Top(t) EXCEPT !.pc = "leave", !.x.obj = obj]

\* _allocOneObjFromTail: the first object of the slab's free chain; a slab without
\* another one moves from the partial to the full list
AllocOneObj(c, q, sl, s) ==
    LET e == [sl[s] EXCEPT !.inuse = @ + 1, !.free = sl[s].bufctl[sl[s].free]] IN
    /\ slab' = [sl EXCEPT ![s] = e]
    /\ cache' = [cache EXCEPT ![c] =
                    IF e.free = None
                    THEN [q EXCEPT !.partial = Remove(@, s), !.full = <<s>> \o @]
                    ELSE q]

\* the loop of _allocObj when a slab is at hand: the first partial one, or the first
\* free one, which becomes partial
AllocObj(t) ==
    LET c == Top(t).c
        q == cache[c]
        s == IF q.partial # <<>> THEN Head(q.partial) ELSE Head(q.free)
        p == IF q.partial # <<>> THEN q ELSE [q EXCEPT !.free = Tail(@), !.partial = <<s>>]
    IN /\ At(t, "alloc") /\ q.partial \o q.free # <<>>
       /\ AllocOneObj(c, p, slab, s)
       /\ Go(t, Leaving(t, Object(s, slab[s].free)))
       /\ UNCHANGED <<zones, list, smLock, jm, own, raced, up, calls>>

\* _growSlabCache: get the pages
GrowSlabCache(t) ==
    LET c == Top(t).c IN
    /\ At(t, "alloc") /\ cache[c].partial \o cache[c].free = <<>>
    /\ cache' = [cache EXCEPT ![c].grown = TRUE]
    /\ CallThen(t, GetPageFrame(Order(c), c \in Wait), [Top(t) EXCEPT !.pc = "paged"])
    /\ UNCHANGED <<zones, list, slab, smLock, jm, own, raced, up, calls>>

\* _slabMgmt: an object of another cache when slab_t is off the slab
SlabMgmt(t) ==
    /\ At(t, "paged") /\ ret[t] # None /\ OffSlab(Top(t).c)
    /\ stack' = [stack EXCEPT ![t] = <<AllocObjFrame(PscSlab(Top(t).c)),
                    [Top(t) EXCEPT !.pc = "mgmt", !.x.obj = ret[t]]>> \o Tail(@)]
    /\ ret' = [ret EXCEPT ![t] = None]
    /\ UNCHANGED <<zones, list, cache, slab, smLock, jm, own, raced, up, calls>>

\* no pages, or no slab_t for them
GrowFails(t) ==
    /\ \/ At(t, "paged") /\ ret[t] = None /\ UNCHANGED <<zones, raced>>
       \/ At(t, "mgmt") /\ ret[t] = None /\ PutJiukunPage(Top(t).x.obj)
    /\ cache' = [cache EXCEPT ![Top(t).c].grown = FALSE]
    /\ Take(t, Leaving(t, None))
    /\ UNCHANGED <<list, slab, smLock, jm, own, up, calls>>

\* _initSlabCacheObjs and the rest of _growSlabCache; the loop of _allocObj then
\* takes the first object of the new slab
GrowEnds(t) ==
    LET c == Top(t).c
        s == IF At(t, "mgmt") THEN Top(t).x.obj ELSE ret[t]
        new == [cache |-> c, inuse |-> 0, free |-> 0, mgmt |-> IF At(t, "mgmt") THEN ret[t] ELSE None,
                bufctl |-> [n \in 0..(Num(c) - 1) |-> IF n = Num(c) - 1 THEN None ELSE n + 1]]
    IN /\ ret[t] # None /\ (At(t, "mgmt") \/ (At(t, "paged") /\ ~OffSlab(c)))
       /\ AllocOneObj(c, [cache[c] EXCEPT !.grown = FALSE, !.partial = <<s>>],
                      [r \in DOMAIN slab \cup {s} |-> IF r = s THEN new ELSE slab[r]], s)
       /\ Take(t, Leaving(t, Object(s, 0)))
       /\ UNCHANGED <<zones, list, smLock, jm, own, raced, up, calls>>

\* Mutant: a full slab is not put back on the partial list.
FreeOneObjStaysFull(t) ==
    LET c == Top(t).c
        s == Top(t).x.obj.slab
        n == Top(t).x.obj.n
    IN /\ At(t, "free")
       /\ slab' = [slab EXCEPT ![s] = [@ EXCEPT !.bufctl[n] = slab[s].free, !.free = n,
                                               !.inuse = @ - 1]]
       /\ cache' = [cache EXCEPT ![c] =
            IF slab[s].inuse # 1 THEN @
            ELSE [@ EXCEPT !.partial = Remove(@, s), !.full = Remove(@, s), !.free = <<s>> \o @]]
       /\ Go(t, Leaving(t, None))
       /\ UNCHANGED <<zones, list, smLock, jm, own, raced, up, calls>>

\* _freeOneObj: the object heads the free chain; the slab moves to the list it now
\* belongs to
FreeOneObj(t) ==
    LET c == Top(t).c
        s == Top(t).x.obj.slab
        n == Top(t).x.obj.n
        e == slab[s]
    IN /\ At(t, "free")
       /\ slab' = [slab EXCEPT ![s] = [e EXCEPT !.bufctl[n] = e.free, !.free = n, !.inuse = @ - 1]]
       /\ cache' = [cache EXCEPT ![c] =
            IF e.inuse = 1
            THEN [@ EXCEPT !.partial = Remove(@, s), !.full = Remove(@, s), !.free = <<s>> \o @]
            ELSE IF e.inuse = Num(c)
            THEN [@ EXCEPT !.full = Remove(@, s), !.partial = <<s>> \o @]
            ELSE @]
       /\ Go(t, Leaving(t, None))
       /\ UNCHANGED <<zones, list, smLock, jm, own, raced, up, calls>>

LeaveCache(t) ==
    /\ At(t, "leave")
    /\ jm' = [jm EXCEPT ![Top(t).c] = None]
    /\ Go(t, [Top(t) EXCEPT !.pc = "unlock"])
    /\ UNCHANGED <<zones, list, cache, slab, smLock, own, raced, up, calls>>

\* _unlockSlabCache
UnlockSlabCache(t) ==
    /\ At(t, "unlock") /\ smLock = None
    /\ cache' = [cache EXCEPT ![Top(t).c].locked = FALSE]
    /\ Return(t, Top(t).x.obj)
    /\ UNCHANGED <<zones, list, slab, smLock, jm, own, raced, up, calls>>
-----------------------------------------------------------------------------
(* Pages: getJiukunPage, and reaping when there are none *)

\* _destroySlab: the pages go back, and an object that held slab_t is freed
DestroySlab(t, c, s, q, f) ==
    /\ PutJiukunPage(s)
    /\ cache' = [cache EXCEPT ![c] = q]
    /\ slab' = [r \in DOMAIN slab \ {s} |-> slab[r]]
    /\ IF OffSlab(c) THEN CallThen(t, FreeObjFrame(PscSlab(c), slab[s].mgmt), f)
                     ELSE Take(t, f)

AllocPage(t) ==
    LET order == Top(t).x[1]
        r == AllocPages(zones, order)
    IN /\ At(t, "p_alloc")
       /\ \/ order >= MaxOrder /\ Return(t, None) /\ UNCHANGED zones
          \/ /\ order < MaxOrder /\ zones' = r.zones
             /\ IF r.page = None THEN Go(t, [Top(t) EXCEPT !.pc = "p_reap"])
                ELSE Go(t, [Top(t) EXCEPT !.pc = "p_mark", !.x[2] = r.page])
       /\ UNCHANGED <<list, cache, slab, smLock, jm, own, raced, up, calls>>

\* after the mutex: the order and the allocated flag
MarkPage(t) ==
    LET p == Top(t).x[2] IN
    /\ At(t, "p_mark")
    /\ zones' = [zones EXCEPT ![p.zone].order[p.at] = Top(t).x[1],
                              ![p.zone].allocated[p.at] = TRUE]
    /\ Return(t, p)
    /\ UNCHANGED <<list, cache, slab, smLock, jm, own, raced, up, calls>>

\* reapJiukunSlab(TRUE): not if somebody has the mutex
Reap(t) ==
    /\ At(t, "p_reap")
    /\ \/ smLock # None /\ Go(t, [Top(t) EXCEPT !.pc = "p_again"]) /\ UNCHANGED smLock
       \/ /\ smLock = None /\ smLock' = t
          /\ Go(t, [Top(t) EXCEPT !.pc = "p_scan", !.x[2] = list])
    /\ UNCHANGED <<zones, list, cache, slab, jm, own, raced, up, calls>>

ReapCache(t) ==
    LET todo == Top(t).x[2]
        c == Head(todo)
        skip == c \in NoReap \/ cache[c].grown \/ cache[c].locked
    IN /\ At(t, "p_scan")
       /\ \/ /\ todo = <<>> /\ smLock' = None
             /\ Go(t, [Top(t) EXCEPT !.pc = "p_again", !.x[2] = None]) /\ UNCHANGED jm
          \/ /\ todo # <<>> /\ skip
             /\ Go(t, [Top(t) EXCEPT !.x[2] = Tail(todo)]) /\ UNCHANGED <<smLock, jm>>
          \/ /\ todo # <<>> /\ ~skip /\ jm[c] = None /\ jm' = [jm EXCEPT ![c] = t]
             /\ Go(t, [Top(t) EXCEPT !.pc = "p_shrink"]) /\ UNCHANGED smLock
       /\ UNCHANGED <<zones, list, cache, slab, own, raced, up, calls>>

\* _shrinkSlabCache: the free slabs, from the last
ShrinkSlabCache(t) ==
    LET c == Head(Top(t).x[2])
        q == cache[c]
    IN /\ At(t, "p_shrink")
       /\ \/ /\ q.free = <<>> /\ jm' = [jm EXCEPT ![c] = None]
             /\ Take(t, [Top(t) EXCEPT !.pc = "p_scan", !.x[2] = Tail(@)])
             /\ UNCHANGED <<zones, cache, slab, raced>>
          \/ /\ q.free # <<>> /\ UNCHANGED jm
             /\ DestroySlab(t, c, Last(q.free), [q EXCEPT !.free = Front(@)], Top(t))
       /\ UNCHANGED <<list, smLock, own, up, calls>>

\* the loop of getJiukunPage
PageAgain(t) ==
    /\ At(t, "p_again")
    /\ IF Top(t).x[3] THEN Go(t, [Top(t) EXCEPT !.pc = "p_alloc"]) ELSE Return(t, None)
    /\ UNCHANGED <<zones, list, cache, slab, smLock, jm, own, raced, up, calls>>
-----------------------------------------------------------------------------
(* Caches: jf_jiukun_createCache, jf_jiukun_destroyCache, and the end *)

NewCache == [full |-> <<>>, partial |-> <<>>, free |-> <<>>, grown |-> FALSE,
             locked |-> FALSE, destroy |-> FALSE, desc |-> None]

\* _createSlabCache, once its loop has ended and the descriptor is there
CreateSlabCache(t) ==
    LET c == Top(t).c IN
    /\ At(t, "c_desc")
    /\ \/ ret[t] = None /\ UNCHANGED <<cache, list>>
       \/ /\ ret[t] # None /\ Geo[c].ends /\ smLock = None
          /\ cache' = [cache EXCEPT ![c] = [NewCache EXCEPT !.desc = ret[t]]]
          /\ list' = <<c>> \o list
    /\ Return(t, None)
    /\ UNCHANGED <<zones, slab, smLock, jm, own, raced, up, calls>>

\* jf_jiukun_destroyCache: out of the chain first
UnlinkCache(t) ==
    LET c == Top(t).c IN
    /\ At(t, "d_begin") /\ smLock = None
    /\ list' = Remove(list, c)
    /\ cache' = [cache EXCEPT ![c].destroy = TRUE]
    /\ Go(t, [Top(t) EXCEPT !.pc = "d_slabs"])
    /\ UNCHANGED <<zones, slab, smLock, jm, own, raced, up, calls>>

\* _destroySlabCache: the free, partial and full slabs; then the descriptor, which
\* the cache of caches itself does not have
DestroySlabCache(t) ==
    LET c == Top(t).c
        q == cache[c]
        s == Head(q.free \o q.partial \o q.full)
        desc == FreeObjFrame(CacheCache, q.desc)
    IN /\ At(t, "d_slabs")
       /\ \/ /\ q.free \o q.partial \o q.full # <<>>
             /\ DestroySlab(t, c, s, [q EXCEPT !.free = Remove(@, s), !.partial = Remove(@, s),
                                               !.full = Remove(@, s)], Top(t))
          \/ /\ q.free \o q.partial \o q.full = <<>> /\ c # CacheCache
             /\ stack' = [stack EXCEPT ![t] = <<desc>> \o Tail(@)]
             /\ cache' = [cache EXCEPT ![c].desc = None]
             /\ UNCHANGED <<zones, slab, raced, ret>>
          \/ /\ q.free \o q.partial \o q.full = <<>> /\ c = CacheCache
             /\ Return(t, None)
             /\ UNCHANGED <<zones, slab, cache, raced>>
       /\ UNCHANGED <<list, smLock, jm, own, up, calls>>

\* finiJiukunSlab: "It's necessary to destroy the general cache from the end to the
\* start in the array."
FiniOrder == Reverse(General)

FiniSlab(t) ==
    /\ At(t, "fini")
    /\ \/ /\ Top(t).x # <<>>
          /\ CallThen(t, Frame("d_begin", Head(Top(t).x), None), [Top(t) EXCEPT !.x = Tail(@)])
          /\ UNCHANGED <<zones, up>>
       \/ /\ Top(t).x = <<>>
          /\ CallThen(t, Frame("d_slabs", CacheCache, None), [Top(t) EXCEPT !.pc = "fini_buddy"])
          /\ UNCHANGED <<zones, up>>
    /\ UNCHANGED <<list, cache, slab, smLock, jm, own, raced, calls>>

FiniBuddy(t) ==
    /\ At(t, "fini_buddy")
    /\ zones' = <<>> /\ up' = FALSE
    /\ Return(t, None)
    /\ UNCHANGED <<list, cache, slab, smLock, jm, own, raced, calls>>
-----------------------------------------------------------------------------
(* The callers *)

Ending == ~up \/ \E t \in Threads : \E n \in DOMAIN stack[t] : stack[t][n].pc \in {"fini", "fini_buddy"}

Idle(t) == stack[t] = <<>> /\ up /\ ~raced
Enter(t, frames) ==
    /\ Idle(t) /\ calls < MaxCalls
    /\ ~Ending
    /\ calls' = calls + 1
    /\ stack' = [stack EXCEPT ![t] = frames]
    /\ UNCHANGED <<zones, list, cache, slab, smLock, jm, ret, raced, up>>

Thing(c, x) == [c |-> c, x |-> x]

\* an object of a cache, or of the general cache that jf_jiukun_allocMemory finds
CallAlloc(t) ==
    \E c \in (ToSet(list) \cap UserCaches) \cup ({FindGeneral(n) : n \in MemorySizes} \ {None}) :
        /\ \A u \in Threads : \A n \in DOMAIN stack[u] :
                ~(stack[u][n].pc = "d_begin" /\ stack[u][n].c = c)
        /\ Enter(t, <<AllocObjFrame(c), Frame("got", c, None)>>)
        /\ UNCHANGED own

CallAllocPage(t) ==
    \E k \in PageOrders, w \in BOOLEAN :
        Enter(t, <<GetPageFrame(k, w), Frame("got", None, None)>>) /\ UNCHANGED own

\* jf_jiukun_freeObject; jf_jiukun_freeMemory finds the cache through the page
CallFree(t) ==
    \E o \in own[t] :
        /\ o.c # None
        /\ Enter(t, <<FreeObjFrame(slab[o.x.slab].cache, o.x)>>)
        /\ own' = [own EXCEPT ![t] = @ \ {o}]

FreePage(t) ==
    \E o \in own[t] :
        /\ Idle(t) /\ o.c = None /\ PutJiukunPage(o.x)
        /\ own' = [own EXCEPT ![t] = @ \ {o}]
        /\ UNCHANGED <<list, cache, slab, smLock, jm, stack, ret, up, calls>>

\* a cache is created once, and destroyed when none of its objects is used
CallCreateCache(t) ==
    \E c \in UserCaches :
        /\ c \notin ToSet(list) /\ ~cache[c].destroy
        /\ \A u \in Threads : \A n \in DOMAIN stack[u] : stack[u][n].c # c
        /\ Enter(t, <<AllocObjFrame(CacheCache), Frame("c_desc", c, None)>>) /\ UNCHANGED own

CallDestroyCache(t) ==
    \E c \in UserCaches \cap ToSet(list) :
        /\ \A u \in Threads : \A o \in own[u] : o.c # c
        /\ \A u \in Threads : \A n \in DOMAIN stack[u] : stack[u][n].c # c
        /\ Enter(t, <<Frame("d_begin", c, None)>>) /\ UNCHANGED own

\* jf_jiukun_fini, when all others are done; what they still have is lost
CallFini(t) ==
    /\ \A u \in Threads : Idle(u)
    /\ Enter(t, <<Frame("fini", None, FiniOrder)>>)
    /\ own' = [u \in Threads |-> {}]

Got(t) ==
    /\ At(t, "got")
    /\ own' = [own EXCEPT ![t] = IF ret[t] = None THEN @ ELSE @ \cup {Thing(Top(t).c, ret[t])}]
    /\ stack' = [stack EXCEPT ![t] = <<>>]
    /\ ret' = [ret EXCEPT ![t] = None]
    /\ UNCHANGED <<zones, list, cache, slab, smLock, jm, raced, up, calls>>

\* jf_jiukun_init: one zone; the cache of caches has one slab, with the descriptors
\* of the general caches, of which the last created heads the chain
Init ==
    LET r == RmQueue(CreateBuddyZone, 0)
        n == Len(General)
        s == Page(1, r.page)
        full == n = Num(CacheCache)
    IN /\ zones = <<[r.zone EXCEPT !.allocated[r.page] = TRUE]>>
       /\ list = Reverse(General)
       /\ slab = [x \in {s} |->
                    [cache |-> CacheCache, inuse |-> n, mgmt |-> None,
                     free |-> IF full THEN None ELSE n,
                     bufctl |-> [i \in 0..(Num(CacheCache) - 1) |->
                                   IF i = Num(CacheCache) - 1 THEN None ELSE i + 1]]]
       /\ cache = [c \in Caches |->
                    IF c = CacheCache
                    THEN [NewCache EXCEPT !.full = IF full THEN <<s>> ELSE <<>>,
                                          !.partial = IF full THEN <<>> ELSE <<s>>]
                    ELSE IF c \in UserCaches THEN NewCache
                    ELSE [NewCache EXCEPT !.desc = Object(s, (CHOOSE i \in DOMAIN General : General[i] = c) - 1)]]
       /\ smLock = None /\ jm = [c \in Caches |-> None]
       /\ stack = [t \in Threads |-> <<>>] /\ ret = [t \in Threads |-> None]
       /\ own = [t \in Threads |-> {}]
       /\ raced = FALSE /\ up = TRUE /\ calls = 0

Next ==
    \E t \in Threads :
        \/ CallAlloc(t) \/ CallAllocPage(t) \/ CallFree(t) \/ FreePage(t)
        \/ CallCreateCache(t) \/ CallDestroyCache(t) \/ CallFini(t) \/ Got(t)
        \/ LockSlabCache(t) \/ EnterCache(t) \/ AllocObj(t) \/ GrowSlabCache(t)
        \/ SlabMgmt(t) \/ GrowFails(t) \/ GrowEnds(t) \/ FreeOneObj(t)
        \/ LeaveCache(t) \/ UnlockSlabCache(t)
        \/ AllocPage(t) \/ MarkPage(t) \/ Reap(t) \/ ReapCache(t) \/ ShrinkSlabCache(t)
        \/ PageAgain(t)
        \/ CreateSlabCache(t) \/ UnlinkCache(t) \/ DestroySlabCache(t)
        \/ FiniSlab(t) \/ FiniBuddy(t)

Spec == Init /\ [][Next]_vars
-----------------------------------------------------------------------------
TypeOK ==
    /\ Len(zones) <= MaxZones
    /\ \A c \in Caches : cache[c].grown \in BOOLEAN /\ cache[c].locked \in BOOLEAN
    /\ smLock \in Threads \cup {None} /\ jm \in [Caches -> Threads \cup {None}]
    /\ calls \in 0..MaxCalls /\ raced \in BOOLEAN /\ up \in BOOLEAN

Block(i, k) == i..(i + 2^k - 1)

\* The blocks of a zone: free, allocated, or on the way to their caller.
Blocks(n) ==
    LET z == zones[n] IN
    UNION {{[at |-> i, order |-> k, is |-> "free"] : i \in ToSet(z.area[k])} : k \in Orders}
    \cup {[at |-> i, order |-> z.order[i], is |-> "used"] : i \in {j \in Index : z.allocated[j]}}
    \cup UNION {{[at |-> f.x[2].at, order |-> f.x[1], is |-> "mark"] :
                    f \in {g \in ToSet(stack[t]) : g.pc = "p_mark" /\ g.x[2].zone = n}} : t \in Threads}

\* The buddy system never loses a page nor hands it out twice: at any moment the free
\* blocks, the allocated ones and those on their way to a caller tile each zone, each
\* aligned to its size; the count of free pages is that of the free lists, and no two
\* free blocks could be merged (_rmqueue, _splitPageList, _freeOnePage).  This is as
\* far as no page was freed beside one whose allocated flag was not yet set.
PagesTiled ==
    raced \/ \A n \in DOMAIN zones :
        LET z == zones[n]
            blocks == Blocks(n)
        IN /\ \A i \in Index : Cardinality({b \in blocks : i \in Block(b.at, b.order)}) = 1
           /\ \A b \in blocks : b.at % 2^b.order = 0
           /\ \A k \in Orders : IsInjective(z.area[k])
           /\ z.freePages = NumOfPage - Cardinality(UNION {Block(b.at, b.order) :
                                            b \in {d \in blocks : d.is # "free"}})
           /\ \A b \in blocks : b.is = "free" /\ b.order < MaxOrder - 1 =>
                [b EXCEPT !.at = BuddyIndex(b.at, b.order)] \notin blocks

\* The free chain of a slab, and everybody who refers to one of its objects: callers,
\* threads on their way in or out, slabs whose slab_t it is, caches it describes.
Chain(e) ==
    LET nth[k \in 1..(Num(e.cache) + 1)] ==
            IF k = 1 THEN e.free
            ELSE LET n == nth[k - 1] IN IF n = None THEN None ELSE e.bufctl[n]
    IN SelectSeq([k \in 1..(Num(e.cache) + 1) |-> nth[k]], LAMBDA n : n # None)

Refs ==
    UNION {{<<th.x, "own", t>> : th \in own[t]} : t \in Threads}
    \cup {<<ret[t], "ret", t>> : t \in Threads}
    \cup UNION {{<<stack[t][m].x.obj, "frame", t, m>> : m \in {k \in DOMAIN stack[t] :
                    stack[t][k].pc \in {"lock", "enter", "free", "leave", "unlock"}}} : t \in Threads}
    \cup {<<slab[s].mgmt, "mgmt", s>> : s \in DOMAIN slab}
    \cup {<<cache[c].desc, "desc", c>> : c \in Caches}

\* An object is free or has one user: the free chain of a slab (bufctl) has exactly the
\* objects nobody refers to, no object is referred to twice, and s_u32InUse is their
\* number, whatever two threads, the reaper and destructions do meanwhile.  At the end
\* of the library only lost objects remain.
ObjectsExact ==
    raced \/ LET refs == Refs IN \A s \in DOMAIN slab :
        LET e == slab[s]
            free == Chain(e)
            all == 0..(Num(e.cache) - 1)
            users == [n \in all |-> Cardinality({r \in refs : r[1] = Object(s, n)})]
        IN /\ IsInjective(free)
           /\ \A n \in ToSet(free) : users[n] = 0
           /\ \A n \in all : users[n] <= 1
           /\ e.inuse = Num(e.cache) - Len(free)
           /\ ~Ending => e.inuse = Cardinality({n \in all : users[n] = 1})

\* A slab is on the list that fits the number of its objects in use, which is what
\* _dumpSlabCache asserts, and on no other; unless its cache is being destroyed.
SlabOnItsList ==
    raced \/ \A c \in Caches : ~cache[c].destroy =>
        LET q == cache[c]
            Use(x) == slab[x].inuse
        IN /\ \A s \in ToSet(q.full) : Use(s) = Num(c)
           /\ \A s \in ToSet(q.partial) : Use(s) \in 1..(Num(c) - 1)
           /\ \A s \in ToSet(q.free) : Use(s) = 0
           /\ IsInjective(q.full \o q.partial \o q.free)
           /\ \A s \in DOMAIN slab : slab[s].cache = c => s \in ToSet(q.full \o q.partial \o q.free)

\* No object is freed to a cache that is being destroyed (the assertion of _freeObj):
\* in particular the slab_t of a later general cache is freed before its own cache goes.
NoFreeToDestroyed ==
    \A t \in Threads : At(t, "lock") /\ Top(t).x.op = "free" => ~cache[Top(t).c].destroy

\* "Donot wait if it's TRUE" (reapJiukun): a thread that reaps does not wait for
\* the mutex of the slab system.  It does: to free the slab_t of a slab that it
\* reaps it asks for the mutex it already has.  VIOLATED
ReapNoWait ==
    \A t \in Threads : smLock = t => ~(At(t, "lock") \/ At(t, "unlock"))

\* A page is handed out to one caller at a time.  Between the release of the mutex
\* and setJpAllocated a page looks free to _isBuddyPage, and a thread that frees its
\* neighbour merges it.  VIOLATED
HandedOutOnce == ~raced

=============================================================================
