-------------------------------- MODULE Uuid --------------------------------
(***************************************************************************)
(* The UUID generator (uuid/uuid.c, uuid/output.c): one object of the      *)
(* process is filled anew for every UUID, and the clock sequence of version*)
(* 1 is read back from what the last UUID, of any version, left in it.     *)
(***************************************************************************)
EXTENDS Integers, FiniteSets, Sequences

CONSTANTS PerTick,        \* UUIDS_PER_TICK
          ClockSeqs,      \* values of the clock sequence, 2^14
          HashedSeq,      \* the clock sequence in the digest of the name of the caller
          MacKnown,       \* jf_ifmgmt_getMacOfFirstIf succeeds
          MaxTick, MaxIds, \* bounds: ticks of the clock, UUIDs
          MaxBack, MaxInits \* bounds: steps of the clock backwards, initializations

VARIABLES now, back,      \* the clock in ticks, how often it stepped backwards
          gen,            \* ls_ugUuidGen
          ids,            \* the UUIDs of version 1 so far, in their order
          made            \* UUIDs so far, of all versions
uuidVars == <<now, back, gen, ids, made>>

Never == -1               \* ug_jtvLast of a fresh generator: 1970 is past

(* _checkParam and outputUuid: the length asked for and what is written.   *)
LenOf == [bin |-> 16, str |-> 37, hex |-> 32, siv |-> 39]
Written == [bin |-> 16, str |-> 32 + 4 + 1, hex |-> 32 + 1, siv |-> 0]
CheckParam(ver, named, fmt, len) ==
    /\ ver \in {1, 3, 4, 5} /\ (ver = 3 => named)
    /\ fmt \in DOMAIN LenOf /\ len >= LenOf[fmt]

(* jf_uuid_init: _initUuidGen clears the generator, an unknown address is  *)
(* replaced by one with the multicast bit; jf_prng_init may fail.          *)
Blank == [init |-> FALSE, last |-> Never, seq |-> 0, clck |-> 0, mc |-> FALSE]

UuidInit == now = 0 /\ back = 0 /\ ids = <<>> /\ made = 0
            /\ gen = [run |-> 0, obj |-> Blank]

Init(prngOk) ==
    /\ ~gen.obj.init /\ gen.run < MaxInits
    /\ gen' = [run |-> gen.run + 1, obj |-> [Blank EXCEPT !.init = prngOk, !.mc = ~MacKnown]]
    /\ ids' = <<>>
    /\ UNCHANGED <<now, back, made>>

Fini == /\ gen.obj.init /\ gen' = [gen EXCEPT !.obj.init = FALSE]
        /\ UNCHANGED <<now, back, ids, made>>

(* The clock of the system.                                                *)
Tick == now < MaxTick /\ now' = now + 1 /\ UNCHANGED <<back, gen, ids, made>>
StepBack == now > 0 /\ back < MaxBack /\ now' = now - 1 /\ back' = back + 1 /\ UNCHANGED <<gen, ids, made>>

(* _makeUuidV1.  The loop ends with a new time or with room in the tick;   *)
(* otherwise it sleeps until Tick.  Random numbers are `rnd'; the generator*)
(* of random numbers may fail (`prngOk').  A timestamp counts 100ns.       *)
Stamp(g) == now * PerTick + g.seq
TimeSeq(g) == IF now # g.last THEN [g EXCEPT !.seq = 0] ELSE [g EXCEPT !.seq = @ + 1]

(* Mutant: a tick has room for any number of identifiers.                  *)
HasRoomEver(g) == TRUE

(* The time has changed, or the tick has room for one more.                *)
HasRoom(g) == now # g.last \/ g.seq < PerTick

NewSeq(g) == g.clck = 0 \/ now < g.last

MakeUuidV1(multicast, rnd, prngOk) ==
    LET g == TimeSeq(gen.obj)
        random == NewSeq(g)
        h == [g EXCEPT !.clck = (IF random THEN rnd ELSE @ + 1) % ClockSeqs]
        ok == (~random /\ ~multicast /\ ~g.mc) \/ prngOk
    IN /\ HasRoom(gen.obj) /\ made < MaxIds
       /\ gen' = [gen EXCEPT !.obj = IF random /\ ~prngOk THEN g
                                     ELSE IF ~ok THEN h ELSE [h EXCEPT !.last = now]]
       /\ ids' = IF ok THEN Append(ids, [tick |-> now, stamp |-> Stamp(g), clck |-> h.clck, only1 |-> TRUE]) ELSE ids
       /\ made' = made + 1
       /\ UNCHANGED <<now, back>>

(* _makeUuidV3 and _makeUuidV5: the digest fills the object; _makeUuidV4:  *)
(* random data does, even if it is only pseudo random and refused.  The    *)
(* UUIDs of version 1 before it no longer continue one clock sequence.     *)
Overwrite(clck) ==
    /\ made < MaxIds /\ made' = made + 1
    /\ gen' = [gen EXCEPT !.obj.clck = clck]
    /\ ids' = [i \in 1..Len(ids) |-> [ids[i] EXCEPT !.only1 = FALSE]]
    /\ UNCHANGED <<now, back>>

(* jf_uuid_get.                                                            *)
Get(ver, named, fmt, len, multicast, rnd, prngOk) ==
    /\ gen.obj.init /\ CheckParam(ver, named, fmt, len)
    /\ CASE ver = 1 -> MakeUuidV1(multicast, rnd, prngOk)
         [] ver \in {3, 5} -> Overwrite(HashedSeq)
         [] ver = 4 -> Overwrite(rnd)

(* The random numbers drawn are those not in use, for version 1 since the  *)
(* last step backwards.                                                    *)
Fresh == (0..(ClockSeqs - 1)) \ {ids[i].clck : i \in 1..Len(ids)}

UuidNext ==
    \/ \E prngOk \in BOOLEAN : Init(prngOk)
    \/ Fini \/ Tick \/ StepBack
    \/ \E ver \in 1..5, multicast, prngOk \in BOOLEAN, rnd \in Fresh :
          Get(ver, TRUE, "bin", 16, multicast, rnd, prngOk)

UuidSpec == UuidInit /\ [][UuidNext]_uuidVars

-----------------------------------------------------------------------------
(* While the clock does not step backwards, timestamps do not decrease and *)
(* those of one tick are all different; two UUIDs of version 1 only share  *)
(* timestamp and clock sequence if a UUID of another version was made after*)
(* the first, though failed calls have moved the counters.                 *)
StampsSound ==
    back = 0 => \A i, j \in 1..Len(ids) : i < j =>
        /\ ids[i].stamp <= ids[j].stamp
        /\ ids[i].tick = ids[j].tick => ids[i].stamp # ids[j].stamp
        /\ ids[i].only1 => <<ids[i].stamp, ids[i].clck>> # <<ids[j].stamp, ids[j].clck>>

(* The timestamps of UUIDs are unique while the clock does not step        *)
(* backwards.  VIOLATED: UUIDS_PER_TICK is the number of timestamps of a   *)
(* tick, but the counter of a tick runs from 0 up to it.                   *)
StampsUnique == back = 0 => \A i, j \in 1..Len(ids) : i # j => ids[i].stamp # ids[j].stamp

(* What is written fits the length _checkParam asks for.  VIOLATED: the    *)
(* length of the hex format leaves out the terminator.                     *)
OutputFits == \A fmt \in DOMAIN LenOf : Written[fmt] <= LenOf[fmt]
=============================================================================
